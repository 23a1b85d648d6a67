------------------------------ MODULE MCWriteQueue -----------------------------
(***************************************************************************)
(* Instances of WriteQueue for TLC.                                        *)
(***************************************************************************)
EXTENDS WriteQueue

Put(s) == [batch |-> TRUE, sync |-> s, writeahead |-> TRUE]
Compact == [batch |-> FALSE, sync |-> FALSE, writeahead |-> TRUE]

MCClient == 1..3
\* Three calls, up to the names of the clients.
MCCalls == {<<Put(FALSE), Put(FALSE), Put(TRUE)>>, <<Put(FALSE), Put(TRUE), Compact>>,
            <<Put(FALSE), Compact, Compact>>}
================================================================================
