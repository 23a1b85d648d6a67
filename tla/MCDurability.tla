------------------------------ MODULE MCDurability -----------------------------
(***************************************************************************)
(* Instances of Durability for TLC.                                        *)
(***************************************************************************)
EXTENDS Durability

ProcessCrashes == [machine |-> FALSE, crashes |-> 2, recover |-> 0, manifest |-> 0]
MCFaults == {ProcessCrashes, [ProcessCrashes EXCEPT !.machine = TRUE],
             [ProcessCrashes EXCEPT !.recover = 1, !.manifest = 1]}
================================================================================
