------------------------------- MODULE MCTableFS -------------------------------
(* Small instances of TableFS for TLC. *)
EXTENDS TableFS

CONSTANT HandleCount

MCHandle == 1..HandleCount
MCKey == ((0..MaxIno) \X Name) \cup {<<0, "">>}

\* One file that is open twice; two entries of which one may be a directory with
\* an entry of its own.
CopyClient == [path |-> {<<>>, <<"a">>}, fh |-> Fh, attr |-> {1, 2},
               large |-> {FALSE}, inodes |-> 1, mkdir |-> FALSE]
DirClient == [path |-> {<<"a">>, <<"b">>, <<"a", "a">>}, fh |-> {CHOOSE f \in Fh : TRUE},
              attr |-> {1}, large |-> {FALSE}, inodes |-> 2, mkdir |-> TRUE]
SharedClients == {CopyClient, DirClient}
ExclusiveClients == {[DirClient EXCEPT !.attr = {1, 2}, !.large = BOOLEAN]}
================================================================================
