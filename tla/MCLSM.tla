---------------------------------- MODULE MCLSM --------------------------------
(***************************************************************************)
(* Instances of LSM for TLC.                                               *)
(***************************************************************************)
EXTENDS LSM

\* Entries of the keys 1 to 3 are small, those of the others make a file each.
MCEntrySize == [u \in UserKey |-> IF u <= 3 THEN 1 ELSE TargetFileSize]

\* Two small keys, one of them deleted as well, under a
\* snapshot, with seeks and failures.
SnapshotClient ==
  [batches |-> [n \in 0..4 |-> {<<<<1, FALSE>>>>, <<<<1, TRUE>>>>, <<<<2, FALSE>>>>}],
   writes |-> 5, ranges |-> {}, calls |-> {}, snaps |-> Snap, seeks |-> {1}, failures |-> TRUE]

\* CompactRange(NULL, NULL), as LevelDBAdaptor::Compact calls it.
ManualClient ==
  [SnapshotClient EXCEPT !.ranges = {<<BeforeAll, AfterAll>>}, !.calls = 2..8, !.writes = 4,
                         !.snaps = {}, !.seeks = {}, !.failures = FALSE]

\* CompactRange over three small keys: 1 and 3 are in files of their own
\* before 2 can be written, so that the inputs can leave a gap for it.
GapClient ==
  [ManualClient EXCEPT
     !.batches = [n \in 0..5 |->
       {<<<<u, FALSE>>>> : u \in CASE n = 0 -> {1} [] n = 1 -> {3} [] OTHER -> {1, 2, 3}}],
     !.calls = {8}, !.writes = 6]

\* Two large entries at a time, so that outputs are split and inputs expanded.
LargeClient ==
  [SnapshotClient EXCEPT
     !.batches = [n \in 0..7 |->
       {<<<<p[1], FALSE>>, <<p[2], FALSE>>>> : p \in {<<4, 5>>, <<5, 6>>, <<6, 4>>}}],
     !.writes = 8, !.snaps = {}, !.seeks = {}, !.failures = FALSE]

MCClients == {SnapshotClient, ManualClient, GapClient, LargeClient}
================================================================================
