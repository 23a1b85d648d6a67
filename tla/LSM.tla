---------------------------------- MODULE LSM ----------------------------------
(***************************************************************************)
(* The data of one LevelDB database: memtable, immutable memtable, the     *)
(* current version and the background thread that flushes and compacts     *)
(* while clients write, read and take snapshots.                           *)
(*                                                                         *)
(* Versions are changed by the background thread alone, so a flush, a move *)
(* and the installation of a compaction are one step each; a compaction    *)
(* spans two steps, between which clients write and the thread flushes.    *)
(* How writers queue up is modelled in WriteQueue.                         *)
(***************************************************************************)
EXTENDS VersionOps

CONSTANTS Snap,             \* snapshots that clients can hold
          WriteBufferSize,  \* options_.write_buffer_size
          L0_StopWritesTrigger,
          Clients           \* bounds: what the clients of an execution do, see below

\* batches   the batches they write after so many entries, sequences of
\*           <<key, whether it is deleted>>
\* writes    the number of entries they write in all
\* ranges    the <<begin, end>> that they pass to CompactRange
\* calls     the values of next_file_number_ at which they call it
\* snaps     the snapshots they hold
\* seeks     the keys whose reads use up allowed_seeks
\* failures  whether a compaction may fail
ASSUME ClientAssumption ==
  \A c \in Clients : /\ c.writes < MaxSequenceNumber /\ c.snaps \subseteq Snap
                     /\ \A n \in 0..(c.writes - 1) : c.batches[n] \subseteq Seq(UserKey \X BOOLEAN)
                     /\ c.seeks \subseteq UserKey /\ c.failures \in BOOLEAN

VARIABLES mem,      \* mem_, a set of entries
          imm,      \* imm_, NoTable if NULL
          current,  \* versions_->current()
          nextNum,  \* versions_->next_file_number_
          pointer,  \* compact_pointer_
          running,  \* the compaction in DoCompactionWork, see Idle
          manual,   \* the CompactRange in progress, see NoManual
          snapshot, \* SnapshotList: the number of each snapshot, NoSnap if free
          client,   \* the clients of this execution, an element of Clients
          log       \* history: the entries written, in order

vars == <<mem, imm, current, nextNum, pointer, running, manual, snapshot, client, log>>

NoTable == {[u |-> BeforeAll, s |-> 0, del |-> FALSE]}
NoSnap == -1
Idle == [c |-> EmptyVersion, smallest |-> 0, on |-> FALSE, manual |-> FALSE]
NoManual == [phase |-> "none"]

LastSequence == Len(log)

Init ==
  /\ mem = {} /\ imm = NoTable
  /\ current = EmptyVersion
  /\ nextNum = 2
  /\ pointer = [l \in Level |-> NoPointer]
  /\ running = Idle /\ manual = NoManual
  /\ snapshot = [i \in Snap |-> NoSnap]
  /\ client \in Clients
  /\ log = <<>>

--------------------------------------------------------------------------------
\* Clients.

\* MakeRoomForWrite finds room, the batch goes to the memtable.
Write(batch) ==
  /\ LastSequence + Len(batch) <= client.writes
  /\ Bytes(mem) <= WriteBufferSize
  /\ LET ents == [i \in DOMAIN batch |->
                   [u |-> batch[i][1], s |-> LastSequence + i, del |-> batch[i][2]]]
     IN  mem' = mem \cup ToSet(ents) /\ log' = log \o ents
  /\ UNCHANGED <<imm, current, nextNum, pointer, running, manual, snapshot>>

\* MakeRoomForWrite switches memtables, for a writer that finds no room or
\* because CompactRange forces it.
SwitchMemTable ==
  /\ imm = NoTable
  /\ Len(current.files[0]) < L0_StopWritesTrigger
  /\ \/ /\ LastSequence < client.writes /\ Bytes(mem) > WriteBufferSize
        /\ UNCHANGED manual
     \/ /\ manual.phase = "force"
        /\ manual' = [manual EXCEPT !.phase = "flush"]
  /\ imm' = mem /\ mem' = {}
  /\ nextNum' = nextNum + 1
  /\ UNCHANGED <<current, pointer, running, snapshot, log>>

GetSnapshot(i) ==
  /\ snapshot[i] = NoSnap
  /\ snapshot' = [snapshot EXCEPT ![i] = LastSequence]
  /\ UNCHANGED <<mem, imm, current, nextNum, pointer, running, manual, log>>

ReleaseSnapshot(i) ==
  /\ snapshot[i] # NoSnap
  /\ snapshot' = [snapshot EXCEPT ![i] = NoSnap]
  /\ UNCHANGED <<mem, imm, current, nextNum, pointer, running, manual, log>>

\* DBImpl::Get: memtable, immutable memtable, version.
Get(u, s) ==
  LET m == Find(mem, u, s)
      i == IF imm = NoTable THEN {} ELSE Find(imm, u, s)
  IN  CASE m # {} -> m
        [] m = {} /\ i # {} -> i
        [] OTHER -> Version_Get(current, u, s)

\* A Get that reads the files, for its effect on file_to_compact_.
GetCharged(u, s) ==
  /\ Find(mem, u, s) = {} /\ (imm = NoTable \/ Find(imm, u, s) = {})
  /\ current' = UpdateStats(current, u, s)
  /\ UNCHANGED <<mem, imm, nextNum, pointer, running, manual, snapshot, log>>

\* DBImpl::CompactRange, one call at a time: the levels to compact are found
\* first, then the memtable is forced out, then level after level.
CompactRange(r) ==
  /\ manual = NoManual /\ nextNum \in client.calls
  /\ manual' = [phase |-> "force", level |-> 0, lo |-> r[1], hi |-> r[2], range |-> r,
                last |-> Max({1} \cup {l \in Level \ {0} : OverlapInLevel(current, l, r[1], r[2])})]
  /\ UNCHANGED <<mem, imm, current, nextNum, pointer, running, snapshot, log>>

\* TEST_CompactMemTable has seen imm_ become NULL.  In phase "force" another
\* writer took the NULL batch along in its group, and nothing was forced.
MemTableCompacted ==
  /\ manual.phase \in {"force", "flush"} /\ imm = NoTable
  /\ manual' = [manual EXCEPT !.phase = "level"]
  /\ UNCHANGED <<mem, imm, current, nextNum, pointer, running, snapshot, log>>

--------------------------------------------------------------------------------
\* The background thread.

\* CompactMemTable, also from within DoCompactionWork.  An empty memtable
\* makes no table.
CompactMemTable ==
  /\ imm # NoTable
  /\ nextNum' = nextNum + 1
  /\ current' =
       IF imm = {} THEN Edited(current, {}, {})
       ELSE Edited(current, {},
              {<<PickLevelForMemTableOutput(current, First(imm).u, Final(imm).u),
                 [num |-> nextNum, ents |-> imm]>>})
  /\ imm' = NoTable
  /\ UNCHANGED <<mem, pointer, running, manual, snapshot, log>>

SmallestSnapshot ==
  LET held == {snapshot[i] : i \in Snap} \ {NoSnap}
  IN  IF held = {} THEN LastSequence ELSE Min(held)

\* The compaction c is picked: a move at once, unless manual, else work.
BeginCompaction(c, is_manual) ==
  /\ pointer' = [pointer EXCEPT ![c.level] = c.end]
  /\ IF ~is_manual /\ IsTrivialMove(c)
     THEN /\ current' = Edited(current, {<<c.level, c.in0[1].num>>},
                               {<<c.level + 1, c.in0[1]>>})
          /\ UNCHANGED running
     ELSE /\ running' = [c |-> c, smallest |-> SmallestSnapshot,
                         on |-> TRUE, manual |-> is_manual]
          /\ UNCHANGED current

\* Also while a manual compaction is under way: its client may not yet have
\* set manual_compaction_ again for the rest of the range.
BackgroundCompaction ==
  /\ ~running.on /\ imm = NoTable
  /\ NeedsCompaction(current)
  /\ BeginCompaction(PickCompaction(current, pointer), FALSE)
  /\ UNCHANGED <<mem, imm, nextNum, manual, snapshot, log>>

\* The level of the manual compaction is done: on to the next one.
NextManualLevel ==
  IF manual.level + 1 < manual.last
  THEN [manual EXCEPT !.level = @ + 1, !.lo = manual.range[1]]
  ELSE NoManual

BackgroundManual ==
  /\ ~running.on /\ imm = NoTable /\ manual.phase = "level"
  /\ LET in0 == CompactRangeInputs(current, manual.level, manual.lo, manual.hi)
     IN  IF in0 = <<>>
         THEN /\ manual' = NextManualLevel
              /\ UNCHANGED <<current, pointer, running>>
         ELSE /\ BeginCompaction(SetupOtherInputs(current, manual.level, in0), TRUE)
              /\ UNCHANGED manual
  /\ UNCHANGED <<mem, imm, nextNum, snapshot, log>>

\* The end of DoCompactionWork: InstallCompactionResults, and what is left of
\* a manual range starts at the end of its last input.
FinishCompaction ==
  /\ running.on
  /\ LET c == running.c
         outs == DoCompactionWork(c, running.smallest)
     IN  /\ current' = Edited(current, AddInputDeletions(c),
                         {<<c.level + 1, [num |-> nextNum + i - 1, ents |-> outs[i]]>> :
                            i \in DOMAIN outs})
         /\ nextNum' = nextNum + Len(outs)
         /\ manual' = IF running.manual THEN [manual EXCEPT !.lo = Largest(Last(c.in0)).u]
                      ELSE manual
  /\ running' = Idle
  /\ UNCHANGED <<mem, imm, pointer, snapshot, log>>

\* An I/O error: the outputs are dropped, a manual compaction is done.
FailCompaction ==
  /\ client.failures /\ running.on
  /\ manual' = IF running.manual THEN NextManualLevel ELSE manual
  /\ running' = Idle
  /\ UNCHANGED <<mem, imm, current, nextNum, pointer, snapshot, log>>

Step ==
  \/ LastSequence < client.writes /\ \E batch \in client.batches[LastSequence] : Write(batch)
  \/ SwitchMemTable \/ CompactMemTable
  \/ \E i \in client.snaps : GetSnapshot(i) \/ ReleaseSnapshot(i)
  \/ \E u \in client.seeks : GetCharged(u, LastSequence)
  \/ \E r \in client.ranges : CompactRange(r)
  \/ MemTableCompacted
  \/ BackgroundCompaction \/ BackgroundManual
  \/ FinishCompaction \/ FailCompaction

\* The check at the end of SaveTo: in every level but the first the files are
\* sorted and their ranges apart, as the binary search of FindFile needs.
NoOverlap(v) ==
  \A l \in Level \ {0} : \A i \in 1..(Len(v.files[l]) - 1) :
    ILess(Largest(v.files[l][i]), Smallest(v.files[l][i + 1]))

\* An overlap aborts a build with assertions; one without is not followed.
Next == NoOverlap(current) /\ Step /\ UNCHANGED client

Spec == Init /\ [][Next]_vars

--------------------------------------------------------------------------------
Files(v, l) == ToSet(v.files[l])

\* What a read at sequence number s must see: the last write up to s.
Latest(u, s) == {log[i] : i \in {j \in 1..s : log[j].u = u /\ \A k \in (j + 1)..s : log[k].u # u}}
Written(ents) == {e.s : e \in {x \in ents : ~x.del}}
Readable == {LastSequence} \cup ({snapshot[i] : i \in Snap} \ {NoSnap})

\* A read, now or through a snapshot, answers with the last write for its
\* key, whatever was flushed, moved, merged and dropped since: in every
\* version that passes the check of SaveTo.
ReadsLatest ==
  NoOverlap(current) =>
    \A u \in UserKey, s \in Readable : Written(Get(u, s)) = Written(Latest(u, s))

\* The layers that Get searches, first to last.
Layers ==
  <<mem>> \o <<IF imm = NoTable THEN {} ELSE imm>>
    \o LET l0 == Sorted(Files(current, 0), NewestFirst)
       IN  [i \in DOMAIN l0 |-> l0[i].ents]
    \o [l \in 1..(NumLevels - 1) |-> UNION {f.ents : f \in Files(current, l)}]

\* Entries never hop across levels: for one user key everything in a layer is
\* newer than everything in the layers below it.
NewerAbove ==
  \A i, j \in DOMAIN Layers : i < j =>
    \A a \in Layers[i], b \in Layers[j] : a.u = b.u => a.s > b.s

\* A manual compaction is installed whose inputs left a gap, and a flush has
\* put a file there since they were picked (BackgroundCompaction picks no such
\* inputs): the one way that db_impl.cc:878 leads to an overlap.
InGap(f, c) ==
  LET inputs == ToSet(c.in0 \o c.in1)
      hull == GetRange(c.in0 \o c.in1)
  IN  /\ ILess(hull.lo, Smallest(f)) /\ ILess(Largest(f), hull.hi)
      /\ \A g \in inputs : Largest(f).u < Smallest(g).u \/ Largest(g).u < Smallest(f).u
GapFilled ==
  /\ running.on /\ running.manual
  /\ \E f \in Files(current, running.c.level + 1) : InGap(f, running.c)

\* No flush, move or compaction makes files of a level overlap, the flushes
\* in the middle of a compaction included, as the check in Builder::SaveTo
\* (version_set.cc:677) has it; except where a flush filled a gap between the
\* inputs of a manual compaction.
LevelsDisjoint == [][NoOverlap(current') \/ GapFilled]_vars
================================================================================
