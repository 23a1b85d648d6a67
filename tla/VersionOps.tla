------------------------------- MODULE VersionOps ------------------------------
(***************************************************************************)
(* LevelDB's version_set.cc as functions: how a Version is searched, where *)
(* a new table is put, which files a compaction reads and which it writes. *)
(*                                                                         *)
(* An entry is an internal key with its value left out: user key u,        *)
(* sequence number s, which also stands for the value, and del for         *)
(* kTypeDeletion.  A file is its number and its entries; its size is the   *)
(* number of entries.  A version maps a level to the sequence files_ in    *)
(* the order that Builder::SaveTo keeps, and names in seek the file that   *)
(* file_to_compact_ points to.                                             *)
(***************************************************************************)
EXTENDS Integers, SequencesExt

CONSTANTS UserKey,             \* user keys, in the comparator's order
          MaxSequenceNumber,   \* kMaxSequenceNumber
          NumLevels,           \* config::kNumLevels
          MaxMemCompactLevel,  \* config::kMaxMemCompactLevel
          L0_CompactionTrigger,
          EntrySize,           \* the bytes of an entry, by its user key
          TargetFileSize,      \* kTargetFileSize
          NumFilesLevel0,      \* kNumFilesLevel0
          LevelFilesFactor,    \* kLevelFilesFactor
          MaxGrandParentOverlapBytes,
          ExpandedCompactionByteSizeLimit

ASSUME UserKeyAssumption == UserKey \subseteq Nat \ {0}
ASSUME SizeAssumption == EntrySize \in [UserKey -> Nat \ {0}]
ASSUME LevelAssumption ==
  /\ NumLevels \in Nat /\ MaxMemCompactLevel \in 0..(NumLevels - 3)
  /\ L0_CompactionTrigger \in Nat \ {0}

Level == 0..(NumLevels - 1)

\* NULL bounds of a range of user keys: before and after all keys.
BeforeAll == 0
AfterAll == Max(UserKey) + 1

--------------------------------------------------------------------------------
\* Internal keys: user keys ascend, sequence numbers descend.

ILess(a, b) == a.u < b.u \/ (a.u = b.u /\ a.s > b.s)

\* The position that a lookup of u at sequence number s starts from.
LookupKey(u, s) == [u |-> u, s |-> s]

\* The elements of a set in the order of a strict total order.
Sorted(S, Less(_, _)) ==
  [i \in 1..Cardinality(S) |-> CHOOSE x \in S : Cardinality({y \in S : Less(y, x)}) = i - 1]

First(ents) == CHOOSE e \in ents : \A x \in ents : x = e \/ ILess(e, x)
Final(ents) == CHOOSE e \in ents : \A x \in ents : x = e \/ ILess(x, e)

Smallest(f) == First(f.ents)
Largest(f) == Final(f.ents)

Bytes(ents) == FoldSet(LAMBDA e, sum : sum + EntrySize[e.u], 0, ents)
TotalFileSize(files) == FoldLeft(LAMBDA sum, f : sum + Bytes(f.ents), 0, files)

\* The newest entry for u that is no newer than s, as a table or a memtable
\* finds it: the first key at or after the lookup key, if its user key is u.
Find(ents, u, s) ==
  LET after == {e \in ents : ~ILess(e, LookupKey(u, s))}
  IN  IF after # {} /\ First(after).u = u THEN {First(after)} ELSE {}

--------------------------------------------------------------------------------
\* Searching the files of a version.

FindFile(files, k) ==
  LET search[p \in (0..Len(files)) \X (0..Len(files))] ==
        LET mid == (p[1] + p[2]) \div 2
        IN  CASE p[1] >= p[2] -> p[2]
              [] p[1] < p[2] /\ ILess(Largest(files[mid + 1]), k) ->
                   search[<<mid + 1, p[2]>>]
              [] OTHER -> search[<<p[1], mid>>]
  IN  search[<<0, Len(files)>>]

AfterFile(u, f) == u > Largest(f).u
BeforeFile(u, f) == u < Smallest(f).u

SomeFileOverlapsRange(disjoint, files, lo, hi) ==
  IF ~disjoint
  THEN \E f \in ToSet(files) : ~AfterFile(lo, f) /\ ~BeforeFile(hi, f)
  ELSE LET index == FindFile(files, LookupKey(lo, MaxSequenceNumber))
       IN  index < Len(files) /\ ~BeforeFile(hi, files[index + 1])

OverlapInLevel(v, level, lo, hi) ==
  SomeFileOverlapsRange(level > 0, v.files[level], lo, hi)

\* The files of a level that overlap a range of user keys; in level 0 a file
\* that is found widens the range, until nothing is added.
GetOverlappingInputs(v, level, lo, hi) ==
  LET files == v.files[level]
      within(r) == SelectSeq(files, LAMBDA f : ~AfterFile(r[1], f) /\ ~BeforeFile(r[2], f))
      range[i \in 0..Len(files)] ==
        IF i = 0 THEN <<lo, hi>>
        ELSE LET r == range[i - 1]
                 found == ToSet(within(r))
             IN  <<Min({r[1]} \cup {Smallest(f).u : f \in found}),
                   Max({r[2]} \cup {Largest(f).u : f \in found})>>
  IN  within(range[IF level = 0 THEN Len(files) ELSE 0])

NewestFirst(a, b) == a.num > b.num

\* The files that Version::Get looks into at a level, in order.
Candidates(v, level, u, s) ==
  LET files == v.files[level]
      index == FindFile(files, LookupKey(u, s))
      may(f) == Smallest(f).u <= u /\ u <= Largest(f).u
  IN  CASE level = 0 -> Sorted({f \in ToSet(files) : may(f)}, NewestFirst)
        [] level > 0 /\ index < Len(files) /\ Smallest(files[index + 1]).u <= u ->
             <<files[index + 1]>>
        [] OTHER -> <<>>

\* What a level answers: the first of its candidates that has an entry for u.
LevelGet(v, level, u, s) ==
  LET hits == SelectSeq(Candidates(v, level, u, s), LAMBDA f : Find(f.ents, u, s) # {})
  IN  IF hits = <<>> THEN {} ELSE Find(hits[1].ents, u, s)

\* Version::Get: the answer of the first level that has one, which may be a
\* deletion.
Version_Get(v, u, s) ==
  LET hits == {l \in Level : LevelGet(v, l, u, s) # {}}
  IN  IF hits = {} THEN {} ELSE LevelGet(v, Min(hits), u, s)

\* The files that Version::Get reads, with their levels.
FilesRead(v, u, s) ==
  LET all == FlattenSeq([i \in 1..NumLevels |->
               LET c == Candidates(v, i - 1, u, s)
               IN  [j \in DOMAIN c |-> [level |-> i - 1, file |-> c[j]]]])
      hits == {i \in DOMAIN all : Find(all[i].file.ents, u, s) # {}}
  IN  IF hits = {} THEN all ELSE SubSeq(all, 1, Min(hits))

\* UpdateStats for a read that used up the allowed_seeks of the file it is
\* charged to: the first of at least two files read.
NoSeek == [level |-> -1, num |-> 0]
UpdateStats(v, u, s) ==
  LET read == FilesRead(v, u, s)
  IN  IF Len(read) >= 2 /\ v.seek = NoSeek
      THEN [v EXCEPT !.seek = [level |-> read[1].level, num |-> read[1].file.num]]
      ELSE v

--------------------------------------------------------------------------------
\* Building a version.

EmptyVersion == [files |-> [l \in Level |-> <<>>], seek |-> NoSeek]

BySmallestKey(a, b) ==
  \/ ILess(Smallest(a), Smallest(b))
  \/ Smallest(a) = Smallest(b) /\ a.num < b.num

\* An edit: deleted and added are sets of <<level, file number>> and of
\* <<level, file>>.  A builder gathers edits: a file that is added is no
\* longer one of the deleted ones.
Builder(v) == [base |-> v, deleted |-> {}, added |-> {}]
Apply(b, deleted, added) ==
  [b EXCEPT !.deleted = (@ \cup deleted) \ {<<a[1], a[2].num>> : a \in added},
            !.added = @ \cup added]
MaybeAdd(b, level, files) == {f \in files : <<level, f.num>> \notin b.deleted}
SaveTo(b) ==
  LET new(l) == {a[2] : a \in {x \in b.added : x[1] = l}}
  IN  [files |-> [l \in Level |->
                    Sorted(MaybeAdd(b, l, ToSet(b.base.files[l]) \cup new(l)), BySmallestKey)],
       seek |-> NoSeek]

\* The version that an edit makes of v.
Edited(v, deleted, added) == SaveTo(Apply(Builder(v), deleted, added))

\* Mutant: the level that the file would go to is not looked at.
PickLevelUnchecked(v, lo, hi) ==
  IF OverlapInLevel(v, 0, lo, hi) THEN 0 ELSE MaxMemCompactLevel

\* The level where a table with the user keys lo..hi is put: the deepest that
\* can be reached past levels without overlap.
PickLevelForMemTableOutput(v, lo, hi) ==
  LET stops(l) ==
        \/ l = MaxMemCompactLevel
        \/ OverlapInLevel(v, l + 1, lo, hi)
        \/ TotalFileSize(GetOverlappingInputs(v, l + 2, lo, hi)) > MaxGrandParentOverlapBytes
  IN  IF OverlapInLevel(v, 0, lo, hi) THEN 0 ELSE Min({l \in 0..MaxMemCompactLevel : stops(l)})

--------------------------------------------------------------------------------
\* Picking a compaction.

\* Scores are fractions <<n, d>>; a limit of bytes is twice the code's, which
\* halves it.
TwiceMaxBytesForLevel(level) ==
  NumFilesLevel0 * TargetFileSize * LevelFilesFactor ^ (Max({level, 1}) - 1)

Score(v, level) ==
  IF level = 0 THEN <<Len(v.files[0]), L0_CompactionTrigger>>
               ELSE <<2 * TotalFileSize(v.files[level]), TwiceMaxBytesForLevel(level)>>
Above(a, b) == a[1] * b[2] > b[1] * a[2]

\* Finalize: the first of the levels with the highest score.
CompactionLevel(v) ==
  LET scored == 0..(NumLevels - 2)
  IN  CHOOSE l \in scored :
        /\ \A m \in scored : ~Above(Score(v, m), Score(v, l))
        /\ \A m \in scored : m < l => Above(Score(v, l), Score(v, m))

SizeCompaction(v) ==
  LET score == Score(v, CompactionLevel(v)) IN score[1] >= score[2]

NeedsCompaction(v) == SizeCompaction(v) \/ v.seek # NoSeek

GetRange(files) ==
  [lo |-> First({Smallest(f) : f \in ToSet(files)}),
   hi |-> Final({Largest(f) : f \in ToSet(files)})]

\* A compaction of in0 at level with in1 at the next; gp are the grandparents
\* and end becomes compact_pointer_[level].
SetupOtherInputs(v, level, in0) ==
  LET overlap(l, r) == GetOverlappingInputs(v, l, r.lo.u, r.hi.u)
      in1 == overlap(level + 1, GetRange(in0))
      expanded0 == overlap(level, GetRange(in0 \o in1))
      expanded1 == overlap(level + 1, GetRange(expanded0))
      grow == /\ in1 # <<>>
              /\ Len(expanded0) > Len(in0)
              /\ TotalFileSize(in1) + TotalFileSize(expanded0)
                   < ExpandedCompactionByteSizeLimit
              /\ Len(expanded1) = Len(in1)
      inputs0 == IF grow THEN expanded0 ELSE in0
      inputs1 == IF grow THEN expanded1 ELSE in1
  IN  [level |-> level, in0 |-> inputs0, in1 |-> inputs1,
       gp |-> IF level + 2 < NumLevels
              THEN overlap(level + 2, GetRange(inputs0 \o inputs1)) ELSE <<>>,
       end |-> GetRange(inputs0).hi,
       base |-> v]

\* The file where a size compaction of a level starts: the first that ends
\* after compact_pointer_, else the first of the level.
NoPointer == [u |-> BeforeAll, s |-> 0]
NextFile(files, pointer) ==
  LET i == SelectInSeq(files, LAMBDA f : pointer = NoPointer \/ ILess(pointer, Largest(f)))
  IN  files[IF i = 0 THEN 1 ELSE i]

\* Mutant: of level 0, too, only one file is taken.
PickOneFile(v, pointer) ==
  LET level == IF SizeCompaction(v) THEN CompactionLevel(v) ELSE v.seek.level
      file == IF SizeCompaction(v) THEN NextFile(v.files[level], pointer[level])
              ELSE CHOOSE f \in ToSet(v.files[level]) : f.num = v.seek.num
  IN  SetupOtherInputs(v, level, <<file>>)

PickCompaction(v, pointer) ==
  LET level == IF SizeCompaction(v) THEN CompactionLevel(v) ELSE v.seek.level
      file == IF SizeCompaction(v) THEN NextFile(v.files[level], pointer[level])
              ELSE CHOOSE f \in ToSet(v.files[level]) : f.num = v.seek.num
  IN  SetupOtherInputs(v, level,
        IF level = 0
        THEN GetOverlappingInputs(v, 0, Smallest(file).u, Largest(file).u)
        ELSE <<file>>)

\* The inputs of a manual compaction, cut off once they reach the size of one
\* file, in level 0 as well.
CompactRangeInputs(v, level, lo, hi) ==
  LET files == GetOverlappingInputs(v, level, lo, hi)
      enough == {n \in 1..Len(files) : TotalFileSize(SubSeq(files, 1, n)) >= TargetFileSize}
  IN  IF enough = {} THEN files ELSE SubSeq(files, 1, Min(enough))

IsTrivialMove(c) ==
  /\ Len(c.in0) = 1
  /\ c.in1 = <<>>
  /\ TotalFileSize(c.gp) <= MaxGrandParentOverlapBytes

AddInputDeletions(c) ==
  {<<c.level, f.num>> : f \in ToSet(c.in0)} \cup {<<c.level + 1, f.num>> : f \in ToSet(c.in1)}

\* No deeper level of the input version has a file around u.  The keys come
\* in order, so that level_ptrs_ never skips a file that contains one.
IsBaseLevelForKey(c, u) ==
  \A l \in (c.level + 2)..(NumLevels - 1) :
    ~\E f \in ToSet(c.base.files[l]) : Smallest(f).u <= u /\ u <= Largest(f).u

--------------------------------------------------------------------------------
\* The loop of DoCompactionWork over the merged inputs, as a fold.  Its state:
\* done   the entries of the finished outputs, in order
\* cur    the entries of the output that is being built
\* last   last_sequence_for_key of the user key of prev
\* gpi, seen, overlapped   see ShouldStopBefore

StartState == [done |-> <<>>, cur |-> {}, prev |-> BeforeAll, last |-> MaxSequenceNumber,
               gpi |-> 0, seen |-> FALSE, overlapped |-> 0]

Finished(st) == IF st.cur = {} THEN st ELSE [st EXCEPT !.done = Append(@, st.cur), !.cur = {}]

\* Grandparents that end before e are passed; their size counts from the
\* second key on.  Too much of it finishes the current output.
ShouldStopBefore(c, st, e) ==
  LET gpi == Max({st.gpi} \cup {i \in DOMAIN c.gp :
                   \A j \in (st.gpi + 1)..i : ILess(Largest(c.gp[j]), e)})
      overlapped == st.overlapped +
        IF st.seen THEN TotalFileSize(SubSeq(c.gp, st.gpi + 1, gpi)) ELSE 0
      stop == overlapped > MaxGrandParentOverlapBytes
  IN  [stop |-> stop,
       st |-> [st EXCEPT !.gpi = gpi, !.seen = TRUE,
                         !.overlapped = IF stop THEN 0 ELSE overlapped]]

\* Mutant: snapshots are not asked about hidden entries.
DropHidden(c, e, last, smallest_snapshot) ==
  \/ last < MaxSequenceNumber
  \/ e.del /\ e.s <= smallest_snapshot /\ IsBaseLevelForKey(c, e.u)

\* Whether e is dropped, given the sequence number of the entry before it for
\* the same user key.
Drop(c, e, last, smallest_snapshot) ==
  \/ last <= smallest_snapshot
  \/ e.del /\ e.s <= smallest_snapshot /\ IsBaseLevelForKey(c, e.u)

CompactEntry(c, st, e, smallest_snapshot) ==
  LET before == ShouldStopBefore(c, st, e)
      st1 == IF before.stop THEN Finished(before.st) ELSE before.st
      last == IF st.prev = e.u THEN st.last ELSE MaxSequenceNumber
      st2 == [st1 EXCEPT !.prev = e.u, !.last = e.s]
      st3 == [st2 EXCEPT !.cur = @ \cup {e}]
  IN  CASE Drop(c, e, last, smallest_snapshot) -> st2
        [] ~Drop(c, e, last, smallest_snapshot) /\ Bytes(st3.cur) >= TargetFileSize ->
             Finished(st3)
        [] OTHER -> st3

\* The inputs as lists: one for each file of level 0, one for each other
\* level, whose files follow one another.
Entries(f) == Sorted(f.ents, ILess)
Concatenating(files) ==
  IF files = <<>> THEN <<>> ELSE <<FlattenSeq([i \in DOMAIN files |-> Entries(files[i])])>>
MakeInputIterator(c) ==
  (IF c.level = 0 THEN [i \in DOMAIN c.in0 |-> Entries(c.in0[i])] ELSE Concatenating(c.in0))
    \o Concatenating(c.in1)

\* The merging iterator: the smallest of the heads, time after time.
Merging(lists) ==
  LET step(m, n) ==
        LET open == {i \in DOMAIN m.rest : m.rest[i] # <<>>}
            smallest == Min({i \in open : \A j \in open : ~ILess(Head(m.rest[j]), Head(m.rest[i]))})
        IN  [out |-> Append(m.out, Head(m.rest[smallest])),
             rest |-> [m.rest EXCEPT ![smallest] = Tail(@)]]
  IN  FoldLeft(step, [out |-> <<>>, rest |-> lists], FlattenSeq(lists)).out

\* The entries of the output files.
DoCompactionWork(c, smallest_snapshot) ==
  LET step(st, e) == CompactEntry(c, st, e, smallest_snapshot)
  IN  Finished(FoldLeft(step, StartState, Merging(MakeInputIterator(c)))).done
================================================================================
