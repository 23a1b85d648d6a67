------------------------------ MODULE ReadPath ------------------------------
(***************************************************************************)
(* Reading the database: DBIter (db/db_iter.cc) over the merged iterators  *)
(* of the memtable and of the version's tables, and Get (db/db_impl.cc,    *)
(* db/version_set.cc) over the same tables.  Writers go on while an        *)
(* iterator is open: their entries appear in the memtable under it, with   *)
(* sequence numbers it must not show.                                      *)
(***************************************************************************)
EXTENDS Iterators

CONSTANTS
  UserKeys,
  Layouts,     \* initial databases: [written, mem, zero, one], see below
  MaxSeq       \* bound on the writes

VARIABLES
  written,   \* history: the write of each sequence number, [user, type]
  mem,       \* the memtable: internal key -> value
  version,   \* [zero, one]: the files of level 0 and of level 1
  bad,       \* [part, block]: a block that cannot be read
  cursor,    \* the DBIter, or NoIterator
  call       \* history: the call it answered last

vars == <<written, mem, version, bad, cursor, call>>

LastSequence == Len(written)
Entry(seq) == [key |-> InternalKey(written[seq].user, seq, written[seq].type), value |-> seq]

-----------------------------------------------------------------------------
(* DBImpl::NewInternalIterator and DBImpl::NewIterator *)

InternalIterator ==
  LET tables == [i \in DOMAIN version.zero |-> TableCacheNewIterator(version.zero[i], bad)]
      level == IF version.one = << >> THEN << >> ELSE <<NewConcatenatingIterator(version.one)>>
      list == <<NewMemIterator>> \o tables \o level
  IN  IF Len(list) = 1 THEN list[1] ELSE NewMergingIterator(list)

NewDBIter(seq) ==
  [it |-> InternalIterator, seq |-> seq, forward |-> TRUE, valid |-> FALSE,
   saved |-> << >>, savedValue |-> 0]

Moved(c, op) == [c EXCEPT !.it = Move(@, op, mem, bad)]
CursorKey(c) == IF c.forward THEN ExtractUserKey(Key(c.it)) ELSE c.saved
CursorValue(c) == IF c.forward THEN Value(c.it, mem) ELSE c.savedValue
Shows(c, ikey) == SequenceOf(ikey) <= c.seq
ClearSaved(c) == [c EXCEPT !.saved = << >>, !.savedValue = 0]

RECURSIVE FindNextUserEntry(_, _, _)
FindNextUserEntry(c, skipping, skip) ==
  IF ~Valid(c.it) THEN [c EXCEPT !.valid = FALSE, !.saved = << >>]
  ELSE LET ikey == Key(c.it)
           user == ExtractUserKey(ikey)
       IN  CASE Shows(c, ikey) /\ TypeOf(ikey) = kTypeDeletion
                  -> FindNextUserEntry(Moved(c, Next1), TRUE, user)
             [] Shows(c, ikey) /\ TypeOf(ikey) = kTypeValue
                  /\ ~(skipping /\ ~Smaller(skip, user))
                  -> [c EXCEPT !.valid = TRUE, !.saved = << >>]
             [] OTHER -> FindNextUserEntry(Moved(c, Next1), skipping, skip)

RECURSIVE FindPrevUserEntry(_, _)
FindPrevUserEntry(c, type) ==
  LET ikey == Key(c.it)
      user == ExtractUserKey(ikey)
      taken == CASE ~Shows(c, ikey) -> c
                 [] Shows(c, ikey) /\ TypeOf(ikey) = kTypeDeletion -> ClearSaved(c)
                 [] OTHER -> [c EXCEPT !.saved = user, !.savedValue = Value(c.it, mem)]
  IN  IF ~Valid(c.it) \/ (Shows(c, ikey) /\ type # kTypeDeletion /\ Smaller(user, c.saved))
      THEN IF type = kTypeDeletion
           THEN [ClearSaved(c) EXCEPT !.valid = FALSE, !.forward = TRUE]
           ELSE [c EXCEPT !.valid = TRUE]
      ELSE FindPrevUserEntry(Moved(taken, Prev1),
                             IF Shows(c, ikey) THEN TypeOf(ikey) ELSE type)

\* DBIter::Next
DBIterNext(c) ==
  LET turned == IF c.forward THEN c
                ELSE Moved([c EXCEPT !.forward = TRUE],
                           IF Valid(c.it) THEN Next1 ELSE SeekToFirst)
  IN  IF ~Valid(turned.it) THEN [turned EXCEPT !.valid = FALSE, !.saved = << >>]
      ELSE FindNextUserEntry(turned, TRUE, ExtractUserKey(Key(turned.it)))

\* DBIter::Prev: first out of the entries of the current key
RECURSIVE LeaveKey(_, _)
LeaveKey(c, user) ==
  LET back == Moved(c, Prev1)
  IN  IF Valid(back.it) /\ ~Smaller(ExtractUserKey(Key(back.it)), user)
      THEN LeaveKey(back, user) ELSE back

DBIterPrev(c) ==
  IF ~c.forward THEN FindPrevUserEntry(c, kTypeDeletion)
  ELSE LET user == ExtractUserKey(Key(c.it))
           left == LeaveKey([c EXCEPT !.saved = user], user)
       IN  IF Valid(left.it) THEN FindPrevUserEntry([left EXCEPT !.forward = FALSE], kTypeDeletion)
           ELSE [ClearSaved(left) EXCEPT !.valid = FALSE]

\* DBIter::Seek, SeekToFirst, SeekToLast
DBIterSeek(c, user) ==
  FindNextUserEntry(Moved([ClearSaved(c) EXCEPT !.forward = TRUE],
                          Seek(InternalKey(user, c.seq, kValueTypeForSeek))), FALSE, << >>)
DBIterSeekToFirst(c) ==
  FindNextUserEntry(Moved([ClearSaved(c) EXCEPT !.forward = TRUE], SeekToFirst), FALSE, << >>)
DBIterSeekToLast(c) ==
  LET end == Moved([c EXCEPT !.forward = FALSE, !.savedValue = 0], SeekToLast)
  IN  FindPrevUserEntry(end, kTypeDeletion)

-----------------------------------------------------------------------------
(* DBImpl::Get, Version::Get: the first source that knows the key answers.   *)

NotFound == 0
Error == MaxSeq + 1

\* SaveValue: the answer of an entry found for user, << >> when it is no answer
Saved(ikey, value, user) ==
  IF ExtractUserKey(ikey) # user THEN << >>
  ELSE IF TypeOf(ikey) = kTypeValue THEN <<value>> ELSE <<NotFound>>

GetFromMem(user, seq) ==
  LET it == MemMove(NewMemIterator, Seek(InternalKey(user, seq, kValueTypeForSeek)), mem)
  IN  IF Valid(it) THEN Saved(Key(it), Value(it, mem), user) ELSE << >>

GetFromTable(file, user, seq) ==
  LET found == TableCacheGet(file, InternalKey(user, seq, kValueTypeForSeek), bad)
  IN  CASE found = NoIterator -> << >>
        [] found # NoIterator /\ Valid(found) -> Saved(Key(found), Value(found, mem), user)
        [] OTHER -> IF Status(found) THEN << >> ELSE <<Error>>

Overlaps(file, user) == /\ ~Smaller(user, ExtractUserKey(file.smallest))
                        /\ ~Smaller(ExtractUserKey(file.largest), user)

Get(user, seq) ==
  LET zero == SelectSeq(Reverse(version.zero), LAMBDA f : Overlaps(f, user))
      at == FindFile(version.one, InternalKey(user, seq, kValueTypeForSeek))
      one == IF at <= Len(version.one) /\ ~Smaller(user, ExtractUserKey(version.one[at].smallest))
             THEN <<version.one[at]>> ELSE << >>
      files == zero \o one
      answers == GetFromMem(user, seq)
                 \o FlattenSeq([i \in DOMAIN files |-> GetFromTable(files[i], user, seq)])
  IN  Head(Append(answers, NotFound))

-----------------------------------------------------------------------------
(* The database at the start: the writes so far, spread over a memtable,     *)
(* level-0 tables and the files of level 1 the way flushes and compactions   *)
(* leave them, and at most one block that cannot be read.                    *)

SortedEntries(seqs) == SetToSortSeq({Entry(s) : s \in seqs}, LAMBDA a, b : KeyBefore(a.key, b.key))
FileOf(seqs) == BuildTable(SortedEntries(seqs))
FilesOf(groups) == [i \in DOMAIN groups |-> FileOf(groups[i])]
MemOf(seqs) == [k \in {Entry(s).key : s \in seqs} |-> SequenceOf(k)]

FailuresOf(v) ==
  LET tables == {f.table : f \in ToSet(v.zero) \cup ToSet(v.one)}
  IN  [part : {"data"}, block : UNION {ToSet(t.blocks) : t \in tables}]
      \cup [part : {"index", "filter"}, block : {t.index : t \in tables}]

Init ==
  /\ cursor = NoIterator /\ call = SeekToFirst
  /\ \E layout \in Layouts :
       /\ written = layout.written
       /\ mem = MemOf(layout.mem)
       /\ version = [zero |-> FilesOf(layout.zero), one |-> FilesOf(layout.one)]
       /\ bad \in IF layout.fails THEN FailuresOf(version)
                  ELSE {[part |-> "none", block |-> EmptyBlock]}

\* DBImpl::NewIterator at the latest sequence number, or at a snapshot
NewIterator ==
  /\ cursor = NoIterator
  /\ \E seq \in 1 .. LastSequence : cursor' = NewDBIter(seq)
  /\ UNCHANGED <<written, mem, version, bad, call>>

\* A write by another thread reaches the memtable the cursor reads.
Write ==
  /\ LastSequence < MaxSeq
  /\ \E user \in UserKeys, type \in {kTypeDeletion, kTypeValue} :
       /\ written' = Append(written, [user |-> user, type |-> type])
       /\ mem' = [k \in DOMAIN mem \cup {InternalKey(user, LastSequence + 1, type)} |-> SequenceOf(k)]
  /\ UNCHANGED <<version, bad, cursor, call>>

Walk(op, c) == call' = op /\ cursor' = c /\ UNCHANGED <<written, mem, version, bad>>

IterSeek == /\ cursor # NoIterator
            /\ \E user \in UserKeys : Walk(Seek(user), DBIterSeek(cursor, user))
IterSeekToFirst == cursor # NoIterator /\ Walk(SeekToFirst, DBIterSeekToFirst(cursor))
IterSeekToLast == cursor # NoIterator /\ Walk(SeekToLast, DBIterSeekToLast(cursor))
IterNext == cursor # NoIterator /\ cursor.valid /\ Walk(Next1, DBIterNext(cursor))
IterPrev == cursor # NoIterator /\ cursor.valid /\ Walk(Prev1, DBIterPrev(cursor))

Next == NewIterator \/ Write \/ IterSeek \/ IterSeekToFirst \/ IterSeekToLast
        \/ IterNext \/ IterPrev
Spec == Init /\ [][Next]_vars

-----------------------------------------------------------------------------
(* The database as its users think of it *)

Newest(user, seq) ==
  LET seqs == {s \in 1 .. LastSequence : s <= seq /\ written[s].user = user}
  IN  IF seqs = {} THEN NotFound
      ELSE LET s == CHOOSE s \in seqs : \A t \in seqs : t <= s
           IN  IF written[s].type = kTypeValue THEN s ELSE NotFound

ViewAt(seq) == {[key |-> u, value |-> Newest(u, seq)] : u \in {u \in UserKeys : Newest(u, seq) # NotFound}}

C == INSTANCE SnapshotCursor WITH
       None <- NoIterator, Precedes <- Smaller, Keys <- UserKeys, call <- call,
       view <- IF cursor = NoIterator THEN {} ELSE ViewAt(cursor.seq),
       at <- IF cursor = NoIterator \/ ~cursor.valid THEN NoIterator
             ELSE [key |-> CursorKey(cursor), value |-> CursorValue(cursor)],
       ok <- cursor = NoIterator \/ Status(cursor.it)

\* The DBIter implements a cursor over the database as it was at its sequence
\* number, whatever is written meanwhile and however the entries are spread
\* over memtable, tables, blocks and restart points; a block that cannot be
\* read may hide entries only together with an error in the status.
ImplementsCursor == C!Spec

\* Get answers what was last written at or before its sequence number, or an
\* error: neither the index separators, the filters nor the order of the
\* levels lose or resurrect a key.
GetAgrees ==
  cursor = NoIterator =>
    \A user \in UserKeys, seq \in 1 .. LastSequence :
      Get(user, seq) \in {Newest(user, seq), Error}

\* DBIter::Next moves on (include/leveldb/iterator.h): the entry it stops on,
\* if any, is another one than before.
NextMovesOn ==
  [][LET moved == cursor # NoIterator /\ cursor # cursor' /\ call' = Next1
     IN  moved /\ cursor'.valid => CursorKey(cursor') # CursorKey(cursor)]_vars
=============================================================================
