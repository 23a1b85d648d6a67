------------------------------ MODULE Iterators ------------------------------
(***************************************************************************)
(* The iterators of LevelDB as values, each a record of its class's        *)
(* fields, and Move, the virtual call: what a call of Seek, SeekToFirst,   *)
(* SeekToLast, Next or Prev makes of an iterator.  A block iterator walks  *)
(* entries with shared prefixes from restart points; a two-level iterator  *)
(* opens the blocks of a table, or the tables of a level, lazily; the      *)
(* merging iterator interleaves its children in both directions.  bad is   *)
(* the part of a table, if any, that cannot be read.                       *)
(***************************************************************************)
EXTENDS SSTable, FiniteSets

CONSTANT NoIterator   \* NULL

Seek(target) == [name |-> "Seek", target |-> target]
SeekToFirst == [name |-> "SeekToFirst", target |-> << >>]
SeekToLast == [name |-> "SeekToLast", target |-> << >>]
Next1 == [name |-> "Next", target |-> << >>]
Prev1 == [name |-> "Prev", target |-> << >>]

-----------------------------------------------------------------------------
(* Block::Iter.  next is NextEntryOffset(), the end of value_. *)

NewBlockIterator(block) ==
  [kind |-> "block", block |-> block, current |-> Len(block.entries) + 1, next |-> 1,
   restart |-> Len(block.restarts) + 1, key |-> << >>, ok |-> TRUE]

ErrorIterator == [kind |-> "error", ok |-> FALSE]

PastEnd(it) == [it EXCEPT !.current = Len(it.block.entries) + 1,
                          !.restart = Len(it.block.restarts) + 1]
Corruption(it) == [PastEnd(it) EXCEPT !.ok = FALSE, !.key = << >>]

SeekToRestartPoint(it, index) ==
  [it EXCEPT !.key = << >>, !.restart = index, !.next = it.block.restarts[index]]

ParseNextKey(it) ==
  IF it.next > Len(it.block.entries) THEN PastEnd(it)
  ELSE LET entry == it.block.entries[it.next]
           behind == {i \in it.restart + 1 .. Len(it.block.restarts) :
                        it.block.restarts[i] < it.next}
       IN  IF Len(it.key) < entry.shared THEN Corruption(it)
           ELSE [it EXCEPT !.current = it.next, !.next = it.next + 1,
                           !.key = SubSeq(it.key, 1, entry.shared) \o entry.rest,
                           !.restart = it.restart + Cardinality(behind)]

BlockValid(it) == it.current <= Len(it.block.entries)

\* do ... while (ParseNextKey() && NextEntryOffset() < limit)
RECURSIVE ParseUpTo(_, _)
ParseUpTo(it, limit) ==
  LET parsed == ParseNextKey(it)
  IN  IF BlockValid(parsed) /\ parsed.next < limit THEN ParseUpTo(parsed, limit) ELSE parsed

\* Linear search within the restart block for the first key >= target
RECURSIVE ParseToKey(_, _)
ParseToKey(it, target) ==
  LET parsed == ParseNextKey(it)
  IN  IF BlockValid(parsed) /\ KeyBefore(parsed.key, target)
      THEN ParseToKey(parsed, target) ELSE parsed

\* Binary search for the last restart point with a key < target; 0 is corruption
RECURSIVE SearchRestarts(_, _, _, _)
SearchRestarts(block, target, left, right) ==
  LET mid == (left + right + 1) \div 2
      entry == block.entries[block.restarts[mid]]
  IN  CASE left >= right -> left
        [] left < right /\ entry.shared # 0 -> 0
        [] left < right /\ entry.shared = 0 /\ KeyBefore(entry.rest, target)
             -> SearchRestarts(block, target, mid, right)
        [] OTHER -> SearchRestarts(block, target, left, mid - 1)

BlockSeek(it, target) ==
  LET left == SearchRestarts(it.block, target, 1, Len(it.block.restarts))
  IN  IF left = 0 THEN Corruption(it) ELSE ParseToKey(SeekToRestartPoint(it, left), target)

BlockPrev(it) ==
  LET before == {i \in 1 .. it.restart : it.block.restarts[i] < it.current}
      index == CHOOSE i \in before : \A j \in before : j <= i
  IN  IF before = {} THEN PastEnd(it)
      ELSE ParseUpTo(SeekToRestartPoint(it, index), it.current)

BlockMove(it, op) ==
  CASE op.name = "Seek" -> BlockSeek(it, op.target)
    [] op.name = "SeekToFirst" -> ParseNextKey(SeekToRestartPoint(it, 1))
    [] op.name = "SeekToLast" ->
         ParseUpTo(SeekToRestartPoint(it, Len(it.block.restarts)), Len(it.block.entries) + 1)
    [] op.name = "Next" -> ParseNextKey(it)
    [] op.name = "Prev" -> BlockPrev(it)

-----------------------------------------------------------------------------
(* Version::LevelFileNumIterator over the files of a level *)

NewFilesIterator(files) == [kind |-> "files", files |-> files, at |-> Len(files) + 1]

\* FindFile: the earliest file whose largest key is not before the target
FindFile(files, target) ==
  1 + Cardinality({i \in 1 .. Len(files) : KeyBefore(files[i].largest, target)})

FilesMove(it, op) ==
  LET n == Len(it.files)
  IN  [it EXCEPT !.at = CASE op.name = "Seek" -> FindFile(it.files, op.target)
                          [] op.name = "SeekToFirst" -> 1
                          [] op.name = "SeekToLast" -> n
                          [] op.name = "Next" -> it.at + 1
                          [] op.name = "Prev" -> IF it.at = 1 THEN n + 1 ELSE it.at - 1]

-----------------------------------------------------------------------------
(* The iterator of a memtable holds a node of the skip list, found again by  *)
(* its key when it steps back; the memtable mem grows under it.              *)

NewMemIterator == [kind |-> "mem", node |-> << >>]

FirstIn(keys) ==
  IF keys = {} THEN << >> ELSE CHOOSE k \in keys : \A l \in keys : ~KeyBefore(l, k)
LastIn(keys) ==
  IF keys = {} THEN << >> ELSE CHOOSE k \in keys : \A l \in keys : ~KeyBefore(k, l)

MemMove(it, op, mem) ==
  [it EXCEPT !.node =
     CASE op.name = "Seek" -> FirstIn({k \in DOMAIN mem : ~KeyBefore(k, op.target)})
       [] op.name = "SeekToFirst" -> FirstIn(DOMAIN mem)
       [] op.name = "SeekToLast" -> LastIn(DOMAIN mem)
       [] op.name = "Next" -> FirstIn({k \in DOMAIN mem : KeyBefore(it.node, k)})
       [] op.name = "Prev" -> LastIn({k \in DOMAIN mem : KeyBefore(k, it.node)})]

-----------------------------------------------------------------------------
(* What an iterator shows *)

RECURSIVE Valid(_)
Valid(it) ==
  CASE it.kind = "block" -> BlockValid(it)
    [] it.kind = "error" -> FALSE
    [] it.kind = "files" -> it.at <= Len(it.files)
    [] it.kind = "mem" -> it.node # << >>
    [] it.kind = "two" -> it.data # NoIterator /\ Valid(it.data)
    [] it.kind = "merge" -> it.current # 0

RECURSIVE Key(_)
Key(it) ==
  CASE it.kind = "block" -> it.key
    [] it.kind = "mem" -> it.node
    [] it.kind = "two" -> Key(it.data)
    [] it.kind = "merge" -> Key(it.children[it.current])

RECURSIVE Value(_, _)
Value(it, mem) ==
  CASE it.kind = "block" -> it.block.entries[it.current].value
    [] it.kind = "files" -> it.at
    [] it.kind = "mem" -> mem[it.node]
    [] it.kind = "two" -> Value(it.data, mem)
    [] it.kind = "merge" -> Value(it.children[it.current], mem)

RECURSIVE Status(_)
Status(it) ==
  CASE it.kind \in {"block", "error"} -> it.ok
    [] it.kind = "two" -> /\ it.index.kind = "block" => it.index.ok
                          /\ it.data # NoIterator => Status(it.data)
                          /\ it.ok
    [] it.kind = "merge" -> \A i \in DOMAIN it.children : Status(it.children[i])
    [] OTHER -> TRUE

-----------------------------------------------------------------------------
(* TwoLevelIterator.  parts[handle] is what block_function_ opens: a block    *)
(* of the table (Table::BlockReader) or a file of the level                   *)
(* (GetFileIterator, TableCache::NewIterator).                                *)

NewTwoLevelIterator(index, parts, opens) ==
  [kind |-> "two", index |-> index, parts |-> parts, opens |-> opens,
   data |-> NoIterator, handle |-> 0, ok |-> TRUE]

NewTableIterator(table) ==
  NewTwoLevelIterator(NewBlockIterator(table.index), table.blocks, "block")
NewConcatenatingIterator(files) == NewTwoLevelIterator(NewFilesIterator(files), files, "table")

\* ReadBlock fails: a short read, a wrong checksum or a bad block type
ReadFails(part, block, bad) == bad.part = part /\ bad.block = block

BlockReader(block, bad) ==
  IF ReadFails("data", block, bad) THEN ErrorIterator ELSE NewBlockIterator(block)

\* TableCache::FindTable.  Without its index the table cannot be opened,
\* without its filter (Table::ReadMeta) it is read unfiltered.
TableOpens(table, bad) == ~ReadFails("index", table.index, bad)
Filters(table, bad) == IF ReadFails("filter", table.index, bad) THEN << >> ELSE table.filters

TableCacheNewIterator(file, bad) ==
  IF TableOpens(file.table, bad) THEN NewTableIterator(file.table) ELSE ErrorIterator

SetDataIterator(it, data) ==
  [it EXCEPT !.ok = it.ok /\ (it.data # NoIterator => Status(it.data)), !.data = data]

InitDataBlock(it, bad) ==
  IF ~Valid(it.index) THEN SetDataIterator(it, NoIterator)
  ELSE LET handle == Value(it.index, << >>)
           part == it.parts[handle]
       IN  IF it.data # NoIterator /\ it.handle = handle THEN it
           ELSE [SetDataIterator(it, IF it.opens = "block" THEN BlockReader(part, bad)
                                     ELSE TableCacheNewIterator(part, bad))
                   EXCEPT !.handle = handle]

RECURSIVE Move(_, _, _, _)

MoveData(it, op, mem, bad) ==
  IF it.data = NoIterator THEN it ELSE [it EXCEPT !.data = Move(@, op, mem, bad)]

\* SkipEmptyDataBlocksForward and ...Backward: step of the index, then the
\* end of the next block to start from
RECURSIVE SkipEmptyDataBlocks(_, _, _, _, _)
SkipEmptyDataBlocks(it, step, start, mem, bad) ==
  CASE Valid(it) -> it
    [] ~Valid(it) /\ ~Valid(it.index) -> SetDataIterator(it, NoIterator)
    [] OTHER -> SkipEmptyDataBlocks(
                  MoveData(InitDataBlock([it EXCEPT !.index = Move(@, step, mem, bad)], bad),
                           start, mem, bad), step, start, mem, bad)

TwoLevelMove(it, op, mem, bad) ==
  LET placed == IF op.name \in {"Next", "Prev"} THEN it
                ELSE InitDataBlock([it EXCEPT !.index = Move(@, op, mem, bad)], bad)
      moved == MoveData(placed, op, mem, bad)
  IN  IF op.name \in {"SeekToLast", "Prev"}
      THEN SkipEmptyDataBlocks(moved, Prev1, SeekToLast, mem, bad)
      ELSE SkipEmptyDataBlocks(moved, Next1, SeekToFirst, mem, bad)

-----------------------------------------------------------------------------
(* MergingIterator *)

NewMergingIterator(children) ==
  [kind |-> "merge", children |-> children, current |-> 0, forward |-> TRUE]

FindSmallest(it) ==
  LET live == {i \in DOMAIN it.children : Valid(it.children[i])}
  IN  [it EXCEPT !.current =
         IF live = {} THEN 0
         ELSE CHOOSE i \in live : \A j \in live :
                ~KeyBefore(Key(it.children[j]), Key(it.children[i]))]

FindLargest(it) ==
  LET live == {i \in DOMAIN it.children : Valid(it.children[i])}
  IN  [it EXCEPT !.current =
         IF live = {} THEN 0
         ELSE CHOOSE i \in live : \A j \in live :
                ~KeyBefore(Key(it.children[i]), Key(it.children[j]))]

\* A child with no key at or after key() is left at its end.
PutBeforeLosesLast(child, key, mem, bad) ==
  LET found == Move(child, Seek(key), mem, bad)
  IN  IF Valid(found) THEN Move(found, Prev1, mem, bad) ELSE found

\* Every child but the current one is put after key(), or before it.
PutAfter(child, key, mem, bad) ==
  LET found == Move(child, Seek(key), mem, bad)
  IN  IF Valid(found) /\ Key(found) = key THEN Move(found, Next1, mem, bad) ELSE found
PutBefore(child, key, mem, bad) ==
  LET found == Move(child, Seek(key), mem, bad)
  IN  Move(found, IF Valid(found) THEN Prev1 ELSE SeekToLast, mem, bad)

MergeTurn(it, forward, mem, bad) ==
  IF it.forward = forward THEN it
  ELSE [it EXCEPT !.forward = forward,
                  !.children = [i \in DOMAIN it.children |->
                    IF i = it.current THEN it.children[i]
                    ELSE IF forward THEN PutAfter(it.children[i], Key(it), mem, bad)
                         ELSE PutBefore(it.children[i], Key(it), mem, bad)]]

MergeMove(it, op, mem, bad) ==
  LET forward == op.name \notin {"SeekToLast", "Prev"}
      moved == IF op.name \in {"Next", "Prev"}
               THEN [MergeTurn(it, forward, mem, bad)
                       EXCEPT !.children[it.current] = Move(@, op, mem, bad)]
               ELSE [it EXCEPT !.forward = forward,
                               !.children = [i \in DOMAIN it.children |->
                                               Move(it.children[i], op, mem, bad)]]
  IN  IF forward THEN FindSmallest(moved) ELSE FindLargest(moved)

Move(it, op, mem, bad) ==
  CASE it.kind = "block" -> BlockMove(it, op)
    [] it.kind = "error" -> it
    [] it.kind = "files" -> FilesMove(it, op)
    [] it.kind = "mem" -> MemMove(it, op, mem)
    [] it.kind = "two" -> TwoLevelMove(it, op, mem, bad)
    [] it.kind = "merge" -> MergeMove(it, op, mem, bad)

-----------------------------------------------------------------------------
(* Table::InternalGet: the entry at or after the key in the one block the  *)
(* index names, unless the filter says the key is not there.               *)

InternalGet(table, ikey, bad) ==
  LET index == BlockSeek(NewBlockIterator(table.index), ikey)
      handle == Value(index, << >>)
      filtered == ~KeyMayMatch(Filters(table, bad), table.offsets[handle], ExtractUserKey(ikey))
  IN  IF ~Valid(index) \/ filtered THEN NoIterator
      ELSE Move(BlockReader(table.blocks[handle], bad), Seek(ikey), << >>, bad)

\* TableCache::Get
TableCacheGet(file, ikey, bad) ==
  IF TableOpens(file.table, bad) THEN InternalGet(file.table, ikey, bad) ELSE ErrorIterator

\* Table::ApproximateOffsetOf: where the block starts that could hold the key,
\* or where the last one ends.
TableApproximateOffsetOf(table, ikey) ==
  LET index == BlockSeek(NewBlockIterator(table.index), ikey)
  IN  IF Valid(index) THEN table.offsets[Value(index, << >>)] ELSE table.end

\* VersionSet::ApproximateOffsetOf, summed over the files of all levels: the
\* loop leaves a level early where the files that follow count nothing.
FileSize(file) == file.table.end + file.table.index.size
FileOffsetOf(file, ikey, bad) ==
  CASE ~KeyBefore(ikey, file.largest) -> FileSize(file)
    [] KeyBefore(ikey, file.smallest) \/ ~TableOpens(file.table, bad) -> 0
    [] OTHER -> TableApproximateOffsetOf(file.table, ikey)
ApproximateOffsetOf(files, ikey, bad) ==
  FoldLeft(LAMBDA sum, f : sum + FileOffsetOf(f, ikey, bad), 0, files)

\* DBImpl::GetApproximateSizes, for one range of user keys
GetApproximateSize(files, from, to, bad) ==
  LET offset(user) == ApproximateOffsetOf(files, InternalKey(user, kMaxSequenceNumber, kValueTypeForSeek), bad)
  IN  IF offset(to) >= offset(from) THEN offset(to) - offset(from) ELSE 0
=============================================================================
