------------------------------- MODULE SSTable -------------------------------
(***************************************************************************)
(* The sorted table of LevelDB as a value: internal keys and their order   *)
(* (db/dbformat, util/comparator), blocks with shared prefixes and restart *)
(* points (table/block_builder), the table with its index and its filter   *)
(* (table/table_builder, table/filter_block, util/bloom).  A byte of a key *)
(* is a letter; the eight bytes of the tag are one letter at the end.  An  *)
(* offset inside a block is the number of an entry.                        *)
(***************************************************************************)
EXTENDS Naturals, Sequences, SequencesExt

CONSTANTS
  MaxLetter,        \* 0xff, the byte that cannot be incremented
  kMaxSequenceNumber,
  RestartInterval,  \* options.block_restart_interval
  BlockSize,        \* options.block_size
  FilterBase,       \* kFilterBase: one filter per so many bytes of file
  BloomHash(_),     \* the hash of a user key, below
  HashMax,          \* 2^32; rotated right by 17 bits, 2^17 is
  HashTurn,
  BitsPerKey,       \* bits_per_key_ of the bloom filter
  MinBits,          \* 64, its smallest size
  ByteBits          \* 8

kTypeDeletion == 0
kTypeValue == 1
kValueTypeForSeek == kTypeValue

PackSequenceAndType(seq, type) == 2 * seq + type
InternalKey(user, seq, type) == Append(user, PackSequenceAndType(seq, type))
ExtractUserKey(ikey) == Front(ikey)
SequenceOf(ikey) == Last(ikey) \div 2
TypeOf(ikey) == Last(ikey) % 2

\* BytewiseComparatorImpl::Compare(a, b) < 0
Smaller(a, b) ==
  \E i \in 1 .. Len(b) :
    /\ i <= Len(a) + 1
    /\ \A j \in 1 .. i - 1 : a[j] = b[j]
    /\ i <= Len(a) => a[i] < b[i]

\* InternalKeyComparator::Compare(a, b) < 0: a newer entry of a key is first
KeyBefore(a, b) ==
  \/ Smaller(ExtractUserKey(a), ExtractUserKey(b))
  \/ ExtractUserKey(a) = ExtractUserKey(b) /\ Last(a) > Last(b)

CommonPrefix(a, b) ==
  CHOOSE n \in 0 .. Len(a) :
    /\ n <= Len(b)
    /\ \A i \in 1 .. n : a[i] = b[i]
    /\ n < Len(a) /\ n < Len(b) => a[n + 1] # b[n + 1]

\* Comparator::FindShortestSeparator and FindShortSuccessor on user keys
UserSeparator(start, limit) ==
  LET d == CommonPrefix(start, limit) + 1
  IN  IF d <= Len(start) /\ d <= Len(limit) /\ start[d] < MaxLetter /\ start[d] + 1 < limit[d]
      THEN Append(SubSeq(start, 1, d - 1), start[d] + 1)
      ELSE start

UserSuccessor(key) ==
  LET grows == {i \in 1 .. Len(key) : key[i] # MaxLetter}
      i == CHOOSE i \in grows : \A j \in grows : i <= j
  IN  IF grows = {} THEN key ELSE Append(SubSeq(key, 1, i - 1), key[i] + 1)

Shortened(ikey, user) ==
  IF Len(user) < Len(ExtractUserKey(ikey)) /\ Smaller(ExtractUserKey(ikey), user)
  THEN InternalKey(user, kMaxSequenceNumber, kValueTypeForSeek)
  ELSE ikey

FindShortestSeparator(start, limit) ==
  Shortened(start, UserSeparator(ExtractUserKey(start), ExtractUserKey(limit)))
FindShortSuccessor(ikey) == Shortened(ikey, UserSuccessor(ExtractUserKey(ikey)))

-----------------------------------------------------------------------------
(* BlockBuilder *)

EmptyBlock == [entries |-> << >>, restarts |-> <<1>>, counter |-> 0, last |-> << >>, size |-> 2]

BlockAdd(block, key, value, interval) ==
  LET restart == block.counter >= interval
      shared == IF restart THEN 0 ELSE CommonPrefix(block.last, key)
  IN  [entries |-> Append(block.entries,
                          [shared |-> shared,
                           rest |-> SubSeq(key, shared + 1, Len(key)), value |-> value]),
       restarts |-> IF restart THEN Append(block.restarts, Len(block.entries) + 1)
                               ELSE block.restarts,
       counter |-> (IF restart THEN 0 ELSE block.counter) + 1,
       last |-> key,
       size |-> block.size + 1 + Len(key) - shared + (IF restart THEN 1 ELSE 0)]

-----------------------------------------------------------------------------
(* FilterBlockBuilder, with the bloom filter and InternalFilterPolicy *)

NumProbes ==
  LET k == (BitsPerKey * 69) \div 100 IN IF k < 1 THEN 1 ELSE IF k > 30 THEN 30 ELSE k

\* Double hashing: the bits of a key in a filter of so many bits.
Probes(user, bits, k) ==
  LET h     == BloomHash(user)
      delta == (h \div HashTurn) + ((h * (HashMax \div HashTurn)) % HashMax)
  IN  {((h + j * delta) % HashMax) % bits : j \in 0 .. k - 1}

NoFilter == [bits |-> 0, k |-> 0, set |-> {}]

CreateFilter(keys) ==
  LET wanted == IF Len(keys) * BitsPerKey < MinBits THEN MinBits ELSE Len(keys) * BitsPerKey
      bits   == ((wanted + ByteBits - 1) \div ByteBits) * ByteBits
  IN  [bits |-> bits, k |-> NumProbes,
       set |-> UNION {Probes(keys[i], bits, NumProbes) : i \in DOMAIN keys}]

\* InternalFilterPolicy
InternalFilter(keys) == CreateFilter([i \in DOMAIN keys |-> ExtractUserKey(keys[i])])

PolicyMatch(filter, user) ==
  filter # NoFilter /\ Probes(user, filter.bits, filter.k) \subseteq filter.set

GenerateFilter(f) ==
  [keys |-> << >>,
   filters |-> Append(f.filters, IF f.keys = << >> THEN NoFilter ELSE InternalFilter(f.keys))]

RECURSIVE StartBlock(_, _)
StartBlock(f, offset) ==
  IF offset \div FilterBase > Len(f.filters)
  THEN StartBlock(GenerateFilter(f), offset) ELSE f

FilterFinish(f) == IF f.keys = << >> THEN f.filters ELSE GenerateFilter(f).filters

\* One filter too far.
KeyMayMatchNext(filters, offset, user) ==
  LET index == (offset \div FilterBase) + 2
  IN  index <= Len(filters) => PolicyMatch(filters[index], user)

\* FilterBlockReader::KeyMayMatch; no filter at all for the offset is a match
KeyMayMatch(filters, offset, user) ==
  LET index == (offset \div FilterBase) + 1
  IN  index <= Len(filters) => PolicyMatch(filters[index], user)

-----------------------------------------------------------------------------
(* TableBuilder: the entries arrive in the order of their internal keys *)

NewTableBuilder ==
  [blocks |-> << >>, offsets |-> << >>, offset |-> 0, data |-> EmptyBlock,
   index |-> EmptyBlock, pending |-> FALSE, last |-> << >>,
   filter |-> [keys |-> << >>, filters |-> << >>]]

AddIndexEntry(t, separator) ==
  [t EXCEPT !.index = BlockAdd(@, separator, Len(t.blocks), 1), !.pending = FALSE]

Flush(t) ==
  IF t.data.entries = << >> THEN t
  ELSE LET end == t.offset + t.data.size + 1
       IN  [t EXCEPT !.blocks = Append(@, t.data), !.offsets = Append(@, t.offset),
                     !.offset = end, !.data = EmptyBlock, !.pending = TRUE,
                     !.filter = StartBlock(@, end)]

TableAdd(t, entry) ==
  LET key == entry.key
      indexed == IF t.pending THEN AddIndexEntry(t, FindShortestSeparator(t.last, key)) ELSE t
      added == [indexed EXCEPT
                  !.filter.keys = Append(@, key), !.last = key,
                  !.data = BlockAdd(@, key, entry.value, RestartInterval)]
  IN  IF added.data.size >= BlockSize THEN Flush(added) ELSE added

Finish(t) ==
  LET flushed == Flush(t)
      indexed == IF flushed.pending
                 THEN AddIndexEntry(flushed, FindShortSuccessor(flushed.last)) ELSE flushed
  IN  [blocks |-> indexed.blocks, offsets |-> indexed.offsets, index |-> indexed.index,
       filters |-> FilterFinish(indexed.filter), end |-> indexed.offset]

\* BuildTable: the file with the metadata the version keeps of it
BuildTable(entries) ==
  [table |-> Finish(FoldLeft(TableAdd, NewTableBuilder, entries)),
   smallest |-> entries[1].key, largest |-> entries[Len(entries)].key]
=============================================================================
