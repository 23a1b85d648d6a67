------------------------------- MODULE Coding -------------------------------
(***************************************************************************)
(* The encodings every file of the store is made of: integers of fixed and *)
(* of variable length, length-prefixed slices, masked checksums, write     *)
(* batches, block entries, block handles and footers, and file names.      *)
(*                                                                         *)
(* A byte is a number below Byte, a string a sequence of bytes.  The       *)
(* widths are parameters, so that TLC reaches their limits: a varint has   *)
(* half a byte's values per byte, and one byte more than it can fill.      *)
(***************************************************************************)
EXTENDS Naturals, Sequences, SequencesExt, FiniteSetsExt

CONSTANTS Byte,                 \* 2^8
          Fixed32, Varint32,    \* bytes of a uint32_t: 4, and at most 5 as a varint
          Fixed64, Varint64,    \* bytes of a uint64_t: 8 and 10
          PadWidth,             \* of a number in a file name: 6
          MaskShift, MaskDelta, \* of a masked checksum: 2^15 and 0xa282ead8
          Magic                 \* kTableMagicNumber

Group == Byte \div 2
Max32 == Byte ^ Fixed32
Max64 == Byte ^ Fixed64
kMaxUint64 == Max64 - 1

\* What a Get function leaves: whether it could read, the value and what follows.
Fail == [ok |-> FALSE, value |-> 0, rest |-> <<>>]
Got(value, rest) == [ok |-> TRUE, value |-> value, rest |-> rest]
Drop(s, n) == SubSeq(s, n + 1, Len(s))
Take(s, n) == SubSeq(s, 1, n)

-----------------------------------------------------------------------------
(* util/coding.cc *)

EncodeFixed(v, width) == [i \in 1 .. width |-> (v \div Byte ^ (i - 1)) % Byte]

DecodeFixed(s) == MapThenSumSet(LAMBDA i : s[i] * Byte ^ (i - 1), DOMAIN s)

RECURSIVE EncodeVarint64(_)
EncodeVarint64(v) ==
  IF v >= Group THEN <<(v % Group) + Group>> \o EncodeVarint64(v \div Group) ELSE <<v>>

RECURSIVE VarintLength(_)
VarintLength(v) == IF v >= Group THEN 1 + VarintLength(v \div Group) ELSE 1

\* The cascade of tests, one for each length: every byte but the last is v
\* shifted and cut to a byte, with the high bit set.
EncodeVarint32(v) ==
  LET n == Min({i \in 1 .. Varint32 : v < Group ^ i \/ i = Varint32})
  IN  [i \in 1 .. n |-> LET g == v \div Group ^ (i - 1)
                        IN  IF i < n THEN (g % Group) + Group ELSE g]

\* GetVarint32Ptr and GetVarint64Ptr: at most so many bytes; the bits that do
\* not fit are shifted out.
GetVarint(s, bytes, max) ==
  LET ends == {i \in 1 .. Min({bytes, Len(s)}) : s[i] < Group}
      n    == Min(ends)
  IN  IF ends = {} THEN Fail
      ELSE Got(MapThenSumSet(LAMBDA i : (s[i] % Group) * Group ^ (i - 1), 1 .. n) % max, Drop(s, n))

GetVarint32(s) == GetVarint(s, Varint32, Max32)
GetVarint64(s) == GetVarint(s, Varint64, Max64)

PutLengthPrefixedSlice(x) == EncodeVarint32(Len(x)) \o x

GetLengthPrefixedSlice(s) ==
  LET g == GetVarint32(s)
  IN  IF g.ok /\ Len(g.rest) >= g.value THEN Got(Take(g.rest, g.value), Drop(g.rest, g.value)) ELSE Fail

-----------------------------------------------------------------------------
(* util/crc32c.h: what is stored of a checksum *)

Mask(crc) ==
  ((crc \div MaskShift) + ((crc * (Max32 \div MaskShift)) % Max32) + MaskDelta) % Max32

Unmask(masked) ==
  LET rot == (masked + Max32 - MaskDelta) % Max32
  IN  (rot \div (Max32 \div MaskShift)) + ((rot * MaskShift) % Max32)

-----------------------------------------------------------------------------
(* db/write_batch.cc: a header of sequence number and count, then records *)

kTypeDeletion == 0
kTypeValue == 1
kHeader == Fixed64 + Fixed32

Sequence(rep) == DecodeFixed(Take(rep, Fixed64))
Count(rep) == DecodeFixed(SubSeq(rep, Fixed64 + 1, kHeader))
SetSequence(rep, seq) == EncodeFixed(seq, Fixed64) \o Drop(rep, Fixed64)
SetCount(rep, n) == Take(rep, Fixed64) \o EncodeFixed(n, Fixed32) \o Drop(rep, kHeader)

Clear == [i \in 1 .. kHeader |-> 0]
BatchPut(rep, key, value) ==
  SetCount(rep, Count(rep) + 1) \o <<kTypeValue>> \o PutLengthPrefixedSlice(key) \o PutLengthPrefixedSlice(value)
BatchDelete(rep, key) == SetCount(rep, Count(rep) + 1) \o <<kTypeDeletion>> \o PutLengthPrefixedSlice(key)
BatchAppend(dst, src) == SetCount(dst, Count(dst) + Count(src)) \o Drop(src, kHeader)

\* What the handler is called with, record by record, and whether the batch is
\* well formed; the calls made before an error is found stay made.
RECURSIVE Records(_, _)
Records(s, calls) ==
  LET key   == GetLengthPrefixedSlice(Tail(s))
      value == GetLengthPrefixedSlice(key.rest)
      bad   == [ok |-> FALSE, calls |-> calls]
  IN  CASE s = <<>> -> [ok |-> TRUE, calls |-> calls]
        [] s # <<>> /\ s[1] = kTypeValue ->
             IF key.ok /\ value.ok THEN Records(value.rest, Append(calls, <<key.value, value.value>>)) ELSE bad
        [] s # <<>> /\ s[1] = kTypeDeletion ->
             IF key.ok THEN Records(key.rest, Append(calls, <<key.value>>)) ELSE bad
        [] OTHER -> bad

Iterate(rep) ==
  IF Len(rep) < kHeader THEN [ok |-> FALSE, calls |-> <<>>]
  ELSE LET r == Records(Drop(rep, kHeader), <<>>)
       IN  [r EXCEPT !.ok = @ /\ Len(r.calls) = Count(rep)]

-----------------------------------------------------------------------------
(* table/block.cc, table/format.cc, db/dbformat.cc *)

\* Entries of a block: three lengths, of one byte each or as varints.
DecodeEntry(s) ==
  LET shared     == GetVarint32(s)
      non_shared == GetVarint32(shared.rest)
      value_len  == GetVarint32(non_shared.rest)
      fast       == \A i \in 1 .. 3 : s[i] < Group
      lens       == IF fast THEN Take(s, 3) ELSE <<shared.value, non_shared.value, value_len.value>>
      rest       == IF fast THEN Drop(s, 3) ELSE value_len.rest
  IN  CASE Len(s) < 3 -> Fail
        [] Len(s) >= 3 /\ ~fast /\ ~(shared.ok /\ non_shared.ok /\ value_len.ok) -> Fail
        [] OTHER -> IF Len(rest) < (lens[2] + lens[3]) % Max32 THEN Fail ELSE Got(lens, rest)

kMaxEncodedLength == 2 * Varint64
HandleEncodeTo(h) == EncodeVarint64(h.offset) \o EncodeVarint64(h.size)
HandleDecodeFrom(s) ==
  LET offset == GetVarint64(s)
      size   == GetVarint64(offset.rest)
  IN  IF offset.ok /\ size.ok THEN Got([offset |-> offset.value, size |-> size.value], size.rest) ELSE Fail

kEncodedLength == 2 * kMaxEncodedLength + 2 * Fixed32
FooterEncodeTo(metaindex, index) ==
  LET handles == HandleEncodeTo(metaindex) \o HandleEncodeTo(index)
  IN  handles \o [i \in 1 .. 2 * kMaxEncodedLength - Len(handles) |-> 0]
        \o EncodeFixed(Magic % Max32, Fixed32) \o EncodeFixed(Magic \div Max32, Fixed32)
FooterDecodeFrom(s) ==
  LET magic     == SubSeq(s, kEncodedLength - 2 * Fixed32 + 1, kEncodedLength)
      metaindex == HandleDecodeFrom(s)
      index     == HandleDecodeFrom(metaindex.rest)
  IN  IF DecodeFixed(Take(magic, Fixed32)) + DecodeFixed(Drop(magic, Fixed32)) * Max32 = Magic
           /\ metaindex.ok /\ index.ok
      THEN Got(<<metaindex.value, index.value>>, Drop(s, kEncodedLength)) ELSE Fail

\* The key a memtable is searched with: length, user key, sequence and type.
LookupKey(user_key, seq) ==
  EncodeVarint32(Len(user_key) + Fixed64) \o user_key \o EncodeFixed(seq * Byte + kTypeValue, Fixed64)

-----------------------------------------------------------------------------
(* db/filename.cc, util/logging.cc.  A name is a word, digits and a suffix. *)

Name(head, digits, suffix) == [head |-> head, digits |-> digits, suffix |-> suffix]

\* %06llu
Digits(n) ==
  LET w == Max({PadWidth, Min({i \in 1 .. 9 : n < 10 ^ i})}) IN [i \in 1 .. w |-> (n \div 10 ^ (w - i)) % 10]

MakeFileName(number, suffix) == Name("", Digits(number), suffix)
LogFileName(number) == MakeFileName(number, ".log")
TableFileName(number) == MakeFileName(number, ".sst")
TempFileName(number) == MakeFileName(number, ".dbtmp")
DescriptorFileName(number) == Name("MANIFEST-", Digits(number), "")
CurrentFileName == Name("CURRENT", <<>>, "")
LockFileName == Name("LOCK", <<>>, "")
InfoLogFileName == Name("LOG", <<>>, "")
OldInfoLogFileName == Name("LOG.old", <<>>, "")

\* No digit, or more than a uint64_t holds: not a number.
ConsumeDecimalNumber(digits) ==
  LET step(a, d) == IF ~a.ok \/ a.value > kMaxUint64 \div 10
                         \/ (a.value = kMaxUint64 \div 10 /\ d > kMaxUint64 % 10)
                    THEN Fail ELSE Got(a.value * 10 + d, <<>>)
  IN  IF digits = <<>> THEN Fail ELSE FoldLeft(step, Got(0, <<>>), digits)

ParseFileName(f) ==
  LET num  == ConsumeDecimalNumber(f.digits)
      file(type, ok, number) == IF ok THEN [type |-> type, number |-> number] ELSE [type |-> "none", number |-> 0]
  IN  CASE f = CurrentFileName -> file("current", TRUE, 0)
        [] f = LockFileName -> file("lock", TRUE, 0)
        [] f \in {InfoLogFileName, OldInfoLogFileName} -> file("infolog", TRUE, 0)
        [] f.head = "MANIFEST-" -> file("descriptor", num.ok /\ f.suffix = "", num.value)
        [] f.head = "" /\ f.suffix = ".log" -> file("log", num.ok, num.value)
        [] f.head = "" /\ f.suffix = ".sst" -> file("table", num.ok, num.value)
        [] f.head = "" /\ f.suffix = ".dbtmp" -> file("temp", num.ok, num.value)
        [] OTHER -> file("none", FALSE, 0)
=============================================================================
