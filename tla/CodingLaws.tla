----------------------------- MODULE CodingLaws -----------------------------
(***************************************************************************)
(* What the other modules take for granted of the encodings, checked on    *)
(* bytes of four bits: what is written is read back and nothing else is    *)
(* read with it, and what was cut off is not taken for something complete. *)
(***************************************************************************)
EXTENDS Naturals, Sequences, FiniteSets

LOCAL INSTANCE Coding WITH Byte <- 16, Fixed32 <- 2, Varint32 <- 3, Fixed64 <- 4, Varint64 <- 6,
                           PadWidth <- 3, MaskShift <- 8, MaskDelta <- 162, Magic <- 39505

LOCAL Some32 == {0, 1, 7, 8, 63, 64, 65, 254, 255}
LOCAL Some64 == Some32 \cup {511, 512, 4095, 4096, 32767, 32768, 65534}
LOCAL Strings == {<<>>, <<0>>, <<8, 15>>, <<1, 0, 1>>, [i \in 1 .. 9 |-> 8]}
LOCAL CutOff(s) == {SubSeq(s, 1, n) : n \in 0 .. Len(s) - 1}

(* Every number is read back with what follows it, whichever width it is     *)
(* written and read with, as many bytes as VarintLength says long; a number  *)
(* whose last bytes are missing is not read (PutVarint, GetVarint).          *)
LOCAL Numbers ==
  /\ \A v \in 0 .. Max32 - 1 :
       /\ EncodeVarint32(v) = EncodeVarint64(v)
       /\ GetVarint32(EncodeVarint32(v) \o <<9>>) = Got(v, <<9>>)
       /\ Unmask(Mask(v)) = v
  /\ \A v \in Some64 :
       /\ DecodeFixed(EncodeFixed(v, 4)) = v
       /\ Len(EncodeVarint64(v)) = VarintLength(v)
       /\ GetVarint64(EncodeVarint64(v) \o <<9>>) = Got(v, <<9>>)
       /\ \A p \in CutOff(EncodeVarint64(v)) : GetVarint64(p) = Fail

(* A batch is read back as the records that were put into it or appended to  *)
(* it with another batch, under its own sequence number; no part of it is    *)
(* taken for a batch, wherever it is cut (WriteBatch::Iterate).              *)
LOCAL Batches ==
  \A k, v \in Strings :
    LET b1   == BatchPut(SetSequence(Clear, 258), k, v)
        b2   == BatchPut(BatchDelete(Clear, v), v, k)
        both == BatchAppend(b1, b2)
    IN  /\ Sequence(both) = 258
        /\ Iterate(both) = [ok |-> TRUE, calls |-> <<<<k, v>>, <<v>>, <<v, k>>>>]
        /\ \A p \in CutOff(both) \cup {both \o <<kTypeDeletion, 0>>} : ~Iterate(p).ok

(* The lengths of an entry, the handles of a footer and the parts of a lookup *)
(* key are read back; an entry is refused when a byte of its key or of its   *)
(* value is missing (DecodeEntry, Footer::DecodeFrom, LookupKey).            *)
LOCAL Blocks ==
  /\ \A k, v \in Strings, shared \in Some32 :
       LET lens  == <<shared, Len(k), Len(v)>>
           entry == EncodeVarint32(shared) \o EncodeVarint32(Len(k)) \o EncodeVarint32(Len(v)) \o k \o v
       IN  /\ DecodeEntry(entry) = Got(lens, k \o v)
           /\ \A p \in CutOff(entry) : DecodeEntry(p) = Fail
  /\ \A o1, o2, s1, s2 \in {0, 8, 4096, 65534} :
       LET h1 == [offset |-> o1, size |-> s1]
           h2 == [offset |-> o2, size |-> s2]
           f  == FooterEncodeTo(h1, h2)
       IN  /\ Len(f) = kEncodedLength
           /\ FooterDecodeFrom(f) = Got(<<h1, h2>>, <<>>)
           /\ FooterDecodeFrom([f EXCEPT ![Len(f)] = 0]) = Fail
  /\ \A k \in Strings, seq \in {0, 17, 4095} :
       LET parts == GetLengthPrefixedSlice(LookupKey(k, seq)).value
       IN  /\ SubSeq(parts, 1, Len(k)) = k
           /\ DecodeFixed(SubSeq(parts, Len(k) + 1, Len(parts))) \div 16 = seq

(* Every file the store names is recognised as what it is, with its number,  *)
(* no two of them have the same name, and a number too large for a uint64_t  *)
(* is refused and not cut (ParseFileName, ConsumeDecimalNumber).             *)
LOCAL Names ==
  LET Some     == {1, 9, 10, 99, 999, 1000, 65534, 65535}
      OfType   == {<<LogFileName(n), "log", n>> : n \in Some} \cup {<<TableFileName(n), "table", n>> : n \in Some}
                  \cup {<<TempFileName(n), "temp", n>> : n \in Some}
                  \cup {<<DescriptorFileName(n), "descriptor", n>> : n \in Some}
                  \cup {<<CurrentFileName, "current", 0>>, <<LockFileName, "lock", 0>>,
                        <<InfoLogFileName, "infolog", 0>>, <<OldInfoLogFileName, "infolog", 0>>}
      Numerals == UNION {[1 .. n -> {0, 3, 5, 6}] : n \in 1 .. 6}
      Value(ds) == MapThenSumSet(LAMBDA i : ds[i] * 10 ^ (Len(ds) - i), DOMAIN ds)
  IN  /\ \A f \in OfType : ParseFileName(f[1]) = [type |-> f[2], number |-> f[3]]
      /\ Cardinality({f[1] : f \in OfType}) = Cardinality(OfType)
      /\ \A ds \in Numerals :
           ConsumeDecimalNumber(ds) = IF Value(ds) < Max64 THEN Got(Value(ds), <<>>) ELSE Fail

ASSUME CodingLaws == Numbers /\ Batches /\ Blocks /\ Names
=============================================================================
