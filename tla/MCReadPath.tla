----------------------------- MODULE MCReadPath -----------------------------
EXTENDS ReadPath

MCKeys == {<<1, 1>>, <<1, 3>>, <<3>>}
MCHash(k) == (9 * Len(k) + 13 * k[Len(k)]) % 64

P(u) == [user |-> u, type |-> kTypeValue]
D(u) == [user |-> u, type |-> kTypeDeletion]

Layout(w, m, zero, one, fails) ==
  [written |-> w, mem |-> m, zero |-> zero, one |-> one, fails |-> fails]

\* Four writes that put, overwrite and delete, spread over the memtable, one
\* or two level-0 tables and level 1.
Histories == {<<P(a), P(b), P(<<1, 3>>), t>> :
                a \in {<<1, 1>>, <<3>>}, b \in MCKeys, t \in {D(<<1, 3>>), D(<<1, 1>>)}}

ByKey(w, seqs) ==
  SelectSeq(<<{s \in seqs : w[s].user = <<1, 1>>}, {s \in seqs : w[s].user # <<1, 1>>}>>,
            LAMBDA g : g # {})

MCLayouts == UNION {
  {Layout(w, {4}, <<{2, 3}>>, ByKey(w, {1}), FALSE),
   Layout(w, {}, << >>, ByKey(w, 1 .. 4), FALSE),
   Layout(w, {}, <<{1, 2}, {3, 4}>>, << >>, TRUE)} : w \in Histories}

\* Two overlapping files of level 0 and two files of level 1, of several blocks.
Ent(u, seq) == [key |-> InternalKey(u, seq, kTypeValue), value |-> seq]
SizedFiles ==
  <<BuildTable(<<Ent(<<1, 1>>, 9), Ent(<<1, 2>>, 8), Ent(<<1, 3>>, 7), Ent(<<3>>, 6)>>),
    BuildTable(<<Ent(<<1, 3>>, 5)>>),
    BuildTable(<<Ent(<<1, 1>>, 4), Ent(<<1, 2>>, 3)>>), BuildTable(<<Ent(<<2>>, 2), Ent(<<3>>, 1)>>)>>
Readable == [part |-> "none", block |-> EmptyBlock]

(* The estimates of adjacent ranges add up, and a range counts the whole of  *)
(* every file that lies in it, however its blocks are cut                    *)
(* (DBImpl::GetApproximateSizes).                                            *)
ASSUME SizesAddUp ==
  LET bounds == {<<0>>, <<1, 1>>, <<1, 2>>, <<1, 3>>, <<2>>, <<2, 1>>, <<3>>, <<3, 3>>}
      size(a, b) == GetApproximateSize(SizedFiles, a, b, Readable)
  IN  \A a, c \in bounds :
        /\ \A b \in bounds :
             ~Smaller(b, a) /\ ~Smaller(c, b) => size(a, c) = size(a, b) + size(b, c)
        /\ \A f \in ToSet(SizedFiles) :
             ~Smaller(ExtractUserKey(f.smallest), a) /\ Smaller(ExtractUserKey(f.largest), c)
               => size(a, c) >= FileSize(f)
        /\ Smaller(c, a) => size(a, c) = 0
=============================================================================
