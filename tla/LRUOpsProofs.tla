------------------------------ MODULE LRUOpsProofs -----------------------------
(***************************************************************************)
(* What the operations of an LRUCache shard do, for every set of keys and  *)
(* of values, every finite set of addresses and every capacity: the lemmas *)
(* that the proofs about the shard and about its clients share.            *)
(***************************************************************************)
EXTENDS LRUCacheOps, FiniteSetTheorems, WellFoundedInduction, TLAPS

Elems(s) == {s[i] : i \in 1..Len(s)}

--------------------------------------------------------------------------------
\* Lists.

\* Unlinking the node of e leaves the other entries, each once.
LEMMA RemoveLemma ==
  ASSUME NEW s \in Seq(Handle), NoDuplicates(s), NEW e \in Elems(s)
  PROVE  /\ LRU_Remove(s, e) \in Seq(Handle)
         /\ NoDuplicates(LRU_Remove(s, e))
         /\ Elems(LRU_Remove(s, e)) = Elems(s) \ {e}
<1> DEFINE i == CHOOSE j \in 1..Len(s) : s[j] = e
           t == LRU_Remove(s, e)
<1>1. i \in 1..Len(s) /\ s[i] = e
  BY DEF Elems
<1>2. Len(s) \in Nat /\ Len(s) - 1 \in Nat /\ \A j \in 1..Len(s) : s[j] \in Handle
  BY <1>1
<1>3. t = [j \in 1..(Len(s) - 1) |-> IF j < i THEN s[j] ELSE s[j + 1]]
  BY DEF LRU_Remove
<1> HIDE DEF i, t
<1>4. t \in [1..(Len(s) - 1) -> Handle]
  BY <1>1, <1>2, <1>3
<1>5. t \in Seq(Handle) /\ Len(t) = Len(s) - 1
  BY <1>2, <1>4
<1>6. \A j \in 1..Len(t) : t[j] = IF j < i THEN s[j] ELSE s[j + 1]
  BY <1>3, <1>5
<1>7. NoDuplicates(t)
  BY <1>1, <1>2, <1>5, <1>6 DEF NoDuplicates
<1>8. ASSUME NEW j \in 1..Len(t)  PROVE t[j] \in Elems(s) \ {e}
  BY <1>1, <1>2, <1>5, <1>6 DEF NoDuplicates, Elems
<1>9. ASSUME NEW j \in 1..Len(s), s[j] # e  PROVE s[j] \in Elems(t)
  <2>1. CASE j < i
    BY <2>1, <1>1, <1>2, <1>5, <1>6 DEF Elems
  <2>2. CASE j > i
    <3>1. j - 1 \in 1..Len(t) /\ t[j - 1] = s[j]
      BY <2>2, <1>1, <1>2, <1>5, <1>6
    <3> QED  BY <3>1 DEF Elems
  <2> QED  BY <2>1, <2>2, <1>1, <1>9, <1>2
<1>10. Elems(t) = Elems(s) \ {e}
  BY <1>8, <1>9 DEF Elems
<1> QED  BY <1>5, <1>7, <1>10 DEF t

\* Appending a new entry.
LEMMA AppendLemma ==
  ASSUME NEW s \in Seq(Handle), NoDuplicates(s), NEW e \in Handle, e \notin Elems(s)
  PROVE  /\ LRU_Append(s, e) \in Seq(Handle)
         /\ NoDuplicates(LRU_Append(s, e))
         /\ Elems(LRU_Append(s, e)) = Elems(s) \cup {e}
<1> DEFINE t == LRU_Append(s, e)
<1>1. t \in Seq(Handle) /\ Len(t) = Len(s) + 1 /\ Len(s) \in Nat
  BY DEF LRU_Append
<1>2. \A j \in 1..Len(t) : t[j] = IF j = Len(s) + 1 THEN e ELSE s[j]
  BY DEF LRU_Append
<1> HIDE DEF t
<1>3. NoDuplicates(t)
  BY <1>1, <1>2 DEF NoDuplicates, Elems
<1>4. Elems(t) \subseteq Elems(s) \cup {e}
  BY <1>1, <1>2 DEF Elems
<1>5. Elems(s) \subseteq Elems(t)
  BY <1>1, <1>2 DEF Elems
<1>6. e \in Elems(t)
  <2>1. Len(t) \in 1..Len(t) /\ t[Len(t)] = e
    BY <1>1, <1>2
  <2> QED  BY <2>1 DEF Elems
<1> QED  BY <1>1, <1>3, <1>4, <1>5, <1>6 DEF t

\* Dropping the n oldest entries.
LEMMA SuffixLemma ==
  ASSUME NEW s \in Seq(Handle), NoDuplicates(s), NEW n \in 0..Len(s)
  PROVE  /\ SubSeq(s, n + 1, Len(s)) \in Seq(Handle)
         /\ NoDuplicates(SubSeq(s, n + 1, Len(s)))
         /\ Elems(SubSeq(s, n + 1, Len(s))) = Elems(s) \ {s[i] : i \in 1..n}
         /\ Len(SubSeq(s, n + 1, Len(s))) = Len(s) - n
<1> DEFINE t == SubSeq(s, n + 1, Len(s))
<1>1. t \in Seq(Handle) /\ Len(t) = Len(s) - n /\ Len(s) \in Nat /\ n \in Nat
  OBVIOUS
<1>2. \A j \in 1..Len(t) : t[j] = s[j + n]
  BY <1>1
<1> HIDE DEF t
<1>3. NoDuplicates(t)
  BY <1>1, <1>2 DEF NoDuplicates
<1>4. ASSUME NEW j \in 1..Len(t)  PROVE t[j] \in Elems(s) \ {s[i] : i \in 1..n}
  BY <1>1, <1>2 DEF NoDuplicates, Elems
<1>5. ASSUME NEW j \in 1..Len(s), j > n  PROVE s[j] \in Elems(t)
  <2>1. j - n \in 1..Len(t) /\ t[j - n] = s[j]
    BY <1>1, <1>2, <1>5
  <2> QED  BY <2>1 DEF Elems
<1>6. Elems(t) = Elems(s) \ {s[i] : i \in 1..n}
  <2>1. Elems(t) \subseteq Elems(s) \ {s[i] : i \in 1..n}
    BY <1>4 DEF Elems
  <2>2. ASSUME NEW x \in Elems(s) \ {s[i] : i \in 1..n}  PROVE x \in Elems(t)
    <3>1. PICK j \in 1..Len(s) : s[j] = x
      BY DEF Elems
    <3>2. j > n
      BY <3>1, <1>1
    <3> QED  BY <3>1, <3>2, <1>5
  <2> QED  BY <2>1, <2>2
<1> QED  BY <1>1, <1>3, <1>6 DEF t

--------------------------------------------------------------------------------
\* References.

\* What UnrefAll does to the fields: entries with one reference are freed and
\* uncharged, the others lose one.
LEMMA UnrefShape ==
  ASSUME NEW V, NEW c, WellTyped(c, V), Charged(c), NEW E, E \subseteq Live(c)
  PROVE  LET d == UnrefAll(c, E)
             dead == {e \in E : c.ent[e].refs = 1}
         IN  /\ d.lru = c.lru /\ d.table = c.table
             /\ d.usage = c.usage - Cardinality(dead)
             /\ Live(d) = Live(c) \ dead
             /\ \A e \in Live(d) :
                  /\ d.ent[e].key = c.ent[e].key
                  /\ d.ent[e].value = c.ent[e].value
                  /\ d.ent[e].refs = IF e \in E THEN c.ent[e].refs - 1
                                                ELSE c.ent[e].refs
             /\ WellTyped(d, V)
             /\ Charged(d)
<1> DEFINE d == UnrefAll(c, E)
           dead == {e \in E : c.ent[e].refs = 1}
           u == c.usage - Cardinality(dead)
           f == [e \in Live(c) \ dead |->
                   IF e \in E THEN [c.ent[e] EXCEPT !.refs = @ - 1] ELSE c.ent[e]]
<1>1. d = [ent |-> f, table |-> c.table, lru |-> c.lru, usage |-> u]
  BY DEF UnrefAll
<1>2. IsFiniteSet(Live(c)) /\ IsFiniteSet(dead) /\ Cardinality(dead) \in Nat
  <2>1. IsFiniteSet(Live(c))
    BY HandleAssumption, FS_Subset DEF WellTyped
  <2>2. dead \in SUBSET Live(c)
    OBVIOUS
  <2>3. IsFiniteSet(dead)
    BY <2>1, <2>2, FS_Subset
  <2> QED  BY <2>1, <2>3, FS_CardinalityType
<1>3. u = Cardinality(Live(c) \ dead) /\ u \in Nat
  <2>1. Cardinality(Live(c) \ dead) = Cardinality(Live(c)) - Cardinality(Live(c) \cap dead)
    BY <1>2, FS_Difference
  <2>2. Live(c) \cap dead = dead
    OBVIOUS
  <2>3. IsFiniteSet(Live(c) \ dead)
    BY <1>2, FS_Difference
  <2> QED  BY <2>1, <2>2, <2>3, FS_CardinalityType DEF Charged
<1>4. ASSUME NEW e \in Live(c) \ dead
      PROVE  /\ f[e] \in Entry(V)
             /\ f[e].key = c.ent[e].key /\ f[e].value = c.ent[e].value
             /\ f[e].refs = IF e \in E THEN c.ent[e].refs - 1 ELSE c.ent[e].refs
  <2>1. c.ent[e] \in Entry(V)
    BY DEF WellTyped
  <2>2. e \in E => c.ent[e].refs # 1
    OBVIOUS
  <2>3. CASE e \in E
    <3>1. f[e] = [c.ent[e] EXCEPT !.refs = @ - 1]
      BY <2>3
    <3> QED  BY <3>1, <2>1, <2>2, <2>3 DEF Entry
  <2>4. CASE e \notin E
    BY <2>1, <2>4 DEF Entry
  <2> QED  BY <2>3, <2>4
<1>5. Live(d) = Live(c) \ dead /\ d.ent = f
  BY <1>1 DEF Live
<1>6. d.lru = c.lru /\ d.table = c.table /\ d.usage = u
  BY <1>1
<1>7. f \in [Live(c) \ dead -> Entry(V)]
  BY <1>4
<1> HIDE DEF f, u, d, dead
<1>8. WellTyped(d, V)
  BY <1>1, <1>3, <1>5, <1>6, <1>7 DEF WellTyped
<1>9. Charged(d)
  BY <1>3, <1>5, <1>6 DEF Charged
<1> QED  BY <1>4, <1>5, <1>6, <1>8, <1>9 DEF d, dead, u

\* A cache whose counts are exact, a table and a list without the entries E to
\* put in the place of its own, and what is left when E is unreferenced.
Attached(c, r, V) ==
  /\ r \in [Handle -> Nat]
  /\ WellTyped(c, V) /\ Charged(c)
  /\ Counted(c, r, InList(c))
  /\ InList(c) \subseteq Live(c)

Without(c, E, t, l) ==
  /\ E \subseteq InList(c)
  /\ l \in Seq(Handle) /\ NoDuplicates(l) /\ Elems(l) = InList(c) \ E
  /\ DOMAIN t \subseteq Key /\ t \in [DOMAIN t -> Handle]

Detached(c, E, t, l, d) ==
  /\ d.lru = l /\ d.table = t
  /\ InList(d) = InList(c) \ E
  /\ Live(d) \subseteq Live(c)
  /\ \A e \in Live(d) : d.ent[e].key = c.ent[e].key
  /\ d.usage = c.usage - Cardinality({e \in E : c.ent[e].refs = 1})

\* Entries that leave the list lose the list's reference and nothing else:
\* what stays on the list stays allocated, and the counts stay exact.
LEMMA DetachLemma ==
  ASSUME NEW V, NEW c, NEW r, Attached(c, r, V), NEW E, NEW t, NEW l, Without(c, E, t, l)
  PROVE  /\ Attached(UnrefAll(Relinked(c, t, l), E), r, V)
         /\ Detached(c, E, t, l, UnrefAll(Relinked(c, t, l), E))
<1> USE DEF Attached, Without, Detached
<1> DEFINE b == Relinked(c, t, l)
           d == UnrefAll(b, E)
           dead == {e \in E : c.ent[e].refs = 1}
<1>1. b.ent = c.ent /\ b.table = t /\ b.lru = l /\ b.usage = c.usage
      /\ b = [ent |-> b.ent, table |-> b.table, lru |-> b.lru, usage |-> b.usage]
  BY DEF Relinked
<1>2. Live(b) = Live(c)
  BY <1>1 DEF Live
<1> HIDE DEF b
<1>3. WellTyped(b, V) /\ Charged(b)
  BY <1>1, <1>2 DEF WellTyped, Charged
<1>4. dead = {e \in E : b.ent[e].refs = 1}
  BY <1>1
<1>5. E \subseteq Live(b)
  BY <1>2
<1>a. /\ d.lru = b.lru /\ d.table = b.table
      /\ d.usage = b.usage - Cardinality({e \in E : b.ent[e].refs = 1})
      /\ Live(d) = Live(b) \ {e \in E : b.ent[e].refs = 1}
      /\ \A e \in Live(d) :
           /\ d.ent[e].key = b.ent[e].key
           /\ d.ent[e].value = b.ent[e].value
           /\ d.ent[e].refs = IF e \in E THEN b.ent[e].refs - 1 ELSE b.ent[e].refs
      /\ WellTyped(d, V)
      /\ Charged(d)
  BY <1>3, <1>5, UnrefShape, Zenon
<1> HIDE DEF dead, d
<1>6. /\ d.lru = l /\ d.table = t
      /\ d.usage = c.usage - Cardinality(dead)
      /\ Live(d) = Live(c) \ dead
      /\ \A e \in Live(d) :
           /\ d.ent[e].key = c.ent[e].key
           /\ d.ent[e].refs = IF e \in E THEN c.ent[e].refs - 1 ELSE c.ent[e].refs
      /\ WellTyped(d, V)
      /\ Charged(d)
  BY <1>1, <1>2, <1>4, <1>a
<1>7. InList(d) = InList(c) \ E
  BY <1>6 DEF InList, Elems
<1>8. \A e \in Live(c) : c.ent[e].refs \in Nat /\ r[e] \in Nat
  BY DEF WellTyped, Entry
<1>9. InList(d) \subseteq Live(d)
  BY <1>6, <1>7 DEF dead
<1>10. \A e \in Live(d) : d.ent[e].refs = r[e] + (IF e \in InList(d) THEN 1 ELSE 0)
  <2> SUFFICES ASSUME NEW e \in Live(d)
               PROVE  d.ent[e].refs = r[e] + (IF e \in InList(d) THEN 1 ELSE 0)
    OBVIOUS
  <2>1. e \in Live(c) /\ d.ent[e].refs = IF e \in E THEN c.ent[e].refs - 1
                                                   ELSE c.ent[e].refs
    BY <1>6
  <2>2. c.ent[e].refs = r[e] + (IF e \in InList(c) THEN 1 ELSE 0)
    BY <2>1 DEF Counted
  <2>3. r[e] \in Nat
    BY <2>1, <1>8
  <2> QED  BY <2>1, <2>2, <2>3, <1>7
<1>11. \A e \in Handle : r[e] > 0 => e \in Live(d)
  <2> SUFFICES ASSUME NEW e \in Handle, r[e] > 0  PROVE e \in Live(c) /\ e \notin dead
    BY <1>6
  <2>1. e \in Live(c) /\ (e \in E => c.ent[e].refs = r[e] + 1)
    BY DEF Counted
  <2>2. r[e] \in Nat
    OBVIOUS
  <2> QED  BY <2>1, <2>2 DEF dead
<1>12. Counted(d, r, InList(d))
  BY <1>10, <1>11 DEF Counted
<1>13. Live(d) \subseteq Live(c)
  BY <1>6
<1> QED  BY <1>6, <1>7, <1>9, <1>12, <1>13 DEF d, b, dead

--------------------------------------------------------------------------------
\* The operations.

Good(c, r, V) ==
  /\ r \in [Handle -> Nat]
  /\ WellTyped(c, V)
  /\ Counted(c, r, InList(c))
  /\ Linked(c)
  /\ Charged(c)

Unlinks(c, E, t, l) ==
  /\ E \subseteq InList(c)
  /\ l \in Seq(Handle) /\ NoDuplicates(l) /\ Elems(l) = InList(c) \ E
  /\ DOMAIN t = DOMAIN c.table \ {c.ent[e].key : e \in E}
  /\ t = [k \in DOMAIN t |-> c.table[k]]

\* Entries that leave the list and the table together.
LEMMA UnlinkLemma ==
  ASSUME NEW V, NEW c, NEW r, Good(c, r, V), NEW E, NEW t, NEW l, Unlinks(c, E, t, l)
  PROVE  LET d == UnrefAll(Relinked(c, t, l), E)
         IN  /\ Good(d, r, V) /\ d.lru = l
             /\ d.usage = c.usage - Cardinality({e \in E : c.ent[e].refs = 1})
<1> USE DEF Unlinks
<1> DEFINE d == UnrefAll(Relinked(c, t, l), E)
<1>0. Attached(c, r, V)
  BY DEF Good, Linked, Attached
<1>1. Without(c, E, t, l)
  BY DEF Good, WellTyped, Without
<1>a. Attached(d, r, V) /\ Detached(c, E, t, l, d)
  BY <1>0, <1>1, DetachLemma
<1> HIDE DEF d
<1>2. /\ WellTyped(d, V) /\ Charged(d) /\ Counted(d, r, InList(d))
      /\ d.lru = l /\ d.table = t
      /\ InList(d) = InList(c) \ E
      /\ InList(d) \subseteq Live(d) /\ Live(d) \subseteq Live(c)
      /\ \A e \in Live(d) : d.ent[e].key = c.ent[e].key
      /\ d.usage = c.usage - Cardinality({e \in E : c.ent[e].refs = 1})
  BY <1>a DEF Attached, Detached
<1>3. \A k \in DOMAIN d.table : d.table[k] \in InList(d) /\ d.ent[d.table[k]].key = k
  <2> SUFFICES ASSUME NEW k \in DOMAIN t
               PROVE  t[k] \in InList(d) /\ d.ent[t[k]].key = k
    BY <1>2
  <2>1. t[k] = c.table[k] /\ k \in DOMAIN c.table /\ k \notin {c.ent[e].key : e \in E}
    OBVIOUS
  <2>2. c.table[k] \in InList(c) /\ c.ent[c.table[k]].key = k
    BY <2>1 DEF Good, Linked
  <2> QED  BY <1>2, <2>1, <2>2
<1>4. \A e \in InList(d) : d.ent[e].key \in DOMAIN d.table /\ d.table[d.ent[e].key] = e
  <2> SUFFICES ASSUME NEW e \in InList(c), e \notin E
               PROVE  c.ent[e].key \in DOMAIN t /\ t[c.ent[e].key] = e
    BY <1>2
  <2>1. \A x \in InList(c) : c.ent[x].key \in DOMAIN c.table /\ c.table[c.ent[x].key] = x
    BY DEF Good, Linked
  <2>2. c.ent[e].key \notin {c.ent[x].key : x \in E}
    BY <2>1
  <2> QED  BY <2>1, <2>2
<1>5. Linked(d)
  BY <1>2, <1>3, <1>4 DEF Linked
<1>6. r \in [Handle -> Nat]
  BY DEF Good
<1> QED  BY <1>2, <1>5, <1>6 DEF Good, d

\* Charges are never negative, so unlinking never raises usage_.
LEMMA UsageFalls ==
  ASSUME NEW V, NEW c, NEW r, Good(c, r, V), NEW E, E \subseteq Live(c)
  PROVE  Cardinality({e \in E : c.ent[e].refs = 1}) \in Nat
<1>1. IsFiniteSet(Live(c))
  BY HandleAssumption, FS_Subset DEF Good, WellTyped
<1>2. {e \in E : c.ent[e].refs = 1} \in SUBSET Live(c)
  OBVIOUS
<1>3. IsFiniteSet({e \in E : c.ent[e].refs = 1})
  BY <1>1, <1>2, FS_Subset
<1> QED  BY <1>3, FS_CardinalityType

Fits(c) == c.usage > Capacity => c.lru = <<>>

\* LRUCache::Lookup of a key in the table.
LEMMA LookupLemma ==
  ASSUME NEW V, NEW c, NEW r, Good(c, r, V), Fits(c), NEW k \in DOMAIN c.table
  PROVE  /\ Good(Lookup(c, k), [r EXCEPT ![c.table[k]] = @ + 1], V)
         /\ Fits(Lookup(c, k))
<1> DEFINE e == c.table[k]
           d == Lookup(c, k)
           f == [c.ent EXCEPT ![e].refs = @ + 1]
           l == LRU_Append(LRU_Remove(c.lru, e), e)
           q == [r EXCEPT ![e] = @ + 1]
<1>1. /\ e \in InList(c) /\ e \in Live(c) /\ e \in Handle
      /\ c.ent \in [Live(c) -> Entry(V)]
  BY DEF Good, Linked, WellTyped
<1>2. c.lru \in Seq(Handle) /\ NoDuplicates(c.lru) /\ e \in Elems(c.lru)
  BY <1>1 DEF Good, Linked, WellTyped, InList, Elems
<1>3. l \in Seq(Handle) /\ NoDuplicates(l) /\ Elems(l) = Elems(c.lru)
  <2>1. /\ LRU_Remove(c.lru, e) \in Seq(Handle)
        /\ NoDuplicates(LRU_Remove(c.lru, e))
        /\ Elems(LRU_Remove(c.lru, e)) = Elems(c.lru) \ {e}
    BY <1>2, RemoveLemma
  <2> DEFINE s == LRU_Remove(c.lru, e)
  <2>2. e \notin Elems(s)
    BY <2>1
  <2> HIDE DEF s
  <2>3. LRU_Append(s, e) \in Seq(Handle) /\ NoDuplicates(LRU_Append(s, e))
        /\ Elems(LRU_Append(s, e)) = Elems(s) \cup {e}
    <3>1. s \in Seq(Handle) /\ NoDuplicates(s) /\ e \in Handle
      BY <2>1, <1>1 DEF s
    <3> HIDE DEF e
    <3> QED  BY <3>1, <2>2, AppendLemma, Zenon
  <2>4. Elems(s) \cup {e} = Elems(c.lru)
    BY <2>1, <1>2 DEF s
  <2> QED  BY <2>3, <2>4 DEF s
<1>4. d = [ent |-> f, table |-> c.table, lru |-> l, usage |-> c.usage]
  BY DEF Lookup
<1>5. DOMAIN f = Live(c) /\ \A x \in Live(c) :
        /\ f[x] \in Entry(V)
        /\ f[x].key = c.ent[x].key
        /\ f[x].refs = IF x = e THEN c.ent[x].refs + 1 ELSE c.ent[x].refs
  BY <1>1 DEF Live, Entry
<1>6. r \in [Handle -> Nat] /\ q \in [Handle -> Nat]
      /\ \A x \in Handle : q[x] = IF x = e THEN r[x] + 1 ELSE r[x]
  BY <1>1 DEF Good
<1> HIDE DEF f, l, q, e, d
<1>7. Live(d) = Live(c) /\ InList(d) = InList(c) /\ d.ent = f
      /\ d.table = c.table /\ d.usage = c.usage /\ d.lru = l
  BY <1>3, <1>4, <1>5 DEF Live, InList, Elems
<1>8. WellTyped(d, V)
  <2>1. f \in [Live(c) -> Entry(V)]
    <3>1. f = [x \in Live(c) |-> f[x]]
      BY <1>1 DEF f, Live
    <3> QED  BY <3>1, <1>5
  <2> QED  BY <2>1, <1>3, <1>4, <1>7 DEF Good, WellTyped
<1>9. Counted(d, q, InList(d))
  <2>1. ASSUME NEW x \in Live(c)
        PROVE  f[x].refs = q[x] + (IF x \in InList(c) THEN 1 ELSE 0)
    <3>1. c.ent[x].refs = r[x] + (IF x \in InList(c) THEN 1 ELSE 0) /\ x \in Handle
      BY DEF Good, Counted, WellTyped
    <3>2. r[x] \in Nat
      BY <1>6, <3>1
    <3> QED  BY <3>1, <3>2, <1>5, <1>6
  <2>2. ASSUME NEW x \in Handle, q[x] > 0  PROVE x \in Live(c)
    BY <2>2, <1>1, <1>6 DEF Good, Counted
  <2> QED  BY <2>1, <2>2, <1>7 DEF Counted
<1>10. Linked(d)
  <2>1. Linked(c)
    BY DEF Good
  <2>2. InList(d) \subseteq Live(d) /\ NoDuplicates(d.lru)
    BY <2>1, <1>3, <1>7 DEF Linked
  <2>3. ASSUME NEW j \in DOMAIN c.table
        PROVE  c.table[j] \in InList(c) /\ f[c.table[j]].key = j
    BY <2>1, <1>5 DEF Linked
  <2>4. ASSUME NEW x \in InList(c)
        PROVE  f[x].key \in DOMAIN c.table /\ c.table[f[x].key] = x
    BY <2>1, <1>5 DEF Linked
  <2> QED  BY <2>2, <2>3, <2>4, <1>7 DEF Linked
<1>11. Charged(d)
  BY <1>7 DEF Good, Charged
<1>12. Fits(d)
  <2>1. c.lru # <<>>
    BY <1>2 DEF Elems
  <2> QED  BY <2>1, <1>7 DEF Fits
<1> QED  BY <1>6, <1>8, <1>9, <1>10, <1>11, <1>12 DEF Good, d, q, e

\* LRUCache::Release of a handle that the client holds.
LEMMA ReleaseLemma ==
  ASSUME NEW V, NEW c, NEW r, Good(c, r, V), Fits(c), NEW e \in Handle, r[e] > 0
  PROVE  /\ Good(Release(c, e), [r EXCEPT ![e] = @ - 1], V)
         /\ Fits(Release(c, e))
<1> DEFINE d == UnrefAll(c, {e})
           q == [r EXCEPT ![e] = @ - 1]
           dead == {x \in {e} : c.ent[x].refs = 1}
<1>1. Release(c, e) = d
  BY DEF Release, Unref
<1>2. {e} \subseteq Live(c) /\ WellTyped(c, V) /\ Charged(c)
  BY DEF Good, Counted
<1>3. /\ d.lru = c.lru /\ d.table = c.table
      /\ d.usage = c.usage - Cardinality(dead)
      /\ Live(d) = Live(c) \ dead
      /\ \A x \in Live(d) :
           /\ d.ent[x].key = c.ent[x].key
           /\ d.ent[x].value = c.ent[x].value
           /\ d.ent[x].refs = IF x \in {e} THEN c.ent[x].refs - 1 ELSE c.ent[x].refs
      /\ WellTyped(d, V)
      /\ Charged(d)
  BY <1>2, UnrefShape, Zenon
<1>4. Cardinality(dead) \in Nat
  BY <1>2, UsageFalls
<1>5. dead \subseteq {e} /\ (e \in dead <=> c.ent[e].refs = 1)
  OBVIOUS
<1> HIDE DEF d, dead
<1>6. r \in [Handle -> Nat] /\ q \in [Handle -> Nat]
      /\ \A x \in Handle : q[x] = IF x = e THEN r[x] - 1 ELSE r[x]
  BY DEF Good
<1> HIDE DEF q
<1>7. InList(d) = InList(c)
  BY <1>3 DEF InList
<1>8. ASSUME NEW x \in Live(c)
      PROVE  /\ c.ent[x].refs = r[x] + (IF x \in InList(c) THEN 1 ELSE 0)
             /\ x \in Handle /\ r[x] \in Nat
  BY <1>6 DEF Good, Counted, WellTyped
<1>9. InList(d) \subseteq Live(d)
  <2>1. InList(c) \subseteq Live(c)
    BY DEF Good, Linked
  <2> QED  BY <2>1, <1>2, <1>3, <1>5, <1>7, <1>8
<1>10. Counted(d, q, InList(d))
  <2>1. ASSUME NEW x \in Live(d)
        PROVE  d.ent[x].refs = q[x] + (IF x \in InList(d) THEN 1 ELSE 0)
    BY <1>3, <1>6, <1>7, <1>8
  <2>2. ASSUME NEW x \in Handle, q[x] > 0  PROVE x \in Live(d)
    <3>1. r[x] > 0 /\ x \in Live(c)
      BY <2>2, <1>6 DEF Good, Counted
    <3>2. x = e => c.ent[x].refs > 1
      BY <2>2, <3>1, <1>6, <1>8
    <3> QED  BY <3>1, <3>2, <1>3, <1>5
  <2> QED  BY <2>1, <2>2 DEF Counted
<1>11. Linked(d)
  BY <1>3, <1>7, <1>9 DEF Good, Linked
<1>12. Fits(d)
  <2>1. c.usage \in Nat
    BY <1>2 DEF WellTyped
  <2> QED  BY <2>1, <1>3, <1>4, CapacityAssumption DEF Fits
<1> QED  BY <1>1, <1>3, <1>6, <1>10, <1>11, <1>12 DEF Good, q

\* LRUCache::Erase, whether or not the table has the key.
LEMMA EraseLemma ==
  ASSUME NEW V, NEW c, NEW r, Good(c, r, V), Fits(c), NEW k
  PROVE  Good(Erase(c, k), r, V) /\ Fits(Erase(c, k))
<1>1. CASE k \notin DOMAIN c.table
  BY <1>1 DEF Erase
<1>2. CASE k \in DOMAIN c.table
  <2> DEFINE e == c.table[k]
             E == {e}
             l == LRU_Remove(c.lru, e)
             t == TableRemove(c.table, {k})
             d == UnrefAll(Relinked(c, t, l), E)
  <2>1. Erase(c, k) = d
    BY <1>2 DEF Erase, Unref
  <2>2. e \in InList(c) /\ c.ent[e].key = k /\ E \subseteq InList(c)
    BY <1>2 DEF Good, Linked
  <2>3. l \in Seq(Handle) /\ NoDuplicates(l) /\ Elems(l) = InList(c) \ E
    <3>1. c.lru \in Seq(Handle) /\ NoDuplicates(c.lru) /\ e \in Elems(c.lru)
      BY <2>2 DEF Good, Linked, WellTyped, InList, Elems
    <3>2. Elems(c.lru) = InList(c)
      BY DEF Elems, InList
    <3> QED  BY <3>1, <3>2, RemoveLemma
  <2>4. /\ DOMAIN t = DOMAIN c.table \ {c.ent[x].key : x \in E}
        /\ t = [j \in DOMAIN t |-> c.table[j]]
    BY <2>2 DEF TableRemove
  <2> HIDE DEF e, E, l, t
  <2>5. Good(d, r, V) /\ d.lru = l
        /\ d.usage = c.usage - Cardinality({x \in E : c.ent[x].refs = 1})
    <3>1. Unlinks(c, E, t, l)
      BY <2>2, <2>3, <2>4 DEF Unlinks
    <3> QED  BY <3>1, UnlinkLemma
  <2>6. Fits(d)
    <3>1. c.lru # <<>> /\ E \subseteq Live(c)
      BY <2>2 DEF InList, Good, Linked
    <3>2. Cardinality({x \in E : c.ent[x].refs = 1}) \in Nat
      BY <3>1, UsageFalls
    <3>3. c.usage \in Nat
      BY DEF Good, WellTyped
    <3> QED  BY <2>5, <3>1, <3>2, <3>3, CapacityAssumption DEF Fits
  <2> QED  BY <2>1, <2>5, <2>6
<1> QED  BY <1>1, <1>2

\* The loop of Insert ends: it stops at the latest with an empty list, and
\* Evictions is the first round after which its condition fails.
LEMMA EvictionsLemma ==
  ASSUME NEW c, c.lru \in Seq(Handle)
  PROVE  Evictions(c) \in 0..Len(c.lru) /\ LoopEnds(c, Evictions(c))
<1> DEFINE S == {n \in 0..Len(c.lru) : LoopEnds(c, n)}
           R == OpToRel(<, Nat)
<1>1. Len(c.lru) \in Nat
  OBVIOUS
<1>2. Len(c.lru) \in S /\ S \subseteq Nat
  BY <1>1 DEF LoopEnds
<1>3. PICK n \in S : \A m \in S : <<m, n>> \notin R
  <2>1. IsWellFoundedOn(R, Nat)
    BY NatLessThanWellFounded
  <2> HIDE DEF R, S
  <2> QED  BY <2>1, <1>2, WFMin
<1>4. n \in 0..Len(c.lru) /\ LoopEnds(c, n) /\ n \in Nat
  BY <1>1
<1>5. ASSUME NEW m \in 0..(n - 1)  PROVE ~LoopEnds(c, m)
  <2>1. m \in Nat /\ m < n /\ m \in 0..Len(c.lru)
    BY <1>1, <1>4
  <2>2. <<m, n>> \in R
    BY <2>1, <1>4 DEF OpToRel
  <2> QED  BY <1>3, <2>1, <2>2
<1>6. \E x \in 0..Len(c.lru) : LoopEnds(c, x) /\ \A m \in 0..(x - 1) : ~LoopEnds(c, m)
  BY <1>4, <1>5
<1> QED  BY <1>6 DEF Evictions

\* The loop of Insert leaves a consistent shard, within its capacity or empty.
LEMMA EvictLoopLemma ==
  ASSUME NEW V, NEW c, NEW r, Good(c, r, V)
  PROVE  Good(EvictLoop(c), r, V) /\ Fits(EvictLoop(c))
<1> DEFINE n == Evictions(c)
           E == Oldest(c, n)
           l == SubSeq(c.lru, n + 1, Len(c.lru))
           t == TableRemove(c.table, {c.ent[e].key : e \in E})
           d == UnrefAll(Relinked(c, t, l), E)
<1>1. EvictLoop(c) = d
  BY DEF EvictLoop
<1>2. c.lru \in Seq(Handle) /\ NoDuplicates(c.lru)
  BY DEF Good, WellTyped, Linked
<1>3. n \in 0..Len(c.lru) /\ LoopEnds(c, n) /\ Len(c.lru) \in Nat
  BY <1>2, EvictionsLemma
<1> HIDE DEF n
<1>4. E \subseteq InList(c)
  BY <1>3 DEF Oldest, InList
<1>a. Len(l) = Len(c.lru) - n
  BY <1>2, <1>3, SuffixLemma
<1>5. l \in Seq(Handle) /\ NoDuplicates(l) /\ Elems(l) = InList(c) \ E
  BY <1>2, <1>3, SuffixLemma DEF Oldest, InList, Elems
<1>6. /\ DOMAIN t = DOMAIN c.table \ {c.ent[x].key : x \in E}
      /\ t = [j \in DOMAIN t |-> c.table[j]]
  BY DEF TableRemove
<1>7. LoopEnds(c, n) => \/ n = Len(c.lru)
                        \/ c.usage - Cardinality({e \in E : c.ent[e].refs = 1}) <= Capacity
  BY DEF LoopEnds, FreedByEvicting
<1> HIDE DEF E, l, t
<1>8. Good(d, r, V) /\ d.lru = l
      /\ d.usage = c.usage - Cardinality({x \in E : c.ent[x].refs = 1})
  <2>1. Unlinks(c, E, t, l)
    BY <1>4, <1>5, <1>6 DEF Unlinks
  <2> QED  BY <2>1, UnlinkLemma
<1> HIDE DEF d
<1>9. d.usage \in Nat
  BY <1>8 DEF Good, WellTyped
<1>10. Fits(d)
  <2>1. CASE n = Len(c.lru)
    <3>1. l = <<>>
      BY <2>1, <1>3, <1>5, <1>a
    <3> QED  BY <3>1, <1>8 DEF Fits
  <2>2. CASE n # Len(c.lru)
    BY <2>2, <1>3, <1>7, <1>8, <1>9, CapacityAssumption DEF Fits
  <2> QED  BY <2>1, <2>2
<1> QED  BY <1>1, <1>8, <1>10

\* What an insertion has done before the displaced entry is unreferenced.
Allocated(c, k, e, d) ==
  /\ Live(d) = Live(c) \cup {e} /\ InList(d) = InList(c) \cup {e}
  /\ d.lru \in Seq(Handle) /\ NoDuplicates(d.lru)
  /\ d.ent[e].key = k /\ \A x \in Live(c) : d.ent[x] = c.ent[x]
  /\ DOMAIN d.table = DOMAIN c.table \cup {k}
  /\ d.table \in [DOMAIN d.table -> Handle]
  /\ d.table[k] = e /\ \A j \in DOMAIN c.table : j # k => d.table[j] = c.table[j]

\* A new entry at an address that is not in use: it starts with the list's
\* reference and the caller's.
LEMMA AllocateLemma ==
  ASSUME NEW V, NEW c, NEW r, Good(c, r, V),
         NEW k \in Key, NEW v \in V, NEW e \in Handle, e \notin Live(c)
  PROVE  /\ Attached(Allocate(c, k, v, e), [r EXCEPT ![e] = 1], V)
         /\ Allocated(c, k, e, Allocate(c, k, v, e))
<1> DEFINE d == Allocate(c, k, v, e)
           q == [r EXCEPT ![e] = 1]
           f == [h \in Live(c) \cup {e} |->
                   IF h = e THEN [key |-> k, refs |-> 2, value |-> v] ELSE c.ent[h]]
           t == TableInsert(c.table, k, e)
           l == LRU_Append(c.lru, e)
           u == c.usage + 1
<1>1. d = [ent |-> f, table |-> t, lru |-> l, usage |-> u]
  BY DEF Allocate
<1>2. /\ c.ent \in [Live(c) -> Entry(V)] /\ Live(c) \subseteq Handle
      /\ c.usage \in Nat /\ c.lru \in Seq(Handle) /\ NoDuplicates(c.lru)
      /\ DOMAIN c.table \subseteq Key /\ c.table \in [DOMAIN c.table -> Handle]
      /\ InList(c) = Elems(c.lru) /\ InList(c) \subseteq Live(c)
      /\ r \in [Handle -> Nat]
  BY DEF Good, WellTyped, Linked, InList, Elems
<1>3. r[e] = 0 /\ q \in [Handle -> Nat]
      /\ \A x \in Handle : q[x] = IF x = e THEN 1 ELSE r[x]
  BY <1>2 DEF Good, Counted
<1>4. /\ DOMAIN f = Live(c) \cup {e} /\ f \in [Live(c) \cup {e} -> Entry(V)]
      /\ f[e].key = k /\ f[e].refs = 2 /\ \A x \in Live(c) : f[x] = c.ent[x]
  <2>1. [key |-> k, refs |-> 2, value |-> v] \in Entry(V)
    BY DEF Entry
  <2>2. f[e] = [key |-> k, refs |-> 2, value |-> v]
    OBVIOUS
  <2> QED  BY <2>1, <2>2, <1>2
<1>5. l \in Seq(Handle) /\ NoDuplicates(l) /\ Elems(l) = InList(c) \cup {e}
  <2>1. e \notin Elems(c.lru)
    BY <1>2
  <2> QED  BY <2>1, <1>2, AppendLemma
<1>6. /\ DOMAIN t = DOMAIN c.table \cup {k} /\ t \in [DOMAIN t -> Handle]
      /\ t[k] = e /\ \A j \in DOMAIN c.table : j # k => t[j] = c.table[j]
  BY <1>2 DEF TableInsert
<1>7. u \in Nat /\ u = Cardinality(Live(c) \cup {e})
  <2>1. IsFiniteSet(Live(c))
    BY <1>2, HandleAssumption, FS_Subset
  <2>2. Cardinality(Live(c) \cup {e}) = Cardinality(Live(c)) + 1
    BY <2>1, FS_AddElement
  <2> QED  BY <2>2, <1>2 DEF Good, Charged
<1> HIDE DEF d, q, f, t, l, u
<1>8. /\ d.ent = f /\ d.table = t /\ d.lru = l /\ d.usage = u
      /\ d = [ent |-> d.ent, table |-> d.table, lru |-> d.lru, usage |-> d.usage]
  BY <1>1
<1>9. Live(d) = Live(c) \cup {e} /\ InList(d) = InList(c) \cup {e}
  BY <1>4, <1>5, <1>8 DEF Live, InList, Elems
<1>10. Allocated(c, k, e, d)
  BY <1>4, <1>5, <1>6, <1>8, <1>9 DEF Allocated
<1>11. WellTyped(d, V) /\ Charged(d)
  BY <1>2, <1>4, <1>5, <1>6, <1>7, <1>8, <1>9 DEF WellTyped, Charged
<1>12. Counted(d, q, InList(d))
  <2>1. ASSUME NEW x \in Live(d)
        PROVE  d.ent[x].refs = q[x] + (IF x \in InList(d) THEN 1 ELSE 0)
    <3>1. CASE x = e
      BY <3>1, <1>3, <1>4, <1>8, <1>9
    <3>2. CASE x # e
      <4>1. x \in Live(c) /\ c.ent[x].refs = r[x] + (IF x \in InList(c) THEN 1 ELSE 0)
        BY <3>2, <1>9 DEF Good, Counted
      <4> QED  BY <4>1, <3>2, <1>2, <1>3, <1>4, <1>8, <1>9
    <3> QED  BY <3>1, <3>2
  <2>2. ASSUME NEW x \in Handle, q[x] > 0  PROVE x \in Live(d)
    BY <2>2, <1>3, <1>9 DEF Good, Counted
  <2> QED  BY <2>1, <2>2 DEF Counted
<1>13. Attached(d, q, V)
  BY <1>2, <1>3, <1>9, <1>11, <1>12 DEF Attached
<1> QED  BY <1>10, <1>13 DEF d, q

\* Everything Insert does before its loop.  The displaced entry, if any,
\* leaves the list; the table already names the new one.
LEMMA LinkLemma ==
  ASSUME NEW V, NEW c, NEW r, Good(c, r, V),
         NEW k \in Key, NEW v \in V, NEW e \in Handle, e \notin Live(c)
  PROVE  Good(Link(c, k, v, e), [r EXCEPT ![e] = 1], V)
<1> DEFINE a == Allocate(c, k, v, e)
           q == [r EXCEPT ![e] = 1]
<1>1. Attached(a, q, V) /\ Allocated(c, k, e, a)
  BY AllocateLemma
<1>2. /\ InList(c) \subseteq Live(c)
      /\ \A j \in DOMAIN c.table : c.table[j] \in InList(c) /\ c.ent[c.table[j]].key = j
      /\ \A x \in InList(c) : c.ent[x].key \in DOMAIN c.table /\ c.table[c.ent[x].key] = x
  BY DEF Good, Linked
<1>3. CASE k \notin DOMAIN c.table
  <2>1. Link(c, k, v, e) = a
    BY <1>3 DEF Link
  <2> HIDE DEF a, q
  <2>2. Linked(a)
    <3>1. InList(a) \subseteq Live(a) /\ NoDuplicates(a.lru)
      BY <1>1 DEF Attached, Allocated
    <3>2. ASSUME NEW j \in DOMAIN a.table
          PROVE  a.table[j] \in InList(a) /\ a.ent[a.table[j]].key = j
      BY <1>1, <1>2 DEF Allocated
    <3>3. ASSUME NEW x \in InList(a)
          PROVE  a.ent[x].key \in DOMAIN a.table /\ a.table[a.ent[x].key] = x
      BY <1>1, <1>2, <1>3 DEF Allocated
    <3> QED  BY <3>1, <3>2, <3>3 DEF Linked
  <2>3. Good(a, q, V)
    BY <2>2, <1>1 DEF Good, Attached
  <2> QED  BY <2>1, <2>3 DEF q
<1>4. CASE k \in DOMAIN c.table
  <2> DEFINE o == c.table[k]
             E == {o}
             t == a.table
             l == LRU_Remove(a.lru, o)
             d == UnrefAll(Relinked(a, t, l), E)
  <2>1. Link(c, k, v, e) = d
    BY <1>4 DEF Link, Unref
  <2> HIDE DEF a, q
  <2>2. o \in InList(c) /\ o # e /\ o \in InList(a) /\ InList(a) = Elems(a.lru)
    BY <1>1, <1>2, <1>4 DEF Allocated, InList, Elems
  <2>3. l \in Seq(Handle) /\ NoDuplicates(l) /\ Elems(l) = InList(a) \ E
    <3>1. a.lru \in Seq(Handle) /\ NoDuplicates(a.lru) /\ o \in Elems(a.lru)
      BY <2>2, <1>1 DEF Allocated
    <3> QED  BY <3>1, <2>2, RemoveLemma
  <2>4. Without(a, E, t, l)
    BY <2>2, <2>3, <1>1 DEF Without, Attached, WellTyped
  <2> HIDE DEF l, t, E
  <2>5. Attached(d, q, V) /\ Detached(a, E, t, l, d)
    BY <2>4, <1>1, DetachLemma
  <2> HIDE DEF d
  <2>6. /\ InList(d) = InList(a) \ {o} /\ InList(d) \subseteq Live(d)
        /\ Live(d) \subseteq Live(a) /\ NoDuplicates(d.lru) /\ d.table = a.table
        /\ \A x \in Live(d) : d.ent[x].key = a.ent[x].key
    BY <2>3, <2>5 DEF Attached, Detached, E, t
  <2>7. ASSUME NEW j \in DOMAIN d.table
        PROVE  d.table[j] \in InList(d) /\ d.ent[d.table[j]].key = j
    <3>1. a.table[j] \in InList(a) /\ a.table[j] # o /\ a.ent[a.table[j]].key = j
      <4>1. CASE j = k
        BY <4>1, <2>2, <1>1 DEF Allocated
      <4>2. CASE j # k
        <5>1. j \in DOMAIN c.table /\ a.table[j] = c.table[j]
          BY <4>2, <2>6, <1>1 DEF Allocated
        <5>2. c.table[j] \in InList(c) /\ c.ent[c.table[j]].key = j /\ c.ent[o].key = k
          BY <5>1, <1>2, <1>4
        <5> QED  BY <4>2, <5>1, <5>2, <1>1, <1>2 DEF Allocated
      <4> QED  BY <4>1, <4>2
    <3> QED  BY <3>1, <2>6
  <2>8. ASSUME NEW x \in InList(d)
        PROVE  d.ent[x].key \in DOMAIN d.table /\ d.table[d.ent[x].key] = x
    <3>1. d.ent[x].key = a.ent[x].key /\ x \in InList(a) /\ x # o
      BY <2>6
    <3>2. a.ent[x].key \in DOMAIN a.table /\ a.table[a.ent[x].key] = x
      BY <3>1, <1>1, <1>2 DEF Allocated
    <3> QED  BY <3>1, <3>2, <2>6
  <2>9. Linked(d)
    BY <2>6, <2>7, <2>8 DEF Linked
  <2>10. Good(d, q, V)
    BY <2>5, <2>9 DEF Good, Attached
  <2> QED  BY <2>1, <2>10 DEF q
<1> QED  BY <1>3, <1>4

\* LRUCache::Insert at an address that is not in use.
LEMMA InsertLemma ==
  ASSUME NEW V, NEW c, NEW r, Good(c, r, V),
         NEW k \in Key, NEW v \in V, NEW e \in Handle, e \notin Live(c)
  PROVE  /\ Good(Insert(c, k, v, e), [r EXCEPT ![e] = 1], V)
         /\ Fits(Insert(c, k, v, e))
<1>1. Good(Link(c, k, v, e), [r EXCEPT ![e] = 1], V)
  BY LinkLemma
<1> QED  BY <1>1, EvictLoopLemma DEF Insert

\* LRUCache::~LRUCache: the list's references go, the clients' stay counted.
LEMMA DestroyLemma ==
  ASSUME NEW V, NEW c, NEW r, Good(c, r, V)
  PROVE  Good(Destroy(c), r, V) /\ Fits(Destroy(c))
<1> DEFINE E == InList(c)
           l == <<>>
           t == <<>>
           d == UnrefAll(Relinked(c, t, l), E)
<1>1. Destroy(c) = d
  BY DEF Destroy
<1>2. l \in Seq(Handle) /\ NoDuplicates(l) /\ Elems(l) = InList(c) \ E
  BY DEF NoDuplicates, Elems
<1>a. DOMAIN t = {}
  OBVIOUS
<1>3. t = [j \in DOMAIN t |-> c.table[j]]
  OBVIOUS
<1>4. DOMAIN c.table \subseteq {c.ent[x].key : x \in InList(c)}
  BY DEF Good, Linked
<1>5. DOMAIN t = DOMAIN c.table \ {c.ent[x].key : x \in E}
  BY <1>a, <1>4
<1>6. E \subseteq InList(c)
  OBVIOUS
<1> HIDE DEF E, t, l
<1>7. Good(d, r, V) /\ d.lru = l
      /\ d.usage = c.usage - Cardinality({x \in E : c.ent[x].refs = 1})
  <2>1. Unlinks(c, E, t, l)
    BY <1>2, <1>3, <1>5, <1>6 DEF Unlinks
  <2> QED  BY <2>1, UnlinkLemma
<1> HIDE DEF d
<1> QED  BY <1>1, <1>7 DEF Fits, l

--------------------------------------------------------------------------------
\* The order of the list.

Before(s, x, y) == \E i, j \in 1..Len(s) : i < j /\ s[i] = x /\ s[j] = y

\* Unlinking an entry does not reorder the others.
LEMMA RemoveKeepsOrder ==
  ASSUME NEW s \in Seq(Handle), NEW e \in Elems(s), NEW x, NEW y,
         Before(LRU_Remove(s, e), x, y)
  PROVE  Before(s, x, y)
<1> DEFINE h == CHOOSE g \in 1..Len(s) : s[g] = e
           t == LRU_Remove(s, e)
<1>1. h \in 1..Len(s) /\ Len(s) \in Nat
  BY DEF Elems
<1>2. t = [g \in 1..(Len(s) - 1) |-> IF g < h THEN s[g] ELSE s[g + 1]]
  BY DEF LRU_Remove
<1> HIDE DEF h, t
<1>3. t \in [1..(Len(s) - 1) -> Handle]
  BY <1>1, <1>2
<1>4. Len(t) = Len(s) - 1 /\ \A g \in 1..Len(t) : t[g] = IF g < h THEN s[g] ELSE s[g + 1]
  BY <1>1, <1>2, <1>3
<1>5. PICK i, j \in 1..Len(t) : i < j /\ t[i] = x /\ t[j] = y
  BY DEF Before, t
<1> DEFINE up(g) == IF g < h THEN g ELSE g + 1
<1>6. up(i) \in 1..Len(s) /\ up(j) \in 1..Len(s) /\ up(i) < up(j)
      /\ s[up(i)] = x /\ s[up(j)] = y
  BY <1>1, <1>4, <1>5
<1> QED  BY <1>6 DEF Before

\* Appending an entry does not reorder the others.
LEMMA AppendKeepsOrder ==
  ASSUME NEW s \in Seq(Handle), NEW e \in Handle, NEW x, NEW y, y # e,
         Before(LRU_Append(s, e), x, y)
  PROVE  Before(s, x, y)
<1> DEFINE t == LRU_Append(s, e)
<1>1. Len(s) \in Nat /\ Len(t) = Len(s) + 1
      /\ \A g \in 1..Len(t) : t[g] = IF g = Len(s) + 1 THEN e ELSE s[g]
  BY DEF LRU_Append
<1> HIDE DEF t
<1>2. PICK i, j \in 1..Len(t) : i < j /\ t[i] = x /\ t[j] = y
  BY DEF Before, t
<1>3. i \in 1..Len(s) /\ j \in 1..Len(s) /\ s[i] = x /\ s[j] = y
  BY <1>1, <1>2
<1> QED  BY <1>2, <1>3 DEF Before

\* What the n oldest entries are is older than what is left.
LEMMA PrefixIsOlder ==
  ASSUME NEW s \in Seq(Handle), NEW n \in 0..Len(s),
         NEW x \in {s[i] : i \in 1..n}, NEW y \in Elems(SubSeq(s, n + 1, Len(s)))
  PROVE  Before(s, x, y)
<1> DEFINE t == SubSeq(s, n + 1, Len(s))
<1>1. Len(s) \in Nat /\ n \in Nat /\ Len(t) = Len(s) - n
  OBVIOUS
<1>2. \A j \in 1..Len(t) : t[j] = s[j + n]
  BY <1>1
<1> HIDE DEF t
<1>3. PICK i \in 1..n : s[i] = x
  OBVIOUS
<1>4. PICK j \in 1..Len(t) : t[j] = y
  BY DEF Elems, t
<1>5. i \in 1..Len(s) /\ j + n \in 1..Len(s) /\ i < j + n /\ s[j + n] = y
  BY <1>1, <1>2, <1>3, <1>4
<1> QED  BY <1>3, <1>5 DEF Before

--------------------------------------------------------------------------------
\* The two halves of an insertion.

\* What an operation leaves allocated it leaves alone.
Keeps(c, d) ==
  /\ Live(d) \subseteq Live(c)
  /\ \A x \in Live(d) : d.ent[x].key = c.ent[x].key /\ d.ent[x].value = c.ent[x].value

\* Dropping references changes neither keys nor values.
LEMMA UnrefKeeps ==
  ASSUME NEW V, NEW c, WellTyped(c, V), Charged(c), NEW E, E \subseteq Live(c), NEW t, NEW l,
         l \in Seq(Handle), DOMAIN t \subseteq Key, t \in [DOMAIN t -> Handle]
  PROVE  LET d == UnrefAll(Relinked(c, t, l), E)
         IN  Keeps(c, d) /\ d.table = t /\ d.lru = l
<1> DEFINE b == Relinked(c, t, l)
           d == UnrefAll(b, E)
<1>1. b.ent = c.ent /\ b.table = t /\ b.lru = l /\ b.usage = c.usage
      /\ b = [ent |-> b.ent, table |-> b.table, lru |-> b.lru, usage |-> b.usage]
  BY DEF Relinked
<1>2. Live(b) = Live(c)
  BY <1>1 DEF Live
<1> HIDE DEF b
<1>3. WellTyped(b, V) /\ Charged(b) /\ E \subseteq Live(b)
  BY <1>1, <1>2 DEF WellTyped, Charged
<1>4. /\ d.lru = b.lru /\ d.table = b.table
      /\ d.usage = b.usage - Cardinality({e \in E : b.ent[e].refs = 1})
      /\ Live(d) = Live(b) \ {e \in E : b.ent[e].refs = 1}
      /\ \A e \in Live(d) :
           /\ d.ent[e].key = b.ent[e].key
           /\ d.ent[e].value = b.ent[e].value
           /\ d.ent[e].refs = IF e \in E THEN b.ent[e].refs - 1 ELSE b.ent[e].refs
      /\ WellTyped(d, V)
      /\ Charged(d)
  BY <1>3, UnrefShape, Zenon
<1> HIDE DEF d
<1> QED  BY <1>1, <1>2, <1>4 DEF Keeps, d, b

Evicted(c, d) ==
  /\ Keeps(c, d)
  /\ DOMAIN d.table \subseteq DOMAIN c.table
  /\ d.table = [j \in DOMAIN d.table |-> c.table[j]]
  /\ \A x \in InList(c) \ InList(d), y \in InList(d) : Before(c.lru, x, y)

\* The loop of Insert unmaps keys, leaves the others alone, and takes entries
\* from the old end of the list.
LEMMA EvictedLemma ==
  ASSUME NEW V, NEW c, NEW r, Good(c, r, V)
  PROVE  Evicted(c, EvictLoop(c))
<1> DEFINE n == Evictions(c)
           E == Oldest(c, n)
           l == SubSeq(c.lru, n + 1, Len(c.lru))
           t == TableRemove(c.table, {c.ent[e].key : e \in E})
           d == UnrefAll(Relinked(c, t, l), E)
<1>1. EvictLoop(c) = d
  BY DEF EvictLoop
<1>2. /\ c.lru \in Seq(Handle) /\ NoDuplicates(c.lru) /\ InList(c) = Elems(c.lru)
      /\ InList(c) \subseteq Live(c) /\ WellTyped(c, V) /\ Charged(c)
      /\ DOMAIN c.table \subseteq Key /\ c.table \in [DOMAIN c.table -> Handle]
  BY DEF Good, WellTyped, Linked, InList, Elems
<1>3. n \in 0..Len(c.lru) /\ Len(c.lru) \in Nat
  BY <1>2, EvictionsLemma
<1> HIDE DEF n
<1>4. E = {c.lru[i] : i \in 1..n} /\ E \subseteq Live(c)
  BY <1>2, <1>3 DEF Oldest, Elems
<1>5. l \in Seq(Handle) /\ Elems(l) = InList(c) \ E
  BY <1>2, <1>3, <1>4, SuffixLemma
<1>6. /\ DOMAIN t \subseteq DOMAIN c.table /\ DOMAIN t \subseteq Key
      /\ t \in [DOMAIN t -> Handle] /\ t = [j \in DOMAIN t |-> c.table[j]]
  BY <1>2 DEF TableRemove
<1>7. \A x \in E, y \in Elems(l) : Before(c.lru, x, y)
  BY <1>2, <1>3, <1>4, PrefixIsOlder
<1> HIDE DEF E, l, t
<1>8. Keeps(c, d) /\ d.table = t /\ d.lru = l
  BY <1>2, <1>4, <1>5, <1>6, UnrefKeeps
<1> HIDE DEF d
<1>9. InList(d) = Elems(l)
  BY <1>8 DEF InList, Elems
<1> QED  BY <1>1, <1>5, <1>6, <1>7, <1>8, <1>9 DEF Evicted

\* d is c with the new entry e under k, in the place of what k named before.
Placed(c, k, v, e, d) ==
  /\ Live(d) \subseteq Live(c) \cup {e}
  /\ d.ent[e].key = k /\ d.ent[e].value = v
  /\ \A x \in Live(d) \ {e} :
       d.ent[x].key = c.ent[x].key /\ d.ent[x].value = c.ent[x].value
  /\ d.table = TableInsert(c.table, k, e)
  /\ \A x \in InList(c) : c.ent[x].key # k => x \in InList(d)
  /\ \A x, y \in InList(c) : Before(d.lru, x, y) => Before(c.lru, x, y)

\* Everything Insert does before its loop.
LEMMA PlacedLemma ==
  ASSUME NEW V, NEW c, NEW r, Good(c, r, V),
         NEW k \in Key, NEW v \in V, NEW e \in Handle, e \notin Live(c)
  PROVE  Placed(c, k, v, e, Link(c, k, v, e))
<1> DEFINE a == Allocate(c, k, v, e)
           q == [r EXCEPT ![e] = 1]
<1>1. Attached(a, q, V) /\ Allocated(c, k, e, a)
  BY AllocateLemma
<1>2. /\ c.lru \in Seq(Handle) /\ NoDuplicates(c.lru) /\ InList(c) \subseteq Live(c)
      /\ \A j \in DOMAIN c.table : c.table[j] \in InList(c) /\ c.ent[c.table[j]].key = j
  BY DEF Good, Linked, WellTyped
<1>3. a.table = TableInsert(c.table, k, e) /\ a.lru = LRU_Append(c.lru, e)
      /\ a.ent[e] = [key |-> k, refs |-> 2, value |-> v]
  BY DEF Allocate
<1>4. a.ent[e].key = k /\ a.ent[e].value = v
  BY <1>3
<1>5. \A x, y \in InList(c) : Before(a.lru, x, y) => Before(c.lru, x, y)
  BY <1>2, <1>3, AppendKeepsOrder
<1>6. CASE k \notin DOMAIN c.table
  <2>1. Link(c, k, v, e) = a
    BY <1>6 DEF Link
  <2> HIDE DEF a
  <2> QED  BY <2>1, <1>1, <1>3, <1>4, <1>5 DEF Placed, Allocated
<1>7. CASE k \in DOMAIN c.table
  <2> DEFINE o == c.table[k]
             l == LRU_Remove(a.lru, o)
             d == UnrefAll(Relinked(a, a.table, l), {o})
  <2>1. Link(c, k, v, e) = d
    BY <1>7 DEF Link, Unref
  <2> HIDE DEF a, q
  <2>a. o \in InList(c) /\ o \in Live(c) /\ o # e /\ c.ent[o].key = k
    BY <1>2, <1>7
  <2>2. /\ o \in InList(a) /\ InList(a) = Elems(a.lru) /\ c.ent[o].key = k
        /\ a.lru \in Seq(Handle) /\ NoDuplicates(a.lru) /\ {o} \subseteq Live(a)
        /\ o # e
    <3>1. InList(a) = Elems(a.lru)
      BY DEF InList, Elems
    <3> QED  BY <2>a, <3>1, <1>1 DEF Allocated
  <2>3. l \in Seq(Handle) /\ Elems(l) = InList(a) \ {o}
    BY <2>2, RemoveLemma
  <2>4. \A x, y : Before(l, x, y) => Before(a.lru, x, y)
    BY <2>2, RemoveKeepsOrder
  <2>5. /\ WellTyped(a, V) /\ Charged(a)
        /\ DOMAIN a.table \subseteq Key /\ a.table \in [DOMAIN a.table -> Handle]
    BY <1>1 DEF Attached, WellTyped
  <2> HIDE DEF o, l
  <2>6. Keeps(a, d) /\ d.table = a.table /\ d.lru = l
    BY <2>2, <2>3, <2>5, UnrefKeeps
  <2>7. e \in Live(d)
    <3>1. Live(d) = DOMAIN d.ent
      BY DEF Live
    <3>2. e \in Live(a)
      BY <1>1 DEF Allocated
    <3>3. DOMAIN UnrefAll(Relinked(a, a.table, l), {o}).ent
            = Live(Relinked(a, a.table, l)) \ {x \in {o} : Relinked(a, a.table, l).ent[x].refs = 1}
      BY DEF UnrefAll
    <3>4. Live(Relinked(a, a.table, l)) = Live(a)
      BY DEF Relinked, Live
    <3> QED  BY <3>1, <3>2, <3>3, <3>4, <2>2
  <2> HIDE DEF d
  <2>8. InList(d) = InList(a) \ {o}
    BY <2>3, <2>6 DEF InList, Elems
  <2>9. Live(d) \subseteq Live(c) \cup {e} /\ d.ent[e].key = k /\ d.ent[e].value = v
    BY <2>6, <2>7, <1>1, <1>4 DEF Keeps, Allocated
  <2>10. \A x \in Live(d) \ {e} :
           d.ent[x].key = c.ent[x].key /\ d.ent[x].value = c.ent[x].value
    BY <2>6, <1>1 DEF Keeps, Allocated
  <2>11. \A x \in InList(c) : c.ent[x].key # k => x \in InList(d)
    BY <2>2, <2>8, <1>1 DEF Allocated
  <2>12. \A x, y \in InList(c) : Before(d.lru, x, y) => Before(c.lru, x, y)
    BY <2>4, <2>6, <1>5
  <2> QED  BY <2>1, <2>6, <2>9, <2>10, <2>11, <2>12, <1>3 DEF Placed
<1> QED  BY <1>6, <1>7

--------------------------------------------------------------------------------
\* What a client of the shard sees of an operation.  Which entries are alive
\* follows from the table and from what the clients hold.

\* An entry is alive as long as the table names it or a client holds it.
LEMMA LiveLemma ==
  ASSUME NEW V, NEW c, NEW r, Good(c, r, V)
  PROVE  /\ InList(c) = {c.table[k] : k \in DOMAIN c.table}
         /\ \A k \in DOMAIN c.table : c.table[k] \in Live(c) /\ c.ent[c.table[k]].key = k
         /\ \A x \in Live(c) : x \in InList(c) \/ r[x] > 0
         /\ \A x \in InList(c) : c.ent[x].key \in DOMAIN c.table /\ c.table[c.ent[x].key] = x
         /\ \A x \in Handle : r[x] > 0 => x \in Live(c)
         /\ Live(c) \subseteq Handle /\ DOMAIN c.table \subseteq Key
         /\ \A x \in Live(c) : c.ent[x].key \in Key /\ c.ent[x].value \in V
<1>1. /\ r \in [Handle -> Nat] /\ Live(c) \subseteq Handle
      /\ c.ent \in [Live(c) -> Entry(V)]
      /\ InList(c) \subseteq Live(c) /\ DOMAIN c.table \subseteq Key
      /\ \A x \in Live(c) : c.ent[x].refs = r[x] + (IF x \in InList(c) THEN 1 ELSE 0)
      /\ \A x \in Handle : r[x] > 0 => x \in Live(c)
      /\ \A k \in DOMAIN c.table : c.table[k] \in InList(c) /\ c.ent[c.table[k]].key = k
      /\ \A x \in InList(c) : c.ent[x].key \in DOMAIN c.table /\ c.table[c.ent[x].key] = x
  BY DEF Good, WellTyped, Counted, Linked
<1>2. ASSUME NEW x \in Live(c)
      PROVE  /\ c.ent[x].key \in Key /\ c.ent[x].value \in V
             /\ x \in InList(c) \/ r[x] > 0
  <2>1. c.ent[x].refs \in Nat \ {0} /\ c.ent[x].key \in Key /\ c.ent[x].value \in V
    BY <1>1 DEF Entry
  <2> QED  BY <2>1, <1>1
<1>3. InList(c) = {c.table[k] : k \in DOMAIN c.table}
  BY <1>1
<1> QED  BY <1>1, <1>2, <1>3

\* A lookup changes neither keys nor values.
LEMMA LookupKeeps ==
  ASSUME NEW V, NEW c, NEW r, Good(c, r, V), NEW k \in DOMAIN c.table
  PROVE  LET d == Lookup(c, k)
         IN  Keeps(c, d) /\ Live(d) = Live(c) /\ d.table = c.table
<1> DEFINE e == c.table[k]
           d == Lookup(c, k)
           f == [c.ent EXCEPT ![e].refs = @ + 1]
<1>1. c.ent \in [Live(c) -> Entry(V)] /\ e \in Live(c)
  BY DEF Good, WellTyped, Linked
<1>2. d.ent = f /\ d.table = c.table
  BY DEF Lookup
<1>3. DOMAIN f = Live(c) /\ \A x \in Live(c) : f[x].key = c.ent[x].key /\ f[x].value = c.ent[x].value
  BY <1>1 DEF Live, Entry
<1> HIDE DEF f, d, e
<1>4. Live(d) = Live(c)
  BY <1>2, <1>3 DEF Live
<1> QED  BY <1>2, <1>3, <1>4 DEF Keeps, d

\* Nor does a release.
LEMMA ReleaseKeeps ==
  ASSUME NEW V, NEW c, NEW r, Good(c, r, V), NEW e \in Handle, r[e] > 0
  PROVE  Keeps(c, Release(c, e)) /\ Release(c, e).table = c.table
<1> DEFINE d == UnrefAll(c, {e})
<1>1. Release(c, e) = d
  BY DEF Release, Unref
<1>2. {e} \subseteq Live(c) /\ WellTyped(c, V) /\ Charged(c)
  BY DEF Good, Counted
<1>3. /\ d.lru = c.lru /\ d.table = c.table
      /\ d.usage = c.usage - Cardinality({x \in {e} : c.ent[x].refs = 1})
      /\ Live(d) = Live(c) \ {x \in {e} : c.ent[x].refs = 1}
      /\ \A x \in Live(d) :
           /\ d.ent[x].key = c.ent[x].key
           /\ d.ent[x].value = c.ent[x].value
           /\ d.ent[x].refs = IF x \in {e} THEN c.ent[x].refs - 1 ELSE c.ent[x].refs
      /\ WellTyped(d, V)
      /\ Charged(d)
  BY <1>2, UnrefShape, Zenon
<1> HIDE DEF d
<1> QED  BY <1>1, <1>3 DEF Keeps

Unmapped(c, k, d) ==
  /\ Keeps(c, d)
  /\ DOMAIN d.table = DOMAIN c.table \ {k}
  /\ \A j \in DOMAIN d.table : d.table[j] = c.table[j]

\* Erase unmaps one key.
LEMMA EraseUnmaps ==
  ASSUME NEW V, NEW c, NEW r, Good(c, r, V), NEW k
  PROVE  Unmapped(c, k, Erase(c, k))
<1>1. CASE k \notin DOMAIN c.table
  BY <1>1 DEF Erase, Unmapped, Keeps
<1>2. CASE k \in DOMAIN c.table
  <2> DEFINE e == c.table[k]
             l == LRU_Remove(c.lru, e)
             t == TableRemove(c.table, {k})
             d == UnrefAll(Relinked(c, t, l), {e})
  <2>1. Erase(c, k) = d
    BY <1>2 DEF Erase, Unref
  <2>2. /\ c.lru \in Seq(Handle) /\ NoDuplicates(c.lru) /\ e \in Elems(c.lru) /\ e \in Live(c)
        /\ WellTyped(c, V) /\ Charged(c)
    BY <1>2 DEF Good, Linked, WellTyped, InList, Elems
  <2>3. l \in Seq(Handle)
    BY <2>2, RemoveLemma
  <2>4. /\ DOMAIN t = DOMAIN c.table \ {k} /\ \A j \in DOMAIN t : t[j] = c.table[j]
        /\ DOMAIN t \subseteq Key /\ t \in [DOMAIN t -> Handle] /\ {e} \subseteq Live(c)
    BY <2>2 DEF TableRemove, WellTyped
  <2> HIDE DEF e, l, t
  <2>5. Keeps(c, d) /\ d.table = t
    BY <2>2, <2>3, <2>4, UnrefKeeps
  <2> HIDE DEF d
  <2> QED  BY <2>1, <2>4, <2>5 DEF Unmapped
<1> QED  BY <1>1, <1>2

Mapped(c, k, v, e, d) ==
  /\ e \in Live(d) /\ d.ent[e].key = k /\ d.ent[e].value = v
  /\ \A x \in Live(d) \ {e} : x \in Live(c) /\ d.ent[x].key = c.ent[x].key
                                            /\ d.ent[x].value = c.ent[x].value
  /\ DOMAIN d.table \subseteq DOMAIN c.table \cup {k}
  /\ \A j \in DOMAIN d.table : d.table[j] = IF j = k THEN e ELSE c.table[j]

\* Insert maps one key, unless there is no room for it, and may unmap others.
LEMMA InsertMaps ==
  ASSUME NEW V, NEW c, NEW r, Good(c, r, V),
         NEW k \in Key, NEW v \in V, NEW e \in Handle, e \notin Live(c)
  PROVE  Mapped(c, k, v, e, Insert(c, k, v, e))
<1> DEFINE a == Link(c, k, v, e)
           d == EvictLoop(a)
           q == [r EXCEPT ![e] = 1]
<1>1. Insert(c, k, v, e) = d
  BY DEF Insert
<1>2. Good(a, q, V)
  BY LinkLemma
<1>3. Placed(c, k, v, e, a)
  BY PlacedLemma
<1> HIDE DEF a
<1>4. Evicted(a, d) /\ Good(d, q, V)
  BY <1>2, EvictedLemma, EvictLoopLemma
<1>5. q[e] = 1
  BY DEF Good
<1> HIDE DEF d, q
<1>6. e \in Live(d)
  BY <1>4, <1>5, LiveLemma
<1>7. d.ent[e].key = k /\ d.ent[e].value = v
  BY <1>3, <1>4, <1>6 DEF Evicted, Keeps, Placed
<1>8. \A x \in Live(d) \ {e} : x \in Live(c) /\ d.ent[x].key = c.ent[x].key
                                             /\ d.ent[x].value = c.ent[x].value
  BY <1>3, <1>4 DEF Evicted, Keeps, Placed
<1>9. DOMAIN a.table = DOMAIN c.table \cup {k}
      /\ \A j \in DOMAIN a.table : a.table[j] = IF j = k THEN e ELSE c.table[j]
  BY <1>3 DEF Placed, TableInsert
<1>10. DOMAIN d.table \subseteq DOMAIN a.table /\ \A j \in DOMAIN d.table : d.table[j] = a.table[j]
  BY <1>4 DEF Evicted
<1> QED  BY <1>1, <1>6, <1>7, <1>8, <1>9, <1>10 DEF Mapped

\* A client may change the value of an entry, and nothing else changes.
Rewritten(c, e, v) == [c EXCEPT !.ent[e].value = v]

\* To change the value of an entry in place changes nothing that the cache
\* keeps track of.
LEMMA RewriteLemma ==
  ASSUME NEW V, NEW c, NEW r, Good(c, r, V), Fits(c), NEW e \in Live(c), NEW v \in V
  PROVE  LET d == Rewritten(c, e, v)
         IN  /\ Good(d, r, V) /\ Fits(d)
             /\ Live(d) = Live(c) /\ d.table = c.table
             /\ \A x \in Live(c) : /\ d.ent[x].key = c.ent[x].key
                                   /\ d.ent[x].value = IF x = e THEN v ELSE c.ent[x].value
<1> DEFINE d == Rewritten(c, e, v)
           f == [c.ent EXCEPT ![e].value = v]
<1>1. /\ c.ent \in [Live(c) -> Entry(V)] /\ DOMAIN c.ent = Live(c)
      /\ c = [ent |-> c.ent, table |-> c.table, lru |-> c.lru, usage |-> c.usage]
  BY DEF Good, WellTyped, Live
<1>2. d = [ent |-> f, table |-> c.table, lru |-> c.lru, usage |-> c.usage]
  BY <1>1 DEF Rewritten
<1>3. /\ DOMAIN f = Live(c) /\ f = [x \in Live(c) |-> f[x]]
      /\ \A x \in Live(c) : /\ f[x] \in Entry(V)
                            /\ f[x].key = c.ent[x].key /\ f[x].refs = c.ent[x].refs
                            /\ f[x].value = IF x = e THEN v ELSE c.ent[x].value
  BY <1>1 DEF Entry
<1> HIDE DEF f, d
<1>4. /\ d.ent = f /\ d.table = c.table /\ d.lru = c.lru /\ d.usage = c.usage
      /\ d = [ent |-> d.ent, table |-> d.table, lru |-> d.lru, usage |-> d.usage]
  BY <1>2
<1>5. Live(d) = Live(c) /\ InList(d) = InList(c)
  BY <1>3, <1>4 DEF Live, InList
<1>6. f \in [Live(c) -> Entry(V)]
  BY <1>3
<1>7. WellTyped(d, V)
  BY <1>4, <1>5, <1>6 DEF Good, WellTyped
<1>8. Counted(d, r, InList(d)) /\ Charged(d) /\ Fits(d)
  BY <1>3, <1>4, <1>5 DEF Good, Counted, Charged, Fits
<1>9. Linked(d)
  <2>1. InList(c) \subseteq Live(c)
    BY DEF Good, Linked
  <2>2. \A k \in DOMAIN d.table : d.table[k] \in InList(d) /\ d.ent[d.table[k]].key = k
    BY <2>1, <1>3, <1>4, <1>5 DEF Good, Linked
  <2>3. \A x \in InList(d) : d.ent[x].key \in DOMAIN d.table /\ d.table[d.ent[x].key] = x
    BY <2>1, <1>3, <1>4, <1>5 DEF Good, Linked
  <2> QED  BY <2>1, <2>2, <2>3, <1>4, <1>5 DEF Good, Linked
<1> QED  BY <1>3, <1>4, <1>5, <1>7, <1>8, <1>9 DEF Good, d

--------------------------------------------------------------------------------
\* A new cache is empty and in order.
LEMMA EmptyGood ==
  ASSUME NEW V
  PROVE  /\ Good(EmptyCache, [h \in Handle |-> 0], V) /\ Fits(EmptyCache)
         /\ Live(EmptyCache) = {} /\ DOMAIN EmptyCache.table = {}
<1> DEFINE c == EmptyCache
           r == [h \in Handle |-> 0]
<1>1. c = [ent |-> <<>>, table |-> <<>>, lru |-> <<>>, usage |-> 0]
  BY DEF EmptyCache
<1> HIDE DEF c
<1>2. Live(c) = {} /\ InList(c) = {}
  BY <1>1 DEF Live, InList
<1>3. c.lru = <<>> /\ c.usage = 0 /\ DOMAIN c.table = {} /\ c.ent = <<>> /\ c.table = <<>>
  BY <1>1
<1>4. WellTyped(c, V)
  <2>1. c.ent \in [Live(c) -> Entry(V)]
    BY <1>2, <1>3
  <2>2. c.table \in [DOMAIN c.table -> Handle]
    BY <1>3
  <2> QED  BY <2>1, <2>2, <1>1, <1>2, <1>3 DEF WellTyped
<1>5. Counted(c, r, InList(c))
  BY <1>2 DEF Counted
<1>6. Linked(c)
  BY <1>2, <1>3 DEF Linked, NoDuplicates
<1>7. Charged(c)
  BY <1>2, <1>3, FS_EmptySet DEF Charged
<1>8. Fits(c)
  BY <1>3 DEF Fits
<1>9. r \in [Handle -> Nat]
  OBVIOUS
<1> HIDE DEF r
<1>10. Good(c, r, V)
  BY <1>4, <1>5, <1>6, <1>7, <1>9 DEF Good
<1> QED  BY <1>2, <1>3, <1>8, <1>10 DEF c, r
================================================================================
