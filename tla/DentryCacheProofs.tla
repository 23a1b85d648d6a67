--------------------------- MODULE DentryCacheProofs ---------------------------
(***************************************************************************)
(* Proofs about the dentry cache, for every set of keys, values and node   *)
(* addresses and every maxsize.                                            *)
(***************************************************************************)
EXTENDS DentryCache, TLAPS

NoDuplicates(s) == \A i, j \in 1..Len(s) : s[i] = s[j] => i = j
Dentry == [key : Key, value : Value]

--------------------------------------------------------------------------------
\* Lists.

\* A new node goes to the front of the list.
LEMMA PushFrontLemma ==
  ASSUME NEW s \in Seq(Node), NoDuplicates(s), NEW n \in Node, n \notin Nodes(s)
  PROVE  /\ PushFront(s, n) \in Seq(Node)
         /\ NoDuplicates(PushFront(s, n))
         /\ Nodes(PushFront(s, n)) = Nodes(s) \cup {n}
         /\ Len(PushFront(s, n)) = Len(s) + 1
         /\ PushFront(s, n)[1] = n
<1> DEFINE t == PushFront(s, n)
<1>1. t \in Seq(Node) /\ Len(t) = Len(s) + 1 /\ Len(s) \in Nat /\ t[1] = n
  BY DEF PushFront
<1>2. \A j \in 1..Len(t) : t[j] = IF j = 1 THEN n ELSE s[j - 1]
  BY DEF PushFront
<1> HIDE DEF t
<1>3. NoDuplicates(t)
  <2> SUFFICES ASSUME NEW i \in 1..Len(t), NEW j \in 1..Len(t), t[i] = t[j]
               PROVE  i = j
    BY DEF NoDuplicates
  <2>1. \A k \in 1..Len(t) : k # 1 => k - 1 \in 1..Len(s) /\ t[k] = s[k - 1] /\ t[k] # n
    BY <1>1, <1>2 DEF Nodes
  <2>2. CASE i = 1 \/ j = 1
    BY <2>1, <2>2, <1>1
  <2>3. CASE i # 1 /\ j # 1
    <3>1. i - 1 \in 1..Len(s) /\ j - 1 \in 1..Len(s) /\ s[i - 1] = s[j - 1]
      BY <2>1, <2>3
    <3>2. i - 1 = j - 1
      BY <3>1 DEF NoDuplicates
    <3> QED  BY <3>2, <1>1
  <2> QED  BY <2>2, <2>3
<1>4. Nodes(t) \subseteq Nodes(s) \cup {n}
  BY <1>1, <1>2 DEF Nodes
<1>5. ASSUME NEW j \in 1..Len(s)  PROVE s[j] \in Nodes(t)
  <2>1. j + 1 \in 1..Len(t) /\ t[j + 1] = s[j]
    BY <1>1, <1>2
  <2> QED  BY <2>1 DEF Nodes
<1>6. n \in Nodes(t)
  <2>1. 1 \in 1..Len(t)
    BY <1>1
  <2> QED  BY <2>1, <1>1 DEF Nodes
<1>7. Nodes(t) = Nodes(s) \cup {n}
  BY <1>4, <1>5, <1>6 DEF Nodes
<1> QED  BY <1>1, <1>3, <1>7 DEF t

\* The last node is popped.
LEMMA PopBackLemma ==
  ASSUME NEW s \in Seq(Node), NoDuplicates(s), Len(s) > 0
  PROVE  /\ PopBack(s) \in Seq(Node)
         /\ NoDuplicates(PopBack(s))
         /\ Nodes(PopBack(s)) = Nodes(s) \ {s[Len(s)]}
         /\ Len(PopBack(s)) = Len(s) - 1
         /\ s[Len(s)] \in Nodes(s)
<1> DEFINE t == PopBack(s)
<1>0. Len(s) \in Nat /\ Len(s) - 1 \in 0..Len(s)
  OBVIOUS
<1>1. t \in Seq(Node) /\ Len(t) = Len(s) - 1 /\ \A j \in 1..Len(t) : t[j] = s[j]
  <2>1. ASSUME NEW m \in 0..Len(s)
        PROVE  /\ SubSeq(s, 1, m) \in Seq(Node)
               /\ Len(SubSeq(s, 1, m)) = m
               /\ \A j \in 1..m : SubSeq(s, 1, m)[j] = s[j]
    OBVIOUS
  <2> QED  BY <2>1, <1>0 DEF PopBack
<1>2. Len(s) \in Nat /\ \A j \in 1..Len(t) : t[j] = s[j]
  BY <1>0, <1>1
<1> HIDE DEF t
<1>3. NoDuplicates(t)
  BY <1>1, <1>2 DEF NoDuplicates
<1>4. ASSUME NEW j \in 1..Len(t)  PROVE t[j] \in Nodes(s) \ {s[Len(s)]}
  BY <1>1, <1>2 DEF Nodes, NoDuplicates
<1>5. ASSUME NEW j \in 1..Len(s), s[j] # s[Len(s)]  PROVE s[j] \in Nodes(t)
  <2>1. j \in 1..Len(t) /\ t[j] = s[j]
    BY <1>1, <1>2, <1>5
  <2> QED  BY <2>1 DEF Nodes
<1>6. Nodes(t) = Nodes(s) \ {s[Len(s)]}
  BY <1>4, <1>5 DEF Nodes
<1>7. s[Len(s)] \in Nodes(s)
  <2>1. Len(s) \in 1..Len(s)
    BY <1>1
  <2> QED  BY <2>1 DEF Nodes
<1> QED  BY <1>1, <1>3, <1>6, <1>7 DEF t

\* A node is erased.
LEMMA EraseLemma ==
  ASSUME NEW s \in Seq(Node), NoDuplicates(s), NEW n \in Nodes(s)
  PROVE  /\ Erase(s, n) \in Seq(Node)
         /\ NoDuplicates(Erase(s, n))
         /\ Nodes(Erase(s, n)) = Nodes(s) \ {n}
         /\ Len(Erase(s, n)) = Len(s) - 1
<1> DEFINE i == CHOOSE j \in 1..Len(s) : s[j] = n
           t == Erase(s, n)
<1>1. i \in 1..Len(s) /\ s[i] = n
  BY DEF Nodes
<1>2. Len(s) \in Nat /\ Len(s) - 1 \in Nat /\ \A j \in 1..Len(s) : s[j] \in Node
  BY <1>1
<1>3. t = [j \in 1..(Len(s) - 1) |-> IF j < i THEN s[j] ELSE s[j + 1]]
  BY DEF Erase
<1> HIDE DEF i, t
<1>4. t \in [1..(Len(s) - 1) -> Node]
  BY <1>1, <1>2, <1>3
<1>5. t \in Seq(Node) /\ Len(t) = Len(s) - 1
  BY <1>2, <1>4
<1>6. \A j \in 1..Len(t) : t[j] = IF j < i THEN s[j] ELSE s[j + 1]
  BY <1>3, <1>5
<1>7. NoDuplicates(t)
  BY <1>1, <1>2, <1>5, <1>6 DEF NoDuplicates
<1>8. ASSUME NEW j \in 1..Len(t)  PROVE t[j] \in Nodes(s) \ {n}
  BY <1>1, <1>2, <1>5, <1>6 DEF NoDuplicates, Nodes
<1>9. ASSUME NEW j \in 1..Len(s), s[j] # n  PROVE s[j] \in Nodes(t)
  <2>1. CASE j < i
    BY <2>1, <1>1, <1>2, <1>5, <1>6 DEF Nodes
  <2>2. CASE j > i
    <3>1. j - 1 \in 1..Len(t) /\ t[j - 1] = s[j]
      BY <2>2, <1>1, <1>2, <1>5, <1>6
    <3> QED  BY <3>1 DEF Nodes
  <2> QED  BY <2>1, <2>2, <1>1, <1>2, <1>9
<1>10. Nodes(t) = Nodes(s) \ {n}
  BY <1>8, <1>9 DEF Nodes
<1> QED  BY <1>5, <1>7, <1>10 DEF t

--------------------------------------------------------------------------------
\* The cache as a value.

\* A list, its nodes and a map that are consistent with each other, and with the
\* values that were inserted last.
Valid(l, nd, lk, cur) ==
  /\ l \in Seq(Node)
  /\ NoDuplicates(l)
  /\ nd \in [Nodes(l) -> Dentry]
  /\ DOMAIN lk \subseteq Key
  /\ lk \in [DOMAIN lk -> Node]
  /\ DOMAIN cur \subseteq Key
  /\ cur \in [DOMAIN cur -> Value]
  /\ \A k \in DOMAIN lk : /\ lk[k] \in Nodes(l)
                          /\ nd[lk[k]].key = k
                          /\ k \in DOMAIN cur
                          /\ nd[lk[k]].value = cur[k]

\* A new node at the front and the map re-pointed to it: what Insert and a hit
\* of Find have in common.
LEMMA PushValid ==
  ASSUME NEW l, NEW nd, NEW lk, NEW cur, Valid(l, nd, lk, cur),
         NEW k \in Key, NEW v \in Value, NEW n \in Node, n \notin Nodes(l)
  PROVE  Valid(PushFront(l, n), Set(nd, n, [key |-> k, value |-> v]),
               Set(lk, k, n), Set(cur, k, v))
<1> DEFINE l2 == PushFront(l, n)
           nd2 == Set(nd, n, [key |-> k, value |-> v])
           lk2 == Set(lk, k, n)
           cur2 == Set(cur, k, v)
<1>1. l2 \in Seq(Node) /\ NoDuplicates(l2) /\ Nodes(l2) = Nodes(l) \cup {n}
  BY PushFrontLemma DEF Valid
<1>2. /\ nd2 \in [Nodes(l) \cup {n} -> Dentry]
      /\ nd2[n] = [key |-> k, value |-> v]
      /\ \A m \in Nodes(l) : nd2[m] = nd[m]
  BY DEF Valid, Set, Dentry
<1>3. /\ DOMAIN lk2 = DOMAIN lk \cup {k} /\ lk2 \in [DOMAIN lk2 -> Node]
      /\ lk2[k] = n /\ \A j \in DOMAIN lk : j # k => lk2[j] = lk[j]
  BY DEF Valid, Set
<1>4. /\ DOMAIN cur2 = DOMAIN cur \cup {k} /\ cur2 \in [DOMAIN cur2 -> Value]
      /\ cur2[k] = v /\ \A j \in DOMAIN cur : j # k => cur2[j] = cur[j]
  BY DEF Valid, Set
<1> HIDE DEF l2, nd2, lk2, cur2
<1>5. ASSUME NEW j \in DOMAIN lk2
      PROVE  /\ lk2[j] \in Nodes(l2) /\ nd2[lk2[j]].key = j
             /\ j \in DOMAIN cur2 /\ nd2[lk2[j]].value = cur2[j]
  <2>1. CASE j = k
    BY <2>1, <1>1, <1>2, <1>3, <1>4
  <2>2. CASE j # k
    BY <2>2, <1>1, <1>2, <1>3, <1>4 DEF Valid
  <2> QED  BY <2>1, <2>2
<1>6. Valid(l2, nd2, lk2, cur2)
  BY <1>1, <1>2, <1>3, <1>4, <1>5 DEF Valid
<1> QED  BY <1>6 DEF l2, nd2, lk2, cur2

\* A node that no iterator of the map points at may be freed.
LEMMA FreeValid ==
  ASSUME NEW l, NEW nd, NEW lk, NEW cur, Valid(l, nd, lk, cur),
         NEW x, \A k \in DOMAIN lk : lk[k] # x,
         NEW l2 \in Seq(Node), NoDuplicates(l2), Nodes(l2) = Nodes(l) \ {x}
  PROVE  Valid(l2, Drop(nd, x), lk, cur)
<1> DEFINE nd2 == Drop(nd, x)
<1>1. nd2 \in [Nodes(l2) -> Dentry] /\ \A m \in Nodes(l2) : nd2[m] = nd[m]
  BY DEF Valid, Drop
<1> HIDE DEF nd2
<1>2. \A k \in DOMAIN lk : lk[k] \in Nodes(l2) /\ nd2[lk[k]] = nd[lk[k]]
  BY <1>1 DEF Valid
<1>3. Valid(l2, nd2, lk, cur)
  BY <1>1, <1>2 DEF Valid
<1> QED  BY <1>3 DEF nd2

\* The map may forget a key, and then no iterator points at a node of that key.
LEMMA ForgetValid ==
  ASSUME NEW l, NEW nd, NEW lk, NEW cur, Valid(l, nd, lk, cur), NEW k
  PROVE  /\ Valid(l, nd, Drop(lk, k), cur)
         /\ Valid(l, nd, Drop(lk, k), Drop(cur, k))
         /\ \A j \in DOMAIN Drop(lk, k) : nd[Drop(lk, k)[j]].key # k
BY DEF Valid, Drop

--------------------------------------------------------------------------------
\* The invariant.

IInv == /\ Valid(list, node, lookup, current)
        /\ Len(list) <= MaxSize
        /\ answer \in [key : Key \cup {NoValue}, value : Value \cup {NoValue}]

\* The inductive invariant is the conjunction of the four that the runs check.
LEMMA IInvIsAll ==
  IInv <=> TypeOK /\ NoDanglingIterator /\ ListBounded /\ OnlyForgets
BY DEF IInv, Valid, NoDuplicates, Dentry, TypeOK, NoDanglingIterator, ListBounded, OnlyForgets

\* The cache starts empty.
LEMMA InitIInv == Init => IInv
<1> SUFFICES ASSUME Init PROVE IInv
  OBVIOUS
<1>1. list \in Seq(Node) /\ Len(list) = 0 /\ Nodes(list) = {} /\ NoDuplicates(list)
  BY DEF Init, Nodes, NoDuplicates
<1>2. DOMAIN <<>> = {}
  OBVIOUS
<1>3. \A S : <<>> \in [{} -> S]
  OBVIOUS
<1> QED  BY <1>1, <1>2, <1>3, MaxSizeAssumption DEF Init, IInv, Valid

\* A hit of Find: the copy at the front takes over from the old node.
LEMMA FindHitIInv ==
  ASSUME IInv, NEW k \in Key, NEW n \in Node, FindHit(k, n)
  PROVE  IInv'
<1> DEFINE it == lookup[k]
           v == node[it].value
           list1 == PushFront(list, n)
           node1 == Set(node, n, node[it])
<1>1. /\ k \in DOMAIN lookup /\ n \notin Nodes(list) /\ it \in Nodes(list)
      /\ k \in DOMAIN current /\ v = current[k] /\ v \in Value
      /\ node[it] = [key |-> k, value |-> v]
  BY DEF IInv, Valid, FindHit, Dentry
<1>2. Set(current, k, v) = current /\ Set(lookup, k, n) = lookup'
  <2>1. /\ lookup' = [lookup EXCEPT ![k] = n] /\ DOMAIN lookup \cup {k} = DOMAIN lookup
        /\ DOMAIN current \cup {k} = DOMAIN current
        /\ current = [z \in DOMAIN current |-> current[z]]
    BY <1>1 DEF IInv, Valid, FindHit
  <2>2. Set(lookup, k, n) = lookup'
    BY <2>1 DEF Set
  <2>3. Set(current, k, v) = [z \in DOMAIN current |-> current[z]]
    <3>1. Set(current, k, v) = [z \in DOMAIN current |-> IF z = k THEN v ELSE current[z]]
      BY <2>1 DEF Set
    <3> QED  BY <3>1, <1>1
  <2> QED  BY <2>1, <2>2, <2>3
<1>3. Valid(list1, node1, lookup', current)
  BY <1>1, <1>2, PushValid DEF IInv
<1>4. /\ list1 \in Seq(Node) /\ NoDuplicates(list1)
      /\ Nodes(list1) = Nodes(list) \cup {n} /\ Len(list1) = Len(list) + 1
  BY <1>1, PushFrontLemma DEF IInv, Valid
<1>5. \A j \in DOMAIN lookup' : lookup'[j] # it
  <2>1. \A j \in DOMAIN lookup : j # k => lookup[j] # it
    BY <1>1 DEF IInv, Valid
  <2> QED  BY <2>1, <1>1 DEF FindHit, IInv, Valid
<1>6. /\ list' \in Seq(Node) /\ NoDuplicates(list')
      /\ Nodes(list') = Nodes(list1) \ {it} /\ Len(list') = Len(list1) - 1
  <2>1. list' = Erase(list1, it) /\ it \in Nodes(list1)
    BY <1>1, <1>4 DEF FindHit
  <2> HIDE DEF list1, it
  <2> QED  BY <2>1, <1>4, EraseLemma
<1>7. Valid(list', Drop(node1, it), lookup', current)
  <2> HIDE DEF list1, node1, it
  <2> QED  BY <1>3, <1>5, <1>6, FreeValid
<1>8. node' = Drop(node1, it) /\ current' = current
  BY DEF FindHit
<1>9. Len(list') <= MaxSize
  <2>1. Len(list) \in Nat
    BY DEF IInv, Valid
  <2> QED  BY <2>1, <1>4, <1>6 DEF IInv
<1>10. answer' \in [key : Key \cup {NoValue}, value : Value \cup {NoValue}]
  BY <1>1 DEF FindHit
<1> QED  BY <1>7, <1>8, <1>9, <1>10 DEF IInv

\* Insert: over maxsize the last node goes, after the map forgot its key.
LEMMA InsertIInv ==
  ASSUME IInv, NEW k \in Key, NEW v \in Value, NEW n \in Node, Insert(k, v, n)
  PROVE  IInv'
<1> DEFINE list1 == PushFront(list, n)
           node1 == Set(node, n, [key |-> k, value |-> v])
           lookup1 == Set(lookup, k, n)
           current1 == Set(current, k, v)
           back == list1[Len(list1)]
<1>1. Valid(list1, node1, lookup1, current1)
  BY PushValid DEF IInv, Insert
<1>2. /\ list1 \in Seq(Node) /\ NoDuplicates(list1)
      /\ Len(list1) = Len(list) + 1 /\ Len(list) \in Nat
  BY PushFrontLemma DEF IInv, Valid, Insert
<1>3. answer' = answer /\ current' = current1
  BY DEF Insert
<1>4. CASE Len(list1) > MaxSize
  <2> DEFINE lookup2 == Drop(lookup1, node1[back].key)
  <2>1. lookup' = lookup2 /\ list' = PopBack(list1) /\ node' = Drop(node1, back)
    BY <1>4 DEF Insert
  <2> HIDE DEF list1, node1, lookup1, current1, back
  <2>2. Valid(list1, node1, lookup2, current1)
    BY <1>1, ForgetValid
  <2>3. \A j \in DOMAIN lookup2 : lookup2[j] # back
    <3>1. \A j \in DOMAIN lookup2 : node1[lookup2[j]].key # node1[back].key
      BY <1>1, ForgetValid
    <3> QED  BY <3>1
  <2> HIDE DEF lookup2
  <2>4. /\ list' \in Seq(Node) /\ NoDuplicates(list')
        /\ Nodes(list') = Nodes(list1) \ {back} /\ Len(list') = Len(list1) - 1
    <3>1. Len(list1) > 0
      BY <1>2
    <3> QED  BY <3>1, <1>2, <2>1, PopBackLemma DEF back
  <2>5. Valid(list', node', lookup', current')
    BY <2>1, <2>2, <2>3, <2>4, <1>3, FreeValid
  <2>6. Len(list') <= MaxSize
    BY <1>2, <2>4 DEF IInv
  <2> QED  BY <2>5, <2>6, <1>3 DEF IInv
<1>5. CASE ~(Len(list1) > MaxSize)
  <2>1. lookup' = lookup1 /\ list' = list1 /\ node' = node1
    BY <1>5 DEF Insert
  <2>2. Len(list1) <= MaxSize
    BY <1>2, <1>5, MaxSizeAssumption
  <2> QED  BY <1>1, <1>3, <2>1, <2>2 DEF IInv
<1> QED  BY <1>4, <1>5

\* Every step of the cache preserves the invariant.
LEMMA StepIInv == IInv /\ [Next]_vars => IInv'
<1> SUFFICES ASSUME IInv, [Next]_vars PROVE IInv'
  OBVIOUS
<1>1. ASSUME NEW k \in Key, FindMiss(k)  PROVE IInv'
  BY <1>1 DEF IInv, FindMiss
<1>2. ASSUME NEW k \in Key, Evict(k)  PROVE IInv'
  BY <1>2, ForgetValid DEF IInv, Evict
<1>3. CASE UNCHANGED vars
  BY <1>3 DEF IInv, vars
<1> QED  BY <1>1, <1>2, <1>3, FindHitIInv, InsertIInv DEF Next

\* The cache is consistent in every reachable state.
LEMMA Invariance == Spec => []IInv
BY InitIInv, StepIInv, PTL DEF Spec

--------------------------------------------------------------------------------
\* The theorems.

\* The list, its nodes and the map keep their shapes.
THEOREM TypeCorrect == Spec => []TypeOK
BY Invariance, IInvIsAll, PTL

\* Whatever is evicted, inserted again or popped, no iterator in the map ever
\* points at a freed node, or at a node of another key.
THEOREM IteratorsAreValid == Spec => []NoDanglingIterator
BY Invariance, IInvIsAll, PTL

\* The list never outgrows maxsize, although Evict and Insert orphan nodes.
THEOREM ListIsBounded == Spec => []ListBounded
BY Invariance, IInvIsAll, PTL

\* The map never holds a value that was overwritten or evicted.
THEOREM CacheOnlyForgets == Spec => []OnlyForgets
BY Invariance, IInvIsAll, PTL

\* Path resolution may take the dentry cache for a map that only forgets: each
\* operation is a step of LossyMap, on the values inserted last.
THEOREM Refinement == Spec => ImplementsLossyMap
<1>1. Init => Abstract!Init
  BY DEF Init, Abstract!Init
<1>2. ASSUME IInv, [Next]_vars  PROVE [Abstract!Next]_(Abstract!vars)
  <2>1. ASSUME NEW k \in Key, NEW n \in Node, FindHit(k, n)
        PROVE  Abstract!Find(k)
    <3>1. /\ answer' = [key |-> k, value |-> node[lookup[k]].value]
          /\ current' = current /\ k \in DOMAIN lookup
      BY <2>1 DEF FindHit
    <3>2. k \in DOMAIN current /\ node[lookup[k]].value = current[k]
      BY <3>1, <1>2 DEF IInv, Valid
    <3> QED  BY <3>1, <3>2 DEF Abstract!Find
  <2>2. ASSUME NEW k \in Key, FindMiss(k)  PROVE Abstract!Find(k)
    BY <2>2 DEF FindMiss, Abstract!Find
  <2>3. ASSUME NEW k \in Key, NEW v \in Value, NEW n \in Node, Insert(k, v, n)
        PROVE  Abstract!Insert(k, v)
    BY <2>3 DEF Insert, Set, Abstract!Insert
  <2>4. ASSUME NEW k \in Key, Evict(k)  PROVE Abstract!Evict(k)
    BY <2>4 DEF Evict, Drop, Abstract!Evict
  <2>5. CASE UNCHANGED vars
    BY <2>5 DEF vars, Abstract!vars
  <2> QED  BY <1>2, <2>1, <2>2, <2>3, <2>4, <2>5 DEF Next, Abstract!Next
<1> QED  BY <1>1, <1>2, Invariance, PTL DEF Spec, ImplementsLossyMap, Abstract!Spec
================================================================================
