----------------------------- MODULE LRUCacheProofs ----------------------------
(***************************************************************************)
(* Proofs about one LRUCache shard, for every set of keys and values,      *)
(* every finite set of addresses and every capacity: it is consistent,     *)
(* evicts the oldest entries first and implements the contract of cache.h. *)
(***************************************************************************)
EXTENDS LRUCache, LRUOpsProofs

--------------------------------------------------------------------------------
\* The shard with its clients.

\* The inductive invariant: the counts need the links, the links need the
\* counts (an entry on the list is never freed), and the bound on usage_
\* needs both.
IInv == Good(cache, held, Value) /\ Fits(cache)

\* The constructor establishes the inductive invariant.
LEMMA InitLemma == Init => IInv
  BY EmptyGood DEF Init, IInv

\* Every operation preserves the inductive invariant.
LEMMA StepLemma == IInv /\ [Next]_vars => IInv'
<1> SUFFICES ASSUME IInv, [Next]_vars  PROVE IInv'
  OBVIOUS
<1> USE DEF IInv
<1>1. ASSUME NEW k \in Key, NEW v \in Value, NEW e \in Handle, DoInsert(k, v, e)
      PROVE  IInv'
  BY <1>1, InsertLemma DEF DoInsert
<1>2. ASSUME NEW k \in Key, DoLookup(k)  PROVE IInv'
  BY <1>2, LookupLemma DEF DoLookup
<1>3. ASSUME NEW e \in Handle, DoRelease(e)  PROVE IInv'
  BY <1>3, ReleaseLemma DEF DoRelease
<1>4. ASSUME NEW k \in Key, DoErase(k)  PROVE IInv'
  BY <1>4, EraseLemma DEF DoErase
<1>5. CASE DoDestroy
  BY <1>5, DestroyLemma DEF DoDestroy
<1>6. CASE UNCHANGED vars
  BY <1>6 DEF vars
<1> QED  BY <1>1, <1>2, <1>3, <1>4, <1>5, <1>6 DEF Next

\* The inductive invariant holds of every execution.
THEOREM Consistent == Spec => []IInv
  BY InitLemma, StepLemma, PTL DEF Spec

\* The shapes of the shard's fields, for every instance.
THEOREM TypeCorrect == Spec => []TypeOK
<1>1. IInv => TypeOK
  BY DEF IInv, Good, TypeOK
<1> QED  BY <1>1, Consistent, PTL

\* refs is exactly the list's reference and the clients' references, so that
\* no entry is freed under a client or leaked after the last Unref.
THEOREM RefCountsExact == Spec => []RefCounts
<1>1. IInv => RefCounts
  BY DEF IInv, Good, RefCounts
<1> QED  BY <1>1, Consistent, PTL

\* The hash table and the list always hold the same entries.
THEOREM TableAgreesWithList == Spec => []TableIsList
<1>1. IInv => TableIsList
  BY DEF IInv, Good, TableIsList
<1> QED  BY <1>1, Consistent, PTL

\* usage_ is the charge of everything that is allocated.
THEOREM UsageExact == Spec => []UsageIsLive
<1>1. IInv => UsageIsLive
  BY DEF IInv, Good, UsageIsLive
<1> QED  BY <1>1, Consistent, PTL

\* Over its capacity, the shard has nothing left to evict.
THEOREM OverCapacityIsPinned == Spec => []OverCapacityUnlisted
<1>1. IInv => OverCapacityUnlisted
  BY DEF IInv, Fits, OverCapacityUnlisted
<1> QED  BY <1>1, Consistent, PTL

--------------------------------------------------------------------------------
\* The order of the list.

\* On a list without duplicates an entry has one position.
LEMMA PositionLemma ==
  ASSUME NEW s \in Seq(Handle), NoDuplicates(s), NEW x, NEW y, Before(s, x, y)
  PROVE  Position(s, x) < Position(s, y)
<1>1. PICK i, j \in 1..Len(s) : i < j /\ s[i] = x /\ s[j] = y
  BY DEF Before
<1>2. ASSUME NEW h \in 1..Len(s)  PROVE Position(s, s[h]) = h
  <2>1. \E g \in 1..Len(s) : s[g] = s[h]
    OBVIOUS
  <2>2. Position(s, s[h]) \in 1..Len(s) /\ s[Position(s, s[h])] = s[h]
    BY <2>1 DEF Position
  <2> QED  BY <2>2 DEF NoDuplicates
<1> QED  BY <1>1, <1>2

--------------------------------------------------------------------------------
\* Eviction.

\* Whatever other operations have done to the list, an insertion that evicts
\* an entry of another key has evicted every entry that was older.
THEOREM OldestGoFirst == Spec => EvictsOldestFirst
<1> DEFINE Ordered ==
      \A k \in Key, v \in Value, e \in Handle : DoInsert(k, v, e) =>
        \A gone \in InList(cache) \ InList(cache'), stays \in InList(cache) :
          cache.ent[gone].key # k /\ stays \in InList(cache') =>
            Position(cache.lru, gone) < Position(cache.lru, stays)
<1>1. IInv => Ordered
  <2> SUFFICES ASSUME IInv, NEW k \in Key, NEW v \in Value, NEW e \in Handle,
                      DoInsert(k, v, e),
                      NEW gone \in InList(cache) \ InList(cache'),
                      NEW stays \in InList(cache),
                      cache.ent[gone].key # k, stays \in InList(cache')
               PROVE  Position(cache.lru, gone) < Position(cache.lru, stays)
    OBVIOUS
  <2> DEFINE d == Link(cache, k, v, e)
             q == [held EXCEPT ![e] = 1]
  <2>1. e \notin Live(cache) /\ cache' = EvictLoop(d) /\ Good(cache, held, Value)
    BY DEF DoInsert, Insert, IInv
  <2>2. Good(d, q, Value)
    BY <2>1, LinkLemma
  <2>3. Placed(cache, k, v, e, d)
    BY <2>1, PlacedLemma
  <2> HIDE DEF d, q
  <2>4. Evicted(d, cache')
    BY <2>1, <2>2, EvictedLemma
  <2>5. gone \in InList(d)
    BY <2>3 DEF Placed
  <2>6. Before(cache.lru, gone, stays)
    BY <2>3, <2>4, <2>5 DEF Placed, Evicted
  <2>7. cache.lru \in Seq(Handle) /\ NoDuplicates(cache.lru)
    BY <2>1 DEF Good, WellTyped, Linked
  <2> QED  BY <2>6, <2>7, PositionLemma
<1> HIDE DEF Ordered
<1>2. Spec => [][Ordered]_vars
  BY <1>1, Consistent, PTL DEF Spec
<1> QED  BY <1>2 DEF EvictsOldestFirst, Ordered

--------------------------------------------------------------------------------
\* The contract.

Stored(c) == [x \in Live(c) |-> [key |-> c.ent[x].key, value |-> c.ent[x].value]]

\* An entry is allocated exactly as long as the table names it or a client
\* holds it: the deleter runs at the last of Release, Erase and eviction.
LEMMA LiveIsNeeded ==
  ASSUME NEW c, NEW r, Good(c, r, Value)
  PROVE  Live(c) = Contract!Needed(c.table, r)
<1>1. /\ r \in [Handle -> Nat] /\ Live(c) \subseteq Handle
      /\ c.ent \in [Live(c) -> Entry(Value)]
      /\ InList(c) \subseteq Live(c)
      /\ \A x \in Live(c) : c.ent[x].refs = r[x] + (IF x \in InList(c) THEN 1 ELSE 0)
      /\ \A x \in Handle : r[x] > 0 => x \in Live(c)
      /\ \A k \in DOMAIN c.table : c.table[k] \in InList(c)
      /\ \A x \in InList(c) : c.ent[x].key \in DOMAIN c.table /\ c.table[c.ent[x].key] = x
  BY DEF Good, WellTyped, Counted, Linked
<1>2. Contract!Images(c.table) = InList(c)
  BY <1>1 DEF Contract!Images
<1>3. ASSUME NEW x \in Live(c), x \notin InList(c)  PROVE x \in Handle /\ r[x] > 0
  <2>1. c.ent[x].refs \in Nat \ {0}
    BY <1>1 DEF Entry
  <2> QED  BY <2>1, <1>1, <1>3
<1> QED  BY <1>1, <1>2, <1>3 DEF Contract!Needed

\* An operation that keeps keys and values and unmaps at most is, for the
\* contract, a restriction of what is alive.
LEMMA KeptIsRestricted ==
  ASSUME NEW c, NEW d, NEW q, Good(d, q, Value), Keeps(c, d)
  PROVE  Stored(d) = Contract!Restrict(Stored(c), Contract!Needed(d.table, q))
<1>1. Live(d) = Contract!Needed(d.table, q)
  BY LiveIsNeeded
<1>2. DOMAIN Stored(c) \cap Contract!Needed(d.table, q) = Live(d)
  BY <1>1 DEF Keeps, Stored
<1>3. \A x \in Live(d) : Stored(d)[x] = Stored(c)[x]
  BY DEF Keeps, Stored
<1>4. Stored(d) = [x \in Live(d) |-> Stored(d)[x]]
  BY DEF Stored
<1> QED  BY <1>2, <1>3, <1>4 DEF Contract!Restrict

\* Insert is an Insert of the contract.
LEMMA InsertRefines ==
  ASSUME IInv, NEW k \in Key, NEW v \in Value, NEW e \in Handle, DoInsert(k, v, e)
  PROVE  Contract!Insert(k, v, e)
<1> DEFINE d == Link(cache, k, v, e)
           q == [held EXCEPT ![e] = 1]
<1>1. e \notin Live(cache) /\ cache' = EvictLoop(d) /\ Good(cache, held, Value) /\ held' = q
  BY DEF DoInsert, Insert, IInv
<1>2. Good(d, q, Value)
  BY <1>1, LinkLemma
<1>3. Placed(cache, k, v, e, d)
  BY <1>1, PlacedLemma
<1> HIDE DEF d
<1>4. Evicted(d, cache') /\ Good(cache', held', Value)
  BY <1>1, <1>2, EvictedLemma, EvictLoopLemma
<1>5. Live(cache') = Contract!Needed(cache'.table, held')
  BY <1>4, LiveIsNeeded
<1>6. ASSUME NEW x \in Live(cache')
      PROVE  Stored(cache')[x] = IF x = e THEN [key |-> k, value |-> v] ELSE Stored(cache)[x]
  <2>1. x \in Live(d) /\ cache'.ent[x].key = d.ent[x].key /\ cache'.ent[x].value = d.ent[x].value
    BY <1>4 DEF Evicted, Keeps
  <2>2. CASE x = e
    BY <2>1, <2>2, <1>3 DEF Placed, Stored
  <2>3. CASE x # e
    <3>1. x \in Live(cache) /\ d.ent[x].key = cache.ent[x].key /\ d.ent[x].value = cache.ent[x].value
      BY <2>1, <2>3, <1>3 DEF Placed
    <3> QED  BY <3>1, <2>1, <2>3 DEF Stored
  <2> QED  BY <2>2, <2>3
<1>7. Stored(cache') = [x \in Contract!Needed(cache'.table, held') |->
                          IF x = e THEN [key |-> k, value |-> v] ELSE Stored(cache)[x]]
  <2>1. Stored(cache') = [x \in Live(cache') |-> Stored(cache')[x]]
    BY DEF Stored
  <2> QED  BY <2>1, <1>5, <1>6
<1> DEFINE K == DOMAIN cache'.table
<1>8. K \subseteq DOMAIN cache.table \cup {k}
      /\ cache'.table = [j \in K |-> IF j = k THEN e ELSE cache.table[j]]
  <2>1. /\ DOMAIN d.table = DOMAIN cache.table \cup {k}
        /\ \A j \in DOMAIN d.table : d.table[j] = IF j = k THEN e ELSE cache.table[j]
    BY <1>3 DEF Placed, TableInsert
  <2>2. K \subseteq DOMAIN d.table /\ cache'.table = [j \in K |-> d.table[j]]
    BY <1>4 DEF Evicted
  <2> QED  BY <2>1, <2>2
<1>9. e \notin DOMAIN Stored(cache)
  BY <1>1 DEF Stored
<1> HIDE DEF K
<1> QED  BY <1>1, <1>7, <1>8, <1>9 DEF Contract!Insert, Stored

\* Lookup is a Lookup of the contract: moving the entry to the young end of
\* the list and counting the new handle change nothing that is alive.
LEMMA LookupRefines ==
  ASSUME IInv, NEW k \in Key, DoLookup(k)
  PROVE  Contract!Lookup(k)
<1> DEFINE e == cache.table[k]
<1>1. /\ k \in DOMAIN cache.table /\ cache' = Lookup(cache, k)
      /\ held' = [held EXCEPT ![e] = @ + 1]
  BY DEF DoLookup
<1>2. /\ cache'.table = cache.table /\ cache'.ent = [cache.ent EXCEPT ![e].refs = @ + 1]
  BY <1>1 DEF Lookup
<1>3. e \in Live(cache) /\ cache.ent \in [Live(cache) -> Entry(Value)]
  BY <1>1 DEF IInv, Good, Linked, WellTyped
<1>4. Live(cache') = Live(cache) /\ \A x \in Live(cache) :
        cache'.ent[x].key = cache.ent[x].key /\ cache'.ent[x].value = cache.ent[x].value
  BY <1>2, <1>3 DEF Live, Entry
<1>5. Stored(cache') = Stored(cache)
  BY <1>4 DEF Stored
<1> QED  BY <1>1, <1>2, <1>5 DEF Contract!Lookup, Stored

\* Release is a Release of the contract.
LEMMA ReleaseRefines ==
  ASSUME IInv, NEW e \in Handle, DoRelease(e)
  PROVE  Contract!Release(e)
<1>1. held[e] > 0 /\ cache' = UnrefAll(cache, {e}) /\ held' = [held EXCEPT ![e] = @ - 1]
      /\ cache' = Release(cache, e)
  BY DEF DoRelease, Release, Unref
<1>2. Good(cache', held', Value)
  <2>1. Good(cache, held, Value) /\ Fits(cache)
    BY DEF IInv
  <2>2. Good(Release(cache, e), [held EXCEPT ![e] = @ - 1], Value)
    BY <2>1, <1>1, ReleaseLemma
  <2>3. cache' = Release(cache, e) /\ held' = [held EXCEPT ![e] = @ - 1]
    BY <1>1
  <2> QED  BY <2>2, <2>3
<1>3. {e} \subseteq Live(cache) /\ WellTyped(cache, Value) /\ Charged(cache)
  BY <1>1 DEF IInv, Good, Counted
<1> DEFINE c == cache
           d == UnrefAll(c, {e})
<1>4. /\ d.lru = c.lru /\ d.table = c.table
      /\ d.usage = c.usage - Cardinality({x \in {e} : c.ent[x].refs = 1})
      /\ Live(d) = Live(c) \ {x \in {e} : c.ent[x].refs = 1}
      /\ \A x \in Live(d) :
           /\ d.ent[x].key = c.ent[x].key
           /\ d.ent[x].value = c.ent[x].value
           /\ d.ent[x].refs = IF x \in {e} THEN c.ent[x].refs - 1 ELSE c.ent[x].refs
      /\ WellTyped(d, Value)
      /\ Charged(d)
  BY <1>3, UnrefShape, Zenon
<1>5. Keeps(cache, cache') /\ cache'.table = cache.table
  BY <1>1, <1>4 DEF Keeps
<1>6. Stored(cache') = Contract!Restrict(Stored(cache), Contract!Needed(cache.table, held'))
  BY <1>2, <1>5, KeptIsRestricted
<1> QED  BY <1>1, <1>5, <1>6 DEF Contract!Release, Stored

\* Erase unmaps one key.
LEMMA EraseRefines ==
  ASSUME IInv, NEW k \in Key, DoErase(k)
  PROVE  Contract!Unmap({k})
<1> DEFINE e == cache.table[k]
           l == LRU_Remove(cache.lru, e)
           t == TableRemove(cache.table, {k})
<1>1. cache' = Erase(cache, k) /\ held' = held /\ Good(cache, held, Value)
  BY DEF DoErase, IInv
<1>2. Good(cache', held', Value)
  BY <1>1, EraseLemma DEF IInv
<1>3. /\ DOMAIN cache.table \subseteq Key /\ cache.table \in [DOMAIN cache.table -> Handle]
      /\ WellTyped(cache, Value) /\ Charged(cache)
  BY <1>1 DEF Good, WellTyped
<1>4. Keeps(cache, cache') /\ cache'.table = Contract!Restrict(cache.table, Key \ {k})
  <2>1. CASE k \notin DOMAIN cache.table
    BY <2>1, <1>1, <1>3 DEF Erase, Keeps, Contract!Restrict
  <2>2. CASE k \in DOMAIN cache.table
    <3>1. cache' = UnrefAll(Relinked(cache, t, l), {e})
      BY <2>2, <1>1 DEF Erase, Unref
    <3>2. /\ {e} \subseteq Live(cache) /\ cache.lru \in Seq(Handle)
          /\ NoDuplicates(cache.lru) /\ e \in Elems(cache.lru)
      BY <2>2, <1>1 DEF Good, Linked, WellTyped, InList, Elems
    <3>3. l \in Seq(Handle)
      BY <3>2, RemoveLemma
    <3>4. DOMAIN t \subseteq Key /\ t \in [DOMAIN t -> Handle]
      BY <1>3 DEF TableRemove
    <3>5. t = Contract!Restrict(cache.table, Key \ {k})
      BY <1>3 DEF TableRemove, Contract!Restrict
    <3> HIDE DEF e, l, t
    <3> DEFINE d == UnrefAll(Relinked(cache, t, l), {e})
    <3>6. Keeps(cache, d) /\ d.table = t /\ d.lru = l
      BY <3>2, <3>3, <3>4, <1>3, UnrefKeeps
    <3> HIDE DEF d
    <3> QED  BY <3>1, <3>5, <3>6 DEF d
  <2> QED  BY <2>1, <2>2
<1>5. Stored(cache') = Contract!Restrict(Stored(cache), Contract!Needed(cache'.table, held))
  BY <1>1, <1>2, <1>4, KeptIsRestricted
<1> QED  BY <1>1, <1>4, <1>5 DEF Contract!Unmap, Stored

\* The destructor unmaps every key.
LEMMA DestroyRefines ==
  ASSUME IInv, DoDestroy
  PROVE  Contract!Unmap(Key)
<1> DEFINE t == <<>>
           l == <<>>
           E == InList(cache)
<1>1. cache' = UnrefAll(Relinked(cache, t, l), E) /\ cache' = Destroy(cache) /\ held' = held
  BY DEF DoDestroy, Destroy
<1>2. Good(cache', held', Value)
  BY <1>1, DestroyLemma DEF IInv
<1>3. E \subseteq Live(cache) /\ WellTyped(cache, Value) /\ Charged(cache)
      /\ DOMAIN cache.table \subseteq Key
  BY DEF IInv, Good, Linked, WellTyped
<1>4. l \in Seq(Handle) /\ DOMAIN t \subseteq Key /\ t \in [DOMAIN t -> Handle]
  OBVIOUS
<1>5. t = Contract!Restrict(cache.table, Key \ Key)
  <2>1. DOMAIN cache.table \cap (Key \ Key) = {}
    OBVIOUS
  <2> QED  BY <2>1 DEF Contract!Restrict
<1> HIDE DEF E, t, l
<1> DEFINE d == UnrefAll(Relinked(cache, t, l), E)
<1>a. Keeps(cache, d) /\ d.table = t /\ d.lru = l
  BY <1>3, <1>4, UnrefKeeps
<1>b. cache' = d
  BY <1>1
<1> HIDE DEF d
<1>6. Keeps(cache, cache') /\ cache'.table = t
  BY <1>a, <1>b
<1>7. Stored(cache') = Contract!Restrict(Stored(cache), Contract!Needed(cache'.table, held))
  BY <1>1, <1>2, <1>6, KeptIsRestricted
<1> QED  BY <1>1, <1>5, <1>6, <1>7 DEF Contract!Unmap, Stored

\* The shard implements the contract of cache.h: for its clients an entry has
\* the key and value it was inserted with until it is neither mapped nor held,
\* and its deleter runs at that step, neither earlier nor later.
THEOREM ShardMeetsContract == Spec => ImplementsContract
<1>1. Init => Contract!Init
  <2> SUFFICES ASSUME Init  PROVE Contract!Init
    OBVIOUS
  <2>1. cache.ent = <<>> /\ cache.table = <<>> /\ held = [h \in Handle |-> 0]
    BY DEF Init, EmptyCache
  <2>2. Live(cache) = {}
    BY <2>1 DEF Live
  <2> QED  BY <2>1, <2>2 DEF Contract!Init
<1>2. IInv /\ [Next]_vars => [Contract!Next]_(Contract!vars)
  <2> SUFFICES ASSUME IInv, [Next]_vars  PROVE [Contract!Next]_(Contract!vars)
    OBVIOUS
  <2>1. ASSUME NEW k \in Key, NEW v \in Value, NEW e \in Handle, DoInsert(k, v, e)
        PROVE  Contract!Next
    BY <2>1, InsertRefines DEF Contract!Next
  <2>2. ASSUME NEW k \in Key, DoLookup(k)  PROVE Contract!Next
    BY <2>2, LookupRefines DEF Contract!Next
  <2>3. ASSUME NEW e \in Handle, DoRelease(e)  PROVE Contract!Next
    BY <2>3, ReleaseRefines DEF Contract!Next
  <2>4. ASSUME NEW k \in Key, DoErase(k)  PROVE Contract!Next
    BY <2>4, EraseRefines DEF Contract!Next
  <2>5. ASSUME DoDestroy  PROVE Contract!Next
    BY <2>5, DestroyRefines DEF Contract!Next
  <2>6. CASE UNCHANGED vars
    BY <2>6 DEF vars, Contract!vars, Live
  <2> QED  BY <2>1, <2>2, <2>3, <2>4, <2>5, <2>6 DEF Next
<1> QED  BY <1>1, <1>2, Consistent, PTL DEF Spec, ImplementsContract, Contract!Spec
================================================================================
