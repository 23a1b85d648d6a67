------------------------------ MODULE LRUCacheOps ------------------------------
(***************************************************************************)
(* The operations of one LRUCache shard of src/lib/leveldb/util/cache.cc,  *)
(* as functions from cache states to cache states.  The shard's mutex      *)
(* makes each of them atomic, so a client composes them freely.            *)
(*                                                                         *)
(* A cache state is a record                                               *)
(*   ent    the allocated LRUHandles: address -> [key, refs, value]        *)
(*   table  the hash table: key -> address, on the keys it holds           *)
(*   lru    the circular list, oldest entry first                          *)
(*   usage  the sum of the charges (InodeCache charges 1 for each entry)   *)
(* The deleter of an entry runs exactly when its address leaves            *)
(* DOMAIN ent; Freed tells a client of the cache which ones did.           *)
(***************************************************************************)
EXTENDS Naturals, Sequences, FiniteSets

CONSTANTS Key,      \* keys of this shard
          Handle,   \* addresses malloc can return
          Capacity  \* capacity_ of the shard

ASSUME CapacityAssumption == Capacity \in Nat
ASSUME HandleAssumption == IsFiniteSet(Handle)

EmptyCache == [ent |-> <<>>, table |-> <<>>, lru |-> <<>>, usage |-> 0]

Live(c) == DOMAIN c.ent
InList(c) == {c.lru[i] : i \in 1..Len(c.lru)}

\* The entries whose deleter ran between c and d.
Freed(c, d) == Live(c) \ Live(d)

\* Unlinking the node of e: the list without the position that holds e.
LRU_Remove(s, e) ==
  LET i == CHOOSE j \in 1..Len(s) : s[j] = e
  IN  [j \in 1..(Len(s) - 1) |-> IF j < i THEN s[j] ELSE s[j + 1]]

LRU_Append(s, e) == Append(s, e)

TableRemove(t, K) == [k \in DOMAIN t \ K |-> t[k]]
TableInsert(t, k, e) == [j \in DOMAIN t \cup {k} |-> IF j = k THEN e ELSE t[j]]

\* The cache with another table and another list.
Relinked(c, t, l) ==
  [ent |-> c.ent, table |-> t, lru |-> l, usage |-> c.usage]

\* Drop one reference of every entry in E: an entry that had only that one
\* is uncharged, handed to its deleter and freed.
UnrefAll(c, E) ==
  LET dead == {e \in E : c.ent[e].refs = 1}
  IN  [ent   |-> [e \in Live(c) \ dead |->
                    IF e \in E THEN [c.ent[e] EXCEPT !.refs = @ - 1]
                               ELSE c.ent[e]],
       table |-> c.table,
       lru   |-> c.lru,
       usage |-> c.usage - Cardinality(dead)]

Unref(c, e) == UnrefAll(c, {e})

\* Mutant of Lookup: the returned handle is not counted.
LookupUncounted(c, k) ==
  [c EXCEPT !.lru = LRU_Append(LRU_Remove(@, c.table[k]), c.table[k])]

\* LRUCache::Lookup on a key the table holds (a miss changes nothing).
Lookup(c, k) ==
  LET e == c.table[k]
  IN  [ent   |-> [c.ent EXCEPT ![e].refs = @ + 1],
       table |-> c.table,
       lru   |-> LRU_Append(LRU_Remove(c.lru, e), e),
       usage |-> c.usage]

\* LRUCache::Release
Release(c, e) == Unref(c, e)

\* Mutant of Erase: the entry leaves the table but stays on the list.
EraseStaysLinked(c, k) ==
  IF k \in DOMAIN c.table
  THEN Unref([c EXCEPT !.table = TableRemove(@, {k})], c.table[k])
  ELSE c

\* LRUCache::Erase
Erase(c, k) ==
  IF k \in DOMAIN c.table
  THEN LET e == c.table[k]
       IN  Unref(Relinked(c, TableRemove(c.table, {k}), LRU_Remove(c.lru, e)), e)
  ELSE c

\* The first n entries of the list, and how many of them an Unref frees.
Oldest(c, n) == {c.lru[i] : i \in 1..n}
FreedByEvicting(c, n) ==
  Cardinality({e \in Oldest(c, n) : c.ent[e].refs = 1})

\* Mutant of LoopEnds: the loop stops one entry too early.
LoopEndsEarly(c, n) ==
  n = Len(c.lru) \/ c.usage - FreedByEvicting(c, n) <= Capacity + 1

\* The loop of Insert ends after n rounds: usage_ fits or the list is empty.
\* An evicted entry that a client still holds gives no usage back.
LoopEnds(c, n) ==
  n = Len(c.lru) \/ c.usage - FreedByEvicting(c, n) <= Capacity

\* How often the loop runs.
Evictions(c) ==
  CHOOSE n \in 0..Len(c.lru) :
    LoopEnds(c, n) /\ \A m \in 0..(n - 1) : ~LoopEnds(c, m)

\* Mutant of EvictLoop: the newest entries are evicted.
EvictNewest(c) ==
  LET n == Evictions(c)
      keep == Len(c.lru) - n
      new == {c.lru[i] : i \in (keep + 1)..Len(c.lru)}
  IN  UnrefAll([c EXCEPT !.lru = SubSeq(@, 1, keep),
                         !.table = TableRemove(@, {c.ent[e].key : e \in new})],
               new)

\* while (usage_ > capacity_ && lru_.next != &lru_) { remove the oldest }
EvictLoop(c) ==
  LET n == Evictions(c)
      old == Oldest(c, n)
      rest == SubSeq(c.lru, n + 1, Len(c.lru))
  IN  UnrefAll(Relinked(c, TableRemove(c.table, {c.ent[e].key : e \in old}), rest),
               old)

\* Mutant of Link: the entry that the new one displaces keeps its reference.
LinkLeaksDisplaced(c, k, v, e) ==
  [ent   |-> [h \in Live(c) \cup {e} |->
                IF h = e THEN [key |-> k, refs |-> 2, value |-> v]
                         ELSE c.ent[h]],
   table |-> TableInsert(c.table, k, e),
   lru   |-> LRU_Append(IF k \in DOMAIN c.table
                        THEN LRU_Remove(c.lru, c.table[k]) ELSE c.lru, e),
   usage |-> c.usage + 1]

\* The new entry e is allocated, charged, appended and put in the table in the
\* place of the entry the table had for k, which is unlinked and unreferenced.
Allocate(c, k, v, e) ==
  [ent   |-> [h \in Live(c) \cup {e} |->
                IF h = e THEN [key |-> k, refs |-> 2, value |-> v] ELSE c.ent[h]],
   table |-> TableInsert(c.table, k, e),
   lru   |-> LRU_Append(c.lru, e),
   usage |-> c.usage + 1]

Link(c, k, v, e) ==
  LET d == Allocate(c, k, v, e)
  IN  IF k \in DOMAIN c.table
      THEN Unref(Relinked(d, d.table, LRU_Remove(d.lru, c.table[k])), c.table[k])
      ELSE d

\* LRUCache::Insert at a fresh address e; the caller owns one reference.
Insert(c, k, v, e) == EvictLoop(Link(c, k, v, e))

\* LRUCache::~LRUCache unreferences what is still on the list.  Its assertion
\* is that no client holds any of it.
DestroyAsserts(c) == \A e \in InList(c) : c.ent[e].refs = 1
Destroy(c) ==
  UnrefAll(Relinked(c, <<>>, <<>>), InList(c))

--------------------------------------------------------------------------------
\* Well-formed caches, for a client that stores values in V and holds r[e]
\* references to the entry e.

Entry(V) == [key : Key, refs : Nat \ {0}, value : V]

WellTyped(c, V) ==
  /\ c = [ent |-> c.ent, table |-> c.table, lru |-> c.lru, usage |-> c.usage]
  /\ Live(c) \subseteq Handle
  /\ c.ent \in [Live(c) -> Entry(V)]
  /\ DOMAIN c.table \subseteq Key
  /\ c.table \in [DOMAIN c.table -> Handle]
  /\ c.lru \in Seq(Handle)
  /\ c.usage \in Nat

\* The cache holds one reference to each entry of L, the client r[e] to each.
Counted(c, r, L) ==
  /\ \A e \in Live(c) : c.ent[e].refs = r[e] + (IF e \in L THEN 1 ELSE 0)
  /\ \A e \in Handle : r[e] > 0 => e \in Live(c)

NoDuplicates(s) == \A i, j \in 1..Len(s) : s[i] = s[j] => i = j

\* The table and the list hold the same entries, each under its own key.
Linked(c) ==
  /\ InList(c) \subseteq Live(c)
  /\ NoDuplicates(c.lru)
  /\ \A k \in DOMAIN c.table :
       c.table[k] \in InList(c) /\ c.ent[c.table[k]].key = k
  /\ \A e \in InList(c) :
       c.ent[e].key \in DOMAIN c.table /\ c.table[c.ent[e].key] = e

Charged(c) == c.usage = Cardinality(Live(c))
================================================================================
