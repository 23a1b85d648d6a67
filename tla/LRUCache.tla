-------------------------------- MODULE LRUCache -------------------------------
(***************************************************************************)
(* One LRUCache shard and its clients: any number of threads that insert,  *)
(* look up, release and erase in any order.  Every operation runs under    *)
(* the shard's mutex, so an operation is one step.                         *)
(***************************************************************************)
EXTENDS LRUCacheOps

CONSTANTS Value,    \* what a client stores
          MaxHolds  \* bound: references the clients hold on one entry

ASSUME MaxHoldsAssumption == MaxHolds \in Nat \ {0}

VARIABLES cache,  \* the shard, a record of LRUCacheOps
          held    \* held[h]: references to h the clients have not released

vars == <<cache, held>>

Init == /\ cache = EmptyCache
        /\ held = [h \in Handle |-> 0]

\* Insert returns a handle that the client must release.
DoInsert(k, v, e) ==
  /\ e \notin Live(cache)
  /\ cache' = Insert(cache, k, v, e)
  /\ held' = [held EXCEPT ![e] = 1]

DoLookup(k) ==
  /\ k \in DOMAIN cache.table
  /\ held[cache.table[k]] < MaxHolds
  /\ cache' = Lookup(cache, k)
  /\ held' = [held EXCEPT ![cache.table[k]] = @ + 1]

\* cache.h: "REQUIRES: handle must not have been released yet".
DoRelease(e) ==
  /\ held[e] > 0
  /\ cache' = Release(cache, e)
  /\ held' = [held EXCEPT ![e] = @ - 1]

DoErase(k) ==
  /\ cache' = Erase(cache, k)
  /\ UNCHANGED held

\* The destructor; a client that may call it holds nothing that is mapped.
DoDestroy ==
  /\ DestroyAsserts(cache)
  /\ cache' = Destroy(cache)
  /\ UNCHANGED held

Next == \/ \E k \in Key, v \in Value, e \in Handle : DoInsert(k, v, e)
        \/ \E k \in Key : DoLookup(k)
        \/ \E e \in Handle : DoRelease(e)
        \/ \E k \in Key : DoErase(k)
        \/ DoDestroy

Spec == Init /\ [][Next]_vars

--------------------------------------------------------------------------------
\* The shapes of the shard's fields and of the clients' counts.
TypeOK == WellTyped(cache, Value) /\ held \in [Handle -> Nat]

\* refs counts the list's reference and the clients' references, no more and
\* no fewer: an entry is freed neither while somebody can reach it nor later
\* than the last Unref, whatever order Release, Erase and eviction come in.
RefCounts == Counted(cache, held, InList(cache))

\* The hash table and the list hold the same entries, each once and under
\* its own key, so that no Lookup finds an unlinked entry.
TableIsList == Linked(cache)

\* usage_ is the charge of everything allocated, the unmapped entries that a
\* client still holds included.
UsageIsLive == Charged(cache)

\* The cache exceeds its capacity only with an empty list: when clients hold
\* more than capacity_ entries, nothing at all can be found in it.
OverCapacityUnlisted == cache.usage > Capacity => cache.lru = <<>>

Position(s, e) == CHOOSE i \in 1..Len(s) : s[i] = e

\* An insertion evicts a prefix of the list: if an entry of another key
\* leaves the list, everything that was older leaves with it.
EvictsOldestFirst ==
  [][\A k \in Key, v \in Value, e \in Handle : DoInsert(k, v, e) =>
       \A gone \in InList(cache) \ InList(cache'), stays \in InList(cache) :
         cache.ent[gone].key # k /\ stays \in InList(cache') =>
           Position(cache.lru, gone) < Position(cache.lru, stays)]_vars

\* The shard implements the contract of cache.h, the moment of every deleter
\* call included.
Contract == INSTANCE CacheContract
  WITH mapped <- cache.table,
       alive <- [e \in Live(cache) |->
                   [key |-> cache.ent[e].key, value |-> cache.ent[e].value]]
ImplementsContract == Contract!Spec
================================================================================
