-------------------------- MODULE HandleTableLaws --------------------------
(***************************************************************************)
(* The hash tables of the shards together are a function from keys to      *)
(* handles, which is what LRUCacheOps takes a table to be: checked for     *)
(* every sequence of insertions and removals up to MaxOps, with equal      *)
(* hashes, shared buckets and arrays that have to grow twice.              *)
(***************************************************************************)
EXTENDS Naturals, Sequences, FiniteSets

LOCAL Keys == {<<1>>, <<2>>, <<3>>, <<4>>, <<5>>}
LOCAL HashOf(k) == <<5, 5, 1, 7, 13>>[k[1]]
LOCAL MaxOps == 5

LOCAL INSTANCE HandleTable WITH FirstLength <- 1, HashMax <- 16, kNumShards <- 2, Hash <- HashOf

\* The shards and the function they stand for, after n operations.
LOCAL After[n \in 0 .. MaxOps] ==
  IF n = 0 THEN {[shards |-> NewShards, fun |-> [k \in Keys |-> NoHandle], old |-> NoHandle, was |-> NoHandle]}
  ELSE UNION {{LET r == ShardedInsert(a.shards, k, n % 2)
               IN  [shards |-> r.shards, old |-> r.old, was |-> a.fun[k],
                    fun |-> [a.fun EXCEPT ![k] = [key |-> k, hash |-> HashOf(k), id |-> n % 2]]] : k \in Keys}
              \cup {LET r == ShardedErase(a.shards, k)
                    IN  [shards |-> r.shards, old |-> r.old, was |-> a.fun[k],
                         fun |-> [a.fun EXCEPT ![k] = NoHandle]] : k \in Keys} : a \in After[n - 1]}

(* Every key is found where it was put, through collisions and resizes, the  *)
(* handle that leaves is the one that was there, elems_ counts the handles   *)
(* and no array is shorter than that (HandleTable of util/cache.cc).         *)
LOCAL Tables ==
  \A n \in 0 .. MaxOps : \A a \in After[n] :
    /\ a.old = a.was
    /\ \A k \in Keys : ShardedLookup(a.shards, k) = a.fun[k]
    /\ \A s \in DOMAIN a.shards :
         /\ a.shards[s].elems = Cardinality({k \in Keys : a.fun[k] # NoHandle /\ Shard(HashOf(k)) = s})
         /\ a.shards[s].elems <= a.shards[s].length

(* The shards together have room for what the cache was asked to hold, and   *)
(* for less than one more entry per shard (ShardedLRUCache).                 *)
LOCAL Capacities ==
  \A c \in 0 .. 40 : 2 * PerShard(c) \in c .. c + 1

ASSUME HandleTableLaws == Tables /\ Capacities
=============================================================================
