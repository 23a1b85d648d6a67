---------------------------- MODULE HandleTable ----------------------------
(***************************************************************************)
(* The hash table of a cache shard and the choice of the shard             *)
(* (util/cache.cc).  A table is a record of length_, elems_ and the chain  *)
(* of every bucket; a handle is a record with its key and its hash.        *)
(***************************************************************************)
EXTENDS Naturals, Sequences, SequencesExt, FiniteSetsExt

CONSTANTS FirstLength,   \* 4, the smallest length of the array
          HashMax,       \* 2^32
          kNumShards,    \* 2^4
          Hash(_)        \* HashSlice

NoHandle == [key |-> <<>>, hash |-> 0, id |-> 0]

\* The chain of a key's bucket and the place in it of the key's handle, or the
\* place behind the last one.
Chain(t, hash) == t.list[hash % t.length]
FindPointer(t, key, hash) ==
  LET c == Chain(t, hash)
  IN  Min({i \in DOMAIN c : c[i].hash = hash /\ c[i].key = key} \cup {Len(c) + 1})

\* The handles are moved chain by chain, each to the front of its new chain.
Resize(t) ==
  LET length == Min({n \in {FirstLength * 2 ^ i : i \in 0 .. t.elems} : n >= t.elems})
      moved  == FlattenSeq([i \in 1 .. t.length |-> t.list[i - 1]])
  IN  [length |-> length, elems |-> t.elems,
       list |-> [b \in 0 .. length - 1 |->
                   Reverse(SelectSeq(moved, LAMBDA h : h.hash % length = b))]]

NewTable == Resize([length |-> 0, elems |-> 0, list |-> <<>>])

\* The operations return the table and a handle, the one looked up, displaced
\* or removed.
HandleLookup(t, key, hash) ==
  LET c == Chain(t, hash)
      i == FindPointer(t, key, hash)
  IN  IF i <= Len(c) THEN c[i] ELSE NoHandle

HandleInsert(t, h) ==
  LET b     == h.hash % t.length
      i     == FindPointer(t, h.key, h.hash)
      added == [t EXCEPT !.list[b] = Append(@, h), !.elems = @ + 1]
  IN  [old |-> HandleLookup(t, h.key, h.hash),
       table |-> IF i <= Len(t.list[b]) THEN [t EXCEPT !.list[b][i] = h]
                 ELSE IF added.elems > t.length THEN Resize(added) ELSE added]

HandleRemove(t, key, hash) ==
  LET b == hash % t.length
      i == FindPointer(t, key, hash)
  IN  [old |-> HandleLookup(t, key, hash),
       table |-> IF i > Len(t.list[b]) THEN t
                 ELSE [t EXCEPT !.list[b] = RemoveAt(@, i), !.elems = @ - 1]]

\* The upper bits of the hash choose the shard, the lower ones the bucket.
Shard(hash) == hash \div (HashMax \div kNumShards)
PerShard(capacity) == (capacity + kNumShards - 1) \div kNumShards

NewShards == [s \in 0 .. kNumShards - 1 |-> NewTable]
ShardedInsert(shards, key, id) ==
  LET r == HandleInsert(shards[Shard(Hash(key))], [key |-> key, hash |-> Hash(key), id |-> id])
  IN  [old |-> r.old, shards |-> [shards EXCEPT ![Shard(Hash(key))] = r.table]]
ShardedLookup(shards, key) == HandleLookup(shards[Shard(Hash(key))], key, Hash(key))
ShardedErase(shards, key) ==
  LET r == HandleRemove(shards[Shard(Hash(key))], key, Hash(key))
  IN  [old |-> r.old, shards |-> [shards EXCEPT ![Shard(Hash(key))] = r.table]]
=============================================================================
