----------------------------- MODULE InodeCacheOps -----------------------------
(***************************************************************************)
(* The InodeCache of src/src/fs/icache.cpp, on top of an LRUCache and of   *)
(* the LevelDB table, as functions on the pair of both: a record           *)
(*   cache  the LRU cache of LRUCacheOps; the value of an entry is the     *)
(*          InodeCacheHandle, [mode, val]                                  *)
(*   db     what a Get of each key returns, NoRecord where it finds none   *)
(* An InodeCacheHandle and the LRUHandle that points at it are allocated   *)
(* and freed together, so one address stands for both.                     *)
(***************************************************************************)
EXTENDS LRUCacheOps

CONSTANTS NoRecord,  \* Get finds nothing
          NoHandle   \* the NULL InodeCacheHandle

ASSUME NoHandleAssumption == NoHandle \notin Handle

INODE_READ == "read"
INODE_DELETE == "delete"
INODE_WRITE == "write"
InodeAccessMode == {INODE_READ, INODE_DELETE, INODE_WRITE}

KeyOf(s, h) == s.cache.ent[h].key
ModeOf(s, h) == s.cache.ent[h].value.mode
ValueOf(s, h) == s.cache.ent[h].value.val

SetMode(s, h, mode) == [s EXCEPT !.cache.ent[h].value.mode = mode]
SetValue(s, h, val) == [s EXCEPT !.cache.ent[h].value.val = val]

FreshHandle(s) == CHOOSE h \in Handle : h \notin Live(s.cache)

\* CleanInodeHandle, the deleter: the record that the handle's key has after
\* it, from the one before and the mode that the handle has when it is freed.
CleanInodeHandle(record, handle) ==
  CASE handle.mode = INODE_WRITE -> handle.val
    [] handle.mode = INODE_DELETE -> NoRecord
    [] OTHER -> record

\* A cache operation that took the cache to c, with the deleters it ran.  No
\* operation frees two entries of one key, so the order does not matter.
WithDeleters(s, c) ==
  LET dead == Freed(s.cache, c)
      cleaned(k) == CHOOSE h \in dead : KeyOf(s, h) = k
  IN  [cache |-> c,
       db |-> IF dead = {} THEN s.db
              ELSE [k \in Key |->
                      IF \E h \in dead : KeyOf(s, h) = k
                      THEN CleanInodeHandle(s.db[k], s.cache.ent[cleaned(k)].value)
                      ELSE s.db[k]]]

InodeCache_Evict(s, k) == WithDeleters(s, Erase(s.cache, k))

InodeCache_Release(s, h) == WithDeleters(s, Release(s.cache, h))

\* Insert and Get return the new state and the handle.
InodeCache_Insert(s, k, val) ==
  LET h == FreshHandle(s)
      v == [mode |-> INODE_WRITE, val |-> val]
  IN  [s |-> WithDeleters(s, Insert(s.cache, k, v, h)), h |-> h]

InodeCache_Get(s, k, mode) ==
  IF k \in DOMAIN s.cache.table
  THEN LET h == s.cache.table[k]
           hit == [s EXCEPT !.cache = Lookup(@, k)]
       IN  [s |-> IF mode # INODE_READ THEN SetMode(hit, h, mode) ELSE hit,
            h |-> h]
  ELSE IF s.db[k] # NoRecord
  THEN LET h == FreshHandle(s)
           v == [mode |-> mode, val |-> s.db[k]]
       IN  [s |-> WithDeleters(s, Insert(s.cache, k, v, h)), h |-> h]
  ELSE [s |-> s, h |-> NoHandle]

InodeCache_WriteBack(s, h) ==
  CASE ModeOf(s, h) = INODE_WRITE ->
         SetMode([s EXCEPT !.db[KeyOf(s, h)] = ValueOf(s, h)], h, INODE_READ)
    [] ModeOf(s, h) = INODE_DELETE ->
         InodeCache_Evict([s EXCEPT !.db[KeyOf(s, h)] = NoRecord], KeyOf(s, h))
    [] OTHER -> s

\* One handle's turn in BatchCommit: its part of the batch is recorded, a
\* written handle is clean from now on, a deleted one leaves the cache.
Batched(b, h) ==
  LET s == b.s
      k == KeyOf(s, h)
  IN  CASE ModeOf(s, h) = INODE_WRITE ->
             [s |-> SetMode(s, h, INODE_READ),
              batch |-> [x \in DOMAIN b.batch \cup {k} |->
                           IF x = k THEN ValueOf(s, h) ELSE b.batch[x]]]
        [] ModeOf(s, h) = INODE_DELETE ->
             [s |-> InodeCache_Evict(s, k),
              batch |-> [x \in DOMAIN b.batch \cup {k} |->
                           IF x = k THEN NoRecord ELSE b.batch[x]]]
        [] OTHER -> b

\* The batch is written last, after the deleters that the evictions ran.
InodeCache_BatchCommit(s, h1, h2) ==
  LET b == Batched(Batched([s |-> s, batch |-> <<>>], h1), h2)
  IN  [b.s EXCEPT !.db = [k \in Key |->
         IF k \in DOMAIN b.batch THEN b.batch[k] ELSE @[k]]]
================================================================================
