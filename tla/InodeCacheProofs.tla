---------------------------- MODULE InodeCacheProofs ---------------------------
(***************************************************************************)
(* What the operations of the inode cache do to cache and table, for every *)
(* set R of records, every capacity and every count r of the references    *)
(* that the handlers and the clients hold.                                 *)
(***************************************************************************)
EXTENDS InodeCacheOps, LRUOpsProofs

Cached(R) == [mode : InodeAccessMode, val : R]

StoreOK(s, r, R) ==
  /\ s = [cache |-> s.cache, db |-> s.db]
  /\ Good(s.cache, r, Cached(R)) /\ Fits(s.cache)
  /\ s.db \in [Key -> R \cup {NoRecord}] /\ NoRecord \notin R

LiveIn(s) == Live(s.cache)

\* The entry of h is the same in s and t.
Same(s, t, h) ==
  KeyOf(t, h) = KeyOf(s, h) /\ ModeOf(t, h) = ModeOf(s, h) /\ ValueOf(t, h) = ValueOf(s, h)

\* What the deleters that ran between s and t did to the LevelDB table.
Cleaned(s, t) ==
  \A k \in Key :
    \/ t.db[k] = s.db[k] /\ \A h \in LiveIn(s) \ LiveIn(t) : KeyOf(s, h) # k
    \/ \E h \in LiveIn(s) \ LiveIn(t) :
         KeyOf(s, h) = k /\ t.db[k] = CleanInodeHandle(s.db[k], s.cache.ent[h].value)

\* t is s without some entries, and with some keys unmapped.
Lessened(s, t) ==
  /\ LiveIn(t) \subseteq LiveIn(s)
  /\ \A h \in LiveIn(t) : Same(s, t, h)
  /\ \A k \in DOMAIN t.cache.table :
       k \in DOMAIN s.cache.table /\ t.cache.table[k] = s.cache.table[k]
  /\ Cleaned(s, t)

\* t is s with a new entry h, whose key is mapped if there was room, and
\* otherwise with less.
Added(s, t, h, k, mode, val) ==
  /\ h \in LiveIn(t) /\ h \notin LiveIn(s)
  /\ KeyOf(t, h) = k /\ ModeOf(t, h) = mode /\ ValueOf(t, h) = val
  /\ \A x \in LiveIn(t) \ {h} : x \in LiveIn(s) /\ Same(s, t, x)
  /\ \A j \in DOMAIN t.cache.table :
       \/ j = k /\ t.cache.table[j] = h
       \/ j # k /\ j \in DOMAIN s.cache.table /\ t.cache.table[j] = s.cache.table[j]
  /\ Cleaned(s, t)

\* t is s with another mode and value of the entry h.
Changed(s, t, h, mode, val) ==
  /\ LiveIn(t) = LiveIn(s) /\ t.cache.table = s.cache.table
  /\ \A x \in LiveIn(t) \ {h} : Same(s, t, x)
  /\ KeyOf(t, h) = KeyOf(s, h) /\ ModeOf(t, h) = mode /\ ValueOf(t, h) = val
  /\ t.db = s.db

--------------------------------------------------------------------------------
\* What is alive in a consistent store.
StoreFacts(s, r, R) ==
  /\ r \in [Handle -> Nat]
  /\ \A k \in DOMAIN s.cache.table :
       s.cache.table[k] \in LiveIn(s) /\ KeyOf(s, s.cache.table[k]) = k /\ k \in Key
  /\ \A x \in LiveIn(s) :
       /\ x \in Handle
       /\ r[x] = 0 => KeyOf(s, x) \in DOMAIN s.cache.table
                        /\ s.cache.table[KeyOf(s, x)] = x
       /\ KeyOf(s, x) \in Key /\ ValueOf(s, x) \in R /\ ModeOf(s, x) \in InodeAccessMode
       /\ s.cache.ent[x].value = [mode |-> ModeOf(s, x), val |-> ValueOf(s, x)]
  /\ \A x \in Handle : r[x] > 0 => x \in LiveIn(s)
  /\ \A k \in Key : s.db[k] \in R \cup {NoRecord}

\* An entry is alive as long as the table names it or somebody holds it.
LEMMA StoreLemma ==
  ASSUME NEW R, NEW s, NEW r, StoreOK(s, r, R)
  PROVE  StoreFacts(s, r, R)
<1> DEFINE c == s.cache
<1>1. Good(c, r, Cached(R)) /\ r \in [Handle -> Nat] /\ s.db \in [Key -> R \cup {NoRecord}]
  BY DEF StoreOK, Good
<1>2. /\ InList(c) = {c.table[k] : k \in DOMAIN c.table}
      /\ \A k \in DOMAIN c.table : c.table[k] \in Live(c) /\ c.ent[c.table[k]].key = k
      /\ \A x \in Live(c) : x \in InList(c) \/ r[x] > 0
      /\ \A x \in InList(c) : c.ent[x].key \in DOMAIN c.table /\ c.table[c.ent[x].key] = x
      /\ \A x \in Handle : r[x] > 0 => x \in Live(c)
      /\ Live(c) \subseteq Handle /\ DOMAIN c.table \subseteq Key
      /\ \A x \in Live(c) : c.ent[x].key \in Key /\ c.ent[x].value \in Cached(R)
  BY <1>1, LiveLemma, Zenon
<1> HIDE DEF c
<1>3. \A v \in Cached(R) : v.mode \in InodeAccessMode /\ v.val \in R
                             /\ v = [mode |-> v.mode, val |-> v.val]
  BY DEF Cached
<1>4. ASSUME NEW x \in Live(c)
      PROVE  /\ x \in Handle
             /\ r[x] = 0 => c.ent[x].key \in DOMAIN c.table /\ c.table[c.ent[x].key] = x
             /\ c.ent[x].key \in Key /\ c.ent[x].value.val \in R
             /\ c.ent[x].value.mode \in InodeAccessMode
             /\ c.ent[x].value = [mode |-> c.ent[x].value.mode, val |-> c.ent[x].value.val]
  <2>1. c.ent[x].value \in Cached(R) /\ x \in Handle /\ (r[x] = 0 => x \in InList(c))
    BY <1>2, <1>1
  <2> QED  BY <2>1, <1>2, <1>3
<1> QED  BY <1>1, <1>2, <1>4 DEF StoreFacts, c, LiveIn, KeyOf, ModeOf, ValueOf

\* A cache operation with the deleters it ran.
LEMMA DeletersLemma ==
  ASSUME NEW R, NEW s, NEW r, StoreOK(s, r, R),
         NEW c, NEW q, Good(c, q, Cached(R)), Fits(c)
  PROVE  LET t == WithDeleters(s, c)
         IN  StoreOK(t, q, R) /\ t.cache = c /\ Cleaned(s, t)
<1> DEFINE t == WithDeleters(s, c)
           dead == Freed(s.cache, c)
           cleaned(k) == CHOOSE h \in dead : KeyOf(s, h) = k
           db == IF dead = {} THEN s.db
                 ELSE [k \in Key |->
                         IF \E h \in dead : KeyOf(s, h) = k
                         THEN CleanInodeHandle(s.db[k], s.cache.ent[cleaned(k)].value)
                         ELSE s.db[k]]
<1>1. t = [cache |-> c, db |-> db]
  BY DEF WithDeleters
<1>2. s.db \in [Key -> R \cup {NoRecord}] /\ NoRecord \notin R
  BY DEF StoreOK
<1>3. dead \subseteq LiveIn(s) /\ dead = LiveIn(s) \ Live(c)
  BY DEF Freed, LiveIn
<1>4. \A h \in LiveIn(s) : s.cache.ent[h].value \in Cached(R)
  BY LiveLemma DEF StoreOK, LiveIn
<1>5. ASSUME NEW k \in Key
      PROVE  /\ db[k] \in R \cup {NoRecord}
             /\ \/ db[k] = s.db[k] /\ \A h \in dead : KeyOf(s, h) # k
                \/ \E h \in dead : KeyOf(s, h) = k
                     /\ db[k] = CleanInodeHandle(s.db[k], s.cache.ent[h].value)
  <2>1. CASE \E h \in dead : KeyOf(s, h) = k
    <3>1. cleaned(k) \in dead /\ KeyOf(s, cleaned(k)) = k
      BY <2>1
    <3>2. db[k] = CleanInodeHandle(s.db[k], s.cache.ent[cleaned(k)].value)
      BY <2>1
    <3> HIDE DEF db, dead, cleaned
    <3>3. s.cache.ent[cleaned(k)].value \in Cached(R) /\ s.db[k] \in R \cup {NoRecord}
      BY <3>1, <1>2, <1>3, <1>4
    <3>4. db[k] \in R \cup {NoRecord}
      BY <3>2, <3>3 DEF CleanInodeHandle, Cached
    <3> QED  BY <3>1, <3>2, <3>4
  <2>2. CASE ~\E h \in dead : KeyOf(s, h) = k
    BY <2>2, <1>2
  <2> QED  BY <2>1, <2>2
<1>6. db \in [Key -> R \cup {NoRecord}]
  <2>1. db = [k \in Key |-> db[k]]
    BY <1>2
  <2> HIDE DEF db
  <2> QED  BY <2>1, <1>5
<1> HIDE DEF db, dead, cleaned
<1>7. t.cache = c /\ t.db = db /\ t = [cache |-> t.cache, db |-> t.db]
  BY <1>1
<1> HIDE DEF t
<1>8. LiveIn(s) \ LiveIn(t) = dead
  BY <1>3, <1>7 DEF LiveIn
<1>9. Cleaned(s, t)
  BY <1>5, <1>7, <1>8 DEF Cleaned
<1> QED  BY <1>2, <1>6, <1>7, <1>9 DEF StoreOK, t

\* InodeCache::Release of a handle that somebody holds.
LEMMA ReleaseEffect ==
  ASSUME NEW R, NEW s, NEW r, StoreOK(s, r, R), NEW h \in Handle, r[h] > 0
  PROVE  LET t == InodeCache_Release(s, h)
         IN  /\ StoreOK(t, [r EXCEPT ![h] = @ - 1], R)
             /\ Lessened(s, t) /\ t.cache.table = s.cache.table
<1> DEFINE c == Release(s.cache, h)
           q == [r EXCEPT ![h] = @ - 1]
           t == InodeCache_Release(s, h)
<1>1. t = WithDeleters(s, c)
  BY DEF InodeCache_Release
<1>2. Good(c, q, Cached(R)) /\ Fits(c)
  BY ReleaseLemma DEF StoreOK
<1>3. Keeps(s.cache, c) /\ c.table = s.cache.table
  BY ReleaseKeeps DEF StoreOK
<1> HIDE DEF c, q, t
<1>4. StoreOK(t, q, R) /\ t.cache = c /\ Cleaned(s, t)
  BY <1>1, <1>2, DeletersLemma
<1>5. Lessened(s, t)
  BY <1>3, <1>4 DEF Lessened, Keeps, LiveIn, Same, KeyOf, ModeOf, ValueOf
<1> QED  BY <1>3, <1>4, <1>5 DEF q, t

\* InodeCache::Evict.
LEMMA EvictEffect ==
  ASSUME NEW R, NEW s, NEW r, StoreOK(s, r, R), NEW k
  PROVE  LET t == InodeCache_Evict(s, k)
         IN  /\ StoreOK(t, r, R) /\ Lessened(s, t)
             /\ DOMAIN t.cache.table = DOMAIN s.cache.table \ {k}
<1> DEFINE c == Erase(s.cache, k)
           t == InodeCache_Evict(s, k)
<1>1. t = WithDeleters(s, c)
  BY DEF InodeCache_Evict
<1>2. Good(c, r, Cached(R)) /\ Fits(c)
  BY EraseLemma DEF StoreOK
<1>3. Unmapped(s.cache, k, c)
  BY EraseUnmaps DEF StoreOK
<1> HIDE DEF c, t
<1>4. StoreOK(t, r, R) /\ t.cache = c /\ Cleaned(s, t)
  BY <1>1, <1>2, DeletersLemma
<1>5. Lessened(s, t)
  BY <1>3, <1>4 DEF Lessened, Unmapped, Keeps, LiveIn, Same, KeyOf, ModeOf, ValueOf
<1> QED  BY <1>3, <1>4, <1>5 DEF Unmapped, t

HasRoom(s) == \E h \in Handle : h \notin LiveIn(s)

\* An insertion into the cache, for InodeCache::Insert and for a Get that
\* finds nothing in the cache.
LEMMA InsertEffect ==
  ASSUME NEW R, NEW s, NEW r, StoreOK(s, r, R), HasRoom(s),
         NEW k \in Key, NEW mode \in InodeAccessMode, NEW val \in R
  PROVE  LET h == FreshHandle(s)
             t == WithDeleters(s, Insert(s.cache, k, [mode |-> mode, val |-> val], h))
         IN  /\ h \in Handle /\ StoreOK(t, [r EXCEPT ![h] = 1], R)
             /\ Added(s, t, h, k, mode, val)
<1> DEFINE h == FreshHandle(s)
           v == [mode |-> mode, val |-> val]
           c == Insert(s.cache, k, v, h)
           q == [r EXCEPT ![h] = 1]
           t == WithDeleters(s, c)
<1>1. h \in Handle /\ h \notin Live(s.cache)
  BY DEF FreshHandle, HasRoom, LiveIn
<1>2. v \in Cached(R) /\ v.mode = mode /\ v.val = val
  BY DEF Cached
<1> HIDE DEF h, v
<1>3. Good(c, q, Cached(R)) /\ Fits(c)
  BY <1>1, <1>2, InsertLemma DEF StoreOK
<1>4. Mapped(s.cache, k, v, h, c)
  BY <1>1, <1>2, InsertMaps DEF StoreOK
<1> HIDE DEF c, q
<1>5. StoreOK(t, q, R) /\ t.cache = c /\ Cleaned(s, t)
  BY <1>3, DeletersLemma
<1> HIDE DEF t
<1>6. \A x \in LiveIn(t) \ {h} : x \in LiveIn(s) /\ Same(s, t, x)
  BY <1>4, <1>5 DEF Mapped, LiveIn, Same, KeyOf, ModeOf, ValueOf
<1>7. h \in LiveIn(t) /\ h \notin LiveIn(s)
      /\ KeyOf(t, h) = k /\ ModeOf(t, h) = mode /\ ValueOf(t, h) = val
  BY <1>1, <1>2, <1>4, <1>5 DEF Mapped, LiveIn, KeyOf, ModeOf, ValueOf
<1>8. ASSUME NEW j \in DOMAIN t.cache.table
      PROVE  \/ j = k /\ t.cache.table[j] = h
             \/ j # k /\ j \in DOMAIN s.cache.table /\ t.cache.table[j] = s.cache.table[j]
  BY <1>4, <1>5 DEF Mapped
<1>9. Added(s, t, h, k, mode, val)
  BY <1>5, <1>6, <1>7, <1>8 DEF Added
<1> QED  BY <1>1, <1>5, <1>9 DEF h, q, t, c, v

\* Changing mode and value of an entry that is alive.
LEMMA ChangeEffect ==
  ASSUME NEW R, NEW s, NEW r, StoreOK(s, r, R), NEW h \in LiveIn(s),
         NEW mode \in InodeAccessMode, NEW val \in R
  PROVE  LET t == [cache |-> Rewritten(s.cache, h, [mode |-> mode, val |-> val]), db |-> s.db]
         IN  StoreOK(t, r, R) /\ Changed(s, t, h, mode, val)
<1> DEFINE v == [mode |-> mode, val |-> val]
           c == Rewritten(s.cache, h, v)
           t == [cache |-> c, db |-> s.db]
<1>1. v \in Cached(R) /\ v.mode = mode /\ v.val = val
  BY DEF Cached
<1> HIDE DEF v
<1>2. h \in Live(s.cache) /\ Good(s.cache, r, Cached(R)) /\ Fits(s.cache)
  BY DEF LiveIn, StoreOK
<1>3. /\ Good(c, r, Cached(R)) /\ Fits(c)
      /\ Live(c) = Live(s.cache) /\ c.table = s.cache.table
      /\ \A x \in Live(s.cache) :
           /\ c.ent[x].key = s.cache.ent[x].key
           /\ c.ent[x].value = IF x = h THEN v ELSE s.cache.ent[x].value
  BY <1>1, <1>2, RewriteLemma
<1> HIDE DEF c
<1>4. t.cache = c /\ t.db = s.db /\ t = [cache |-> t.cache, db |-> t.db]
  OBVIOUS
<1> HIDE DEF t
<1>5. StoreOK(t, r, R)
  BY <1>3, <1>4 DEF StoreOK
<1>6. \A x \in LiveIn(t) \ {h} : Same(s, t, x)
  BY <1>3, <1>4 DEF LiveIn, Same, KeyOf, ModeOf, ValueOf
<1>7. KeyOf(t, h) = KeyOf(s, h) /\ ModeOf(t, h) = mode /\ ValueOf(t, h) = val
  BY <1>1, <1>2, <1>3, <1>4 DEF KeyOf, ModeOf, ValueOf
<1>8. LiveIn(t) = LiveIn(s)
  BY <1>3, <1>4 DEF LiveIn
<1>9. Changed(s, t, h, mode, val)
  BY <1>3, <1>4, <1>6, <1>7, <1>8 DEF Changed
<1> QED  BY <1>5, <1>9 DEF t, c, v

\* A handler that sets mode_ of a handle changes nothing else.
LEMMA SetModeEffect ==
  ASSUME NEW R, NEW s, NEW r, StoreOK(s, r, R), NEW h \in LiveIn(s),
         NEW mode \in InodeAccessMode
  PROVE  LET t == SetMode(s, h, mode)
         IN  StoreOK(t, r, R) /\ Changed(s, t, h, mode, ValueOf(s, h))
<1> DEFINE v == [mode |-> mode, val |-> ValueOf(s, h)]
           t == [cache |-> Rewritten(s.cache, h, v), db |-> s.db]
<1>1. ValueOf(s, h) \in R
      /\ s.cache.ent[h].value = [mode |-> ModeOf(s, h), val |-> ValueOf(s, h)]
  BY StoreLemma DEF StoreFacts
<1>2. SetMode(s, h, mode) = t
  <2> DEFINE f == [s.cache.ent EXCEPT ![h].value.mode = mode]
             g == [s.cache.ent EXCEPT ![h].value = v]
  <2>1. s = [cache |-> s.cache, db |-> s.db] /\ DOMAIN s.cache.ent = LiveIn(s)
    BY DEF StoreOK, LiveIn, Live
  <2>2. s.cache.ent[h].value = [mode |-> ModeOf(s, h), val |-> ValueOf(s, h)]
    BY <1>1
  <2>3. [s.cache.ent[h].value EXCEPT !.mode = mode] = v
    BY <2>2
  <2>4. f = [s.cache.ent EXCEPT ![h].value = [s.cache.ent[h].value EXCEPT !.mode = mode]]
    OBVIOUS
  <2>5. f = g
    BY <2>3, <2>4
  <2>6. SetMode(s, h, mode) = [s EXCEPT !.cache.ent = f]
    BY DEF SetMode
  <2>7. Rewritten(s.cache, h, v) = [s.cache EXCEPT !.ent = g]
    BY DEF Rewritten
  <2> HIDE DEF f, g
  <2>8. [s EXCEPT !.cache.ent = g] = [s EXCEPT !.cache = [s.cache EXCEPT !.ent = g]]
    OBVIOUS
  <2> QED  BY <2>1, <2>5, <2>6, <2>7, <2>8
<1> QED  BY <1>1, <1>2, ChangeEffect

\* A handler that sets value_ of a handle changes nothing else.
LEMMA SetValueEffect ==
  ASSUME NEW R, NEW s, NEW r, StoreOK(s, r, R), NEW h \in LiveIn(s), NEW val \in R
  PROVE  LET t == SetValue(s, h, val)
         IN  StoreOK(t, r, R) /\ Changed(s, t, h, ModeOf(s, h), val)
<1> DEFINE v == [mode |-> ModeOf(s, h), val |-> val]
           t == [cache |-> Rewritten(s.cache, h, v), db |-> s.db]
<1>1. ModeOf(s, h) \in InodeAccessMode
      /\ s.cache.ent[h].value = [mode |-> ModeOf(s, h), val |-> ValueOf(s, h)]
  BY StoreLemma DEF StoreFacts
<1>2. SetValue(s, h, val) = t
  <2> DEFINE f == [s.cache.ent EXCEPT ![h].value.val = val]
             g == [s.cache.ent EXCEPT ![h].value = v]
  <2>1. s = [cache |-> s.cache, db |-> s.db] /\ DOMAIN s.cache.ent = LiveIn(s)
    BY DEF StoreOK, LiveIn, Live
  <2>2. s.cache.ent[h].value = [mode |-> ModeOf(s, h), val |-> ValueOf(s, h)]
    BY <1>1
  <2>3. [s.cache.ent[h].value EXCEPT !.val = val] = v
    BY <2>2
  <2>4. f = [s.cache.ent EXCEPT ![h].value = [s.cache.ent[h].value EXCEPT !.val = val]]
    OBVIOUS
  <2>5. f = g
    BY <2>3, <2>4
  <2>6. SetValue(s, h, val) = [s EXCEPT !.cache.ent = f]
    BY DEF SetValue
  <2>7. Rewritten(s.cache, h, v) = [s.cache EXCEPT !.ent = g]
    BY DEF Rewritten
  <2> HIDE DEF f, g
  <2>8. [s EXCEPT !.cache.ent = g] = [s EXCEPT !.cache = [s.cache EXCEPT !.ent = g]]
    OBVIOUS
  <2> QED  BY <2>1, <2>5, <2>6, <2>7, <2>8
<1> QED  BY <1>1, <1>2, ChangeEffect

--------------------------------------------------------------------------------
\* Who is gone after an operation.

\* Only what nobody held can be gone.
LEMMA HeldStays ==
  ASSUME NEW R, NEW s, NEW r, StoreOK(s, r, R), NEW t, NEW q, StoreOK(t, q, R),
         NEW x \in LiveIn(s) \ LiveIn(t)
  PROVE  q[x] = 0
<1>1. x \in Handle
  BY StoreLemma DEF StoreFacts
<1>2. q \in [Handle -> Nat] /\ (q[x] > 0 => x \in LiveIn(t))
  BY <1>1, StoreLemma DEF StoreFacts
<1> QED  BY <1>1, <1>2

\* Release frees no other entry, and this one only if it is unmapped and was
\* held once.
LEMMA ReleaseFrees ==
  ASSUME NEW R, NEW s, NEW r, StoreOK(s, r, R), NEW h \in Handle, r[h] > 0,
         NEW x \in LiveIn(s) \ LiveIn(InodeCache_Release(s, h))
  PROVE  x = h /\ r[h] = 1 /\ ~(KeyOf(s, h) \in DOMAIN s.cache.table /\ s.cache.table[KeyOf(s, h)] = h)
<1> DEFINE t == InodeCache_Release(s, h)
           q == [r EXCEPT ![h] = @ - 1]
<1>1. StoreOK(t, q, R) /\ t.cache.table = s.cache.table
  BY ReleaseEffect
<1>2. \A k \in DOMAIN t.cache.table : t.cache.table[k] \in LiveIn(t)
  BY <1>1, StoreLemma DEF StoreFacts
<1>f. StoreFacts(s, r, R) /\ x \in LiveIn(s) /\ x \in LiveIn(s) \ LiveIn(t)
  BY StoreLemma
<1> HIDE DEF t
<1>3. x \in Handle /\ r \in [Handle -> Nat]
      /\ (r[x] = 0 => KeyOf(s, x) \in DOMAIN s.cache.table /\ s.cache.table[KeyOf(s, x)] = x)
  BY <1>f DEF StoreFacts
<1>4. q[x] = 0
  <2> HIDE DEF q
  <2> QED  BY <1>1, <1>f, HeldStays
<1>5. r[x] # 0
  <2>1. \A j \in DOMAIN s.cache.table : s.cache.table[j] \in LiveIn(t)
    BY <1>1, <1>2
  <2>2. x \notin LiveIn(t)
    BY <1>f
  <2> QED  BY <2>1, <2>2, <1>3
<1> QED  BY <1>1, <1>2, <1>3, <1>4, <1>5, <1>f

\* Evict frees nothing but what the key named.
LEMMA EvictFrees ==
  ASSUME NEW R, NEW s, NEW r, StoreOK(s, r, R), NEW k,
         NEW x \in LiveIn(s) \ LiveIn(InodeCache_Evict(s, k))
  PROVE  r[x] = 0 /\ KeyOf(s, x) = k /\ k \in DOMAIN s.cache.table /\ s.cache.table[k] = x
<1> DEFINE t == InodeCache_Evict(s, k)
<1>1. StoreOK(t, r, R) /\ DOMAIN t.cache.table = DOMAIN s.cache.table \ {k}
      /\ \A j \in DOMAIN t.cache.table : t.cache.table[j] = s.cache.table[j]
  BY EvictEffect DEF Lessened
<1>2. \A j \in DOMAIN t.cache.table : t.cache.table[j] \in LiveIn(t)
  BY <1>1, StoreLemma DEF StoreFacts
<1>f. StoreFacts(s, r, R) /\ x \in LiveIn(s) /\ x \in LiveIn(s) \ LiveIn(t)
  BY StoreLemma
<1> HIDE DEF t
<1>3. r[x] = 0
  BY <1>1, <1>f, HeldStays
<1>4. KeyOf(s, x) \in DOMAIN s.cache.table /\ s.cache.table[KeyOf(s, x)] = x
  BY <1>3, <1>f DEF StoreFacts
<1> QED  BY <1>1, <1>2, <1>3, <1>4, <1>f

--------------------------------------------------------------------------------
\* InodeCache::Get.

\* What a Get answers with.
Shown(s, k) ==
  IF k \in DOMAIN s.cache.table THEN ValueOf(s, s.cache.table[k]) ELSE s.db[k]

Got(s, t, h, k, mode) ==
  \/ /\ k \in DOMAIN s.cache.table /\ h = s.cache.table[k]
     /\ Changed(s, t, h, IF mode = INODE_READ THEN ModeOf(s, h) ELSE mode, ValueOf(s, h))
  \/ k \notin DOMAIN s.cache.table /\ Added(s, t, h, k, mode, s.db[k])

\* A Get finds the inode in the cache, or in the table, or not at all.
LEMMA GetEffect ==
  ASSUME NEW R, NEW s, NEW r, StoreOK(s, r, R), HasRoom(s),
         NEW k \in Key, NEW mode \in InodeAccessMode
  PROVE  LET g == InodeCache_Get(s, k, mode)
         IN  \/ Shown(s, k) = NoRecord /\ g.h = NoHandle /\ g.s = s
             \/ /\ Shown(s, k) \in R /\ g.h \in Handle
                /\ StoreOK(g.s, [r EXCEPT ![g.h] = @ + 1], R)
                /\ Got(s, g.s, g.h, k, mode)
<1> DEFINE g == InodeCache_Get(s, k, mode)
<1>0. NoRecord \notin R /\ s.db \in [Key -> R \cup {NoRecord}]
      /\ s = [cache |-> s.cache, db |-> s.db] /\ Good(s.cache, r, Cached(R)) /\ Fits(s.cache)
  BY DEF StoreOK
<1>1. CASE k \in DOMAIN s.cache.table
  <2> DEFINE h == s.cache.table[k]
             c == Lookup(s.cache, k)
             u == [s EXCEPT !.cache = c]
             q == [r EXCEPT ![h] = @ + 1]
             m == IF mode = INODE_READ THEN ModeOf(s, h) ELSE mode
  <2>1. h \in Handle /\ h \in LiveIn(s) /\ ValueOf(s, h) \in R /\ ModeOf(s, h) \in InodeAccessMode
    BY <1>1, StoreLemma DEF StoreFacts
  <2>2. g = [s |-> IF mode # INODE_READ THEN SetMode(u, h, mode) ELSE u, h |-> h]
    BY <1>1 DEF InodeCache_Get
  <2>3. Good(c, q, Cached(R)) /\ Fits(c)
    BY <1>0, <1>1, LookupLemma
  <2>4. Keeps(s.cache, c) /\ Live(c) = Live(s.cache) /\ c.table = s.cache.table
    BY <1>0, <1>1, LookupKeeps
  <2> HIDE DEF c, q, h
  <2>5. u.cache = c /\ u.db = s.db /\ u = [cache |-> u.cache, db |-> u.db]
    BY <1>0
  <2> HIDE DEF u
  <2>6. StoreOK(u, q, R)
    BY <1>0, <2>3, <2>5 DEF StoreOK
  <2>7. LiveIn(u) = LiveIn(s) /\ u.cache.table = s.cache.table
        /\ \A x \in LiveIn(s) : Same(s, u, x)
    BY <2>4, <2>5 DEF Keeps, LiveIn, Same, KeyOf, ModeOf, ValueOf
  <2>8. CASE mode = INODE_READ
    <3>1. g.s = u /\ g.h = h
      BY <2>2, <2>8
    <3>2. Changed(s, u, h, ModeOf(s, h), ValueOf(s, h))
      BY <2>1, <2>5, <2>7 DEF Changed, Same
    <3>3. Got(s, u, h, k, mode)
      BY <1>1, <2>8, <3>2 DEF Got, h
    <3> QED  BY <1>1, <2>1, <2>6, <3>1, <3>3 DEF q, Shown, h
  <2>9. CASE mode # INODE_READ
    <3> DEFINE t == SetMode(u, h, mode)
    <3>1. g.s = t /\ g.h = h
      BY <2>2, <2>9
    <3>2. StoreOK(t, q, R) /\ Changed(u, t, h, mode, ValueOf(u, h))
      BY <2>1, <2>6, <2>7, SetModeEffect
    <3> HIDE DEF t
    <3>3. Changed(s, t, h, mode, ValueOf(s, h))
      BY <2>1, <2>5, <2>7, <3>2 DEF Changed, Same
    <3>4. Got(s, t, h, k, mode)
      BY <1>1, <2>9, <3>3 DEF Got, h
    <3> QED  BY <1>1, <2>1, <3>1, <3>2, <3>4 DEF q, Shown, h
  <2> QED  BY <2>8, <2>9
<1>2. CASE k \notin DOMAIN s.cache.table /\ s.db[k] # NoRecord
  <2> DEFINE h == FreshHandle(s)
             t == WithDeleters(s, Insert(s.cache, k, [mode |-> mode, val |-> s.db[k]], h))
  <2>1. g.s = t /\ g.h = h
    BY <1>2 DEF InodeCache_Get
  <2>2. s.db[k] \in R
    BY <1>0, <1>2
  <2>3. h \in Handle /\ StoreOK(t, [r EXCEPT ![h] = 1], R) /\ Added(s, t, h, k, mode, s.db[k])
    BY <2>2, InsertEffect
  <2>4. r \in [Handle -> Nat] /\ (r[h] > 0 => h \in LiveIn(s))
    BY <2>3, StoreLemma DEF StoreFacts
  <2> HIDE DEF h, t
  <2>5. r[h] = 0
    BY <2>3, <2>4 DEF Added
  <2>6. [r EXCEPT ![h] = @ + 1] = [r EXCEPT ![h] = 1]
    BY <2>3, <2>4, <2>5
  <2> QED  BY <1>2, <2>1, <2>2, <2>3, <2>6 DEF Got, Shown
<1>3. CASE k \notin DOMAIN s.cache.table /\ s.db[k] = NoRecord
  BY <1>3 DEF InodeCache_Get, Shown
<1> QED  BY <1>1, <1>2, <1>3

\* InodeCache::Insert.
LEMMA InodeInsertEffect ==
  ASSUME NEW R, NEW s, NEW r, StoreOK(s, r, R), HasRoom(s), NEW k \in Key, NEW val \in R
  PROVE  LET i == InodeCache_Insert(s, k, val)
         IN  /\ i.h \in Handle /\ StoreOK(i.s, [r EXCEPT ![i.h] = 1], R)
             /\ Added(s, i.s, i.h, k, INODE_WRITE, val)
<1> DEFINE h == FreshHandle(s)
           t == WithDeleters(s, Insert(s.cache, k, [mode |-> INODE_WRITE, val |-> val], h))
           i == InodeCache_Insert(s, k, val)
<1>1. i.s = t /\ i.h = h
  BY DEF InodeCache_Insert
<1>2. INODE_WRITE \in InodeAccessMode
  BY DEF InodeAccessMode
<1>3. h \in Handle /\ StoreOK(t, [r EXCEPT ![h] = 1], R) /\ Added(s, t, h, k, INODE_WRITE, val)
  BY <1>2, InsertEffect
<1> HIDE DEF h, t, i
<1> QED  BY <1>1, <1>3 DEF i

--------------------------------------------------------------------------------
\* InodeCache::WriteBack and BatchCommit.

\* t is s with another record for k.
Recorded(s, t, k, record) == t.cache = s.cache /\ t.db = [s.db EXCEPT ![k] = record]

\* A Put to the LevelDB table, or a Delete, leaves the cache as it is.
LEMMA RecordEffect ==
  ASSUME NEW R, NEW s, NEW r, StoreOK(s, r, R), NEW k \in Key, NEW v \in R \cup {NoRecord}
  PROVE  LET t == [s EXCEPT !.db[k] = v]
         IN  StoreOK(t, r, R) /\ Recorded(s, t, k, v)
<1> DEFINE t == [s EXCEPT !.db[k] = v]
           b == [s.db EXCEPT ![k] = v]
<1>1. s = [cache |-> s.cache, db |-> s.db] /\ s.db \in [Key -> R \cup {NoRecord}]
  BY DEF StoreOK
<1>2. t = [cache |-> s.cache, db |-> b]
  BY <1>1
<1>3. b \in [Key -> R \cup {NoRecord}]
  BY <1>1
<1> HIDE DEF b
<1>4. t.cache = s.cache /\ t.db = b /\ t = [cache |-> t.cache, db |-> t.db]
  BY <1>2
<1> HIDE DEF t
<1> QED  BY <1>3, <1>4 DEF StoreOK, Recorded, b, t

\* t is s with the value of h written to the table, and h clean.
WroteBack(s, t, h) ==
  /\ LiveIn(t) = LiveIn(s) /\ t.cache.table = s.cache.table
  /\ \A x \in LiveIn(t) \ {h} : Same(s, t, x)
  /\ KeyOf(t, h) = KeyOf(s, h) /\ ModeOf(t, h) = INODE_READ /\ ValueOf(t, h) = ValueOf(s, h)
  /\ t.db = [s.db EXCEPT ![KeyOf(s, h)] = ValueOf(s, h)]

\* InodeCache::WriteBack of a dirty handle: its value is in the table and the
\* handle is clean.
LEMMA WriteBackEffect ==
  ASSUME NEW R, NEW s, NEW r, StoreOK(s, r, R), NEW h \in LiveIn(s),
         ModeOf(s, h) = INODE_WRITE
  PROVE  StoreOK(InodeCache_WriteBack(s, h), r, R) /\ WroteBack(s, InodeCache_WriteBack(s, h), h)
<1> DEFINE k == KeyOf(s, h)
           v == ValueOf(s, h)
           u == [s EXCEPT !.db[k] = v]
           t == SetMode(u, h, INODE_READ)
<1>1. InodeCache_WriteBack(s, h) = t
  BY DEF InodeCache_WriteBack, INODE_WRITE, INODE_DELETE
<1>2. k \in Key /\ v \in R /\ INODE_READ \in InodeAccessMode
  BY StoreLemma DEF StoreFacts, InodeAccessMode
<1> HIDE DEF k, v
<1>3. StoreOK(u, r, R) /\ Recorded(s, u, k, v)
  BY <1>2, RecordEffect
<1>4. LiveIn(u) = LiveIn(s) /\ ValueOf(u, h) = v /\ KeyOf(u, h) = k
      /\ \A x \in LiveIn(s) : Same(s, u, x)
  BY <1>3 DEF Recorded, LiveIn, Same, KeyOf, ModeOf, ValueOf, v, k
<1>a. u.cache.table = s.cache.table /\ u.db = [s.db EXCEPT ![k] = v]
  BY <1>3 DEF Recorded
<1> HIDE DEF u
<1>5. StoreOK(t, r, R) /\ Changed(u, t, h, INODE_READ, ValueOf(u, h))
  BY <1>2, <1>3, <1>4, SetModeEffect
<1> HIDE DEF t
<1>6. WroteBack(s, t, h)
  BY <1>4, <1>5, <1>a DEF WroteBack, Changed, Same, k, v
<1> QED  BY <1>1, <1>5, <1>6

\* The first of two handles is to be deleted, the second was written.
Batch(s, t, h1, h2) ==
  LET k1 == KeyOf(s, h1)
      k2 == KeyOf(s, h2)
  IN  /\ LiveIn(t) \subseteq LiveIn(s) /\ h2 \in LiveIn(t)
      /\ \A x \in LiveIn(t) \ {h2} : Same(s, t, x)
      /\ KeyOf(t, h2) = k2 /\ ModeOf(t, h2) = INODE_READ /\ ValueOf(t, h2) = ValueOf(s, h2)
      /\ DOMAIN t.cache.table = DOMAIN s.cache.table \ {k1}
      /\ \A k \in DOMAIN t.cache.table : t.cache.table[k] = s.cache.table[k]
      /\ \A k \in Key : t.db[k] = IF k = k2 THEN ValueOf(s, h2)
                                  ELSE IF k = k1 THEN NoRecord ELSE s.db[k]

\* InodeCache::BatchCommit of the two handles that Rename has: both records
\* are in the table, whatever the deleters wrote before.
LEMMA BatchEffect ==
  ASSUME NEW R, NEW s, NEW r, StoreOK(s, r, R), NEW h1 \in LiveIn(s), NEW h2 \in LiveIn(s),
         h1 # h2, r[h2] > 0, ModeOf(s, h1) = INODE_DELETE, ModeOf(s, h2) = INODE_WRITE
  PROVE  /\ StoreOK(InodeCache_BatchCommit(s, h1, h2), r, R)
         /\ Batch(s, InodeCache_BatchCommit(s, h1, h2), h1, h2)
<1> DEFINE k1 == KeyOf(s, h1)
           k2 == KeyOf(s, h2)
           u == InodeCache_Evict(s, k1)
           b1 == [s |-> u, batch |-> [x \in {k1} |-> NoRecord]]
           w == SetMode(u, h2, INODE_READ)
           val == ValueOf(u, h2)
           b2 == [s |-> w, batch |-> [x \in {k1, k2} |-> IF x = k2 THEN val ELSE NoRecord]]
           db == [k \in Key |-> IF k \in {k1, k2} THEN IF k = k2 THEN val ELSE NoRecord
                                ELSE w.db[k]]
           t == InodeCache_BatchCommit(s, h1, h2)
<1>0. INODE_DELETE # INODE_WRITE /\ INODE_READ \in InodeAccessMode
  BY DEF INODE_DELETE, INODE_WRITE, InodeAccessMode
<1>1. k1 \in Key /\ k2 \in Key
  BY StoreLemma DEF StoreFacts
<1>2. Batched([s |-> s, batch |-> <<>>], h1) = b1
  <2>1. [x \in DOMAIN <<>> \cup {k1} |-> IF x = k1 THEN NoRecord ELSE <<>>[x]]
          = [x \in {k1} |-> NoRecord]
    <3>1. DOMAIN <<>> \cup {k1} = {k1}
      OBVIOUS
    <3> HIDE DEF k1
    <3> QED  BY <3>1
  <2> QED  BY <2>1, <1>0 DEF Batched
<1>3. StoreOK(u, r, R) /\ Lessened(s, u)
      /\ DOMAIN u.cache.table = DOMAIN s.cache.table \ {k1}
  BY EvictEffect
<1>4. \A x \in LiveIn(s) \ LiveIn(u) : KeyOf(s, x) = k1 /\ r[x] = 0
  BY EvictFrees
<1> HIDE DEF u
<1>5. h2 \in LiveIn(u) /\ Same(s, u, h2)
  BY <1>3, <1>4 DEF Lessened
<1>6. Batched(b1, h2) = b2
  <2>1. KeyOf(u, h2) = k2 /\ ModeOf(u, h2) = INODE_WRITE
    BY <1>5 DEF Same
  <2>2. b1.s = u /\ b1.batch = [x \in {k1} |-> NoRecord] /\ DOMAIN b1.batch = {k1}
    OBVIOUS
  <2>3. [x \in DOMAIN b1.batch \cup {k2} |-> IF x = k2 THEN val ELSE b1.batch[x]]
          = [x \in {k1, k2} |-> IF x = k2 THEN val ELSE NoRecord]
    <3> HIDE DEF k1, k2, val
    <3> QED  BY <2>2
  <2> HIDE DEF b1, k2
  <2> QED  BY <2>1, <2>2, <2>3, <1>0 DEF Batched
<1>7. StoreOK(w, r, R) /\ Changed(u, w, h2, INODE_READ, val)
  BY <1>0, <1>3, <1>5, SetModeEffect
<1>8. t = [w EXCEPT !.db = db]
  <2>1. t = [b2.s EXCEPT !.db = [k \in Key |->
                IF k \in DOMAIN b2.batch THEN b2.batch[k] ELSE @[k]]]
    BY <1>2, <1>6 DEF InodeCache_BatchCommit
  <2>2. b2.s = w /\ DOMAIN b2.batch = {k1, k2}
        /\ \A k \in {k1, k2} : b2.batch[k] = IF k = k2 THEN val ELSE NoRecord
    OBVIOUS
  <2> HIDE DEF b2, w, val
  <2>3. db = [k \in Key |-> IF k \in DOMAIN b2.batch THEN b2.batch[k] ELSE w.db[k]]
    BY <2>2
  <2> QED  BY <2>1, <2>2, <2>3
<1>9. w = [cache |-> w.cache, db |-> w.db] /\ w.db \in [Key -> R \cup {NoRecord}]
      /\ Good(w.cache, r, Cached(R)) /\ Fits(w.cache) /\ NoRecord \notin R
  BY <1>7 DEF StoreOK
<1>10. val \in R /\ val = ValueOf(s, h2)
  BY <1>3, <1>5, StoreLemma DEF StoreFacts, Same
<1> HIDE DEF w, val
<1>11. db \in [Key -> R \cup {NoRecord}]
  BY <1>9, <1>10
<1> HIDE DEF db
<1>12. t = [cache |-> w.cache, db |-> db]
  BY <1>8, <1>9
<1>13. t.cache = w.cache /\ t.db = db /\ t = [cache |-> t.cache, db |-> t.db]
  BY <1>12
<1> HIDE DEF t
<1>14. StoreOK(t, r, R)
  BY <1>9, <1>11, <1>13 DEF StoreOK
<1>15. /\ LiveIn(t) = LiveIn(u) /\ t.cache.table = u.cache.table
       /\ \A x \in LiveIn(t) \ {h2} : Same(u, t, x)
       /\ KeyOf(t, h2) = KeyOf(u, h2) /\ ModeOf(t, h2) = INODE_READ /\ ValueOf(t, h2) = val
       /\ w.db = u.db
  BY <1>7, <1>13 DEF Changed, LiveIn, Same, KeyOf, ModeOf, ValueOf
<1>16. ASSUME NEW k \in Key
       PROVE  t.db[k] = IF k = k2 THEN ValueOf(s, h2) ELSE IF k = k1 THEN NoRecord ELSE s.db[k]
  <2>1. k # k1 => u.db[k] = s.db[k]
    BY <1>3, <1>4 DEF Lessened, Cleaned
  <2> QED  BY <2>1, <1>10, <1>13, <1>15 DEF db
<1>17. Batch(s, t, h1, h2)
  BY <1>3, <1>5, <1>10, <1>15, <1>16 DEF Batch, Lessened, Same
<1> QED  BY <1>14, <1>17 DEF t

--------------------------------------------------------------------------------
\* What the handlers keep true of cache and table.  T are the keys of entries
\* that were deleted, moved or replaced while they were open, S those and the
\* keys whose cached inode a handler is about to evict, D the handle that a
\* handler has made dirty and not yet written back.

\* A cached inode is the one that the LevelDB table has for its key.
NamedOK(s, T) ==
  \A h \in LiveIn(s) :
    KeyOf(s, h) \notin T =>
      /\ s.db[KeyOf(s, h)] # NoRecord
      /\ s.db[KeyOf(s, h)].ino = ValueOf(s, h).ino
      /\ s.db[KeyOf(s, h)].dir = ValueOf(s, h).dir
      /\ ModeOf(s, h) # INODE_DELETE

\* What the cache answers with is what the table holds, unless it is being
\* written to.
FreshOK(s, r, S) ==
  \A k \in DOMAIN s.cache.table \ S :
    r[s.cache.table[k]] = 0 \/ ModeOf(s, s.cache.table[k]) = INODE_READ =>
      ValueOf(s, s.cache.table[k]) = s.db[k]

\* Directories are written back by the handler that changes them.
DirsClean(s, D) ==
  \A h \in LiveIn(s) \ D : ValueOf(s, h).dir => ModeOf(s, h) # INODE_WRITE

Sound(s, r, T, S, D) == NamedOK(s, T) /\ FreshOK(s, r, S) /\ DirsClean(s, D)

\* The inode numbers that keys have, in the table or in the cache.
Holds(s) ==
  {<<k, s.db[k].ino>> : k \in {j \in Key : s.db[j] # NoRecord}}
    \cup {<<KeyOf(s, h), ValueOf(s, h).ino>> : h \in LiveIn(s)}

\* What no step from s to t changes: no number comes to a key but those of X,
\* no record goes, and an entry is the one it was.
Kept(s, t, T, X) ==
  /\ Holds(t) \subseteq Holds(s) \cup X
  /\ \A k \in Key \ T :
       s.db[k] # NoRecord => /\ t.db[k] # NoRecord
                             /\ t.db[k].ino = s.db[k].ino /\ t.db[k].dir = s.db[k].dir
  /\ \A x \in LiveIn(s) \cap LiveIn(t) :
       /\ KeyOf(t, x) = KeyOf(s, x)
       /\ ValueOf(t, x).ino = ValueOf(s, x).ino
       /\ ValueOf(t, x).dir = ValueOf(s, x).dir

HeldIn(r) == {x \in Handle : r[x] > 0}

\* Nothing changes but the records of K: what the handles of O show stays.
Steady(s, t, K, O) ==
  /\ \A k \in Key \ K : t.db[k] = s.db[k]
  /\ \A x \in O : KeyOf(t, x) = KeyOf(s, x) /\ ValueOf(t, x) = ValueOf(s, x)

\* Steps that change nothing else follow each other.
LEMMA SteadyTrans ==
  ASSUME NEW s, NEW t, NEW u, NEW K, NEW O, Steady(s, t, K, O), Steady(t, u, K, O)
  PROVE  Steady(s, u, K, O)
BY DEF Steady

\* Less is said of more records and fewer handles.
LEMMA SteadyLess ==
  ASSUME NEW s, NEW t, NEW K, NEW L, K \subseteq L, NEW O, NEW Q, Q \subseteq O, Steady(s, t, K, O)
  PROVE  Steady(s, t, L, Q)
BY DEF Steady

\* Changing a handle changes nothing for the other ones.
LEMMA ChangedSteady ==
  ASSUME NEW R, NEW s, NEW r, StoreOK(s, r, R), NEW t, NEW h, NEW mode, NEW val,
         Changed(s, t, h, mode, val), NEW O, O \subseteq HeldIn(r), h \notin O \/ val = ValueOf(s, h)
  PROVE  Steady(s, t, {}, O)
<1>1. O \subseteq LiveIn(s)
  BY StoreLemma DEF StoreFacts, HeldIn
<1> QED  BY <1>1 DEF Changed, Steady, Same

\* A record that the deleters left or made has a number that its key had.
LEMMA CleanedHolds ==
  ASSUME NEW s, NEW t, Cleaned(s, t), NEW k \in Key, t.db[k] # NoRecord
  PROVE  <<k, t.db[k].ino>> \in Holds(s)
<1>1. CASE t.db[k] = s.db[k]
  BY <1>1 DEF Holds
<1>2. ASSUME NEW h \in LiveIn(s) \ LiveIn(t), KeyOf(s, h) = k,
             t.db[k] = CleanInodeHandle(s.db[k], s.cache.ent[h].value)
      PROVE  <<k, t.db[k].ino>> \in Holds(s)
  <2>1. t.db[k] = s.db[k] \/ t.db[k] = ValueOf(s, h)
    BY <1>2 DEF CleanInodeHandle, ValueOf
  <2>2. CASE t.db[k] = ValueOf(s, h)
    BY <1>2, <2>2 DEF Holds
  <2> QED  BY <2>1, <2>2, <1>1
<1> QED  BY <1>1, <1>2 DEF Cleaned

\* The deleters change no record of a key outside S, and leave the others
\* outside T the number and the type that they had.
LEMMA CleanedNames ==
  ASSUME NEW R, NEW s, NEW r, StoreOK(s, r, R), NEW t, Cleaned(s, t), NEW T, NEW S, T \subseteq S, NamedOK(s, T),
         \A x \in LiveIn(s) \ LiveIn(t) :
           KeyOf(s, x) \notin S =>
             ModeOf(s, x) = INODE_READ \/ ValueOf(s, x) = s.db[KeyOf(s, x)],
         NEW k \in Key, k \notin T
  PROVE  /\ k \notin S => t.db[k] = s.db[k]
         /\ t.db[k] = s.db[k]
              \/ (t.db[k] # NoRecord /\ s.db[k] # NoRecord
                  /\ t.db[k].ino = s.db[k].ino /\ t.db[k].dir = s.db[k].dir)
<1>1. CASE t.db[k] = s.db[k]
  BY <1>1
<1>2. ASSUME NEW h \in LiveIn(s) \ LiveIn(t), KeyOf(s, h) = k,
             t.db[k] = CleanInodeHandle(s.db[k], s.cache.ent[h].value)
      PROVE  /\ k \notin S => t.db[k] = s.db[k]
             /\ t.db[k] = s.db[k]
                  \/ (t.db[k] # NoRecord /\ s.db[k] # NoRecord
                      /\ t.db[k].ino = s.db[k].ino /\ t.db[k].dir = s.db[k].dir)
  <2>1. ModeOf(s, h) # INODE_DELETE /\ s.db[k] # NoRecord
        /\ s.db[k].ino = ValueOf(s, h).ino /\ s.db[k].dir = ValueOf(s, h).dir
    BY <1>2 DEF NamedOK
  <2>2. \/ ModeOf(s, h) = INODE_WRITE /\ t.db[k] = ValueOf(s, h)
        \/ ModeOf(s, h) # INODE_WRITE /\ t.db[k] = s.db[k]
    BY <1>2, <2>1 DEF CleanInodeHandle, ModeOf, ValueOf
  <2>3. k \notin S => ModeOf(s, h) = INODE_READ \/ ValueOf(s, h) = s.db[k]
    BY <1>2
  <2>4. INODE_READ # INODE_WRITE
    BY DEF INODE_READ, INODE_WRITE
  <2>5. ValueOf(s, h) \in R /\ NoRecord \notin R
    BY StoreLemma DEF StoreFacts, StoreOK
  <2> QED  BY <2>1, <2>2, <2>3, <2>4, <2>5
<1> QED  BY <1>1, <1>2 DEF Cleaned

\* An operation that takes entries away keeps everything that is left, if
\* what it frees is clean.
LEMMA LessenedSound ==
  ASSUME NEW R, NEW s, NEW r, StoreOK(s, r, R), NEW t, NEW q, StoreOK(t, q, R),
         Lessened(s, t), NEW T, NEW S, T \subseteq S, NEW D, Sound(s, r, T, S, D),
         \A x \in LiveIn(s) \ LiveIn(t) :
           KeyOf(s, x) \notin S =>
             ModeOf(s, x) = INODE_READ \/ ValueOf(s, x) = s.db[KeyOf(s, x)],
         \A x \in LiveIn(t) :
           q[x] = r[x] \/ ModeOf(s, x) = INODE_READ \/ ValueOf(s, x) = s.db[KeyOf(s, x)]
             \/ q[x] > 0 \/ KeyOf(s, x) \in S
  PROVE  Sound(t, q, T, S, D) /\ Kept(s, t, T, {}) /\ Steady(s, t, S, HeldIn(q))
<1>1. \A k \in Key \ T :
        /\ k \notin S => t.db[k] = s.db[k]
        /\ t.db[k] = s.db[k]
              \/ (t.db[k] # NoRecord /\ s.db[k] # NoRecord
                  /\ t.db[k].ino = s.db[k].ino /\ t.db[k].dir = s.db[k].dir)
  BY CleanedNames DEF Lessened, Sound
<1>2. StoreFacts(s, r, R) /\ StoreFacts(t, q, R)
  BY StoreLemma
<1>3. LiveIn(t) \subseteq LiveIn(s) /\ \A x \in LiveIn(t) : Same(s, t, x)
  BY DEF Lessened
<1>4. \A x \in LiveIn(t) : KeyOf(s, x) \in Key
  BY <1>2, <1>3 DEF StoreFacts
<1>5. NamedOK(t, T)
  BY <1>1, <1>3, <1>4 DEF NamedOK, Sound, Same
<1>6. FreshOK(t, q, S)
  <2> SUFFICES ASSUME NEW k \in DOMAIN t.cache.table, k \notin S,
                      q[t.cache.table[k]] = 0 \/ ModeOf(t, t.cache.table[k]) = INODE_READ
               PROVE  ValueOf(t, t.cache.table[k]) = t.db[k]
    BY DEF FreshOK
  <2> DEFINE h == t.cache.table[k]
  <2>1. k \in DOMAIN s.cache.table /\ s.cache.table[k] = h
    BY DEF Lessened
  <2>2. h \in LiveIn(t) /\ k \in Key /\ KeyOf(t, h) = k /\ h \in Handle
    BY <1>2 DEF StoreFacts
  <2> HIDE DEF h
  <2>3. Same(s, t, h) /\ t.db[k] = s.db[k]
    BY <1>1, <1>3, <2>2
  <2>4. r[h] = 0 \/ ModeOf(s, h) = INODE_READ => ValueOf(s, h) = s.db[k]
    BY <2>1 DEF Sound, FreshOK
  <2>5. q[h] = 0 \/ ModeOf(s, h) = INODE_READ
    BY <2>3 DEF h, Same
  <2>6. ~(q[h] > 0) \/ q[h] # 0
    OBVIOUS
  <2> QED  BY <2>2, <2>3, <2>4, <2>5, <2>6 DEF Same, h
<1>7. DirsClean(t, D)
  BY <1>3 DEF DirsClean, Sound, Same
<1>8. Holds(t) \subseteq Holds(s)
  <2>1. \A k \in Key : t.db[k] # NoRecord => <<k, t.db[k].ino>> \in Holds(s)
    BY CleanedHolds DEF Lessened
  <2>2. \A x \in LiveIn(t) : <<KeyOf(t, x), ValueOf(t, x).ino>> \in Holds(s)
    BY <1>3 DEF Holds, Same
  <2> QED  BY <2>1, <2>2 DEF Holds
<1>9. \A k \in Key \ T :
        s.db[k] # NoRecord => /\ t.db[k] # NoRecord
                              /\ t.db[k].ino = s.db[k].ino /\ t.db[k].dir = s.db[k].dir
  BY <1>1
<1>10. \A x \in LiveIn(s) \cap LiveIn(t) :
         /\ KeyOf(t, x) = KeyOf(s, x)
         /\ ValueOf(t, x).ino = ValueOf(s, x).ino
         /\ ValueOf(t, x).dir = ValueOf(s, x).dir
  BY <1>3 DEF Same
<1>11. Steady(s, t, S, HeldIn(q))
  <2>1. \A x \in HeldIn(q) : Same(s, t, x)
    BY <1>2, <1>3 DEF StoreFacts, HeldIn
  <2>2. \A k \in Key \ S : t.db[k] = s.db[k]
    BY <1>1
  <2> QED  BY <2>1, <2>2 DEF Same, Steady
<1> QED  BY <1>5, <1>6, <1>7, <1>8, <1>9, <1>10, <1>11 DEF Sound, Kept

\* InodeCache::Release: whoever gives the last handle back has written it back.
LEMMA ReleaseSound ==
  ASSUME NEW R, NEW s, NEW r, StoreOK(s, r, R), NEW h \in Handle, r[h] > 0,
         NEW T, NEW S, T \subseteq S, NEW D, Sound(s, r, T, S, D),
         r[h] = 1 /\ KeyOf(s, h) \notin T =>
           ModeOf(s, h) = INODE_READ \/ ValueOf(s, h) = s.db[KeyOf(s, h)]
  PROVE  LET t == InodeCache_Release(s, h)
         IN  Sound(t, [r EXCEPT ![h] = @ - 1], T, S, D) /\ Kept(s, t, T, {})
             /\ Steady(s, t, S, HeldIn([r EXCEPT ![h] = @ - 1]))
<1> DEFINE t == InodeCache_Release(s, h)
           q == [r EXCEPT ![h] = @ - 1]
<1>1. StoreOK(t, q, R) /\ Lessened(s, t)
  BY ReleaseEffect
<1>2. \A x \in LiveIn(s) \ LiveIn(t) : x = h /\ r[h] = 1
  BY ReleaseFrees
<1>3. StoreFacts(s, r, R)
  BY StoreLemma
<1>4. r \in [Handle -> Nat] /\ LiveIn(t) \subseteq LiveIn(s) /\ LiveIn(s) \subseteq Handle
  BY <1>1, <1>3 DEF StoreFacts, Lessened
<1> HIDE DEF t
<1>5. \A x \in LiveIn(t) :
        q[x] = r[x] \/ ModeOf(s, x) = INODE_READ \/ ValueOf(s, x) = s.db[KeyOf(s, x)]
             \/ q[x] > 0 \/ KeyOf(s, x) \in S
  <2> SUFFICES ASSUME NEW x \in LiveIn(t), x = h, r[h] = 1, KeyOf(s, h) \notin S
               PROVE  ModeOf(s, x) = INODE_READ \/ ValueOf(s, x) = s.db[KeyOf(s, x)]
    BY <1>4
  <2> QED  OBVIOUS
<1> HIDE DEF q
<1>6. \A x \in LiveIn(s) \ LiveIn(t) :
        KeyOf(s, x) \notin S =>
          ModeOf(s, x) = INODE_READ \/ ValueOf(s, x) = s.db[KeyOf(s, x)]
  BY <1>2
<1>7. Sound(t, q, T, S, D) /\ Kept(s, t, T, {}) /\ Steady(s, t, S, HeldIn(q))
  BY <1>1, <1>5, <1>6, LessenedSound
<1> QED  BY <1>7 DEF t, q

\* InodeCache::Evict; a stale inode of the key is gone after it.
LEMMA EvictSound ==
  ASSUME NEW R, NEW s, NEW r, StoreOK(s, r, R), NEW k,
         NEW T, NEW S, T \subseteq S, NEW D, Sound(s, r, T, S, D)
  PROVE  LET t == InodeCache_Evict(s, k)
         IN  Sound(t, r, T, (S \ {k}) \cup T, D) /\ Kept(s, t, T, {})
             /\ Steady(s, t, S, HeldIn(r))
<1> DEFINE t == InodeCache_Evict(s, k)
<1>1. StoreOK(t, r, R) /\ Lessened(s, t)
      /\ DOMAIN t.cache.table = DOMAIN s.cache.table \ {k}
  BY EvictEffect
<1>2. \A x \in LiveIn(s) \ LiveIn(t) :
        r[x] = 0 /\ KeyOf(s, x) = k /\ k \in DOMAIN s.cache.table /\ s.cache.table[k] = x
  BY EvictFrees
<1> HIDE DEF t
<1>3. \A x \in LiveIn(s) \ LiveIn(t) :
        KeyOf(s, x) \notin S =>
          ModeOf(s, x) = INODE_READ \/ ValueOf(s, x) = s.db[KeyOf(s, x)]
  BY <1>2 DEF Sound, FreshOK
<1>4. Sound(t, r, T, S, D) /\ Kept(s, t, T, {}) /\ Steady(s, t, S, HeldIn(r))
  BY <1>1, <1>3, LessenedSound
<1>5. FreshOK(t, r, (S \ {k}) \cup T)
  BY <1>1, <1>4 DEF Sound, FreshOK
<1> QED  BY <1>4, <1>5 DEF Sound, t

\* q counts one reference to the new entry h, and the others as r does.
OneMore(r, q, h) == q[h] = 1 /\ \A x \in Handle \ {h} : q[x] = r[x]

CanAdd(s, k, mode, val, T) ==
  k \notin T => /\ k \notin DOMAIN s.cache.table /\ val = s.db[k]
                /\ mode # INODE_DELETE

\* A new entry, with the record of its key or for a key in T.
LEMMA AddedSound ==
  ASSUME NEW R, NEW s, NEW r, StoreOK(s, r, R), NEW t, NEW h \in Handle,
         NEW k \in Key, NEW mode, NEW val \in R,
         NEW q, OneMore(r, q, h), StoreOK(t, q, R), Added(s, t, h, k, mode, val),
         NEW T, NEW D, Sound(s, r, T, T, D), CanAdd(s, k, mode, val, T)
  PROVE  /\ Sound(t, q, T, T, D \cup {h})
         /\ Kept(s, t, T, {<<k, val.ino>>})
         /\ Steady(s, t, T, HeldIn(r))
<1>0. k \notin T => k \notin DOMAIN s.cache.table /\ val = s.db[k] /\ mode # INODE_DELETE
  BY DEF CanAdd
<1>1. StoreFacts(s, r, R) /\ StoreFacts(t, q, R)
  BY StoreLemma
<1>2. r \in [Handle -> Nat] /\ LiveIn(s) \subseteq Handle
  BY <1>1 DEF StoreFacts
<1>3. h \in LiveIn(t) /\ h \notin LiveIn(s) /\ Cleaned(s, t)
      /\ KeyOf(t, h) = k /\ ModeOf(t, h) = mode /\ ValueOf(t, h) = val
      /\ \A x \in LiveIn(t) \ {h} : x \in LiveIn(s) /\ Same(s, t, x)
      /\ \A j \in DOMAIN t.cache.table :
           \/ j = k /\ t.cache.table[j] = h
           \/ j # k /\ j \in DOMAIN s.cache.table /\ t.cache.table[j] = s.cache.table[j]
  BY DEF Added
<1>4. \A x \in LiveIn(s) \ LiveIn(t) : r[x] = 0
  <2> SUFFICES ASSUME NEW x \in LiveIn(s) \ LiveIn(t)  PROVE r[x] = 0
    OBVIOUS
  <2>1. x \in Handle /\ x # h
    BY <1>2, <1>3
  <2>2. q[x] = r[x]
    BY <2>1 DEF OneMore
  <2>3. q[x] = 0
    BY HeldStays
  <2> QED  BY <2>2, <2>3
<1>5. \A x \in LiveIn(s) \ LiveIn(t) :
        KeyOf(s, x) \in DOMAIN s.cache.table /\ s.cache.table[KeyOf(s, x)] = x
  BY <1>1, <1>4 DEF StoreFacts
<1>6. \A x \in LiveIn(s) \ LiveIn(t) :
        KeyOf(s, x) \notin T =>
          ModeOf(s, x) = INODE_READ \/ ValueOf(s, x) = s.db[KeyOf(s, x)]
  BY <1>4, <1>5 DEF Sound, FreshOK
<1>7. \A j \in Key \ T : t.db[j] = s.db[j]
  BY <1>3, <1>6, CleanedNames DEF Sound
<1>8. \A x \in LiveIn(t) \ {h} : KeyOf(s, x) \in Key
  BY <1>1, <1>3 DEF StoreFacts
<1>9. NoRecord \notin R
  BY DEF StoreOK
<1>10. NamedOK(t, T)
  <2>1. ASSUME NEW x \in LiveIn(t) \ {h}, KeyOf(t, x) \notin T
        PROVE  /\ t.db[KeyOf(t, x)] # NoRecord
               /\ t.db[KeyOf(t, x)].ino = ValueOf(t, x).ino
               /\ t.db[KeyOf(t, x)].dir = ValueOf(t, x).dir
               /\ ModeOf(t, x) # INODE_DELETE
    BY <2>1, <1>3, <1>7, <1>8 DEF NamedOK, Sound, Same
  <2>2. ASSUME k \notin T
        PROVE  t.db[k] # NoRecord /\ t.db[k].ino = val.ino /\ t.db[k].dir = val.dir
               /\ mode # INODE_DELETE
    BY <2>2, <1>0, <1>7, <1>9
  <2> QED  BY <2>1, <2>2, <1>3 DEF NamedOK
<1>11. FreshOK(t, q, T)
  <2> SUFFICES ASSUME NEW j \in DOMAIN t.cache.table, j \notin T,
                      q[t.cache.table[j]] = 0 \/ ModeOf(t, t.cache.table[j]) = INODE_READ
               PROVE  ValueOf(t, t.cache.table[j]) = t.db[j]
    BY DEF FreshOK
  <2> DEFINE x == t.cache.table[j]
  <2>1. j \in Key /\ x \in LiveIn(t) /\ t.db[j] = s.db[j] /\ KeyOf(t, x) = j
    BY <1>1, <1>7 DEF StoreFacts
  <2>2. CASE j = k
    BY <2>1, <2>2, <1>0, <1>3
  <2>3. CASE j # k
    <3>1. x = s.cache.table[j] /\ j \in DOMAIN s.cache.table /\ x # h
      BY <2>1, <2>3, <1>3
    <3>2. x \in LiveIn(s) /\ Same(s, t, x) /\ q[x] = r[x]
      BY <2>1, <3>1, <1>2, <1>3 DEF OneMore
    <3> HIDE DEF x
    <3>3. r[x] = 0 \/ ModeOf(s, x) = INODE_READ => ValueOf(s, x) = s.db[j]
      BY <3>1 DEF Sound, FreshOK
    <3> QED  BY <2>1, <3>2, <3>3 DEF Same, x
  <2> QED  BY <2>2, <2>3
<1>12. DirsClean(t, D \cup {h})
  BY <1>3 DEF DirsClean, Sound, Same
<1>13. Holds(t) \subseteq Holds(s) \cup {<<k, val.ino>>}
  <2>1. \A j \in Key : t.db[j] # NoRecord => <<j, t.db[j].ino>> \in Holds(s)
    BY <1>3, CleanedHolds
  <2>2. \A x \in LiveIn(t) : <<KeyOf(t, x), ValueOf(t, x).ino>> \in Holds(s) \cup {<<k, val.ino>>}
    BY <1>3 DEF Holds, Same
  <2> QED  BY <2>1, <2>2 DEF Holds
<1>14. \A x \in LiveIn(s) \cap LiveIn(t) :
         /\ KeyOf(t, x) = KeyOf(s, x)
         /\ ValueOf(t, x).ino = ValueOf(s, x).ino
         /\ ValueOf(t, x).dir = ValueOf(s, x).dir
  BY <1>3 DEF Same
<1>15. Steady(s, t, T, HeldIn(r))
  <2> SUFFICES ASSUME NEW x \in HeldIn(r)  PROVE Same(s, t, x)
    BY <1>7 DEF Steady, Same
  <2>1. x \in LiveIn(s) /\ x # h /\ ~(r[x] = 0)
    BY <1>1, <1>3 DEF StoreFacts, HeldIn
  <2>2. x \in LiveIn(t)
    BY <1>4, <2>1
  <2> QED  BY <1>3, <2>1, <2>2
<1> QED  BY <1>7, <1>10, <1>11, <1>12, <1>13, <1>14, <1>15 DEF Sound, Kept

\* A handle that is held becomes or stays dirty, with the same inode.
LEMMA DirtySound ==
  ASSUME NEW R, NEW s, NEW r, StoreOK(s, r, R), NEW t, NEW h \in LiveIn(s), NEW val,
         r[h] > 0, Changed(s, t, h, INODE_WRITE, val),
         NEW T, NEW S, NEW D, Sound(s, r, T, S, D),
         val.ino = ValueOf(s, h).ino, val.dir = ValueOf(s, h).dir, h \in D \/ ~val.dir
  PROVE  Sound(t, r, T, S, D) /\ Kept(s, t, T, {})
<1>1. /\ LiveIn(t) = LiveIn(s) /\ t.cache.table = s.cache.table /\ t.db = s.db
      /\ \A x \in LiveIn(t) \ {h} : Same(s, t, x)
      /\ KeyOf(t, h) = KeyOf(s, h) /\ ModeOf(t, h) = INODE_WRITE /\ ValueOf(t, h) = val
  BY DEF Changed
<1>2. INODE_WRITE # INODE_READ /\ INODE_WRITE # INODE_DELETE /\ r[h] # 0
  BY DEF INODE_WRITE, INODE_READ, INODE_DELETE
<1>3. NamedOK(t, T)
  BY <1>1, <1>2 DEF NamedOK, Sound, Same
<1>4. FreshOK(t, r, S)
  <2>1. \A k \in DOMAIN s.cache.table : s.cache.table[k] \in LiveIn(s)
    BY StoreLemma DEF StoreFacts
  <2> QED  BY <1>1, <1>2, <2>1 DEF FreshOK, Sound, Same
<1>5. DirsClean(t, D)
  BY <1>1 DEF DirsClean, Sound, Same
<1>6. \A x \in LiveIn(t) : /\ KeyOf(t, x) = KeyOf(s, x)
                           /\ ValueOf(t, x).ino = ValueOf(s, x).ino
                           /\ ValueOf(t, x).dir = ValueOf(s, x).dir
  BY <1>1 DEF Same
<1>7. Holds(t) \subseteq Holds(s)
  BY <1>1, <1>6 DEF Holds
<1> QED  BY <1>1, <1>3, <1>4, <1>5, <1>6, <1>7 DEF Sound, Kept

\* InodeCache::WriteBack of a dirty handle makes every other cached inode of
\* its key stale.
LEMMA WriteBackSound ==
  ASSUME NEW R, NEW s, NEW r, StoreOK(s, r, R), NEW h \in LiveIn(s),
         ModeOf(s, h) = INODE_WRITE,
         NEW T, NEW S, NEW Q, NEW D, Sound(s, r, T, S, D), S \subseteq Q,
         \/ KeyOf(s, h) \in Q
         \/ KeyOf(s, h) \notin DOMAIN s.cache.table
         \/ s.cache.table[KeyOf(s, h)] = h
  PROVE  LET t == InodeCache_WriteBack(s, h)
         IN  Sound(t, r, T, Q, D \ {h}) /\ Kept(s, t, T, {})
             /\ Steady(s, t, {KeyOf(s, h)}, HeldIn(r))
<1> DEFINE t == InodeCache_WriteBack(s, h)
           k == KeyOf(s, h)
           v == ValueOf(s, h)
<1>1. /\ LiveIn(t) = LiveIn(s) /\ t.cache.table = s.cache.table
      /\ \A x \in LiveIn(t) \ {h} : Same(s, t, x)
      /\ KeyOf(t, h) = k /\ ModeOf(t, h) = INODE_READ /\ ValueOf(t, h) = v
      /\ t.db = [s.db EXCEPT ![k] = v]
  BY WriteBackEffect DEF WroteBack
<1>2. StoreFacts(s, r, R) /\ s.db \in [Key -> R \cup {NoRecord}] /\ NoRecord \notin R
  BY StoreLemma DEF StoreOK
<1>3. k \in Key /\ v \in R /\ v # NoRecord
  BY <1>2 DEF StoreFacts
<1>m. INODE_WRITE # INODE_READ /\ INODE_DELETE # INODE_READ
  BY DEF INODE_WRITE, INODE_READ, INODE_DELETE
<1> HIDE DEF t
<1>4. /\ \A j \in Key \ {k} : t.db[j] = s.db[j]
      /\ t.db[k] = v
      /\ k \notin T => s.db[k] # NoRecord /\ s.db[k].ino = v.ino /\ s.db[k].dir = v.dir
  <2>1. k \notin T => s.db[k] # NoRecord /\ s.db[k].ino = v.ino /\ s.db[k].dir = v.dir
    BY DEF NamedOK, Sound
  <2> HIDE DEF k, v
  <2> QED  BY <1>1, <1>2, <1>3, <2>1
<1>5. \A x \in LiveIn(s) : KeyOf(s, x) \in Key
  BY <1>2 DEF StoreFacts
<1>6. NamedOK(t, T)
  <2> SUFFICES ASSUME NEW x \in LiveIn(t), KeyOf(t, x) \notin T
               PROVE  /\ t.db[KeyOf(t, x)] # NoRecord
                      /\ t.db[KeyOf(t, x)].ino = ValueOf(t, x).ino
                      /\ t.db[KeyOf(t, x)].dir = ValueOf(t, x).dir
                      /\ ModeOf(t, x) # INODE_DELETE
    BY DEF NamedOK
  <2>1. CASE x = h
    BY <2>1, <1>1, <1>3, <1>4, <1>m
  <2>2. CASE x # h
    <3>1. Same(s, t, x) /\ x \in LiveIn(s) /\ KeyOf(s, x) \in Key
      BY <2>2, <1>1, <1>5
    <3>2. /\ s.db[KeyOf(s, x)] # NoRecord
          /\ s.db[KeyOf(s, x)].ino = ValueOf(s, x).ino
          /\ s.db[KeyOf(s, x)].dir = ValueOf(s, x).dir
          /\ ModeOf(s, x) # INODE_DELETE
      BY <3>1 DEF NamedOK, Sound, Same
    <3> QED  BY <3>1, <3>2, <1>3, <1>4 DEF Same
  <2> QED  BY <2>1, <2>2
<1>7. FreshOK(t, r, Q)
  <2> SUFFICES ASSUME NEW j \in DOMAIN t.cache.table, j \notin Q,
                      r[t.cache.table[j]] = 0 \/ ModeOf(t, t.cache.table[j]) = INODE_READ
               PROVE  ValueOf(t, t.cache.table[j]) = t.db[j]
    BY DEF FreshOK
  <2> DEFINE x == t.cache.table[j]
  <2>1. j \in DOMAIN s.cache.table /\ x = s.cache.table[j]
    BY <1>1
  <2>2. x \in LiveIn(s) /\ KeyOf(s, x) = j /\ j \in Key
    BY <1>2, <2>1 DEF StoreFacts
  <2>3. CASE j = k
    BY <2>1, <2>3, <1>1, <1>4
  <2>4. CASE j # k
    <3> HIDE DEF x
    <3>1. x # h /\ Same(s, t, x)
      BY <2>2, <2>4, <1>1
    <3>2. r[x] = 0 \/ ModeOf(s, x) = INODE_READ => ValueOf(s, x) = s.db[j]
      BY <2>1 DEF Sound, FreshOK, x
    <3> QED  BY <2>2, <2>4, <3>1, <3>2, <1>4 DEF Same, x
  <2> QED  BY <2>3, <2>4
<1>8. DirsClean(t, D \ {h})
  BY <1>1, <1>m DEF DirsClean, Sound, Same
<1>9. Holds(t) \subseteq Holds(s)
  <2>1. <<k, v.ino>> \in Holds(s)
    BY DEF Holds
  <2>2. \A j \in Key : t.db[j] # NoRecord => <<j, t.db[j].ino>> \in Holds(s)
    BY <2>1, <1>4 DEF Holds
  <2>3. \A x \in LiveIn(t) : <<KeyOf(t, x), ValueOf(t, x).ino>> \in Holds(s)
    BY <1>1 DEF Holds, Same
  <2> QED  BY <2>2, <2>3 DEF Holds
<1>10. \A j \in Key \ T : s.db[j] # NoRecord =>
         t.db[j] # NoRecord /\ t.db[j].ino = s.db[j].ino /\ t.db[j].dir = s.db[j].dir
  BY <1>3, <1>4
<1>11. \A x \in LiveIn(t) : /\ KeyOf(t, x) = KeyOf(s, x)
                            /\ ValueOf(t, x).ino = ValueOf(s, x).ino
                            /\ ValueOf(t, x).dir = ValueOf(s, x).dir
  BY <1>1 DEF Same
<1>12. Steady(s, t, {k}, HeldIn(r))
  <2>1. HeldIn(r) \subseteq LiveIn(t)
    BY <1>1, <1>2 DEF StoreFacts, HeldIn
  <2> QED  BY <1>1, <1>4, <2>1 DEF Steady, Same
<1> QED  BY <1>1, <1>6, <1>7, <1>8, <1>9, <1>10, <1>11, <1>12 DEF Sound, Kept, t

\* What a handler knows of the handle h of k that it got.
Fetched(s, t, q, h, k, mode, T) ==
  /\ h \in Handle /\ KeyOf(t, h) = k /\ ValueOf(t, h) = Shown(s, k)
  /\ mode # INODE_READ => ModeOf(t, h) = mode
  /\ k \in DOMAIN t.cache.table => t.cache.table[k] = h
  /\ q[h] = 1 /\ k \notin T => ValueOf(t, h) = t.db[k]

\* InodeCache::Get of an inode that exists.
LEMMA GetSound ==
  ASSUME NEW R, NEW s, NEW r, StoreOK(s, r, R), HasRoom(s), NEW k \in Key,
         NEW mode \in InodeAccessMode, NEW T, Sound(s, r, T, T, {}),
         mode = INODE_DELETE => k \in T, InodeCache_Get(s, k, mode).h # NoHandle
  PROVE  LET g == InodeCache_Get(s, k, mode)
             q == [r EXCEPT ![g.h] = @ + 1]
         IN  /\ StoreOK(g.s, q, R) /\ Fetched(s, g.s, q, g.h, k, mode, T)
             /\ Sound(g.s, q, T, T, IF mode = INODE_WRITE THEN {g.h} ELSE {})
             /\ Kept(s, g.s, T, {}) /\ Shown(s, k) \in R
             /\ Steady(s, g.s, T, HeldIn(r))
<1> DEFINE g == InodeCache_Get(s, k, mode)
           h == g.h
           t == g.s
           q == [r EXCEPT ![h] = @ + 1]
           D == IF mode = INODE_WRITE THEN {h} ELSE {}
<1>1. Shown(s, k) \in R /\ h \in Handle /\ StoreOK(t, q, R) /\ Got(s, t, h, k, mode)
  BY GetEffect
<1>2. StoreFacts(s, r, R) /\ StoreFacts(t, q, R)
  BY <1>1, StoreLemma
<1>m. INODE_WRITE # INODE_READ /\ INODE_DELETE # INODE_READ /\ INODE_WRITE # INODE_DELETE
  BY DEF INODE_WRITE, INODE_READ, INODE_DELETE
<1>3. r \in [Handle -> Nat]
  BY <1>2 DEF StoreFacts
<1> HIDE DEF g
<1>4. CASE k \in DOMAIN s.cache.table
  <2> DEFINE m == IF mode = INODE_READ THEN ModeOf(s, h) ELSE mode
  <2>1. h = s.cache.table[k] /\ Changed(s, t, h, m, ValueOf(s, h))
    BY <1>1, <1>4 DEF Got
  <2>2. /\ LiveIn(t) = LiveIn(s) /\ t.cache.table = s.cache.table /\ t.db = s.db
        /\ \A x \in LiveIn(t) \ {h} : Same(s, t, x)
        /\ KeyOf(t, h) = KeyOf(s, h) /\ ModeOf(t, h) = m /\ ValueOf(t, h) = ValueOf(s, h)
    BY <2>1 DEF Changed
  <2>3. h \in LiveIn(s) /\ KeyOf(s, h) = k
    BY <1>2, <1>4, <2>1 DEF StoreFacts
  <2>4. q[h] = r[h] + 1 /\ \A x \in Handle : x # h => q[x] = r[x]
    BY <1>1, <1>3
  <2>5. \A x \in LiveIn(s) : x \in Handle
    BY <1>2 DEF StoreFacts
  <2>6. r[h] \in Nat /\ q[h] # 0 /\ (q[h] = 1 => r[h] = 0)
    BY <1>1, <1>3, <2>4
  <2> HIDE DEF h, t, q
  <2>7. NamedOK(t, T)
    BY <1>m, <2>2, <2>3 DEF NamedOK, Sound, Same
  <2>8. k \notin T => (r[h] = 0 \/ ModeOf(s, h) = INODE_READ => ValueOf(s, h) = s.db[k])
    BY <1>4, <2>1 DEF Sound, FreshOK
  <2>9. FreshOK(t, q, T)
    <3> SUFFICES ASSUME NEW j \in DOMAIN t.cache.table, j \notin T,
                        q[t.cache.table[j]] = 0 \/ ModeOf(t, t.cache.table[j]) = INODE_READ
                 PROVE  ValueOf(t, t.cache.table[j]) = t.db[j]
      BY DEF FreshOK
    <3> DEFINE x == t.cache.table[j]
    <3>1. j \in DOMAIN s.cache.table /\ x = s.cache.table[j] /\ x \in LiveIn(s) /\ KeyOf(s, x) = j
      BY <1>2, <2>2 DEF StoreFacts
    <3>2. CASE x = h
      BY <1>m, <2>2, <2>3, <2>6, <2>8, <3>1, <3>2
    <3>3. CASE x # h
      <4>1. r[x] = q[x] /\ Same(s, t, x)
        BY <2>2, <2>4, <2>5, <3>1, <3>3
      <4> HIDE DEF x
      <4>2. r[x] = 0 \/ ModeOf(s, x) = INODE_READ => ValueOf(s, x) = s.db[j]
        BY <3>1 DEF Sound, FreshOK
      <4> QED  BY <2>2, <4>1, <4>2 DEF Same, x
    <3> QED  BY <3>2, <3>3
  <2>10. DirsClean(t, D)
    BY <1>m, <2>2, <2>3 DEF DirsClean, Sound, Same
  <2>11. \A x \in LiveIn(t) : /\ KeyOf(t, x) = KeyOf(s, x)
                              /\ ValueOf(t, x).ino = ValueOf(s, x).ino
                              /\ ValueOf(t, x).dir = ValueOf(s, x).dir
    BY <2>2 DEF Same
  <2>12. Holds(t) \subseteq Holds(s)
    BY <2>2, <2>11 DEF Holds
  <2>13. Sound(t, q, T, T, D) /\ Kept(s, t, T, {})
    BY <2>2, <2>7, <2>9, <2>10, <2>11, <2>12 DEF Sound, Kept
  <2>14. Fetched(s, t, q, h, k, mode, T)
    BY <1>1, <1>4, <1>m, <2>1, <2>2, <2>3, <2>6, <2>8 DEF Fetched, Shown
  <2>15. Steady(s, t, T, HeldIn(r))
    <3>1. HeldIn(r) \subseteq LiveIn(t)
      BY <1>2, <2>2 DEF StoreFacts, HeldIn
    <3> QED  BY <2>2, <3>1 DEF Steady, Same
  <2> QED  BY <1>1, <2>13, <2>14, <2>15 DEF h, t, q, g
<1>5. CASE k \notin DOMAIN s.cache.table
  <2> DEFINE v == s.db[k]
  <2>1. Added(s, t, h, k, mode, v) /\ v = Shown(s, k)
    BY <1>1, <1>5 DEF Got, Shown
  <2>2. h \in LiveIn(t) /\ h \notin LiveIn(s)
        /\ KeyOf(t, h) = k /\ ModeOf(t, h) = mode /\ ValueOf(t, h) = v
        /\ \A j \in DOMAIN t.cache.table :
             \/ j = k /\ t.cache.table[j] = h
             \/ j # k /\ j \in DOMAIN s.cache.table /\ t.cache.table[j] = s.cache.table[j]
    BY <2>1 DEF Added
  <2>3. r[h] = 0
    <3>1. r[h] > 0 => h \in LiveIn(s)
      BY <1>1, <1>2 DEF StoreFacts
    <3> QED  BY <3>1, <2>2, <1>1, <1>3
  <2>4. OneMore(r, q, h)
    BY <1>1, <1>3, <2>3 DEF OneMore
  <2> HIDE DEF h, t, q, v
  <2>5. v \in R /\ StoreOK(t, q, R) /\ CanAdd(s, k, mode, v, T) /\ h \in Handle
    BY <1>1, <1>5, <2>1 DEF CanAdd, v
  <2> DEFINE E == {}
  <2>6. /\ Sound(t, q, T, T, E \cup {h})
        /\ Kept(s, t, T, {<<k, v.ino>>})
        /\ Steady(s, t, T, HeldIn(r))
    <3>1. Sound(s, r, T, T, E)
      OBVIOUS
    <3> HIDE DEF E
    <3>2. StoreOK(s, r, R) /\ Sound(s, r, T, T, E) /\ Added(s, t, h, k, mode, v)
      BY <3>1, <2>1
    <3> QED  BY <3>2, <2>4, <2>5, AddedSound
  <2>7. <<k, v.ino>> \in Holds(s)
    <3>1. v # NoRecord
      BY <2>5 DEF StoreOK
    <3> QED  BY <3>1 DEF Holds, v
  <2>8. Kept(s, t, T, {})
    BY <2>6, <2>7 DEF Kept
  <2>9. DirsClean(t, D)
    BY <2>2, <2>6 DEF DirsClean, Sound
  <2>10. Sound(t, q, T, T, D)
    BY <2>6, <2>9 DEF Sound
  <2>11. Fetched(s, t, q, h, k, mode, T)
    BY <1>1, <2>1, <2>2, <2>6 DEF Fetched, Steady, v
  <2> QED  BY <1>1, <2>6, <2>8, <2>10, <2>11 DEF h, t, q, g
<1> QED  BY <1>4, <1>5

--------------------------------------------------------------------------------
\* What the handlers do with a handle between two steps of the file system.

\* As Kept, for the entries of O, which are alive all the time.
Carries(s, t, T, X, O) ==
  /\ Holds(t) \subseteq Holds(s) \cup X
  /\ \A k \in Key \ T :
       s.db[k] # NoRecord => /\ t.db[k] # NoRecord
                             /\ t.db[k].ino = s.db[k].ino /\ t.db[k].dir = s.db[k].dir
  /\ \A x \in O :
       /\ KeyOf(t, x) = KeyOf(s, x)
       /\ ValueOf(t, x).ino = ValueOf(s, x).ino
       /\ ValueOf(t, x).dir = ValueOf(s, x).dir

\* One operation.
LEMMA CarriesStep ==
  ASSUME NEW R, NEW s, NEW r, StoreOK(s, r, R), NEW t, NEW q, StoreOK(t, q, R),
         NEW T, NEW X, Kept(s, t, T, X), NEW O, O \subseteq HeldIn(r), O \subseteq HeldIn(q)
  PROVE  Carries(s, t, T, X, O)
<1>1. StoreFacts(s, r, R) /\ StoreFacts(t, q, R)
  BY StoreLemma
<1>2. O \subseteq LiveIn(s) /\ O \subseteq LiveIn(t)
  BY <1>1 DEF StoreFacts, HeldIn
<1> QED  BY <1>2 DEF Kept, Carries

\* One operation after others.
LEMMA CarriesTrans ==
  ASSUME NEW s, NEW t, NEW u, NEW T, NEW X, NEW O, Carries(s, t, T, X, O), Carries(t, u, T, {}, O)
  PROVE  Carries(s, u, T, X, O)
<1>1. Holds(u) \subseteq Holds(s) \cup X
  BY DEF Carries
<1>2. \A k \in Key \ T :
        s.db[k] # NoRecord => /\ u.db[k] # NoRecord
                              /\ u.db[k].ino = s.db[k].ino /\ u.db[k].dir = s.db[k].dir
  BY DEF Carries
<1>3. \A x \in O :
        /\ KeyOf(u, x) = KeyOf(s, x)
        /\ ValueOf(u, x).ino = ValueOf(s, x).ino
        /\ ValueOf(u, x).dir = ValueOf(s, x).dir
  BY DEF Carries
<1> QED  BY <1>1, <1>2, <1>3 DEF Carries

\* A handler took the store from s to t, and the counts of what is held from
\* r to q.
Handled(s, r, t, q, T, X, R) ==
  StoreOK(t, q, R) /\ Sound(t, q, T, T, {}) /\ Carries(s, t, T, X, HeldIn(r) \cap HeldIn(q))

\* A reference that is taken and given back.
LEMMA CountsBack ==
  ASSUME NEW r \in [Handle -> Nat], NEW h \in Handle
  PROVE  LET q == [r EXCEPT ![h] = @ + 1]
         IN  /\ [q EXCEPT ![h] = @ - 1] = r /\ q[h] > 0 /\ (q[h] = 1 <=> r[h] = 0)
             /\ HeldIn(r) \subseteq HeldIn(q)
<1> DEFINE q == [r EXCEPT ![h] = @ + 1]
<1>1. q \in [Handle -> Nat] /\ q[h] = r[h] + 1 /\ \A x \in Handle : x # h => q[x] = r[x]
  OBVIOUS
<1>2. [q EXCEPT ![h] = @ - 1] = [x \in Handle |-> IF x = h THEN q[h] - 1 ELSE q[x]]
  BY <1>1
<1>3. \A x \in Handle : r[x] = IF x = h THEN q[h] - 1 ELSE q[x]
  BY <1>1
<1> HIDE DEF q
<1>4. [q EXCEPT ![h] = @ - 1] = r
  BY <1>2, <1>3
<1>5. HeldIn(r) \subseteq HeldIn(q)
  BY <1>1 DEF HeldIn
<1> QED  BY <1>1, <1>4, <1>5 DEF q

\* GetAttr, and an Open that fails: the inode is as it was.
LEMMA GetAndRelease ==
  ASSUME NEW R, NEW s, NEW r, StoreOK(s, r, R), HasRoom(s), NEW k \in Key,
         NEW mode \in {INODE_READ, INODE_WRITE}, NEW T, Sound(s, r, T, T, {}),
         InodeCache_Get(s, k, mode).h # NoHandle,
         mode = INODE_WRITE => ~Shown(s, k).dir
  PROVE  LET g == InodeCache_Get(s, k, mode)
         IN  /\ Handled(s, r, InodeCache_Release(g.s, g.h), r, T, {}, R)
             /\ Steady(s, InodeCache_Release(g.s, g.h), T, HeldIn(r))
<1> DEFINE g == InodeCache_Get(s, k, mode)
           h == g.h
           t == g.s
           q == [r EXCEPT ![h] = @ + 1]
           u == InodeCache_Release(t, h)
           D == IF mode = INODE_WRITE THEN {h} ELSE {}
<1>0. mode \in InodeAccessMode /\ (mode = INODE_DELETE => k \in T)
  BY DEF InodeAccessMode, INODE_READ, INODE_WRITE, INODE_DELETE
<1>1. /\ StoreOK(t, q, R) /\ Fetched(s, t, q, h, k, mode, T)
      /\ Sound(t, q, T, T, D) /\ Kept(s, t, T, {}) /\ Steady(s, t, T, HeldIn(r))
  BY <1>0, GetSound
<1>2. h \in Handle /\ r \in [Handle -> Nat]
  BY <1>1, StoreLemma DEF Fetched, StoreFacts
<1> HIDE DEF g, h, t
<1>3. [q EXCEPT ![h] = @ - 1] = r /\ q[h] > 0 /\ HeldIn(r) \subseteq HeldIn(q)
  BY <1>2, CountsBack
<1> HIDE DEF q
<1>4. q[h] = 1 /\ KeyOf(t, h) \notin T =>
        ModeOf(t, h) = INODE_READ \/ ValueOf(t, h) = t.db[KeyOf(t, h)]
  BY <1>1 DEF Fetched
<1> HIDE DEF D
<1>5. Sound(u, [q EXCEPT ![h] = @ - 1], T, T, D) /\ Kept(t, u, T, {})
      /\ Steady(t, u, T, HeldIn([q EXCEPT ![h] = @ - 1]))
      /\ StoreOK(u, [q EXCEPT ![h] = @ - 1], R) /\ Lessened(t, u)
  BY <1>1, <1>2, <1>3, <1>4, ReleaseSound, ReleaseEffect
<1> HIDE DEF u
<1>6. Sound(u, r, T, T, D) /\ StoreOK(u, r, R)
  BY <1>3, <1>5
<1>7. Carries(s, t, T, {}, HeldIn(r)) /\ Carries(t, u, T, {}, HeldIn(r))
  BY <1>1, <1>3, <1>5, <1>6, CarriesStep
<1>8. Carries(s, u, T, {}, HeldIn(r))
  BY <1>7, CarriesTrans
<1>9. DirsClean(u, {})
  <2>1. mode = INODE_WRITE => ~ValueOf(t, h).dir
    BY <1>1 DEF Fetched
  <2>2. \A x \in LiveIn(u) : x \in LiveIn(t) /\ Same(t, u, x)
    BY <1>5 DEF Lessened
  <2> QED  BY <1>6, <2>1, <2>2 DEF D, DirsClean, Sound, Same
<1>10. Handled(s, r, u, r, T, {}, R)
  BY <1>6, <1>8, <1>9 DEF Handled, Sound
<1>11. Steady(t, u, T, HeldIn(r))
  BY <1>3, <1>5
<1>12. Steady(s, u, T, HeldIn(r))
  BY <1>1, <1>11, SteadyTrans
<1> QED  BY <1>10, <1>12 DEF u, t, h, g

\* The handle h of k is taken and kept.
Took(s, r, t, h, k, T, R) ==
  /\ h \in Handle /\ KeyOf(t, h) = k /\ ValueOf(t, h) = Shown(s, k) /\ Shown(s, k) \in R
  /\ Handled(s, r, t, [r EXCEPT ![h] = @ + 1], T, {}, R)
  /\ Steady(s, t, T, HeldIn(r))

\* Open and OpenDir: the client keeps the handle.
LEMMA GetAndKeep ==
  ASSUME NEW R, NEW s, NEW r, StoreOK(s, r, R), HasRoom(s), NEW k \in Key,
         NEW mode \in {INODE_READ, INODE_WRITE}, NEW T, Sound(s, r, T, T, {}),
         InodeCache_Get(s, k, mode).h # NoHandle,
         mode = INODE_WRITE => ~Shown(s, k).dir
  PROVE  LET g == InodeCache_Get(s, k, mode)
         IN  Took(s, r, g.s, g.h, k, T, R)
<1> DEFINE g == InodeCache_Get(s, k, mode)
           h == g.h
           t == g.s
           q == [r EXCEPT ![h] = @ + 1]
           D == IF mode = INODE_WRITE THEN {h} ELSE {}
<1>0. mode \in InodeAccessMode /\ (mode = INODE_DELETE => k \in T)
  BY DEF InodeAccessMode, INODE_READ, INODE_WRITE, INODE_DELETE
<1>1. /\ StoreOK(t, q, R) /\ Fetched(s, t, q, h, k, mode, T)
      /\ Sound(t, q, T, T, D) /\ Kept(s, t, T, {}) /\ Shown(s, k) \in R
      /\ Steady(s, t, T, HeldIn(r))
  BY <1>0, GetSound
<1> HIDE DEF g, h, t, q
<1>2. h \in Handle /\ ValueOf(t, h) = Shown(s, k) /\ KeyOf(t, h) = k
  BY <1>1 DEF Fetched
<1>3. Sound(t, q, T, T, {})
  BY <1>1, <1>2 DEF Sound, DirsClean
<1>4. Carries(s, t, T, {}, HeldIn(r) \cap HeldIn(q))
  BY <1>1, CarriesStep
<1>5. Handled(s, r, t, q, T, {}, R)
  BY <1>1, <1>3, <1>4 DEF Handled
<1>6. Took(s, r, t, h, k, T, R)
  BY <1>1, <1>2, <1>5 DEF Took, q
<1> QED  BY <1>6 DEF t, h, g

\* ReleaseDir: the directory is clean.
LEMMA ReleaseClean ==
  ASSUME NEW R, NEW s, NEW r, StoreOK(s, r, R), NEW h \in Handle, r[h] > 0,
         NEW T, Sound(s, r, T, T, {}), ValueOf(s, h).dir
  PROVE  /\ Handled(s, r, InodeCache_Release(s, h), [r EXCEPT ![h] = @ - 1], T, {}, R)
         /\ Steady(s, InodeCache_Release(s, h), T, HeldIn([r EXCEPT ![h] = @ - 1]))
<1> DEFINE t == InodeCache_Release(s, h)
           q == [r EXCEPT ![h] = @ - 1]
<1>1. h \in LiveIn(s) /\ ModeOf(s, h) \in InodeAccessMode
  BY StoreLemma DEF StoreFacts
<1>2. KeyOf(s, h) \notin T => ModeOf(s, h) = INODE_READ
  BY <1>1 DEF Sound, NamedOK, DirsClean, InodeAccessMode
<1>3. Sound(t, q, T, T, {}) /\ Kept(s, t, T, {}) /\ Steady(s, t, T, HeldIn(q))
  <2> DEFINE E == {}
  <2>1. Sound(s, r, T, T, E) /\ T \subseteq T
    OBVIOUS
  <2> HIDE DEF E
  <2>2. Sound(t, q, T, T, E) /\ Kept(s, t, T, {}) /\ Steady(s, t, T, HeldIn(q))
    BY <1>2, <2>1, ReleaseSound
  <2> QED  BY <2>2 DEF E
<1>4. StoreOK(t, q, R)
  BY ReleaseEffect
<1> HIDE DEF t, q
<1>5. Carries(s, t, T, {}, HeldIn(r) \cap HeldIn(q))
  BY <1>3, <1>4, CarriesStep
<1> QED  BY <1>3, <1>4, <1>5 DEF Handled, t, q

\* The handles of O that are not of the key k.
NotOf(s, k, O) == {x \in O : KeyOf(s, x) # k}

\* The record of k and the handle h, if it stays open, are changed to val.
Updated(s, r, u, h, k, val, T, R) ==
  /\ Handled(s, r, u, r, T, {}, R)
  /\ Steady(s, u, T \cup {k}, NotOf(s, k, HeldIn(r)))
  /\ h \in HeldIn(r) => ValueOf(u, h) = val
  /\ k \notin T => u.db[k] = val

\* SetAttr and Truncate: the inode is got, changed, written back and released.
LEMMA GetAndUpdate ==
  ASSUME NEW R, NEW s, NEW r, StoreOK(s, r, R), HasRoom(s), NEW k \in Key,
         NEW T, Sound(s, r, T, T, {}), InodeCache_Get(s, k, INODE_WRITE).h # NoHandle,
         NEW val \in R, val.ino = Shown(s, k).ino, val.dir = Shown(s, k).dir
  PROVE  LET g == InodeCache_Get(s, k, INODE_WRITE)
             w == InodeCache_WriteBack(SetValue(g.s, g.h, val), g.h)
             u == InodeCache_Release(w, g.h)
         IN  Updated(s, r, u, g.h, k, val, T, R)
<1> DEFINE g == InodeCache_Get(s, k, INODE_WRITE)
           h == g.h
           t == g.s
           q == [r EXCEPT ![h] = @ + 1]
           c == SetValue(t, h, val)
           w == InodeCache_WriteBack(c, h)
           u == InodeCache_Release(w, h)
<1>0. INODE_WRITE \in InodeAccessMode /\ INODE_WRITE # INODE_DELETE /\ INODE_WRITE # INODE_READ
  BY DEF InodeAccessMode, INODE_WRITE, INODE_DELETE, INODE_READ
<1>1. /\ StoreOK(t, q, R) /\ Fetched(s, t, q, h, k, INODE_WRITE, T)
      /\ Sound(t, q, T, T, {h}) /\ Kept(s, t, T, {}) /\ Shown(s, k) \in R
        /\ Steady(s, t, T, HeldIn(r))
  <2>1. Sound(t, q, T, T, IF INODE_WRITE = INODE_WRITE THEN {h} ELSE {})
        /\ StoreOK(t, q, R) /\ Fetched(s, t, q, h, k, INODE_WRITE, T)
        /\ Kept(s, t, T, {}) /\ Shown(s, k) \in R
        /\ Steady(s, t, T, HeldIn(r))
    BY <1>0, GetSound
  <2> HIDE DEF g, h, t, q
  <2> QED  BY <2>1
<1>2. h \in Handle /\ r \in [Handle -> Nat]
  BY <1>1, StoreLemma DEF Fetched, StoreFacts
<1> HIDE DEF g, h, t
<1>3. [q EXCEPT ![h] = @ - 1] = r /\ q[h] > 0 /\ HeldIn(r) \subseteq HeldIn(q)
  BY <1>2, CountsBack
<1> HIDE DEF q
<1>4. h \in LiveIn(t)
  BY <1>1, <1>2, <1>3, StoreLemma DEF StoreFacts
<1>5. /\ KeyOf(t, h) = k /\ ModeOf(t, h) = INODE_WRITE /\ ValueOf(t, h) = Shown(s, k)
      /\ k \in DOMAIN t.cache.table => t.cache.table[k] = h
  BY <1>0, <1>1 DEF Fetched
<1>6. StoreOK(c, q, R) /\ Changed(t, c, h, INODE_WRITE, val)
  BY <1>1, <1>4, <1>5, SetValueEffect
<1> HIDE DEF c
<1>7. Sound(c, q, T, T, {h}) /\ Kept(t, c, T, {})
  <2> DEFINE D == {h}
  <2>1. Sound(t, q, T, T, D) /\ h \in D
    BY <1>1
  <2> HIDE DEF D
  <2>2. Sound(c, q, T, T, D) /\ Kept(t, c, T, {})
    BY <1>1, <1>3, <1>4, <1>5, <1>6, <2>1, DirtySound
  <2> QED  BY <2>2 DEF D
<1>8. /\ LiveIn(c) = LiveIn(t) /\ KeyOf(c, h) = k /\ ModeOf(c, h) = INODE_WRITE
      /\ k \in DOMAIN c.cache.table => c.cache.table[k] = h
  BY <1>5, <1>6 DEF Changed
<1>9. StoreOK(w, q, R) /\ WroteBack(c, w, h)
  BY <1>4, <1>6, <1>8, WriteBackEffect
<1>10. Sound(w, q, T, T, {}) /\ Kept(c, w, T, {}) /\ Steady(c, w, {k}, HeldIn(q))
  <2> DEFINE D == {h}
  <2>1. Sound(c, q, T, T, D) /\ T \subseteq T
    BY <1>7
  <2>2. D \ {h} = {}
    OBVIOUS
  <2> HIDE DEF D
  <2>3. Sound(w, q, T, T, D \ {h}) /\ Kept(c, w, T, {}) /\ Steady(c, w, {KeyOf(c, h)}, HeldIn(q))
    BY <1>4, <1>6, <1>8, <2>1, WriteBackSound
  <2> QED  BY <1>8, <2>2, <2>3
<1> HIDE DEF w
<1>11. ModeOf(w, h) = INODE_READ
  BY <1>9 DEF WroteBack
<1>12. Sound(u, [q EXCEPT ![h] = @ - 1], T, T, {}) /\ Kept(w, u, T, {})
       /\ Steady(w, u, T, HeldIn([q EXCEPT ![h] = @ - 1]))
       /\ StoreOK(u, [q EXCEPT ![h] = @ - 1], R)
  <2> DEFINE E == {}
  <2>1. Sound(w, q, T, T, E) /\ T \subseteq T
    BY <1>10
  <2> HIDE DEF E
  <2>2. Sound(u, [q EXCEPT ![h] = @ - 1], T, T, E) /\ Kept(w, u, T, {})
        /\ Steady(w, u, T, HeldIn([q EXCEPT ![h] = @ - 1]))
        /\ StoreOK(u, [q EXCEPT ![h] = @ - 1], R)
    BY <1>2, <1>3, <1>9, <1>11, <2>1, ReleaseSound, ReleaseEffect
  <2> QED  BY <2>2 DEF E
<1> HIDE DEF u
<1>13. Sound(u, r, T, T, {}) /\ StoreOK(u, r, R) /\ Steady(w, u, T, HeldIn(r))
  BY <1>3, <1>12
<1> DEFINE O == HeldIn(r)
<1>14. Carries(s, t, T, {}, O) /\ Carries(t, c, T, {}, O)
       /\ Carries(c, w, T, {}, O) /\ Carries(w, u, T, {}, O)
  BY <1>1, <1>3, <1>6, <1>7, <1>9, <1>10, <1>12, <1>13, CarriesStep
<1> HIDE DEF O
<1>15. Carries(s, c, T, {}, O)
  BY <1>14, CarriesTrans
<1>16. Carries(s, w, T, {}, O)
  BY <1>14, <1>15, CarriesTrans
<1>17. Carries(s, u, T, {}, O)
  BY <1>14, <1>16, CarriesTrans
<1>18. Handled(s, r, u, r, T, {}, R)
  BY <1>13, <1>17 DEF Handled, O
<1> DEFINE N == NotOf(s, k, HeldIn(r))
           L == T \cup {k}
<1>19. h \notin N
  BY <1>1, <1>5 DEF Steady, NotOf
<1>20. N \subseteq HeldIn(r) /\ N \subseteq HeldIn(q)
  BY <1>3 DEF NotOf
<1>21. Steady(t, c, {}, N)
  <2> HIDE DEF N
  <2> QED  BY <1>1, <1>6, <1>19, <1>20, ChangedSteady
<1>22. Steady(s, t, L, N) /\ Steady(t, c, L, N) /\ Steady(c, w, L, N) /\ Steady(w, u, L, N)
  <2> HIDE DEF N
  <2> QED  BY <1>1, <1>10, <1>13, <1>20, <1>21 DEF Steady
<1>23. Steady(s, u, L, N)
  <2> HIDE DEF N, L
  <2>1. Steady(s, c, L, N)
    BY <1>22, SteadyTrans
  <2>2. Steady(s, w, L, N)
    BY <1>22, <2>1, SteadyTrans
  <2> QED  BY <1>22, <2>2, SteadyTrans
<1>24. ValueOf(w, h) = val /\ w.db[k] = val
  <2>1. ValueOf(c, h) = val /\ c.db \in [Key -> R \cup {NoRecord}]
    BY <1>6 DEF Changed, StoreOK
  <2> QED  BY <2>1, <1>8, <1>9 DEF WroteBack
<1>25. /\ h \in HeldIn(r) => ValueOf(u, h) = val
       /\ k \notin T => u.db[k] = val
  BY <1>13, <1>24 DEF Steady
<1>26. Updated(s, r, u, h, k, val, T, R)
  BY <1>18, <1>23, <1>25 DEF Updated
<1> QED  BY <1>26 DEF u, w, c, t, h, g

\* Write: the file's handle becomes dirty, and its inode changes unless the
\* data file could not be opened.
LEMMA WriteHandle ==
  ASSUME NEW R, NEW s, NEW r, StoreOK(s, r, R), NEW h \in Handle, r[h] > 0,
         NEW T, Sound(s, r, T, T, {}), ~ValueOf(s, h).dir,
         NEW val \in R, val.ino = ValueOf(s, h).ino, val.dir = ValueOf(s, h).dir
  PROVE  LET dirty == SetMode(s, h, INODE_WRITE)
         IN  /\ Handled(s, r, dirty, r, T, {}, R) /\ Steady(s, dirty, {}, HeldIn(r))
             /\ Handled(s, r, SetValue(dirty, h, val), r, T, {}, R)
             /\ Steady(s, SetValue(dirty, h, val), {}, HeldIn(r) \ {h})
             /\ ValueOf(SetValue(dirty, h, val), h) = val
<1> DEFINE t == SetMode(s, h, INODE_WRITE)
           u == SetValue(t, h, val)
           v == ValueOf(s, h)
           O == HeldIn(r)
<1>1. h \in LiveIn(s) /\ INODE_WRITE \in InodeAccessMode
  BY StoreLemma DEF StoreFacts, InodeAccessMode
<1>2. StoreOK(t, r, R) /\ Changed(s, t, h, INODE_WRITE, v)
  BY <1>1, SetModeEffect
<1> HIDE DEF t
<1>3. LiveIn(t) = LiveIn(s) /\ ModeOf(t, h) = INODE_WRITE /\ ValueOf(t, h) = v
  BY <1>2 DEF Changed
<1>4. StoreOK(u, r, R) /\ Changed(t, u, h, INODE_WRITE, val)
  BY <1>1, <1>2, <1>3, SetValueEffect
<1> HIDE DEF u
<1> DEFINE E == {}
<1>5. Sound(s, r, T, T, E)
  OBVIOUS
<1> HIDE DEF E
<1>6. Sound(t, r, T, T, E) /\ Kept(s, t, T, {})
  BY <1>1, <1>2, <1>5, DirtySound
<1>7. Sound(u, r, T, T, E) /\ Kept(t, u, T, {})
  BY <1>1, <1>2, <1>3, <1>4, <1>6, DirtySound
<1>8. Carries(s, t, T, {}, O) /\ Carries(t, u, T, {}, O)
  BY <1>2, <1>4, <1>6, <1>7, CarriesStep
<1> HIDE DEF O
<1>9. Carries(s, u, T, {}, O)
  BY <1>8, CarriesTrans
<1> DEFINE N == HeldIn(r) \ {h}
<1>10. Steady(s, t, {}, HeldIn(r))
  <2> DEFINE Q == HeldIn(r)
  <2>1. Q \subseteq HeldIn(r)
    OBVIOUS
  <2> HIDE DEF Q
  <2>2. Steady(s, t, {}, Q)
    BY <1>2, <2>1, ChangedSteady
  <2> QED  BY <2>2 DEF Q
<1>11. Steady(t, u, {}, N)
  <2>1. N \subseteq HeldIn(r) /\ h \notin N
    OBVIOUS
  <2> HIDE DEF N
  <2> QED  BY <1>2, <1>4, <2>1, ChangedSteady
<1>12. Steady(s, u, {}, N) /\ ValueOf(u, h) = val
  BY <1>4, <1>10, <1>11 DEF Steady, Changed
<1> QED  BY <1>2, <1>4, <1>6, <1>7, <1>8, <1>9, <1>10, <1>12 DEF Handled, t, u, E, O

\* The cache answers with h for the key of h.
Mapped1(s, h) == KeyOf(s, h) \in DOMAIN s.cache.table /\ s.cache.table[KeyOf(s, h)] = h

\* WriteBack of a file's handle, in whatever mode it is.
LEMMA WriteBackAny ==
  ASSUME NEW R, NEW s, NEW r, StoreOK(s, r, R), NEW h \in Handle, r[h] > 0,
         NEW T, Sound(s, r, T, T, {})
  PROVE  LET t == InodeCache_WriteBack(s, h)
         IN  /\ StoreOK(t, r, R) /\ Sound(t, r, T, T \cup {KeyOf(s, h)}, {})
             /\ Carries(s, t, T, {}, HeldIn(r))
             /\ KeyOf(t, h) \notin T => ModeOf(t, h) = INODE_READ
             /\ Steady(s, t, T \cup {KeyOf(s, h)}, HeldIn(r))
             /\ Mapped1(s, h) => Sound(t, r, T, T, {})
             /\ Mapped1(s, h) /\ KeyOf(s, h) \notin T => t.db[KeyOf(s, h)] = ValueOf(s, h)
<1> DEFINE t == InodeCache_WriteBack(s, h)
           k == KeyOf(s, h)
           S == T \cup {k}
           E == {}
           O == HeldIn(r)
<1>1. h \in LiveIn(s) /\ k \in Key /\ ModeOf(s, h) \in InodeAccessMode
  BY StoreLemma DEF StoreFacts
<1>2. Sound(s, r, T, T, E) /\ T \subseteq T /\ T \subseteq S /\ k \in S /\ h \in O
  BY DEF HeldIn
<1>3. Carries(s, s, T, {}, O)
  BY DEF Carries
<1> HIDE DEF E, O
<1>4. CASE ModeOf(s, h) = INODE_WRITE
  <2>1. StoreOK(t, r, R) /\ WroteBack(s, t, h)
    BY <1>1, <1>4, WriteBackEffect
  <2>2. Sound(t, r, T, S, E \ {h}) /\ Kept(s, t, T, {}) /\ Steady(s, t, {KeyOf(s, h)}, HeldIn(r))
    <3> HIDE DEF S, t
    <3> QED  BY <1>1, <1>2, <1>4, WriteBackSound DEF t
  <2>6. Mapped1(s, h) => Sound(t, r, T, T, E \ {h})
    <3> HIDE DEF S, t
    <3> QED  BY <1>1, <1>2, <1>4, WriteBackSound DEF t, Mapped1
  <2>7. t.db[k] = ValueOf(s, h)
    BY <1>1, <2>1 DEF WroteBack, StoreOK
  <2> HIDE DEF t, S
  <2>3. E \ {h} = {}
    BY DEF E
  <2>4. Carries(s, t, T, {}, O)
    BY <2>1, <2>2, CarriesStep DEF O
  <2>5. ModeOf(t, h) = INODE_READ
    BY <2>1 DEF WroteBack
  <2>8. Steady(s, t, S, HeldIn(r))
    BY <2>2 DEF Steady, S
  <2> QED  BY <2>1, <2>2, <2>3, <2>4, <2>5, <2>6, <2>7, <2>8 DEF t, S, O
<1>5. CASE ModeOf(s, h) = INODE_READ
  <2>1. t = s
    BY <1>5 DEF InodeCache_WriteBack, INODE_READ, INODE_WRITE, INODE_DELETE
  <2>2. Sound(s, r, T, S, E)
    BY <1>2 DEF Sound, FreshOK
  <2>3. Mapped1(s, h) /\ k \notin T => s.db[k] = ValueOf(s, h)
    BY <1>2, <1>5 DEF Sound, FreshOK, Mapped1
  <2>4. Steady(s, s, S, HeldIn(r))
    BY DEF Steady
  <2> QED  BY <1>2, <1>3, <1>5, <2>1, <2>2, <2>3, <2>4 DEF E, O
<1>6. CASE ModeOf(s, h) = INODE_DELETE
  <2> DEFINE u == [s EXCEPT !.db[k] = NoRecord]
  <2>1. t = InodeCache_Evict(u, k)
    BY <1>6 DEF InodeCache_WriteBack, INODE_DELETE, INODE_WRITE
  <2>2. k \in T
    BY <1>1, <1>6 DEF Sound, NamedOK
  <2>3. StoreOK(u, r, R) /\ Recorded(s, u, k, NoRecord)
    BY <1>1, RecordEffect
  <2> HIDE DEF u, t, S, k
  <2>4. /\ LiveIn(u) = LiveIn(s) /\ u.cache.table = s.cache.table
        /\ \A x \in LiveIn(s) : Same(s, u, x)
        /\ \A j \in Key \ {k} : u.db[j] = s.db[j]
        /\ u.db[k] = NoRecord
    <3>1. u.cache = s.cache /\ u.db = [s.db EXCEPT ![k] = NoRecord]
          /\ s.db \in [Key -> R \cup {NoRecord}]
      BY <2>3 DEF Recorded, StoreOK
    <3> QED  BY <3>1, <1>1 DEF LiveIn, Same, KeyOf, ModeOf, ValueOf
  <2>5. NamedOK(u, T)
    <3>1. \A x \in LiveIn(s) : KeyOf(s, x) \in Key
      BY StoreLemma DEF StoreFacts
    <3> QED  BY <3>1, <2>2, <2>4 DEF NamedOK, Sound, Same
  <2>6. FreshOK(u, r, T)
    <3>1. \A j \in DOMAIN s.cache.table : s.cache.table[j] \in LiveIn(s) /\ j \in Key
      BY StoreLemma DEF StoreFacts
    <3> QED  BY <3>1, <2>2, <2>4 DEF FreshOK, Sound, Same
  <2>7. DirsClean(u, E)
    BY <1>2, <2>4 DEF DirsClean, Sound, Same
  <2>8. Kept(s, u, T, {})
    BY <2>2, <2>4 DEF Kept, Holds, Same
  <2>9. Sound(u, r, T, T, E) /\ Carries(s, u, T, {}, O)
    BY <2>3, <2>5, <2>6, <2>7, <2>8, CarriesStep DEF Sound, O
  <2>10. Sound(t, r, T, (T \ {k}) \cup T, E) /\ Kept(u, t, T, {}) /\ StoreOK(t, r, R)
         /\ Steady(u, t, T, HeldIn(r))
    BY <1>2, <2>1, <2>3, <2>9, EvictSound, EvictEffect
  <2>11. Carries(u, t, T, {}, O)
    BY <2>3, <2>10, CarriesStep DEF O
  <2>12. Carries(s, t, T, {}, O)
    BY <2>9, <2>11, CarriesTrans
  <2>13. Sound(t, r, T, S, E)
    BY <2>2, <2>10 DEF Sound, FreshOK, S
  <2>14. KeyOf(t, h) \in T
    BY <1>2, <2>2, <2>12 DEF Carries, k
  <2>15. Sound(t, r, T, T, E)
    BY <2>2, <2>10 DEF Sound, FreshOK
  <2>16. Steady(s, t, S, HeldIn(r))
    <3>1. HeldIn(r) \subseteq LiveIn(s)
      BY StoreLemma DEF StoreFacts, HeldIn
    <3> QED  BY <2>4, <2>10, <3>1 DEF Steady, Same, S
  <2> QED  BY <2>2, <2>10, <2>12, <2>13, <2>14, <2>15, <2>16 DEF t, S, E, O, k
<1> QED  BY <1>1, <1>4, <1>5, <1>6 DEF InodeAccessMode

\* TableFS::Release: the file is closed, and its key is no longer cached.
LEMMA CloseHandle ==
  ASSUME NEW R, NEW s, NEW r, StoreOK(s, r, R), NEW h \in Handle, r[h] > 0,
         NEW T, Sound(s, r, T, T, {})
  PROVE  LET w == InodeCache_WriteBack(s, h)
             u == InodeCache_Evict(InodeCache_Release(w, h), KeyOf(s, h))
             q == [r EXCEPT ![h] = @ - 1]
         IN  /\ Handled(s, r, u, q, T, {}, R)
             /\ Steady(s, u, T \cup {KeyOf(s, h)}, HeldIn(r) \cap HeldIn(q))
             /\ Mapped1(s, h) /\ KeyOf(s, h) \notin T => u.db[KeyOf(s, h)] = ValueOf(s, h)
<1> DEFINE w == InodeCache_WriteBack(s, h)
           k == KeyOf(s, h)
           t == InodeCache_Release(w, h)
           u == InodeCache_Evict(t, k)
           q == [r EXCEPT ![h] = @ - 1]
           S == T \cup {k}
           E == {}
           O == HeldIn(r) \cap HeldIn(q)
<1>1. /\ StoreOK(w, r, R) /\ Sound(w, r, T, S, E) /\ Carries(s, w, T, {}, HeldIn(r))
      /\ KeyOf(w, h) \notin T => ModeOf(w, h) = INODE_READ
      /\ Steady(s, w, S, HeldIn(r))
      /\ Mapped1(s, h) => Sound(w, r, T, T, E)
      /\ Mapped1(s, h) /\ k \notin T => w.db[k] = ValueOf(s, h)
  BY WriteBackAny
<1>2. T \subseteq S /\ (S \ {k}) \cup T = T
  OBVIOUS
<1> HIDE DEF w, E, S
<1>3. StoreOK(t, q, R) /\ Sound(t, q, T, S, E) /\ Kept(w, t, T, {}) /\ Steady(w, t, S, HeldIn(q))
  BY <1>1, <1>2, ReleaseSound, ReleaseEffect
<1>a. Mapped1(s, h) => Sound(t, q, T, T, E) /\ Steady(w, t, T, HeldIn(q))
  <2>1. T \subseteq T
    OBVIOUS
  <2> QED  BY <1>1, <2>1, ReleaseSound
<1> HIDE DEF t, q
<1>4. StoreOK(u, q, R) /\ Sound(u, q, T, (S \ {k}) \cup T, E) /\ Kept(t, u, T, {})
      /\ Steady(t, u, S, HeldIn(q))
  BY <1>2, <1>3, EvictSound, EvictEffect
<1>b. Mapped1(s, h) => Steady(t, u, T, HeldIn(q))
  <2>1. T \subseteq T
    OBVIOUS
  <2> QED  BY <1>3, <1>a, <2>1, EvictSound
<1> HIDE DEF u
<1>5. Carries(s, w, T, {}, O) /\ Carries(w, t, T, {}, O) /\ Carries(t, u, T, {}, O)
  <2>1. O \subseteq HeldIn(r) /\ O \subseteq HeldIn(q)
    OBVIOUS
  <2>2. Carries(s, w, T, {}, O)
    BY <1>1, <2>1 DEF Carries
  <2> HIDE DEF O
  <2> QED  BY <1>1, <1>3, <1>4, <2>1, <2>2, CarriesStep
<1>8. Steady(s, u, S, O)
  BY <1>1, <1>3, <1>4 DEF Steady
<1>9. Mapped1(s, h) /\ k \notin T => u.db[k] = ValueOf(s, h)
  <2>1. k \in Key
    BY StoreLemma DEF StoreFacts, HeldIn
  <2> QED  BY <1>1, <1>a, <1>b, <2>1 DEF Steady
<1> HIDE DEF O
<1>6. Carries(s, t, T, {}, O)
  BY <1>5, CarriesTrans
<1>7. Carries(s, u, T, {}, O)
  BY <1>5, <1>6, CarriesTrans
<1> QED  BY <1>2, <1>4, <1>7, <1>8, <1>9 DEF Handled, u, t, q, w, E, O, S

\* Unlink and RemoveDir: nothing is cached for the key after them.
LEMMA GetAndDrop ==
  ASSUME NEW R, NEW s, NEW r, StoreOK(s, r, R), HasRoom(s), NEW k \in Key,
         NEW T, Sound(s, r, T, T, {}), k \in T,
         InodeCache_Get(s, k, INODE_DELETE).h # NoHandle
  PROVE  LET g == InodeCache_Get(s, k, INODE_DELETE)
             u == InodeCache_Evict(InodeCache_Release(g.s, g.h), KeyOf(g.s, g.h))
         IN  /\ Handled(s, r, u, r, T, {}, R) /\ k \notin DOMAIN u.cache.table
             /\ Steady(s, u, T, HeldIn(r))
             /\ (\A x \in HeldIn(r) : KeyOf(s, x) # k) => u.db[k] = NoRecord
<1> DEFINE g == InodeCache_Get(s, k, INODE_DELETE)
           h == g.h
           t == g.s
           q == [r EXCEPT ![h] = @ + 1]
           v == InodeCache_Release(t, h)
           u == InodeCache_Evict(v, KeyOf(t, h))
           E == {}
           O == HeldIn(r)
<1>0. INODE_DELETE \in InodeAccessMode /\ INODE_DELETE # INODE_WRITE
  BY DEF InodeAccessMode, INODE_WRITE, INODE_DELETE
<1>1. /\ StoreOK(t, q, R) /\ Fetched(s, t, q, h, k, INODE_DELETE, T)
      /\ Sound(t, q, T, T, E) /\ Kept(s, t, T, {}) /\ Steady(s, t, T, HeldIn(r))
  <2>1. Sound(t, q, T, T, IF INODE_DELETE = INODE_WRITE THEN {h} ELSE {})
        /\ StoreOK(t, q, R) /\ Fetched(s, t, q, h, k, INODE_DELETE, T)
        /\ Kept(s, t, T, {}) /\ Shown(s, k) \in R
        /\ Steady(s, t, T, HeldIn(r))
    BY <1>0, GetSound
  <2> HIDE DEF g, h, t, q
  <2> QED  BY <1>0, <2>1
<1>2. h \in Handle /\ r \in [Handle -> Nat] /\ KeyOf(t, h) = k /\ ModeOf(t, h) = INODE_DELETE
  <2>1. INODE_DELETE # INODE_READ
    BY DEF INODE_DELETE, INODE_READ
  <2>2. KeyOf(t, h) = k /\ ModeOf(t, h) = INODE_DELETE /\ h \in Handle
    BY <2>1, <1>1 DEF Fetched
  <2>3. r \in [Handle -> Nat]
    BY StoreLemma DEF StoreFacts
  <2> QED  BY <2>2, <2>3
<1> HIDE DEF g, h, t, E
<1>3. [q EXCEPT ![h] = @ - 1] = r /\ q[h] > 0 /\ HeldIn(r) \subseteq HeldIn(q)
  BY <1>2, CountsBack
<1> HIDE DEF q
<1>4. T \subseteq T /\ (T \ {k}) \cup T = T /\ KeyOf(t, h) \in T
  BY <1>2
<1>11. \A x \in LiveIn(t) \ LiveIn(v) :
         x = h /\ ~(k \in DOMAIN t.cache.table /\ t.cache.table[k] = h)
  BY <1>1, <1>2, <1>3, ReleaseFrees
<1>5. /\ Sound(v, [q EXCEPT ![h] = @ - 1], T, T, E) /\ Kept(t, v, T, {})
      /\ StoreOK(v, [q EXCEPT ![h] = @ - 1], R) /\ Lessened(t, v)
      /\ Steady(t, v, T, HeldIn([q EXCEPT ![h] = @ - 1]))
      /\ v.cache.table = t.cache.table
  BY <1>1, <1>2, <1>3, <1>4, ReleaseSound, ReleaseEffect
<1> HIDE DEF v
<1>6. Sound(v, r, T, T, E) /\ StoreOK(v, r, R) /\ Steady(t, v, T, HeldIn(r))
  BY <1>3, <1>5
<1>7. Sound(u, r, T, (T \ {k}) \cup T, E) /\ Kept(v, u, T, {}) /\ StoreOK(u, r, R)
      /\ DOMAIN u.cache.table = DOMAIN v.cache.table \ {k}
      /\ Steady(v, u, T, HeldIn(r)) /\ Lessened(v, u)
  BY <1>2, <1>4, <1>6, EvictSound, EvictEffect
<1>12. \A x \in LiveIn(v) \ LiveIn(u) : k \in DOMAIN v.cache.table /\ v.cache.table[k] = x
  BY <1>2, <1>6, EvictFrees
<1> HIDE DEF u
<1>13. Steady(s, u, T, HeldIn(r))
  <2>1. Steady(s, v, T, HeldIn(r))
    BY <1>1, <1>6, SteadyTrans
  <2> QED  BY <2>1, <1>7, SteadyTrans
<1>14. ASSUME \A x \in HeldIn(r) : KeyOf(s, x) # k
       PROVE  u.db[k] = NoRecord
  <2>1. r[h] = 0
    <3>1. h \notin HeldIn(r)
      BY <1>1, <1>2, <1>14 DEF Steady
    <3> QED  BY <3>1, <1>2 DEF HeldIn
  <2>2. h \in LiveIn(t) /\ StoreFacts(v, r, R) /\ StoreFacts(u, r, R)
    BY <1>1, <1>2, <1>3, <1>6, <1>7, StoreLemma DEF StoreFacts
  <2>3. \A x : CleanInodeHandle(x, t.cache.ent[h].value) = NoRecord
    BY <1>2 DEF CleanInodeHandle, ModeOf, INODE_WRITE, INODE_DELETE
  <2>4. CASE h \notin LiveIn(v)
    <3>1. v.db[k] = NoRecord
      BY <2>2, <2>3, <2>4, <1>2, <1>5, <1>11 DEF Lessened, Cleaned
    <3>2. LiveIn(v) \ LiveIn(u) = {}
      BY <2>2, <2>4, <1>1, <1>5, <1>11, <1>12 DEF Fetched
    <3> QED  BY <3>1, <3>2, <1>7 DEF Lessened, Cleaned
  <2>5. CASE h \in LiveIn(v)
    <3>1. Same(t, v, h)
      BY <2>5, <1>5 DEF Lessened
    <3>2. k \in DOMAIN v.cache.table /\ v.cache.table[k] = h /\ KeyOf(v, h) = k
      BY <2>1, <2>2, <2>5, <3>1, <1>2 DEF StoreFacts, Same
    <3>3. h \notin LiveIn(u)
      <4> SUFFICES ASSUME h \in LiveIn(u)  PROVE FALSE
        OBVIOUS
      <4>1. KeyOf(u, h) = k
        BY <3>2, <1>7 DEF Lessened, Same
      <4>2. KeyOf(u, h) \in DOMAIN u.cache.table
        BY <2>1, <2>2, <1>2 DEF StoreFacts
      <4> QED  BY <4>1, <4>2, <1>7
    <3>4. \A x : CleanInodeHandle(x, v.cache.ent[h].value) = NoRecord
      BY <3>1, <1>2 DEF CleanInodeHandle, ModeOf, Same, INODE_WRITE, INODE_DELETE
    <3> QED  BY <3>2, <3>3, <3>4, <2>5, <1>7, <1>12 DEF Lessened, Cleaned
  <2> QED  BY <2>4, <2>5
<1>8. Carries(s, t, T, {}, O) /\ Carries(t, v, T, {}, O) /\ Carries(v, u, T, {}, O)
  BY <1>1, <1>3, <1>5, <1>6, <1>7, CarriesStep
<1> HIDE DEF O
<1>9. Carries(s, v, T, {}, O)
  BY <1>8, CarriesTrans
<1>10. Carries(s, u, T, {}, O)
  BY <1>8, <1>9, CarriesTrans
<1> QED  BY <1>4, <1>7, <1>10, <1>13, <1>14 DEF Handled, u, v, t, h, g, E, O

\* BatchCommit of a handle to delete and a dirty one.
LEMMA BatchSound ==
  ASSUME NEW R, NEW s, NEW r, StoreOK(s, r, R), NEW h1 \in LiveIn(s), NEW h2 \in LiveIn(s),
         NEW t, StoreOK(t, r, R), Batch(s, t, h1, h2),
         NEW T, Sound(s, r, T, T, {h2}), KeyOf(s, h1) \in T, KeyOf(s, h2) \in T
  PROVE  Sound(t, r, T, T, {}) /\ Kept(s, t, T, {})
<1> DEFINE k1 == KeyOf(s, h1)
           k2 == KeyOf(s, h2)
<1>1. /\ LiveIn(t) \subseteq LiveIn(s) /\ h2 \in LiveIn(t)
      /\ \A x \in LiveIn(t) \ {h2} : Same(s, t, x)
      /\ KeyOf(t, h2) = k2 /\ ModeOf(t, h2) = INODE_READ /\ ValueOf(t, h2) = ValueOf(s, h2)
      /\ DOMAIN t.cache.table = DOMAIN s.cache.table \ {k1}
      /\ \A k \in DOMAIN t.cache.table : t.cache.table[k] = s.cache.table[k]
      /\ \A k \in Key : t.db[k] = IF k = k2 THEN ValueOf(s, h2)
                                  ELSE IF k = k1 THEN NoRecord ELSE s.db[k]
  BY DEF Batch
<1>2. StoreFacts(s, r, R) /\ StoreFacts(t, r, R)
  BY StoreLemma
<1>3. \A k \in Key \ T : t.db[k] = s.db[k]
  BY <1>1
<1>4. \A x \in LiveIn(s) : KeyOf(s, x) \in Key
  BY <1>2 DEF StoreFacts
<1>5. INODE_READ # INODE_WRITE
  BY DEF INODE_READ, INODE_WRITE
<1>6. NamedOK(t, T)
  BY <1>1, <1>3, <1>4 DEF NamedOK, Sound, Same
<1>7. FreshOK(t, r, T)
  <2> SUFFICES ASSUME NEW k \in DOMAIN t.cache.table, k \notin T,
                      r[t.cache.table[k]] = 0 \/ ModeOf(t, t.cache.table[k]) = INODE_READ
               PROVE  ValueOf(t, t.cache.table[k]) = t.db[k]
    BY DEF FreshOK
  <2> DEFINE x == t.cache.table[k]
  <2>1. k \in DOMAIN s.cache.table /\ x = s.cache.table[k] /\ x \in LiveIn(t)
        /\ KeyOf(t, x) = k /\ k \in Key
    BY <1>1, <1>2 DEF StoreFacts
  <2> HIDE DEF x
  <2>2. Same(s, t, x) /\ t.db[k] = s.db[k]
    BY <1>1, <1>3, <2>1
  <2>3. r[x] = 0 \/ ModeOf(s, x) = INODE_READ => ValueOf(s, x) = s.db[k]
    BY <2>1 DEF Sound, FreshOK
  <2> QED  BY <2>2, <2>3 DEF Same, x
<1>8. DirsClean(t, {})
  BY <1>1, <1>5 DEF DirsClean, Sound, Same
<1>9. Holds(t) \subseteq Holds(s)
  <2>1. \A k \in Key : t.db[k] # NoRecord => <<k, t.db[k].ino>> \in Holds(s)
    <3>1. <<k2, ValueOf(s, h2).ino>> \in Holds(s)
      BY DEF Holds
    <3> QED  BY <3>1, <1>1 DEF Holds
  <2>2. \A x \in LiveIn(t) : <<KeyOf(t, x), ValueOf(t, x).ino>> \in Holds(s)
    BY <1>1 DEF Holds, Same
  <2> QED  BY <2>1, <2>2 DEF Holds
<1>10. \A x \in LiveIn(t) : /\ KeyOf(t, x) = KeyOf(s, x)
                            /\ ValueOf(t, x).ino = ValueOf(s, x).ino
                            /\ ValueOf(t, x).dir = ValueOf(s, x).dir
  BY <1>1 DEF Same
<1> QED  BY <1>3, <1>6, <1>7, <1>8, <1>9, <1>10 DEF Sound, Kept

\* The names that a Rename leaves, when nobody has them open.
Moved(u, r, old, new, val) ==
  /\ old \notin DOMAIN u.cache.table
  /\ old # new => /\ u.db[old] = NoRecord /\ u.db[new] = val
                  /\ \A x \in LiveIn(u) :
                       KeyOf(u, x) = new /\ r[x] = 0 =>
                         ValueOf(u, x) = val /\ ModeOf(u, x) = INODE_READ
  /\ old = new => u.db[old] \in {NoRecord, val}

BothBack(q, r, h, j) == r = [[q EXCEPT ![j] = @ - 1] EXCEPT ![h] = @ - 1]

\* Rename after the handles of both names are made.
LEMMA CommitMove ==
  ASSUME NEW R, NEW t, NEW q, StoreOK(t, q, R), NEW h \in Handle, NEW j \in Handle,
         h # j, q[h] > 0, q[j] = 1, ModeOf(t, h) = INODE_DELETE, ModeOf(t, j) = INODE_WRITE,
         NEW T, Sound(t, q, T, T, {j}), KeyOf(t, h) \in T, KeyOf(t, j) \in T,
         KeyOf(t, j) \in DOMAIN t.cache.table => t.cache.table[KeyOf(t, j)] = j,
         NEW r, BothBack(q, r, h, j)
  PROVE  LET b == InodeCache_BatchCommit(t, h, j)
             d == InodeCache_Release(InodeCache_Release(b, j), h)
             u == InodeCache_Evict(d, KeyOf(t, h))
         IN  /\ StoreOK(u, r, R) /\ Sound(u, r, T, T, {})
             /\ Carries(t, u, T, {}, HeldIn(r)) /\ Steady(t, u, T, HeldIn(r))
             /\ Moved(u, r, KeyOf(t, h), KeyOf(t, j), ValueOf(t, j))
<1> DEFINE old == KeyOf(t, h)
           new == KeyOf(t, j)
           val == ValueOf(t, j)
           b == InodeCache_BatchCommit(t, h, j)
           c == InodeCache_Release(b, j)
           d == InodeCache_Release(c, h)
           u == InodeCache_Evict(d, old)
           m == [q EXCEPT ![j] = @ - 1]
           E == {}
           O == HeldIn(r)
<1>f. StoreFacts(t, q, R) /\ q[j] > 0
  BY StoreLemma
<1>0. q \in [Handle -> Nat] /\ h \in LiveIn(t) /\ j \in LiveIn(t) /\ old \in Key /\ new \in Key
  BY <1>f DEF StoreFacts
<1>1. StoreOK(b, q, R) /\ Batch(t, b, h, j)
  BY <1>0, BatchEffect
<1> HIDE DEF b
<1>2. Sound(b, q, T, T, E) /\ Kept(t, b, T, {})
  BY <1>0, <1>1, BatchSound
<1>3. /\ KeyOf(b, j) = new /\ ModeOf(b, j) = INODE_READ /\ ValueOf(b, j) = val
      /\ DOMAIN b.cache.table = DOMAIN t.cache.table \ {old}
      /\ \A k \in DOMAIN b.cache.table : b.cache.table[k] = t.cache.table[k]
      /\ \A k \in Key : b.db[k] = IF k = new THEN val ELSE IF k = old THEN NoRecord ELSE t.db[k]
      /\ \A x \in LiveIn(b) \ {j} : Same(t, b, x)
  BY <1>1 DEF Batch
<1>4. m \in [Handle -> Nat] /\ m[h] = q[h] /\ m[j] = 0 /\ r = [m EXCEPT ![h] = @ - 1]
      /\ HeldIn(r) \subseteq HeldIn(m) /\ HeldIn(m) \subseteq HeldIn(q) /\ r \in [Handle -> Nat]
  BY <1>0 DEF HeldIn, BothBack
<1> HIDE DEF E, m, old, new, val
<1>5. T \subseteq T /\ (T \ {old}) \cup T = T
  OBVIOUS
<1>6. StoreOK(c, m, R) /\ Lessened(b, c) /\ c.cache.table = b.cache.table
      /\ Sound(c, m, T, T, E) /\ Kept(b, c, T, {}) /\ Steady(b, c, T, HeldIn(m))
  <2>1. new \in T
    BY DEF new
  <2> QED  BY <1>f, <1>1, <1>2, <1>3, <1>5, <2>1, ReleaseSound, ReleaseEffect DEF m
<1>7. \A x \in LiveIn(b) \ LiveIn(c) : x = j
  BY <1>f, <1>1, ReleaseFrees
<1> HIDE DEF c
<1>8. \A k \in Key : c.db[k] = b.db[k]
  <2>1. Cleaned(b, c)
    BY <1>6 DEF Lessened
  <2>2. \A x : CleanInodeHandle(x, b.cache.ent[j].value) = x
    BY <1>3 DEF CleanInodeHandle, ModeOf, INODE_READ, INODE_WRITE, INODE_DELETE
  <2> QED  BY <2>1, <2>2, <1>7 DEF Cleaned
<1>9. h \in LiveIn(c) /\ h \in LiveIn(b) /\ ModeOf(c, h) = INODE_DELETE /\ KeyOf(c, h) = old
  <2>1. h \in LiveIn(c)
    BY <1>4, <1>6, StoreLemma DEF StoreFacts
  <2>2. h \in LiveIn(b) /\ Same(b, c, h)
    BY <2>1, <1>6 DEF Lessened
  <2> QED  BY <2>1, <2>2, <1>3 DEF Same, old
<1>10. m[h] > 0
  BY <1>4
<1>11. StoreOK(d, r, R) /\ Lessened(c, d) /\ d.cache.table = c.cache.table
       /\ Sound(d, r, T, T, E) /\ Kept(c, d, T, {}) /\ Steady(c, d, T, HeldIn(r))
  <2>1. old \in T
    BY DEF old
  <2>2. StoreOK(d, [m EXCEPT ![h] = @ - 1], R) /\ Lessened(c, d) /\ d.cache.table = c.cache.table
        /\ Sound(d, [m EXCEPT ![h] = @ - 1], T, T, E) /\ Kept(c, d, T, {})
        /\ Steady(c, d, T, HeldIn([m EXCEPT ![h] = @ - 1]))
    BY <1>5, <1>6, <1>9, <1>10, <2>1, ReleaseSound, ReleaseEffect
  <2> QED  BY <2>2, <1>4
<1>12. \A x \in LiveIn(c) \ LiveIn(d) : x = h
  BY <1>6, <1>10, ReleaseFrees
<1> HIDE DEF d
<1>13. \A k \in Key : d.db[k] = b.db[k] \/ k = old
  <2>1. Cleaned(c, d)
    BY <1>11 DEF Lessened
  <2> QED  BY <2>1, <1>8, <1>9, <1>12 DEF Cleaned
<1>14. d.db[old] = b.db[old] \/ d.db[old] = NoRecord
  <2>1. Cleaned(c, d)
    BY <1>11 DEF Lessened
  <2>2. \A x : CleanInodeHandle(x, c.cache.ent[h].value) = NoRecord
    BY <1>9 DEF CleanInodeHandle, ModeOf, INODE_WRITE, INODE_DELETE
  <2>3. old \in Key
    BY <1>0 DEF old
  <2> QED  BY <2>1, <2>2, <2>3, <1>8, <1>12 DEF Cleaned
<1>15. StoreOK(u, r, R) /\ Lessened(d, u) /\ DOMAIN u.cache.table = DOMAIN d.cache.table \ {old}
       /\ Sound(u, r, T, (T \ {old}) \cup T, E) /\ Kept(d, u, T, {})
       /\ Steady(d, u, T, HeldIn(r))
  BY <1>5, <1>11, EvictSound, EvictEffect
<1>16. \A x \in LiveIn(d) \ LiveIn(u) : old \in DOMAIN d.cache.table
  BY <1>11, EvictFrees
<1> HIDE DEF u
<1>17. LiveIn(u) = LiveIn(d) /\ \A k \in Key : u.db[k] = d.db[k]
  <2>1. old \notin DOMAIN d.cache.table
    BY <1>3, <1>6, <1>11
  <2>2. LiveIn(d) \ LiveIn(u) = {}
    BY <2>1, <1>16
  <2> QED  BY <2>2, <1>15 DEF Lessened, Cleaned
<1>18. Carries(t, b, T, {}, O) /\ Carries(b, c, T, {}, O)
       /\ Carries(c, d, T, {}, O) /\ Carries(d, u, T, {}, O)
  BY <1>1, <1>2, <1>4, <1>6, <1>11, <1>15, CarriesStep
<1> HIDE DEF O
<1>19. Carries(t, c, T, {}, O)
  BY <1>18, CarriesTrans
<1>20. Carries(t, d, T, {}, O)
  BY <1>18, <1>19, CarriesTrans
<1>21. Carries(t, u, T, {}, O)
  BY <1>18, <1>20, CarriesTrans
<1>22. ASSUME NEW x \in LiveIn(u), KeyOf(u, x) = new, r[x] = 0
       PROVE  ValueOf(u, x) = val /\ ModeOf(u, x) = INODE_READ
  <2>f. StoreFacts(u, r, R)
    BY <1>15, StoreLemma
  <2>1. new \in DOMAIN u.cache.table /\ u.cache.table[new] = x
    BY <1>22, <2>f DEF StoreFacts
  <2>2. new \in DOMAIN d.cache.table /\ d.cache.table[new] = x
    BY <1>15, <2>1 DEF Lessened
  <2>3. new \in DOMAIN t.cache.table /\ t.cache.table[new] = x
    BY <1>3, <1>6, <1>11, <2>2
  <2>4. x = j
    BY <2>3 DEF new
  <2>5. j \in LiveIn(u) /\ Same(d, u, j) /\ j \in LiveIn(d) /\ Same(c, d, j)
        /\ j \in LiveIn(c) /\ Same(b, c, j)
    BY <1>6, <1>11, <1>15, <2>4 DEF Lessened
  <2> QED  BY <1>3, <2>4, <2>5 DEF Same
<1>23. Moved(u, r, old, new, val)
  <2>1. old \notin DOMAIN u.cache.table
    BY <1>15
  <2>2. old \in Key /\ new \in Key
    BY <1>0 DEF old, new
  <2>3. old # new => u.db[old] = NoRecord /\ u.db[new] = val
    BY <2>2, <1>3, <1>13, <1>14, <1>17
  <2>4. old = new => u.db[old] \in {NoRecord, val}
    BY <2>2, <1>3, <1>14, <1>17
  <2> QED  BY <2>1, <2>3, <2>4, <1>22 DEF Moved
<1>24. Steady(t, b, T, HeldIn(r))
  <2>1. old \in T /\ new \in T
    BY DEF old, new
  <2>2. HeldIn(r) \subseteq LiveIn(b) \ {j}
    BY <1>1, <1>4, StoreLemma DEF StoreFacts, HeldIn
  <2> QED  BY <2>1, <2>2, <1>3 DEF Steady, Same
<1>25. Steady(t, u, T, HeldIn(r))
  <2>1. Steady(b, c, T, HeldIn(r))
    BY <1>4, <1>6 DEF Steady
  <2>2. Steady(t, c, T, HeldIn(r))
    BY <2>1, <1>24, SteadyTrans
  <2>3. Steady(t, d, T, HeldIn(r))
    BY <2>2, <1>11, SteadyTrans
  <2> QED  BY <2>3, <1>15, SteadyTrans
<1> QED  BY <1>5, <1>15, <1>21, <1>23, <1>25 DEF E, O, u, d, c, b, old, new, val

\* Rename: the entry of the old name comes to the new one.
LEMMA MoveEntry ==
  ASSUME NEW R, NEW s, NEW r, StoreOK(s, r, R), HasRoom(s), NEW old \in Key, NEW new \in Key,
         NEW T, Sound(s, r, T, T, {}), old \in T, new \in T,
         InodeCache_Get(s, old, INODE_DELETE).h # NoHandle,
         HasRoom(InodeCache_Get(s, old, INODE_DELETE).s)
  PROVE  LET g == InodeCache_Get(s, old, INODE_DELETE)
             i == InodeCache_Insert(g.s, new, ValueOf(g.s, g.h))
             b == InodeCache_BatchCommit(i.s, g.h, i.h)
             d == InodeCache_Release(InodeCache_Release(b, i.h), g.h)
             u == InodeCache_Evict(d, old)
             val == Shown(s, old)
         IN  /\ Handled(s, r, u, r, T, {<<new, val.ino>>}, R)
             /\ Moved(u, r, old, new, val) /\ val \in R /\ Steady(s, u, T, HeldIn(r))
<1> DEFINE g == InodeCache_Get(s, old, INODE_DELETE)
           h == g.h
           t == g.s
           val == Shown(s, old)
           i == InodeCache_Insert(t, new, ValueOf(t, h))
           j == i.h
           a == i.s
           u == InodeCache_Evict(InodeCache_Release(InodeCache_Release(
                  InodeCache_BatchCommit(a, h, j), j), h), old)
           q == [r EXCEPT ![h] = @ + 1]
           m == [q EXCEPT ![j] = 1]
           E == {}
           O == HeldIn(r)
           X == {<<new, val.ino>>}
<1>0. INODE_DELETE \in InodeAccessMode /\ INODE_DELETE # INODE_WRITE /\ INODE_DELETE # INODE_READ
  BY DEF InodeAccessMode, INODE_WRITE, INODE_DELETE, INODE_READ
<1>1. /\ StoreOK(t, q, R) /\ Fetched(s, t, q, h, old, INODE_DELETE, T)
      /\ Sound(t, q, T, T, E) /\ Kept(s, t, T, {}) /\ val \in R
      /\ Steady(s, t, T, HeldIn(r))
  <2>1. Sound(t, q, T, T, IF INODE_DELETE = INODE_WRITE THEN {h} ELSE {})
        /\ StoreOK(t, q, R) /\ Fetched(s, t, q, h, old, INODE_DELETE, T)
        /\ Kept(s, t, T, {}) /\ val \in R /\ Steady(s, t, T, HeldIn(r))
    BY <1>0, GetSound
  <2> HIDE DEF g, h, t, q, val
  <2> QED  BY <1>0, <2>1
<1>2. h \in Handle /\ KeyOf(t, h) = old /\ ModeOf(t, h) = INODE_DELETE /\ ValueOf(t, h) = val
  BY <1>0, <1>1 DEF Fetched
<1>3. r \in [Handle -> Nat] /\ HasRoom(t)
  BY StoreLemma DEF StoreFacts
<1> HIDE DEF g, h, t, E, val
<1>4. [q EXCEPT ![h] = @ - 1] = r /\ q[h] > 0 /\ HeldIn(r) \subseteq HeldIn(q)
      /\ q \in [Handle -> Nat]
  <2>1. [q EXCEPT ![h] = @ - 1] = r /\ q[h] > 0 /\ HeldIn(r) \subseteq HeldIn(q)
    BY <1>2, <1>3, CountsBack
  <2>2. q \in [Handle -> Nat]
    BY <1>2, <1>3
  <2> QED  BY <2>1, <2>2
<1> HIDE DEF q
<1>5. j \in Handle /\ StoreOK(a, m, R) /\ Added(t, a, j, new, INODE_WRITE, val)
  BY <1>1, <1>2, <1>3, InodeInsertEffect
<1> HIDE DEF i, j, a
<1>6. h \in LiveIn(t) /\ (q[j] > 0 => j \in LiveIn(t))
  BY <1>1, <1>2, <1>4, <1>5, StoreLemma DEF StoreFacts
<1>7. j # h /\ q[j] = 0
  BY <1>4, <1>5, <1>6 DEF Added
<1>8. m[h] > 0 /\ m[j] = 1 /\ OneMore(q, m, j) /\ BothBack(m, r, h, j)
      /\ HeldIn(q) \subseteq HeldIn(m)
  <2>1. m \in [Handle -> Nat] /\ m[j] = 1 /\ \A x \in Handle \ {j} : m[x] = q[x]
    BY <1>4, <1>5
  <2>2. [m EXCEPT ![j] = @ - 1] = q
    <3>1. [m EXCEPT ![j] = @ - 1] = [x \in Handle |-> IF x = j THEN 0 ELSE m[x]]
      BY <2>1
    <3> HIDE DEF m
    <3> QED  BY <3>1, <2>1, <1>4, <1>5, <1>7
  <2>3. BothBack(m, r, h, j)
    BY <2>2, <1>4 DEF BothBack
  <2> QED  BY <2>1, <2>3, <1>2, <1>4, <1>5, <1>7 DEF OneMore, HeldIn
<1> HIDE DEF m
<1>9. Sound(a, m, T, T, E \cup {j}) /\ Kept(t, a, T, X)
      /\ Steady(t, a, T, HeldIn(q))
  <2>1. CanAdd(t, new, INODE_WRITE, val, T)
    BY DEF CanAdd
  <2> QED  BY <2>1, <1>1, <1>5, <1>8, AddedSound
<1>10. E \cup {j} = {j}
  BY DEF E
<1>11. h \in LiveIn(a)
  BY <1>2, <1>5, <1>8, StoreLemma DEF StoreFacts
<1>12. /\ KeyOf(a, j) = new /\ ModeOf(a, j) = INODE_WRITE /\ ValueOf(a, j) = val
       /\ KeyOf(a, h) = old /\ ModeOf(a, h) = INODE_DELETE
       /\ new \in DOMAIN a.cache.table => a.cache.table[new] = j
  BY <1>2, <1>5, <1>7, <1>11 DEF Added, Same
<1>13. /\ StoreOK(u, r, R) /\ Sound(u, r, T, T, {})
       /\ Carries(a, u, T, {}, HeldIn(r)) /\ Steady(a, u, T, HeldIn(r)) /\ Moved(u, r, old, new, val)
  <2> DEFINE D == {j}
  <2>1. Sound(a, m, T, T, D)
    BY <1>9, <1>10
  <2> QED  BY <2>1, <1>2, <1>5, <1>7, <1>8, <1>12, CommitMove
<1> HIDE DEF u, X
<1>14. Carries(s, t, T, {}, O)
  BY <1>1, <1>4, CarriesStep
<1>15. Carries(t, a, T, X, O)
  BY <1>1, <1>4, <1>5, <1>8, <1>9, CarriesStep
<1>16. Carries(s, a, T, X, O)
  BY <1>14, <1>15 DEF Carries
<1>17. Carries(s, u, T, X, O)
  <2>1. Carries(a, u, T, {}, O)
    BY <1>13
  <2> HIDE DEF O
  <2> QED  BY <2>1, <1>16, CarriesTrans
<1>18. Handled(s, r, u, r, T, X, R)
  BY <1>13, <1>17 DEF Handled
<1>19. Steady(s, u, T, HeldIn(r))
  <2>1. Steady(t, a, T, HeldIn(r))
    BY <1>4, <1>9 DEF Steady
  <2>2. Steady(s, a, T, HeldIn(r))
    BY <2>1, <1>1, SteadyTrans
  <2> QED  BY <2>2, <1>13, SteadyTrans
<1> QED  BY <1>1, <1>13, <1>18, <1>19 DEF u, X, a, j, i, t, h, g, val

--------------------------------------------------------------------------------
\* The keys of T whose names are in order again.
LEMMA NamesRestored ==
  ASSUME NEW R, NEW s, NEW r, StoreOK(s, r, R), NEW T, Sound(s, r, T, T, {}),
         NEW U, U \subseteq T,
         \A h \in LiveIn(s) :
           KeyOf(s, h) \in T /\ KeyOf(s, h) \notin U =>
             ValueOf(s, h) = s.db[KeyOf(s, h)] /\ ModeOf(s, h) = INODE_READ
  PROVE  Sound(s, r, U, U, {})
<1>1. StoreFacts(s, r, R) /\ NoRecord \notin R
  BY StoreLemma DEF StoreOK
<1>2. \A h \in LiveIn(s) : ValueOf(s, h) # NoRecord
  BY <1>1 DEF StoreFacts
<1>3. INODE_READ # INODE_DELETE
  BY DEF INODE_READ, INODE_DELETE
<1>4. NamedOK(s, U)
  BY <1>2, <1>3 DEF Sound, NamedOK
<1>5. FreshOK(s, r, U)
  <2>1. \A k \in DOMAIN s.cache.table :
          s.cache.table[k] \in LiveIn(s) /\ KeyOf(s, s.cache.table[k]) = k
    BY <1>1 DEF StoreFacts
  <2> QED  BY <2>1 DEF Sound, FreshOK
<1> QED  BY <1>4, <1>5 DEF Sound

\* There is an address for a new handle.
LEMMA RoomLemma ==
  ASSUME NEW R, NEW s, NEW r, StoreOK(s, r, R), NEW B, B \subseteq Handle, HeldIn(r) \subseteq B,
         Cardinality(B) < Cardinality(Handle), Capacity < Cardinality(Handle)
  PROVE  HasRoom(s)
<1> DEFINE c == s.cache
<1>1. Good(c, r, Cached(R)) /\ Fits(c)
  BY DEF StoreOK
<1>2. Live(c) \subseteq Handle /\ c.usage = Cardinality(Live(c)) /\ c.usage \in Nat
      /\ Counted(c, r, InList(c)) /\ c.ent \in [Live(c) -> Entry(Cached(R))]
      /\ r \in [Handle -> Nat]
  BY <1>1 DEF Good, WellTyped, Charged
<1> HIDE DEF c
<1> SUFFICES ASSUME Live(c) = Handle  PROVE FALSE
  BY <1>2 DEF HasRoom, LiveIn, c
<1>3. c.lru = <<>>
  BY <1>1, <1>2, CapacityAssumption DEF Fits
<1>4. InList(c) = {}
  BY <1>3 DEF InList
<1>5. \A e \in Handle : r[e] > 0
  <2> TAKE e \in Handle
  <2>1. c.ent[e].refs \in Nat \ {0}
    BY <1>2 DEF Entry
  <2>2. c.ent[e].refs = r[e]
    BY <1>2, <1>4 DEF Counted
  <2> QED  BY <2>1, <2>2
<1>6. B = Handle
  BY <1>5 DEF HeldIn
<1>7. Cardinality(Handle) \in Nat
  BY HandleAssumption, FS_CardinalityType
<1> QED  BY <1>6, <1>7
================================================================================
