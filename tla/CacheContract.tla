----------------------------- MODULE CacheContract -----------------------------
(***************************************************************************)
(* What src/lib/leveldb/include/leveldb/cache.h promises its clients, with *)
(* no word on lists, reference counts or capacity: an entry is alive, with *)
(* the key and value it was inserted with, from its Insert until it is     *)
(* neither mapped nor held by a client, and at that very step the deleter  *)
(* takes it.  The implementation may unmap anything when it inserts.       *)
(***************************************************************************)
EXTENDS Naturals

CONSTANTS Key, Handle, Value

VARIABLES mapped,  \* key -> handle, on the keys a Lookup would find
          held,    \* handle -> number of references the clients hold
          alive    \* handle -> [key, value], on the entries not yet deleted

vars == <<mapped, held, alive>>

Images(f) == {f[x] : x \in DOMAIN f}
Restrict(f, S) == [x \in DOMAIN f \cap S |-> f[x]]
Needed(m, r) == Images(m) \cup {h \in Handle : r[h] > 0}

Init == /\ mapped = <<>>
        /\ held = [h \in Handle |-> 0]
        /\ alive = <<>>

Insert(k, v, h) ==
  /\ h \notin DOMAIN alive
  /\ held' = [held EXCEPT ![h] = 1]
  /\ \E K \in SUBSET (DOMAIN mapped \cup {k}) :
       mapped' = [j \in K |-> IF j = k THEN h ELSE mapped[j]]
  /\ alive' = [e \in Needed(mapped', held') |->
                 IF e = h THEN [key |-> k, value |-> v] ELSE alive[e]]

Lookup(k) ==
  /\ k \in DOMAIN mapped
  /\ held' = [held EXCEPT ![mapped[k]] = @ + 1]
  /\ UNCHANGED <<mapped, alive>>

Release(h) ==
  /\ held[h] > 0
  /\ held' = [held EXCEPT ![h] = @ - 1]
  /\ alive' = Restrict(alive, Needed(mapped, held'))
  /\ UNCHANGED mapped

Unmap(K) ==
  /\ mapped' = Restrict(mapped, Key \ K)
  /\ alive' = Restrict(alive, Needed(mapped', held))
  /\ UNCHANGED held

Next == \/ \E k \in Key, v \in Value, h \in Handle : Insert(k, v, h)
        \/ \E k \in Key : Lookup(k)
        \/ \E h \in Handle : Release(h)
        \/ \E k \in Key : Unmap({k})
        \/ Unmap(Key)

Spec == Init /\ [][Next]_vars
================================================================================
