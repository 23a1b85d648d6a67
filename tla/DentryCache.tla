------------------------------ MODULE DentryCache ------------------------------
(***************************************************************************)
(* The dentry cache of src/src/fs/dcache.cpp: a std::list of (key, inode)  *)
(* nodes, newest first, and a hash map from keys to list iterators.  The   *)
(* map does not own the nodes: Evict and a second Insert of a key leave    *)
(* the old node behind in the list, until it is the last and is popped.    *)
(* An iterator is the address of its node, and freed addresses come back.  *)
(* Each operation holds cache_mutex, so each is one step.                  *)
(***************************************************************************)
EXTENDS Naturals, Sequences, FiniteSets

CONSTANTS Key, Value, NoValue,
          Node,    \* addresses of list nodes
          MaxSize  \* maxsize (16384 in TableFS::Init)

ASSUME MaxSizeAssumption == MaxSize \in Nat \ {0}
ASSUME NoValueAssumption == NoValue \notin Value

VARIABLES list,    \* the list: a sequence of node addresses
          node,    \* the content of the nodes: address -> [key, value]
          lookup,  \* the map: key -> address
          answer,  \* what the last Find was asked and returned
          current  \* history: the value inserted last for each key not evicted since

vars == <<list, node, lookup, answer, current>>

Nodes(s) == {s[i] : i \in 1..Len(s)}

Init == /\ list = <<>>
        /\ node = <<>>
        /\ lookup = <<>>
        /\ answer = [key |-> NoValue, value |-> NoValue]
        /\ current = <<>>

PushFront(s, n) == <<n>> \o s
PopBack(s) == SubSeq(s, 1, Len(s) - 1)
Erase(s, n) ==
  LET i == CHOOSE j \in 1..Len(s) : s[j] = n
  IN  [j \in 1..(Len(s) - 1) |-> IF j < i THEN s[j] ELSE s[j + 1]]
Set(f, x, y) == [z \in DOMAIN f \cup {x} |-> IF z = x THEN y ELSE f[z]]
Drop(f, x) == [z \in DOMAIN f \ {x} |-> f[z]]

\* A hit copies the node to the front, erases the old one and re-points the map.
FindHit(k, n) ==
  /\ k \in DOMAIN lookup
  /\ n \notin Nodes(list)
  /\ LET it == lookup[k]
     IN  /\ answer' = [key |-> k, value |-> node[it].value]
         /\ list' = Erase(PushFront(list, n), it)
         /\ node' = Drop(Set(node, n, node[it]), it)
         /\ lookup' = [lookup EXCEPT ![k] = n]
  /\ UNCHANGED current

\* Mutant of FindMiss: a miss that returns true, with the value that the
\* caller's variable has from the last component.
FindMissKeepsValue(k) ==
  /\ k \notin DOMAIN lookup
  /\ answer' = [key |-> k, value |-> answer.value]
  /\ UNCHANGED <<list, node, lookup, current>>

FindMiss(k) ==
  /\ k \notin DOMAIN lookup
  /\ answer' = [key |-> k, value |-> NoValue]
  /\ UNCHANGED <<list, node, lookup, current>>

\* Mutants of Insert: the map keeps the key whose node is popped; a key that
\* the map has already keeps its old node.
InsertKeepsPopped(k, v, n) ==
  /\ n \notin Nodes(list)
  /\ LET list1 == PushFront(list, n)
         node1 == Set(node, n, [key |-> k, value |-> v])
         full == Len(list1) > MaxSize
     IN  /\ lookup' = Set(lookup, k, n)
         /\ list' = IF full THEN PopBack(list1) ELSE list1
         /\ node' = IF full THEN Drop(node1, list1[Len(list1)]) ELSE node1
  /\ current' = Set(current, k, v)
  /\ UNCHANGED answer
InsertKeepsOld(k, v, n) ==
  /\ n \notin Nodes(list)
  /\ Len(list) < MaxSize
  /\ list' = PushFront(list, n)
  /\ node' = Set(node, n, [key |-> k, value |-> v])
  /\ lookup' = IF k \in DOMAIN lookup THEN lookup ELSE Set(lookup, k, n)
  /\ current' = Set(current, k, v)
  /\ UNCHANGED answer

\* The new node goes to the front; over maxsize the map forgets the key of
\* the last node, whichever node the map has for it, and the node is popped.
Insert(k, v, n) ==
  /\ n \notin Nodes(list)
  /\ LET list1 == PushFront(list, n)
         node1 == Set(node, n, [key |-> k, value |-> v])
         lookup1 == Set(lookup, k, n)
         back == list1[Len(list1)]
     IN  IF Len(list1) > MaxSize
         THEN /\ lookup' = Drop(lookup1, node1[back].key)
              /\ list' = PopBack(list1)
              /\ node' = Drop(node1, back)
         ELSE /\ lookup' = lookup1
              /\ list' = list1
              /\ node' = node1
  /\ current' = Set(current, k, v)
  /\ UNCHANGED answer

Evict(k) ==
  /\ lookup' = Drop(lookup, k)
  /\ current' = Drop(current, k)
  /\ UNCHANGED <<list, node, answer>>

Next == \E k \in Key :
          \/ \E n \in Node : FindHit(k, n)
          \/ FindMiss(k)
          \/ \E v \in Value, n \in Node : Insert(k, v, n)
          \/ Evict(k)

Spec == Init /\ [][Next]_vars

--------------------------------------------------------------------------------
\* The shapes of the list, its nodes and the map.
TypeOK ==
  /\ list \in Seq(Node)
  /\ node \in [Nodes(list) -> [key : Key, value : Value]]
  /\ DOMAIN lookup \subseteq Key
  /\ lookup \in [DOMAIN lookup -> Node]
  /\ answer \in [key : Key \cup {NoValue}, value : Value \cup {NoValue}]
  /\ DOMAIN current \subseteq Key
  /\ current \in [DOMAIN current -> Value]

\* No iterator in the map dangles, and each points at a node of its own key,
\* although Evict and Insert leave orphaned nodes and addresses are reused.
NoDanglingIterator ==
  \A k \in DOMAIN lookup :
    lookup[k] \in Nodes(list) /\ node[lookup[k]].key = k

\* The list is bounded by maxsize, the orphaned nodes counted, and no node
\* is linked twice.
ListBounded ==
  /\ Len(list) <= MaxSize
  /\ \A i, j \in 1..Len(list) : list[i] = list[j] => i = j

\* What the map would answer for a key is what was inserted last for it, and
\* the key was not evicted since: the cache may only forget.
OnlyForgets ==
  \A k \in DOMAIN lookup : k \in DOMAIN current /\ node[lookup[k]].value = current[k]

\* No Find ever answers with a value that was overwritten or evicted.
Abstract == INSTANCE LossyMap
ImplementsLossyMap == Abstract!Spec
================================================================================
