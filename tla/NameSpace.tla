------------------------------- MODULE NameSpace -------------------------------
(***************************************************************************)
(* What a client expects of the directory tree: a table from directory     *)
(* entries to inodes that changes one entry at a time, by creation with an *)
(* inode number never used before, removal and update, or two at a time,   *)
(* when an entry is moved with its inode, replacing the target.            *)
(***************************************************************************)
EXTENDS Naturals

CONSTANTS Key, Inode, NoRecord

VARIABLES tree,  \* key -> inode, NoRecord where there is no entry
          last   \* the last inode number handed out

vars == <<tree, last>>

Create(k) ==
  /\ tree[k] = NoRecord
  /\ tree'[k] \in Inode
  /\ last' = last + 1 /\ tree'[k].ino = last'
  /\ tree' = [tree EXCEPT ![k] = tree'[k]]

Update(k) ==
  /\ tree[k] # NoRecord
  /\ tree'[k] \in Inode
  /\ tree'[k].ino = tree[k].ino /\ tree'[k].dir = tree[k].dir
  /\ tree' = [tree EXCEPT ![k] = tree'[k]]
  /\ UNCHANGED last

Remove(k) ==
  /\ tree[k] # NoRecord
  /\ tree' = [tree EXCEPT ![k] = NoRecord]
  /\ UNCHANGED last

Move(j, k) ==
  /\ j # k /\ tree[j] # NoRecord
  /\ tree' = [tree EXCEPT ![j] = NoRecord, ![k] = tree[j]]
  /\ UNCHANGED last

Init == /\ last = 0
        /\ \E root \in Key, inode \in Inode :
             tree = [k \in Key |-> IF k = root THEN inode ELSE NoRecord]

Next == \E k \in Key :
          \/ Create(k) \/ Update(k) \/ Remove(k)
          \/ \E j \in Key : Move(j, k)

Spec == Init /\ [][Next]_vars
================================================================================
