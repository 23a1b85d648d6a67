------------------------------ MODULE MemTable ------------------------------
(***************************************************************************)
(* The memtable: a skip list (db/skiplist.h) whose nodes and entries come  *)
(* from an arena (util/arena).  One writer inserts, link by link; readers  *)
(* search at the same time without a lock.  A key is a number, the head of *)
(* the list is 0 and NULL is larger than every key.                        *)
(***************************************************************************)
EXTENDS Naturals, Sequences, FiniteSets

CONSTANTS
  MaxKey, kMaxHeight,
  ArenaBlock, Align,     \* kBlockSize and the pointer size of the arena
  EntrySize, NodeSize    \* bytes of an entry, and of a node of height 1

Head0 == 0
NULL == MaxKey + 1
Levels == 1 .. kMaxHeight

-----------------------------------------------------------------------------
(* Arena.  An allocation is [block, from, to]; blocks are aligned.           *)

NewArena == [blocks |-> << >>, at |-> 0, left |-> 0, taken |-> << >>]

Taken(a, block, from, to) ==
  [a EXCEPT !.taken = Append(@, [block |-> block, from |-> from, to |-> to])]

\* The first object of a new block is not taken off what remains of it.
AllocateFallbackKeepsAll(a, bytes) ==
  LET n == Len(a.blocks) + 1
  IN  IF bytes > ArenaBlock \div 4
      THEN Taken([a EXCEPT !.blocks = Append(@, bytes)], n, 0, bytes)
      ELSE Taken([a EXCEPT !.blocks = Append(@, ArenaBlock), !.at = n, !.left = ArenaBlock],
                 n, 0, bytes)

AllocateFallback(a, bytes) ==
  LET n == Len(a.blocks) + 1
  IN  IF bytes > ArenaBlock \div 4
      THEN Taken([a EXCEPT !.blocks = Append(@, bytes)], n, 0, bytes)
      ELSE Taken([a EXCEPT !.blocks = Append(@, ArenaBlock), !.at = n,
                           !.left = ArenaBlock - bytes], n, 0, bytes)

\* alloc_ptr_ is left - bytes before the end of its block
Allocate(a, bytes) ==
  IF bytes <= a.left
  THEN Taken([a EXCEPT !.left = @ - bytes], a.at, ArenaBlock - a.left, ArenaBlock - a.left + bytes)
  ELSE AllocateFallback(a, bytes)

Slop(a) == (Align - ((ArenaBlock - a.left) % Align)) % Align

AllocateAligned(a, bytes) ==
  LET from == ArenaBlock - a.left + Slop(a)
  IN  IF bytes + Slop(a) <= a.left
      THEN Taken([a EXCEPT !.left = @ - bytes - Slop(a)], a.at, from, from + bytes)
      ELSE AllocateFallback(a, bytes)

-----------------------------------------------------------------------------
(* SkipList *)

NewList == [next |-> [n \in {Head0} |-> [l \in Levels |-> NULL]], height |-> 1]

\* FindGreaterOrEqual by the writer, who sees every link: prev at a level
PrevAt(list, key, level) ==
  LET on == {n \in DOMAIN list.next : n < key /\ (n = Head0 \/ \E m \in DOMAIN list.next :
                                                    list.next[m][level] = n)}
  IN  CHOOSE n \in on : \A m \in on : m <= n

\* Insert up to the loop that links: the height is raised and the node made
NewNode(list, key, height) ==
  [next |-> [n \in DOMAIN list.next \cup {key} |->
               IF n = key THEN [l \in Levels |-> NULL] ELSE list.next[n]],
   height |-> IF height > list.height THEN height ELSE list.height]

\* One turn of the loop is two stores: the new node's link, then the link to it.
SetNodeLink(list, key, level) ==
  [list EXCEPT !.next[key][level] = list.next[PrevAt(list, key, level)][level]]
PublishNode(list, key, level) ==
  [list EXCEPT !.next[PrevAt(list, key, level)][level] = key]

\* The node is published at a level before its own link there is set.
StorePublishFirst(list, key, step) ==
  LET level == (step + 1) \div 2
      after == CHOOSE n \in DOMAIN list.next \cup {NULL} :
                 /\ n > key /\ (n = NULL \/ \E m \in DOMAIN list.next : list.next[m][level] = n)
                 /\ \A m \in DOMAIN list.next :
                      m > key /\ (\E k \in DOMAIN list.next : list.next[k][level] = m) => n <= m
  IN  IF step % 2 = 1 THEN PublishNode(list, key, level)
      ELSE [list EXCEPT !.next[key][level] = after]

Store(list, key, step) ==
  LET level == (step + 1) \div 2
  IN  IF step % 2 = 1 THEN SetNodeLink(list, key, level) ELSE PublishNode(list, key, level)

Present(list) == {list.next[n][1] : n \in DOMAIN list.next} \ {NULL}

-----------------------------------------------------------------------------
(* A reader's search, one link at a time.  Its first level is any value      *)
(* max_height_ ever had: it is read without a barrier.                       *)

Idle == [op |-> "idle", target |-> 0, x |-> Head0, level |-> 0, since |-> {}, node |-> NULL]

BeginSearch(list, op, target, level) ==
  [op |-> op, target |-> target, x |-> Head0, level |-> level,
   since |-> Present(list), node |-> NULL]

\* FindGreaterOrEqual and FindLessThan stop before the target, FindLast at the end
KeyIsAfterNode(r, next) == IF r.op = "FindLast" THEN next # NULL ELSE next < r.target

SearchStep(list, r) ==
  LET next == list.next[r.x][r.level]
  IN  CASE KeyIsAfterNode(r, next) -> [r EXCEPT !.x = next]
        [] ~KeyIsAfterNode(r, next) /\ r.level > 1 -> [r EXCEPT !.level = r.level - 1]
        [] OTHER -> [r EXCEPT !.level = 0,
                              !.node = IF r.op = "FindGreaterOrEqual" THEN next
                                       ELSE IF r.x = Head0 THEN NULL ELSE r.x]

\* Iterator::Next and SeekToFirst: one link of the lowest level
FollowLink(list, op, from) ==
  [op |-> op, target |-> from, x |-> from, level |-> 0,
   since |-> Present(list), node |-> list.next[from][1]]

\* What the reader found is what a search of the keys it could already see
\* would find, or a key that was inserted meanwhile.
FoundRight(r) ==
  CASE r.op = "FindGreaterOrEqual" ->
         r.node >= r.target /\ \A k \in r.since : k >= r.target => r.node <= k
    [] r.op = "FindLessThan" ->
         (r.node = NULL \/ r.node < r.target)
         /\ \A k \in r.since : k < r.target => r.node # NULL /\ k <= r.node
    [] r.op = "FindLast" -> \A k \in r.since : r.node # NULL /\ k <= r.node
    [] r.op = "Next" -> r.node > r.target /\ \A k \in r.since : k > r.target => r.node <= k
=============================================================================
