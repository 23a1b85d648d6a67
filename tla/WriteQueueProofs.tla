---------------------------- MODULE WriteQueueProofs ---------------------------
(***************************************************************************)
(* Proofs about the write queue of DBImpl, for any number of clients, any  *)
(* calls, any sizes and triggers and any number of failing I/O operations. *)
(***************************************************************************)
EXTENDS WriteQueue, FiniteSetTheorems, TLAPS

PC == {"start", "queued", "awake", "room", "room wait", "append", "sync", "insert", "commit",
       "written", "returned", "imm", "imm wait", "slot", "slot wait", "manual", "manual wait"}

\* The writer at the front of the queue, before and after BuildBatchGroup.
Working == {"append", "sync", "insert", "commit"}
Leading == {"room", "room wait"} \cup Working
InQueue(c) == pc[c] \in Leading \cup {"queued"} \/ (pc[c] = "awake" /\ status[c] = "none")
\* f is writing the batch of d.
Committing(f, d) == pc[f] \in Working /\ d \in Batches(f)

CountIn(o, g, n) == Cardinality({i \in 1..n : o[g[i]].batch})

QueueTypes ==
  /\ op \in Calls /\ pc \in [Client -> PC]
  /\ status \in [Client -> {"none", "ok", "error"}]
  /\ writers \in Seq(Client) /\ arrived \in Seq(Client)
  /\ group \in [Client -> Seq(Client)]
  /\ seq \in [Client -> Nat] /\ lastSequence \in Nat

TableTypes ==
  /\ mem \subseteq Client /\ tables \subseteq Client
  /\ imm = NoTable \/ imm \subseteq Client
  /\ l0 \in Nat
  /\ bg \in [at : {"idle", "scheduled", "flush", "work", "work flush", "sleep"},
             inputs : Nat, manual : BOOLEAN]

\* The shapes of the variables.
TypeOK == QueueTypes /\ TableTypes

\* What the background thread was started for is still there: the memtable it
\* flushes, the level-0 files it has picked, the client it compacts for.
BackgroundOK ==
  /\ bg.at \in {"flush", "work flush"} => imm # NoTable
  /\ bg.at \in {"work", "work flush"} => bg.inputs <= l0
  /\ bg.at \in {"work", "work flush"} /\ bg.manual => manual # NoClient

\* Only the front of the queue makes room and writes.
QueueOK ==
  /\ \A c \in Client : c \in ToSet(writers) <=> InQueue(c)
  /\ \A c \in Client : pc[c] \in Leading => writers[1] = c
  /\ \A c \in Client : pc[c] \in Leading \cup {"queued", "start"} => status[c] = "none"

\* The queue is what is left of the arrivals.
ArrivalOK ==
  /\ Len(writers) <= Len(arrived)
  /\ \A i \in 1..Len(writers) : writers[i] = arrived[Len(arrived) - Len(writers) + i]
  /\ \A i \in 1..Len(arrived) : pc[arrived[i]] # "start"
  /\ \A i, j \in 1..Len(arrived) : arrived[i] = arrived[j] => i = j

\* A group is the head of the queue, numbered from lastSequence + 1.
GroupOK ==
  \A f \in Client : pc[f] \in Working =>
    /\ op[f].batch
    /\ Len(group[f]) \in 1..Len(writers)
    /\ \A i \in 1..Len(group[f]) :
         /\ group[f][i] = writers[i]
         /\ op[group[f][i]].sync => op[f].sync
         /\ op[group[f][i]].batch => seq[group[f][i]] = lastSequence + CountIn(op, group[f], i)

\* Only the batches of that group have numbers that are not yet visible, and
\* only those of the queue have one at all.
NumberOK ==
  /\ \A c \in Client : seq[c] > lastSequence => \E f \in Client : Committing(f, c)
  /\ \A c \in Client : (InQueue(c) \/ pc[c] = "start") /\ seq[c] # 0 =>
       \E f \in Client : Committing(f, c)
  /\ \A i, j \in 1..Len(arrived) :
       i < j /\ seq[arrived[i]] # 0 /\ seq[arrived[j]] # 0 => seq[arrived[i]] < seq[arrived[j]]

\* What is stored without an answer is being inserted by the front.
StoreOK ==
  /\ \A c \in Client : c \in Stored /\ status[c] = "none" =>
       \E f \in Client : Committing(f, c) /\ pc[f] \in {"insert", "commit"}
  /\ \A f \in Client : pc[f] = "commit" => Batches(f) \subseteq mem
  /\ \A c \in Client : op[c].batch /\ status[c] = "ok" => c \in Stored
  /\ \A c \in Client : op[c].batch /\ status[c] = "error" => c \notin Stored

\* No call asks for a sync of the log without writing to it.
SyncsAreLogged(o) == \A c \in Client : o[c].batch /\ o[c].sync => o[c].writeahead

\* A front that syncs has its whole group in the log before it syncs, and in
\* the synced log before it inserts.
LogOK ==
  /\ \A f \in Client : pc[f] = "sync" => Batches(f) \subseteq logged
  /\ \A f \in Client : pc[f] \in {"insert", "commit"} /\ op[f].sync /\ op[f].writeahead =>
       Batches(f) \subseteq synced
  /\ SyncsAreLogged(op) =>
       \A c \in Client : op[c].batch /\ op[c].sync /\ status[c] = "ok" => c \in synced

QueueInv == QueueTypes /\ QueueOK /\ ArrivalOK /\ GroupOK /\ NumberOK /\ StoreOK /\ LogOK
IInv == QueueInv /\ TableTypes /\ BackgroundOK

--------------------------------------------------------------------------------
\* Counting the batches of a group.

\* The count grows by at most one with every writer, and by one at a batch.
LEMMA CountLemma ==
  ASSUME NEW o, NEW g, NEW n \in Nat, NEW m \in Nat, m < n
  PROVE  /\ CountIn(o, g, m) \in Nat /\ CountIn(o, g, n) \in Nat
         /\ CountIn(o, g, m) <= CountIn(o, g, n)
         /\ o[g[n]].batch => CountIn(o, g, m) < CountIn(o, g, n)
<1> DEFINE S(k) == {i \in 1..k : o[g[i]].batch}
<1>1. ASSUME NEW k \in Nat  PROVE IsFiniteSet(S(k)) /\ Cardinality(S(k)) \in Nat
  <2>1. IsFiniteSet(1..k)
    BY FS_Interval
  <2>2. S(k) \in SUBSET (1..k)
    OBVIOUS
  <2> HIDE DEF S
  <2>3. IsFiniteSet(S(k))
    BY <2>1, <2>2, FS_Subset
  <2> QED  BY <2>3, FS_CardinalityType
<1>2. S(m) \in SUBSET S(n)
  OBVIOUS
<1>3. o[g[n]].batch => n \in S(n) /\ n \notin S(m)
  OBVIOUS
<1> HIDE DEF S
<1>4. Cardinality(S(m)) <= Cardinality(S(n))
      /\ (Cardinality(S(n)) = Cardinality(S(m)) => S(n) = S(m))
  BY <1>1, <1>2, FS_Subset
<1>5. CountIn(o, g, m) = Cardinality(S(m)) /\ CountIn(o, g, n) = Cardinality(S(n))
  BY DEF CountIn, S
<1> QED  BY <1>1, <1>3, <1>4, <1>5

\* The operator of the model is the one of the invariant.
LEMMA CountIsCountIn == \A g, n : Count(g, n) = CountIn(op, g, n)
  BY DEF Count, CountIn

--------------------------------------------------------------------------------
\* The queue.

\* At most one writer is at the front.
LEMMA Alone ==
  ASSUME QueueOK, NEW c \in Client, NEW d \in Client, pc[c] \in Leading, pc[d] \in Leading
  PROVE  c = d
  BY DEF QueueOK

\* While the front makes room nobody writes.
LEMMA NobodyWorks ==
  ASSUME QueueOK, NEW c \in Client, pc[c] = "room", NEW d \in Client
  PROVE  pc[d] \notin Working
<1>1. pc[c] \in Leading /\ Working \subseteq Leading /\ pc[c] \notin Working
  BY DEF Leading, Working
<1> QED  BY <1>1, Alone

\* Nobody is in the queue twice.
LEMMA QueuedOnce ==
  ASSUME QueueTypes, ArrivalOK
  PROVE  \A i, j \in 1..Len(writers) : writers[i] = writers[j] => i = j
<1>1. Len(writers) \in Nat /\ Len(arrived) \in Nat /\ Len(writers) <= Len(arrived)
  BY DEF QueueTypes, ArrivalOK
<1> SUFFICES ASSUME NEW i \in 1..Len(writers), NEW j \in 1..Len(writers),
                    writers[i] = writers[j]
             PROVE  i = j
  OBVIOUS
<1> DEFINE k == Len(arrived) - Len(writers)
<1>2. k + i \in 1..Len(arrived) /\ k + j \in 1..Len(arrived)
  BY <1>1
<1>3. arrived[k + i] = arrived[k + j]
  BY DEF ArrivalOK
<1>4. k + i = k + j
  BY <1>2, <1>3 DEF ArrivalOK
<1> QED  BY <1>1, <1>4

\* Who is in the queue, who writes and who has not called is the same, and the
\* front is the front.
KeepsPlaces ==
  \A c \in Client :
    /\ InQueue(c)' <=> InQueue(c)
    /\ \A x \in Working \cup {"start"} : pc'[c] = x <=> pc[c] = x
    /\ pc'[c] \in Leading => writers[1] = c
    /\ pc'[c] \in Leading \cup {"queued"} => status[c] = "none"

\* A step that only moves clients so leaves the queue, the group and the
\* answers alone.
LEMMA MoveLemma ==
  ASSUME QueueInv, pc' \in [Client -> PC], KeepsPlaces, mem' = mem, Stored' = Stored,
         UNCHANGED <<op, writers, status, group, seq, lastSequence, logged, synced, arrived>>
  PROVE  QueueInv'
<1>1. /\ op' = op /\ writers' = writers /\ status' = status /\ group' = group /\ seq' = seq
      /\ lastSequence' = lastSequence /\ logged' = logged /\ synced' = synced
      /\ arrived' = arrived
  OBVIOUS
<1>2. \A c \in Client : /\ pc'[c] \in Working <=> pc[c] \in Working
                        /\ InQueue(c)' <=> InQueue(c)
                        /\ pc'[c] = "start" <=> pc[c] = "start"
                        /\ pc'[c] = "sync" <=> pc[c] = "sync"
                        /\ pc'[c] = "insert" <=> pc[c] = "insert"
                        /\ pc'[c] = "commit" <=> pc[c] = "commit"
  BY <1>1 DEF KeepsPlaces, Working
<1>3. \A f \in Client : Batches(f)' = Batches(f)
  BY <1>1 DEF Batches
<1>4. \A f, c \in Client : Committing(f, c)' <=> Committing(f, c)
  BY <1>2, <1>3 DEF Committing
<1>5. QueueTypes'
  BY <1>1 DEF QueueInv, QueueTypes
<1>6. QueueOK'
  <2>1. \A c \in Client : pc'[c] \in Leading => writers[1] = c
    BY DEF KeepsPlaces
  <2>2. \A c \in Client : pc'[c] \in Leading \cup {"queued", "start"} => status[c] = "none"
    BY <1>2 DEF KeepsPlaces, QueueInv, QueueOK
  <2> QED  BY <2>1, <2>2, <1>1, <1>2 DEF QueueInv, QueueOK
<1>7. ArrivalOK'
  BY <1>1, <1>2 DEF QueueInv, QueueTypes, ArrivalOK
<1>8. GroupOK'
  BY <1>1, <1>2 DEF QueueInv, GroupOK
<1>9. NumberOK'
  BY <1>1, <1>2, <1>4 DEF QueueInv, NumberOK
<1>10. StoreOK'
  BY <1>1, <1>2, <1>3, <1>4 DEF QueueInv, StoreOK
<1>11. LogOK'
  BY <1>1, <1>2, <1>3 DEF QueueInv, LogOK
<1> QED  BY <1>5, <1>6, <1>7, <1>8, <1>9, <1>10, <1>11 DEF QueueInv

\* Every client is where it was, as far as the queue is concerned.
SamePlaces ==
  \A c \in Client :
    /\ pc'[c] \in Leading <=> pc[c] \in Leading
    /\ \A x \in Working \cup {"queued", "awake", "start"} : pc'[c] = x <=> pc[c] = x

\* A step of anybody else leaves the queue, the group and the answers alone.
LEMMA FrameLemma ==
  ASSUME QueueInv, pc' \in [Client -> PC], SamePlaces, mem' = mem, Stored' = Stored,
         UNCHANGED <<op, writers, status, group, seq, lastSequence, logged, synced, arrived>>
  PROVE  QueueInv'
<1>1. status' = status
  OBVIOUS
<1>2. KeepsPlaces
  <2> SUFFICES ASSUME NEW c \in Client
               PROVE  /\ InQueue(c)' <=> InQueue(c)
                      /\ pc'[c] \in Leading => writers[1] = c
                      /\ pc'[c] \in Leading \cup {"queued"} => status[c] = "none"
    BY DEF KeepsPlaces, SamePlaces
  <2>1. /\ pc'[c] \in Leading <=> pc[c] \in Leading
        /\ pc'[c] = "queued" <=> pc[c] = "queued"
        /\ pc'[c] = "awake" <=> pc[c] = "awake"
    BY DEF SamePlaces
  <2> QED  BY <2>1, <1>1 DEF QueueInv, QueueOK, InQueue
<1> QED  BY <1>2, MoveLemma

\* SignalAll moves only clients that wait on bg_cv_.
LEMMA AwakeLemma ==
  ASSUME pc \in [Client -> PC], pc' = Awake(pc)
  PROVE  pc' \in [Client -> PC] /\ SamePlaces
<1> SUFFICES ASSUME NEW c \in Client
             PROVE  /\ pc'[c] \in PC
                    /\ pc'[c] \in Leading <=> pc[c] \in Leading
                    /\ \A x \in Working \cup {"queued", "awake", "start"} :
                         pc'[c] = x <=> pc[c] = x
  BY DEF SamePlaces, Awake
<1>1. pc[c] \in PC
  OBVIOUS
<1>2. pc'[c] = CASE pc[c] = "room wait" -> "room"
                 [] pc[c] = "imm wait" -> "imm"
                 [] pc[c] = "slot wait" -> "slot"
                 [] pc[c] = "manual wait" -> "manual"
                 [] OTHER -> pc[c]
  BY DEF Awake
<1> QED  BY <1>1, <1>2 DEF PC, Leading, Working

\* A client outside the queue, or one that waits for room, changes only its
\* own place.
LEMMA OwnPlaceLemma ==
  ASSUME pc \in [Client -> PC], NEW c \in Client, NEW x \in PC,
         pc' = [pc EXCEPT ![c] = x],
         \/ pc[c] \in {"room", "room wait"} /\ x \in {"room", "room wait"}
         \/ /\ pc[c] \notin Leading \cup {"queued", "awake", "start"}
            /\ x \notin Leading \cup {"queued", "awake", "start"}
  PROVE  pc' \in [Client -> PC] /\ SamePlaces
<1>1. pc' \in [Client -> PC] /\ \A d \in Client : pc'[d] = IF d = c THEN x ELSE pc[d]
  OBVIOUS
<1> QED  BY <1>1 DEF SamePlaces, Leading, Working

--------------------------------------------------------------------------------
\* The end of a Write.

\* The elements of a sequence.
LEMMA ToSetLemma ==
  ASSUME NEW s \in Seq(Client)
  PROVE  \A d : d \in ToSet(s) <=> \E i \in 1..Len(s) : s[i] = d
  BY DEF ToSet

\* A queue splits into the group at its head and the rest.
LEMMA SplitLemma ==
  ASSUME NEW s \in Seq(Client), \A i, j \in 1..Len(s) : s[i] = s[j] => i = j,
         NEW g \in Seq(Client), Len(g) \in 1..Len(s), \A i \in 1..Len(g) : g[i] = s[i]
  PROVE  LET rest == SubSeq(s, Len(g) + 1, Len(s))
         IN  /\ rest \in Seq(Client) /\ Len(rest) = Len(s) - Len(g)
             /\ \A i \in 1..Len(rest) : rest[i] = s[Len(g) + i]
             /\ \A d : d \in ToSet(s) <=> d \in ToSet(g) \/ d \in ToSet(rest)
             /\ \A d : ~(d \in ToSet(g) /\ d \in ToSet(rest))
<1> DEFINE rest == SubSeq(s, Len(g) + 1, Len(s))
<1>1. Len(s) \in Nat /\ Len(g) \in Nat /\ Len(g) <= Len(s)
  OBVIOUS
<1>2. /\ rest \in Seq(Client) /\ Len(rest) = Len(s) - Len(g)
      /\ \A i \in 1..Len(rest) : rest[i] = s[Len(g) + i]
  BY <1>1
<1> HIDE DEF rest
<1>3. /\ \A d : d \in ToSet(rest) <=> \E i \in 1..Len(rest) : rest[i] = d
      /\ \A d : d \in ToSet(s) <=> \E i \in 1..Len(s) : s[i] = d
      /\ \A d : d \in ToSet(g) <=> \E i \in 1..Len(g) : g[i] = d
  BY <1>2, ToSetLemma
<1>4. ASSUME NEW d, d \in ToSet(s)  PROVE d \in ToSet(g) \/ d \in ToSet(rest)
  <2>1. PICK i \in 1..Len(s) : s[i] = d
    BY <1>3, <1>4
  <2>2. CASE i <= Len(g)
    BY <2>1, <2>2, <1>1, <1>3
  <2>3. CASE i > Len(g)
    <3> DEFINE j == i - Len(g)
    <3>1. j \in 1..Len(rest) /\ Len(g) + j = i
      BY <2>3, <1>1, <1>2
    <3> QED  BY <3>1, <2>1, <1>2, <1>3
  <2> QED  BY <2>2, <2>3, <1>1
<1>5. ASSUME NEW d, d \in ToSet(rest)  PROVE d \in ToSet(s) /\ d \notin ToSet(g)
  <2>1. PICK i \in 1..Len(rest) : rest[i] = d
    BY <1>3, <1>5
  <2>2. Len(g) + i \in 1..Len(s) /\ s[Len(g) + i] = d
    BY <2>1, <1>1, <1>2
  <2>3. \A j \in 1..Len(g) : j \in 1..Len(s) /\ j # Len(g) + i
    BY <1>1, <1>2
  <2> QED  BY <2>2, <2>3, <1>3
<1>6. ASSUME NEW d, d \in ToSet(g)  PROVE d \in ToSet(s)
  BY <1>1, <1>3, <1>6
<1> QED  BY <1>2, <1>4, <1>5, <1>6 DEF rest

Heads(g) ==
  /\ g \in Seq(Client) /\ Len(g) \in 1..Len(writers)
  /\ \A i \in 1..Len(g) : g[i] = writers[i]

\* The front answers the group g that heads the queue, and leaves with it.
LEMMA CompleteLemma ==
  ASSUME QueueInv, NEW c \in Client, pc[c] \in Leading, NEW g, Heads(g),
         NEW result \in {"ok", "error"}, Complete(c, g, result),
         \A f, d \in Client : Committing(f, d) => d \in ToSet(g),
         lastSequence' \in Nat, \A d \in Client : seq[d] <= lastSequence',
         op' = op, group' \in [Client -> Seq(Client)], seq' = seq, arrived' = arrived,
         Stored' = Stored, synced' = synced,
         \A d \in ToSet(g) : op[d].batch => (d \in Stored <=> result = "ok"),
         SyncsAreLogged(op) /\ result = "ok" =>
           \A d \in ToSet(g) : op[d].batch /\ op[d].sync => d \in synced
  PROVE  QueueInv'
<1> DEFINE rest == SubSeq(writers, Len(g) + 1, Len(writers))
<1>1. /\ writers \in Seq(Client) /\ arrived \in Seq(Client) /\ seq \in [Client -> Nat]
      /\ status \in [Client -> {"none", "ok", "error"}] /\ pc \in [Client -> PC]
      /\ Len(writers) \in Nat /\ Len(arrived) \in Nat /\ op \in Calls
  BY DEF QueueInv, QueueTypes
<1>2. /\ g \in Seq(Client) /\ Len(g) \in Nat /\ 1 <= Len(g) /\ Len(g) <= Len(writers)
      /\ Len(g) \in 1..Len(writers) /\ \A i \in 1..Len(g) : g[i] = writers[i]
  BY <1>1 DEF Heads
<1>3. /\ writers' = rest
      /\ \A d \in Client : status'[d] = IF d \in ToSet(g) THEN result ELSE status[d]
      /\ status' \in [Client -> {"none", "ok", "error"}]
  BY <1>1 DEF Complete
<1>5. \A i, j \in 1..Len(writers) : writers[i] = writers[j] => i = j
  BY QueuedOnce DEF QueueInv
<1>b. /\ rest \in Seq(Client) /\ Len(rest) = Len(writers) - Len(g)
      /\ \A i \in 1..Len(rest) : rest[i] = writers[Len(g) + i]
      /\ \A d : d \in ToSet(writers) <=> d \in ToSet(g) \/ d \in ToSet(rest)
      /\ \A d : ~(d \in ToSet(g) /\ d \in ToSet(rest))
  BY <1>1, <1>2, <1>5, SplitLemma
<1> HIDE DEF rest
<1>4. /\ rest \in Seq(Client) /\ Len(rest) = Len(writers) - Len(g)
      /\ \A i \in 1..Len(rest) : rest[i] = writers[Len(g) + i]
  BY <1>b
<1>6. \A d : d \in ToSet(writers) <=> d \in ToSet(g) \/ d \in ToSet(rest)
  BY <1>b
<1>7. \A d : ~(d \in ToSet(g) /\ d \in ToSet(rest))
  BY <1>b
<1>8. c \in ToSet(g)
  <2>1. 1 \in 1..Len(g) /\ writers[1] = c
    BY <1>2 DEF QueueInv, QueueOK
  <2> QED  BY <2>1, <1>2, ToSetLemma
<1>9. ASSUME NEW d \in Client
      PROVE  pc'[d] = CASE d = c -> "written"
                        [] d # c /\ pc[d] = "queued"
                                 /\ (d \in ToSet(g) \/ (rest # <<>> /\ d = rest[1])) -> "awake"
                        [] OTHER -> pc[d]
  BY DEF Complete, rest
<1>a. /\ pc' \in [Client -> PC]
      /\ \A d \in Client : pc'[d] \notin Leading /\ (pc'[d] = "start" <=> pc[d] = "start")
  <2>1. DOMAIN pc' = Client /\ pc' = [d \in Client |-> pc'[d]]
    BY DEF Complete
  <2>2. ASSUME NEW d \in Client
        PROVE  pc'[d] \in PC /\ pc'[d] \notin Leading /\ (pc'[d] = "start" <=> pc[d] = "start")
    <3>1. d # c => pc[d] \notin Leading
      BY Alone DEF QueueInv
    <3>2. pc[d] \in PC /\ pc[c] # "start"
      BY <1>1 DEF Leading, Working
    <3>3. {"written", "awake"} \subseteq PC /\ {"written", "awake"} \cap Leading = {}
      BY DEF PC, Leading, Working
    <3> QED  BY <1>9, <3>1, <3>2, <3>3
  <2> QED  BY <2>1, <2>2
<1>10. \A f, d \in Client : ~Committing(f, d)' /\ pc'[f] \notin Working
  BY <1>a DEF Committing, Leading
<1>11. QueueTypes'
  BY <1>1, <1>3, <1>4, <1>a DEF QueueTypes
<1>12. \A d \in Client : d \in ToSet(rest) <=> InQueue(d)'
  <2> SUFFICES ASSUME NEW d \in Client  PROVE d \in ToSet(rest) <=> InQueue(d)'
    OBVIOUS
  <2>1. d \in ToSet(writers) <=> InQueue(d)
    BY DEF QueueInv, QueueOK
  <2>2. CASE d \in ToSet(rest)
    <3>1. d # c /\ d \notin ToSet(g) /\ status'[d] = status[d] /\ InQueue(d)
      BY <2>1, <2>2, <1>3, <1>6, <1>7, <1>8
    <3>2. pc[d] \notin Leading /\ status[d] = "none"
      BY <3>1, Alone DEF QueueInv, QueueOK, InQueue
    <3>3. pc[d] \in {"queued", "awake"}
      BY <3>1, <3>2 DEF InQueue
    <3>4. pc'[d] \in {"queued", "awake"}
      BY <3>1, <3>3, <1>9
    <3> QED  BY <2>2, <3>1, <3>2, <3>4 DEF InQueue
  <2>3. CASE d \in ToSet(g)
    <3>1. status'[d] # "none" /\ pc'[d] \notin Leading
      BY <2>3, <1>3, <1>a
    <3>2. pc'[d] # "queued"
      BY <2>3, <1>9
    <3> QED  BY <2>3, <3>1, <3>2, <1>7 DEF InQueue
  <2>4. CASE d \notin ToSet(writers)
    <3>1. ~InQueue(d) /\ d # c /\ status'[d] = status[d] /\ d \notin ToSet(g) /\ d \notin ToSet(rest)
      BY <2>1, <2>4, <1>3, <1>6, <1>8
    <3>2. pc[d] # "queued"
      BY <3>1 DEF InQueue
    <3>3. pc'[d] = pc[d]
      BY <3>1, <3>2, <1>9
    <3> QED  BY <3>1, <3>3 DEF InQueue
  <2> QED  BY <2>2, <2>3, <2>4, <1>6
<1>13. QueueOK'
  <2>1. ASSUME NEW d \in Client, pc'[d] \in Leading \cup {"queued", "start"}
        PROVE  status'[d] = "none"
    <3>1. pc'[d] \in {"queued", "start"}
      BY <2>1, <1>a
    <3>2. d \notin ToSet(g) /\ pc[d] = pc'[d]
      <4>1. pc'[d] = "start" => ~InQueue(d)
        BY <1>a DEF InQueue, Leading, Working
      <4>2. pc'[d] = "start" => d \notin ToSet(g)
        BY <4>1, <1>6 DEF QueueInv, QueueOK
      <4>3. d # c /\ pc'[d] # "awake" /\ pc'[d] # "written"
        BY <3>1, <1>9
      <4>4. pc'[d] = pc[d] /\ (pc[d] = "queued" => d \notin ToSet(g))
        BY <4>3, <1>9
      <4> QED  BY <3>1, <4>2, <4>4
    <3> QED  BY <3>1, <3>2, <1>3 DEF QueueInv, QueueOK
  <2> QED  BY <2>1, <1>3, <1>12, <1>a DEF QueueOK
<1>14. ArrivalOK'
  <2>1. Len(rest) <= Len(arrived)
    BY <1>1, <1>2, <1>4 DEF QueueInv, ArrivalOK
  <2>2. ASSUME NEW i \in 1..Len(rest)
        PROVE  rest[i] = arrived[Len(arrived) - Len(rest) + i]
    <3>1. Len(g) + i \in 1..Len(writers)
      BY <1>1, <1>2, <1>4
    <3>2. writers[Len(g) + i] = arrived[Len(arrived) - Len(writers) + (Len(g) + i)]
      BY <3>1 DEF QueueInv, ArrivalOK
    <3>3. Len(arrived) - Len(writers) + (Len(g) + i) = Len(arrived) - Len(rest) + i
      BY <1>1, <1>2, <1>4
    <3> QED  BY <3>2, <3>3, <1>4
  <2>3. \A i \in 1..Len(arrived) : arrived[i] \in Client
    BY <1>1
  <2> QED  BY <2>1, <2>2, <2>3, <1>3, <1>a DEF QueueInv, ArrivalOK
<1>15. GroupOK'
  BY <1>10 DEF GroupOK
<1>16. NumberOK'
  <2>1. \A d \in Client : ~(seq'[d] > lastSequence')
    BY <1>1
  <2>2. ASSUME NEW d \in Client, InQueue(d)' \/ pc'[d] = "start"  PROVE seq[d] = 0
    <3>1. InQueue(d) \/ pc[d] = "start"
      BY <2>2, <1>6, <1>12, <1>a DEF QueueInv, QueueOK
    <3>2. d \notin ToSet(g)
      BY <2>2, <3>1, <1>6, <1>7, <1>12, <1>a DEF QueueInv, QueueOK, InQueue, Leading, Working
    <3> QED  BY <3>1, <3>2 DEF QueueInv, NumberOK
  <2> QED  BY <2>1, <2>2 DEF QueueInv, NumberOK
<1>17. StoreOK'
  <2>1. ASSUME NEW d \in Client, d \in Stored, status'[d] = "none"  PROVE FALSE
    <3>1. d \notin ToSet(g) /\ status[d] = "none"
      BY <2>1, <1>3
    <3> QED  BY <2>1, <3>1 DEF QueueInv, StoreOK
  <2>2. \A d \in Client : pc'[d] # "commit"
    BY <1>10 DEF Working
  <2>3. ASSUME NEW d \in Client, op[d].batch, status'[d] # "none"
        PROVE  d \in Stored <=> status'[d] = "ok"
    <3>1. CASE d \in ToSet(g)
      BY <2>3, <3>1, <1>3
    <3>2. CASE d \notin ToSet(g)
      BY <2>3, <3>2, <1>1, <1>3 DEF QueueInv, StoreOK
    <3> QED  BY <3>1, <3>2
  <2> QED  BY <2>1, <2>2, <2>3 DEF StoreOK
<1>18. LogOK'
  <2>1. \A d \in Client : pc'[d] # "sync" /\ pc'[d] # "insert" /\ pc'[d] # "commit"
    BY <1>10 DEF Working
  <2>2. ASSUME SyncsAreLogged(op), NEW d \in Client, op[d].batch, op[d].sync, status'[d] = "ok"
        PROVE  d \in synced
    <3>1. CASE d \in ToSet(g)
      BY <2>2, <3>1, <1>3
    <3>2. CASE d \notin ToSet(g)
      BY <2>2, <3>2, <1>3 DEF QueueInv, LogOK
    <3> QED  BY <3>1, <3>2
  <2> QED  BY <2>1, <2>2 DEF LogOK
<1> QED  BY <1>11, <1>13, <1>14, <1>15, <1>16, <1>17, <1>18 DEF QueueInv

\* The members of a group are clients at the head of the queue, each once.
LEMMA HeadsLemma ==
  ASSUME QueueTypes, NEW g, Heads(g)
  PROVE  /\ g \in Seq(Client) /\ Len(g) \in Nat /\ 1 <= Len(g) /\ Len(g) <= Len(writers)
         /\ \A i \in 1..Len(g) : g[i] = writers[i] /\ i \in 1..Len(writers) /\ g[i] \in Client
         /\ \A d : d \in ToSet(g) <=> \E i \in 1..Len(g) : g[i] = d
         /\ ToSet(g) \subseteq Client /\ ToSet(g) \subseteq ToSet(writers)
<1>1. writers \in Seq(Client) /\ Len(writers) \in Nat
  BY DEF QueueTypes
<1>2. g \in Seq(Client) /\ Len(g) \in Nat /\ 1 <= Len(g) /\ Len(g) <= Len(writers)
      /\ \A i \in 1..Len(g) : g[i] = writers[i]
  BY <1>1 DEF Heads
<1>3. \A i \in 1..Len(g) : i \in 1..Len(writers) /\ g[i] \in Client
  BY <1>1, <1>2
<1>4. \A d : d \in ToSet(g) <=> \E i \in 1..Len(g) : g[i] = d
  BY <1>2, ToSetLemma
<1>5. \A d : d \in ToSet(writers) <=> \E i \in 1..Len(writers) : writers[i] = d
  BY <1>1, ToSetLemma
<1>6. ToSet(g) \subseteq Client /\ ToSet(g) \subseteq ToSet(writers)
  BY <1>2, <1>3, <1>4, <1>5
<1> QED  BY <1>2, <1>3, <1>4, <1>6

\* A writer that answers only itself.
LEMMA SingleLemma ==
  ASSUME QueueTypes, QueueOK, NEW c \in Client, pc[c] \in Leading
  PROVE  Heads(<<c>>) /\ ToSet(<<c>>) = {c}
<1>1. writers \in Seq(Client) /\ c \in ToSet(writers) /\ writers[1] = c
  BY DEF QueueTypes, QueueOK, InQueue
<1>2. PICK k \in 1..Len(writers) : writers[k] = c
  BY <1>1, ToSetLemma
<1>3. Len(writers) \in Nat /\ 1 \in 1..Len(writers)
  BY <1>1, <1>2
<1>4. <<c>> \in Seq(Client) /\ Len(<<c>>) = 1 /\ <<c>>[1] = c
  OBVIOUS
<1>5. Heads(<<c>>)
  BY <1>1, <1>3, <1>4 DEF Heads
<1>6. ToSet(<<c>>) = {c}
  <2> DEFINE g == <<c>>
  <2>1. g \in Seq(Client) /\ \A i \in 1..Len(g) : g[i] = c
    BY <1>4
  <2>2. 1 \in 1..Len(g) /\ g[1] = c
    BY <1>4
  <2> HIDE DEF g
  <2>3. \A d : d \in ToSet(g) <=> \E i \in 1..Len(g) : g[i] = d
    BY <2>1, ToSetLemma
  <2>4. ToSet(g) = {c}
    BY <2>1, <2>2, <2>3
  <2> QED  BY <2>4 DEF g
<1> QED  BY <1>5, <1>6

\* While nobody writes, every sequence number that was given is visible, and
\* nobody in the queue has one.
LEMMA QuietLemma ==
  ASSUME QueueInv, NEW c \in Client, pc[c] = "room"
  PROVE  /\ \A d \in Client : seq[d] <= lastSequence /\ seq[d] \in Nat
         /\ \A d \in Client : InQueue(d) \/ pc[d] = "start" => seq[d] = 0
         /\ \A f, d \in Client : ~Committing(f, d)
         /\ \A d \in Client : InQueue(d) => d \notin Stored
<1>1. \A f, d \in Client : ~Committing(f, d)
  BY NobodyWorks DEF QueueInv, Committing
<1>2. \A d \in Client : seq[d] \in Nat /\ lastSequence \in Nat
  BY DEF QueueInv, QueueTypes
<1>3. \A d \in Client : ~(seq[d] > lastSequence)
  BY <1>1 DEF QueueInv, NumberOK
<1>4. \A d \in Client : InQueue(d) \/ pc[d] = "start" => seq[d] = 0
  BY <1>1 DEF QueueInv, NumberOK
<1>5. ASSUME NEW d \in Client, InQueue(d)  PROVE d \notin Stored
  <2>1. status[d] = "none"
    BY <1>5 DEF QueueInv, QueueOK, InQueue
  <2> QED  BY <2>1, <1>1 DEF QueueInv, StoreOK
<1> QED  BY <1>1, <1>2, <1>3, <1>4, <1>5

\* What BuildBatchGroup gives heads the queue and holds no sync that the front
\* does not make.
LEMMA BuildLemma ==
  ASSUME writers \in Seq(Client), NEW g \in BuildBatchGroup(writers)
  PROVE  Heads(g) /\ \A i \in 1..Len(g) : op[g[i]].sync => op[writers[1]].sync
<1>1. PICK n \in 1..Len(writers) :
        /\ g = SubSeq(writers, 1, n)
        /\ \A i \in 2..n : op[writers[i]].sync => op[writers[1]].sync
  BY DEF BuildBatchGroup
<1>2. Len(writers) \in Nat /\ n \in Nat /\ 1 <= n /\ n <= Len(writers)
  OBVIOUS
<1>3. g \in Seq(Client) /\ Len(g) = n /\ \A i \in 1..n : g[i] = writers[i]
  BY <1>1, <1>2
<1>4. ASSUME NEW i \in 1..n, op[g[i]].sync  PROVE op[writers[1]].sync
  <2>1. CASE i = 1
    BY <2>1, <1>3, <1>4
  <2>2. CASE i # 1
    BY <2>2, <1>1, <1>2, <1>3, <1>4
  <2> QED  BY <2>1, <2>2
<1> QED  BY <1>2, <1>3, <1>4 DEF Heads

\* In a group without duplicates a batch is counted where it stands.
LEMMA PositionLemma ==
  ASSUME NEW g \in Seq(Client), \A i, j \in 1..Len(g) : g[i] = g[j] => i = j, NEW i \in 1..Len(g)
  PROVE  Position(g, g[i]) = CountIn(op, g, i)
<1>1. DOMAIN g = 1..Len(g)
  OBVIOUS
<1>2. (CHOOSE j \in DOMAIN g : g[j] = g[i]) = i
  BY <1>1
<1>3. Position(g, g[i]) = Count(g, i)
  BY <1>2 DEF Position
<1> QED  BY <1>3, CountIsCountIn

\* Numbers given to the batches of a group at the head of the queue follow
\* the order of the arrivals.
LEMMA NewNumbers ==
  ASSUME QueueTypes, ArrivalOK, NEW g, Heads(g), NEW t \in [Client -> Nat],
         \A h \in 1..Len(g) : op[g[h]].batch =>
           t[g[h]] = lastSequence + CountIn(op, g, h) /\ CountIn(op, g, h) \in Nat \ {0},
         \A d \in Client : ~(d \in ToSet(g) /\ op[d].batch) => t[d] = seq[d],
         \A d \in Client : seq[d] <= lastSequence,
         \A d \in Client : d \in ToSet(writers) => seq[d] = 0,
         \A a, b \in 1..Len(arrived) :
           a < b /\ seq[arrived[a]] # 0 /\ seq[arrived[b]] # 0 => seq[arrived[a]] < seq[arrived[b]],
         NEW i \in 1..Len(arrived), NEW j \in 1..Len(arrived), i < j,
         t[arrived[i]] # 0, t[arrived[j]] # 0
  PROVE  t[arrived[i]] < t[arrived[j]]
<1> DEFINE x == arrived[i]
           y == arrived[j]
           k == Len(arrived) - Len(writers)
           new(d) == d \in ToSet(g) /\ op[d].batch
<1>1. /\ x \in Client /\ y \in Client /\ seq \in [Client -> Nat] /\ lastSequence \in Nat
      /\ i \in Nat /\ j \in Nat /\ Len(writers) \in Nat /\ Len(arrived) \in Nat
      /\ writers \in Seq(Client)
  <2>1. /\ seq \in [Client -> Nat] /\ lastSequence \in Nat
        /\ writers \in Seq(Client) /\ arrived \in Seq(Client)
    BY DEF QueueTypes
  <2>2. Len(writers) \in Nat /\ Len(arrived) \in Nat
    BY <2>1
  <2>3. i \in Nat /\ j \in Nat
    BY <2>2
  <2>4. x \in Client /\ y \in Client
    BY <2>1
  <2> QED  BY <2>1, <2>2, <2>3, <2>4
<1>2. k \in Nat /\ k + Len(writers) = Len(arrived)
  BY <1>1 DEF ArrivalOK
<1>3. \A h \in 1..Len(writers) : writers[h] = arrived[k + h]
  BY DEF ArrivalOK
<1>4. \A a, b \in 1..Len(arrived) : arrived[a] = arrived[b] => a = b
  BY DEF ArrivalOK
<1>5. /\ Len(g) \in Nat /\ Len(g) <= Len(writers)
      /\ \A h \in 1..Len(g) : g[h] = writers[h] /\ h \in 1..Len(writers)
      /\ \A d : d \in ToSet(g) <=> \E h \in 1..Len(g) : g[h] = d
  BY HeadsLemma
<1> HIDE DEF k
<1>6. ASSUME NEW h \in 1..Len(g)  PROVE k + h \in 1..Len(arrived) /\ g[h] = arrived[k + h] /\ h \in Nat
  BY <1>1, <1>2, <1>3, <1>5
<1>7. CASE new(x) /\ new(y)
  <2>1. PICK a \in 1..Len(g) : g[a] = x
    BY <1>5, <1>7
  <2>2. PICK b \in 1..Len(g) : g[b] = y
    BY <1>5, <1>7
  <2>3. k + a = i /\ k + b = j /\ a \in Nat /\ b \in Nat
    BY <2>1, <2>2, <1>4, <1>6
  <2>4. a < b
    BY <2>3, <1>2
  <2>5. /\ CountIn(op, g, a) \in Nat /\ CountIn(op, g, b) \in Nat
        /\ CountIn(op, g, a) < CountIn(op, g, b)
    BY <1>7, <2>2, <2>3, <2>4, CountLemma
  <2>6. t[x] = lastSequence + CountIn(op, g, a) /\ t[y] = lastSequence + CountIn(op, g, b)
    BY <1>7, <2>1, <2>2
  <2> QED  BY <2>5, <2>6, <1>1
<1>8. CASE ~new(x) /\ new(y)
  <2>1. t[x] = seq[x] /\ seq[x] <= lastSequence /\ seq[x] \in Nat
    BY <1>1, <1>8
  <2>2. PICK b \in 1..Len(g) : g[b] = y
    BY <1>5, <1>8
  <2>3. PICK n \in Nat \ {0} : t[y] = lastSequence + n
    BY <1>8, <2>2
  <2>4. t[x] < t[y]
    BY <2>1, <2>3, <1>1
  <2> QED  BY <2>4
<1>9. CASE new(x) /\ ~new(y)
  <2>1. PICK a \in 1..Len(g) : g[a] = x
    BY <1>5, <1>9
  <2>2. k + a = i /\ a \in Nat
    BY <2>1, <1>4, <1>6
  <2> DEFINE b == j - k
  <2>3. b \in 1..Len(writers) /\ k + b = j
    BY <2>2, <1>1, <1>2
  <2> HIDE DEF b
  <2>4. writers[b] = y
    BY <2>3, <1>3
  <2>5. y \in ToSet(writers)
    BY <2>3, <2>4, <1>1, ToSetLemma
  <2> QED  BY <2>5, <1>1, <1>9
<1>10. CASE ~new(x) /\ ~new(y)
  BY <1>1, <1>10
<1> QED  BY <1>7, <1>8, <1>9, <1>10

\* The front has room: it numbers its group and starts to write, or, without
\* a batch, it is done.
LEMMA GoLemma ==
  ASSUME QueueInv, NEW c \in Client, pc[c] = "room", Go(c), op' = op,
         lastSequence' = lastSequence, arrived' = arrived, Stored' = Stored, synced' = synced
  PROVE  QueueInv'
<1>1. pc[c] \in Leading
  BY DEF Leading
<1>2. /\ \A d \in Client : seq[d] <= lastSequence /\ seq[d] \in Nat
      /\ \A d \in Client : InQueue(d) \/ pc[d] = "start" => seq[d] = 0
      /\ \A f, d \in Client : ~Committing(f, d)
      /\ \A d \in Client : InQueue(d) => d \notin Stored
  BY QuietLemma
<1>3. /\ writers \in Seq(Client) /\ arrived \in Seq(Client) /\ seq \in [Client -> Nat]
      /\ pc \in [Client -> PC] /\ lastSequence \in Nat /\ group \in [Client -> Seq(Client)]
      /\ Len(writers) \in Nat /\ Len(arrived) \in Nat
  BY DEF QueueInv, QueueTypes
<1>4. CASE ~op[c].batch
  <2>1. Complete(c, <<c>>, "ok") /\ group' = group /\ seq' = seq
    BY <1>4 DEF Go
  <2>2. Heads(<<c>>) /\ ToSet(<<c>>) = {c}
    BY <1>1, SingleLemma DEF QueueInv
  <2> QED  BY <1>1, <1>2, <1>3, <1>4, <2>1, <2>2, CompleteLemma
<1>5. CASE op[c].batch
  <2>1. /\ pc' = [pc EXCEPT ![c] = IF op[c].writeahead THEN "append" ELSE "insert"]
        /\ writers' = writers /\ status' = status
    BY <1>5 DEF Go
  <2>2. PICK g \in BuildBatchGroup(writers) :
          /\ group' = [group EXCEPT ![c] = g]
          /\ seq' = [d \in Client |-> IF d \in ToSet(g) /\ op[d].batch
                                      THEN FirstSequence + Position(g, d) - 1 ELSE seq[d]]
    BY <1>5 DEF Go
  <2>3. Heads(g) /\ (\A i \in 1..Len(g) : op[g[i]].sync => op[c].sync) /\ writers[1] = c
    <3>1. writers[1] = c
      BY <1>1 DEF QueueInv, QueueOK
    <3> QED  BY <3>1, <1>3, BuildLemma
  <2>4. /\ g \in Seq(Client) /\ Len(g) \in Nat /\ 1 <= Len(g) /\ Len(g) <= Len(writers)
        /\ \A i \in 1..Len(g) : g[i] = writers[i] /\ i \in 1..Len(writers) /\ g[i] \in Client
    BY <2>3, HeadsLemma DEF QueueInv
  <2>5. \A i, j \in 1..Len(writers) : writers[i] = writers[j] => i = j
    BY QueuedOnce DEF QueueInv
  <2>6. \A d : d \in ToSet(g) <=> \E i \in 1..Len(g) : g[i] = d
    BY <2>4, ToSetLemma
  <2>7. \A d \in ToSet(g) : d \in Client /\ InQueue(d) /\ status[d] = "none" /\ d \notin Stored
    <3> SUFFICES ASSUME NEW d \in ToSet(g)
                 PROVE  d \in Client /\ InQueue(d) /\ status[d] = "none" /\ d \notin Stored
      OBVIOUS
    <3>1. d \in Client /\ d \in ToSet(writers)
      BY <2>4, <2>6, <1>3, ToSetLemma
    <3>2. InQueue(d)
      BY <3>1 DEF QueueInv, QueueOK
    <3> QED  BY <3>1, <3>2, <1>2 DEF QueueInv, QueueOK, InQueue
  <2>8. ASSUME NEW i \in 1..Len(g), op[g[i]].batch
        PROVE  /\ seq'[g[i]] = lastSequence + CountIn(op, g, i)
               /\ CountIn(op, g, i) \in Nat /\ CountIn(op, g, i) > 0
    <3>1. Position(g, g[i]) = CountIn(op, g, i)
      BY <2>4, <2>5, PositionLemma
    <3>2. 0 \in Nat /\ i \in Nat /\ 0 < i
      OBVIOUS
    <3>3. /\ CountIn(op, g, 0) \in Nat /\ CountIn(op, g, i) \in Nat
          /\ CountIn(op, g, 0) < CountIn(op, g, i)
      BY <3>2, <2>8, CountLemma
    <3>4. g[i] \in ToSet(g) /\ g[i] \in Client
      BY <2>4, <2>6
    <3>5. seq'[g[i]] = FirstSequence + Position(g, g[i]) - 1
      BY <3>4, <2>2, <2>8
    <3> QED  BY <3>1, <3>3, <3>5, <1>3 DEF FirstSequence
  <2>9. ASSUME NEW d \in Client, ~(d \in ToSet(g) /\ op[d].batch)  PROVE seq'[d] = seq[d]
    BY <2>2, <2>9
  <2>10. seq' \in [Client -> Nat]
    <3>1. ASSUME NEW d \in Client  PROVE seq'[d] \in Nat
      <4>1. CASE d \in ToSet(g) /\ op[d].batch
        <5>1. PICK i \in 1..Len(g) : g[i] = d
          BY <4>1, <2>6
        <5>2. PICK n \in Nat : seq'[g[i]] = lastSequence + n
          BY <4>1, <5>1, <2>8
        <5>3. lastSequence + n \in Nat
          BY <1>3
        <5> QED  BY <5>1, <5>2, <5>3
      <4>2. CASE ~(d \in ToSet(g) /\ op[d].batch)
        BY <4>2, <2>9, <1>3
      <4> QED  BY <4>1, <4>2
    <3>2. seq' = [d \in Client |-> seq'[d]]
      BY <2>2
    <3> QED  BY <3>1, <3>2
  <2>11. /\ pc' \in [Client -> PC] /\ group' \in [Client -> Seq(Client)] /\ group'[c] = g
         /\ \A d \in Client : d # c => pc'[d] = pc[d] /\ group'[d] = group[d]
         /\ pc'[c] = IF op[c].writeahead THEN "append" ELSE "insert"
    <3>1. {"append", "insert"} \subseteq PC
      BY DEF PC
    <3> QED  BY <3>1, <2>1, <2>2, <2>4, <1>3
  <2>12. /\ pc'[c] \in Working /\ pc'[c] \in Leading
         /\ \A d \in Client : pc'[d] \in Working => d = c
         /\ \A d \in Client : pc'[d] \in Leading => d = c
    <3>1. pc'[c] \in Working
      BY <2>11 DEF Working
    <3>2. \A d \in Client : d # c => pc[d] \notin Leading
      BY <1>1, Alone DEF QueueInv
    <3> QED  BY <3>1, <3>2, <2>11 DEF Leading
  <2>13. Batches(c)' = {d \in ToSet(g) : op[d].batch}
    BY <2>11 DEF Batches
  <2>14. \A d \in Client : d \in ToSet(g) /\ op[d].batch => Committing(c, d)'
    BY <2>12, <2>13 DEF Committing
  <2>15. \A d \in Client : InQueue(d)' <=> InQueue(d)
    BY <2>1, <2>11, <2>12, <1>1 DEF InQueue
  <2>16. QueueTypes'
    BY <2>1, <2>10, <2>11, <1>3 DEF QueueInv, QueueTypes
  <2>17. QueueOK'
    <3>1. ASSUME NEW d \in Client, pc'[d] \in Leading \cup {"queued", "start"}
          PROVE  status[d] = "none"
      BY <3>1, <2>11, <2>12, <1>1 DEF QueueInv, QueueOK
    <3> QED  BY <3>1, <2>1, <2>3, <2>12, <2>15 DEF QueueInv, QueueOK
  <2>18. ArrivalOK'
    <3>1. pc'[c] # "start"
      BY <2>11
    <3>2. \A i \in 1..Len(arrived) : arrived[i] \in Client /\ pc[arrived[i]] # "start"
      BY <1>3 DEF QueueInv, ArrivalOK
    <3>3. \A i \in 1..Len(arrived) : pc'[arrived[i]] # "start"
      BY <3>1, <3>2, <2>11
    <3> QED  BY <3>3, <2>1 DEF QueueInv, ArrivalOK
  <2>19. GroupOK'
    <3> SUFFICES ASSUME NEW i \in 1..Len(g)
                 PROVE  /\ g[i] = writers[i] /\ (op[g[i]].sync => op[c].sync)
                        /\ op[g[i]].batch => seq'[g[i]] = lastSequence + CountIn(op, g, i)
      <4>1. Len(g) \in 1..Len(writers)
        BY <2>4, <1>3
      <4>2. ASSUME NEW f \in Client, pc'[f] \in Working  PROVE f = c /\ group'[f] = g
        BY <4>2, <2>11, <2>12
      <4> QED  BY <4>1, <4>2, <2>1, <1>5 DEF GroupOK
    <3> QED  BY <2>3, <2>4, <2>8
  <2>20. NumberOK'
    <3>1. ASSUME NEW d \in Client, seq'[d] > lastSequence  PROVE Committing(c, d)'
      <4>1. seq[d] <= lastSequence /\ seq[d] \in Nat
        BY <1>2
      <4>2. seq'[d] # seq[d]
        BY <3>1, <4>1, <1>3
      <4> QED  BY <4>2, <2>9, <2>14
    <3>2. ASSUME NEW d \in Client, InQueue(d)' \/ pc'[d] = "start", seq'[d] # 0
          PROVE  Committing(c, d)'
      <4>1. InQueue(d) \/ pc[d] = "start"
        BY <3>2, <2>11, <2>12, <2>15 DEF Leading, Working
      <4> QED  BY <3>2, <4>1, <2>9, <2>14, <1>2
    <3>3. ASSUME NEW i \in 1..Len(arrived), NEW j \in 1..Len(arrived), i < j,
                 seq'[arrived[i]] # 0, seq'[arrived[j]] # 0
          PROVE  seq'[arrived[i]] < seq'[arrived[j]]
      <4>1. ArrivalOK /\ Len(g) \in Nat
        BY <2>4 DEF QueueInv
      <4>2. \A h \in 1..Len(g) : op[g[h]].batch =>
              seq'[g[h]] = lastSequence + CountIn(op, g, h) /\ CountIn(op, g, h) \in Nat \ {0}
        BY <2>8
      <4>3. \A d \in Client : InQueue(d) => seq[d] = 0
        BY <1>2
      <4>4. \A d \in Client : d \in ToSet(writers) => seq[d] = 0
        BY <4>3 DEF QueueInv, QueueOK
      <4>5. \A a, b \in 1..Len(arrived) :
              a < b /\ seq[arrived[a]] # 0 /\ seq[arrived[b]] # 0 => seq[arrived[a]] < seq[arrived[b]]
        BY DEF QueueInv, NumberOK
      <4> QED  BY <4>1, <4>2, <4>4, <4>5, <3>3, <1>2, <1>3, <2>3, <2>9, <2>10, NewNumbers DEF QueueInv
    <3> QED  BY <3>1, <3>2, <3>3 DEF NumberOK
  <2>21. StoreOK'
    <3>1. \A d \in Client : ~(d \in Stored /\ status[d] = "none")
      BY <1>2 DEF QueueInv, StoreOK
    <3>2. \A d \in Client : pc'[d] # "commit"
      <4>1. \A d \in Client : pc'[d] = "commit" => d = c
        BY <2>12 DEF Working
      <4> QED  BY <4>1, <2>11
    <3> QED  BY <3>1, <3>2, <2>1 DEF QueueInv, StoreOK
  <2>22. LogOK'
    <3>1. \A d \in Client : pc'[d] \in {"sync", "insert", "commit"} => d = c
      BY <2>12 DEF Working
    <3>2. ~(pc'[c] \in {"sync", "commit"}) /\ (pc'[c] = "insert" => ~op[c].writeahead)
      BY <2>11
    <3> QED  BY <3>1, <3>2, <2>1 DEF QueueInv, LogOK
  <2> QED  BY <2>16, <2>17, <2>18, <2>19, <2>20, <2>21, <2>22 DEF QueueInv
<1> QED  BY <1>4, <1>5

--------------------------------------------------------------------------------
\* The queue grows and the front moves up.

\* A call joins the queue.
LEMMA WriteLemma ==
  ASSUME QueueInv, NEW c \in Client, Write(c)
  PROVE  QueueInv'
<1>1. /\ pc[c] = "start" /\ writers' = Append(writers, c) /\ arrived' = Append(arrived, c)
      /\ pc' = [pc EXCEPT ![c] = AtFront(writers', c)]
      /\ op' = op /\ status' = status /\ group' = group /\ seq' = seq
      /\ lastSequence' = lastSequence /\ mem' = mem /\ imm' = imm /\ tables' = tables
      /\ logged' = logged /\ synced' = synced
  BY DEF Write, tableVars
<1>2. /\ writers \in Seq(Client) /\ arrived \in Seq(Client) /\ seq \in [Client -> Nat]
      /\ pc \in [Client -> PC] /\ Len(writers) \in Nat /\ Len(arrived) \in Nat
  BY DEF QueueInv, QueueTypes
<1>3. /\ writers' \in Seq(Client) /\ Len(writers') = Len(writers) + 1
      /\ \A i \in 1..Len(writers') : writers'[i] = IF i = Len(writers) + 1 THEN c ELSE writers[i]
      /\ arrived' \in Seq(Client) /\ Len(arrived') = Len(arrived) + 1
      /\ \A i \in 1..Len(arrived') : arrived'[i] = IF i = Len(arrived) + 1 THEN c ELSE arrived[i]
  BY <1>1, <1>2
<1>a. Len(writers) \in Nat /\ Len(writers') = Len(writers) + 1
  BY <1>2, <1>3
<1>4. \A d : d \in ToSet(writers') <=> d \in ToSet(writers) \/ d = c
  <2>1. \A d : d \in ToSet(writers') <=> \E i \in 1..Len(writers') : writers'[i] = d
    BY <1>3, ToSetLemma
  <2>2. \A d : d \in ToSet(writers) <=> \E i \in 1..Len(writers) : writers[i] = d
    BY <1>2, ToSetLemma
  <2>3. Len(writers) + 1 \in 1..Len(writers') /\ \A i \in 1..Len(writers) : i \in 1..Len(writers')
    BY <1>2, <1>3
  <2>4. \A i \in 1..Len(writers') : i = Len(writers) + 1 \/ i \in 1..Len(writers)
    BY <1>2, <1>3
  <2>5. \A i \in 1..Len(writers) : i # Len(writers) + 1
    BY <1>2
  <2> QED  BY <2>1, <2>2, <2>3, <2>4, <2>5, <1>3
<1>5. /\ pc'[c] \in {"room", "queued"} /\ \A d \in Client : d # c => pc'[d] = pc[d]
      /\ pc'[c] = "room" => writers'[1] = c
      /\ pc' \in [Client -> PC]
  <2>1. AtFront(writers', c) \in {"room", "queued"} /\ {"room", "queued"} \subseteq PC
    BY DEF AtFront, PC
  <2>2. AtFront(writers', c) = "room" => writers'[1] = c
    BY DEF AtFront
  <2> QED  BY <2>1, <2>2, <1>1, <1>2
<1>6. {"room", "queued", "start"} \cap Working = {} /\ "room" \in Leading
      /\ "start" \notin Leading /\ "queued" \notin Leading /\ Working \subseteq Leading
  BY DEF Working, Leading
<1>7. \A d \in Client : pc'[d] \in Working <=> pc[d] \in Working
  BY <1>1, <1>5, <1>6
<1>8. \A f, d \in Client : Committing(f, d)' <=> Committing(f, d)
  BY <1>1, <1>7 DEF Committing, Batches
<1>9. ~InQueue(c) /\ InQueue(c)' /\ \A d \in Client : d # c => (InQueue(d)' <=> InQueue(d))
  BY <1>1, <1>5, <1>6 DEF InQueue
<1>10. status[c] = "none"
  BY <1>1 DEF QueueInv, QueueOK
<1>11. QueueTypes'
  BY <1>1, <1>3, <1>5 DEF QueueInv, QueueTypes
<1>12. QueueOK'
  <2>1. \A d \in Client : d \in ToSet(writers') <=> InQueue(d)'
    BY <1>4, <1>9 DEF QueueInv, QueueOK
  <2>2. ASSUME NEW d \in Client, pc'[d] \in Leading  PROVE writers'[1] = d
    <3>1. CASE d = c
      BY <2>2, <3>1, <1>5, <1>6
    <3>2. CASE d # c
      <4>0. pc[d] \in Leading /\ InQueue(d)
        BY <2>2, <3>2, <1>5 DEF InQueue
      <4>1. writers[1] = d /\ d \in ToSet(writers)
        BY <4>0 DEF QueueInv, QueueOK
      <4>2. PICK i \in 1..Len(writers) : writers[i] = d
        BY <4>1, <1>2, ToSetLemma
      <4>3. 1 \in 1..Len(writers') /\ 1 # Len(writers) + 1
        BY <4>2, <1>a
      <4> QED  BY <4>1, <4>3, <1>3
    <3> QED  BY <3>1, <3>2
  <2>3. ASSUME NEW d \in Client, pc'[d] \in Leading \cup {"queued", "start"}
        PROVE  status[d] = "none"
    BY <2>3, <1>5, <1>10 DEF QueueInv, QueueOK
  <2> QED  BY <2>1, <2>2, <2>3, <1>1 DEF QueueOK
<1>13. \A i \in 1..Len(arrived) : arrived[i] \in Client /\ arrived[i] # c /\ i \in 1..Len(arrived')
                                  /\ arrived'[i] = arrived[i]
  <2>1. \A i \in 1..Len(arrived) : arrived[i] \in Client /\ pc[arrived[i]] # "start"
    BY <1>2 DEF QueueInv, ArrivalOK
  <2>2. \A i \in 1..Len(arrived) : i \in 1..Len(arrived') /\ i # Len(arrived) + 1
    BY <1>2, <1>3
  <2> QED  BY <2>1, <2>2, <1>1, <1>3
<1>14. \A i \in 1..Len(arrived') : i \in 1..Len(arrived) \/ (i = Len(arrived) + 1 /\ arrived'[i] = c)
  BY <1>2, <1>3
<1>15. ArrivalOK'
  <2>1. Len(writers') <= Len(arrived')
    BY <1>2, <1>3 DEF QueueInv, ArrivalOK
  <2>2. ASSUME NEW i \in 1..Len(writers')
        PROVE  writers'[i] = arrived'[Len(arrived') - Len(writers') + i]
    <3> DEFINE k == Len(arrived) - Len(writers)
    <3>1. k \in Nat /\ Len(arrived') - Len(writers') + i = k + i
      BY <1>2, <1>3 DEF QueueInv, ArrivalOK
    <3>2. CASE i = Len(writers) + 1
      <4>1. k + i = Len(arrived) + 1 /\ k + i \in 1..Len(arrived')
        BY <3>2, <1>2, <1>3
      <4> QED  BY <3>1, <3>2, <4>1, <1>3
    <3>3. CASE i # Len(writers) + 1
      <4>1. i \in 1..Len(writers) /\ k + i \in 1..Len(arrived)
        BY <3>1, <3>3, <1>2, <1>3
      <4>2. writers[i] = arrived[k + i]
        BY <4>1 DEF QueueInv, ArrivalOK
      <4> QED  BY <3>1, <3>3, <4>1, <4>2, <1>3, <1>13
    <3> QED  BY <3>2, <3>3
  <2>3. \A i \in 1..Len(arrived') : pc'[arrived'[i]] # "start"
    BY <1>5, <1>13, <1>14 DEF QueueInv, ArrivalOK
  <2>4. \A i, j \in 1..Len(arrived') : arrived'[i] = arrived'[j] => i = j
    BY <1>13, <1>14 DEF QueueInv, ArrivalOK
  <2> QED  BY <2>1, <2>2, <2>3, <2>4 DEF ArrivalOK
<1>16. GroupOK'
  <2> SUFFICES ASSUME NEW f \in Client, pc[f] \in Working
               PROVE  /\ Len(group[f]) \in 1..Len(writers')
                      /\ \A i \in 1..Len(group[f]) : group[f][i] = writers'[i]
    BY <1>1, <1>7 DEF QueueInv, GroupOK
  <2>1. Len(group[f]) \in 1..Len(writers) /\ \A i \in 1..Len(group[f]) : group[f][i] = writers[i]
    BY DEF QueueInv, GroupOK
  <2>2. Len(group[f]) \in 1..Len(writers')
    BY <2>1, <1>a
  <2>3. \A i \in 1..Len(group[f]) : i \in 1..Len(writers') /\ i # Len(writers) + 1
    BY <2>1, <1>a
  <2> QED  BY <2>1, <2>2, <2>3, <1>3
<1>17. NumberOK'
  <2>1. \A f, d \in Client : Committing(f, d) => d \in ToSet(writers)
    <3> SUFFICES ASSUME NEW f \in Client, NEW d \in Client, Committing(f, d)
                 PROVE  d \in ToSet(writers)
      OBVIOUS
    <3>1. group[f] \in Seq(Client) /\ d \in ToSet(group[f]) /\ Heads(group[f])
      BY DEF Committing, Batches, QueueInv, QueueTypes, GroupOK, Heads
    <3> QED  BY <3>1, HeadsLemma DEF QueueInv
  <2>2. \A f \in Client : ~Committing(f, c)
    BY <2>1, <1>9 DEF QueueInv, QueueOK
  <2>3. seq[c] = 0
    BY <2>2, <1>1 DEF QueueInv, NumberOK
  <2>4. \A d \in Client : seq[d] > lastSequence => \E f \in Client : Committing(f, d)
    BY DEF QueueInv, NumberOK
  <2>5. ASSUME NEW d \in Client, InQueue(d)' \/ pc'[d] = "start", seq[d] # 0
        PROVE  \E f \in Client : Committing(f, d)
    BY <2>3, <2>5, <1>5, <1>9 DEF QueueInv, NumberOK
  <2>6. ASSUME NEW i \in 1..Len(arrived'), NEW j \in 1..Len(arrived'), i < j,
               seq[arrived'[i]] # 0, seq[arrived'[j]] # 0
        PROVE  seq[arrived'[i]] < seq[arrived'[j]]
    <3>1. i \in 1..Len(arrived) /\ j \in 1..Len(arrived)
      BY <2>3, <2>6, <1>14
    <3> QED  BY <2>6, <3>1, <1>13 DEF QueueInv, NumberOK
  <2> QED  BY <2>4, <2>5, <2>6, <1>1, <1>8 DEF NumberOK
<1>18. /\ \A f \in Client : Batches(f)' = Batches(f)
       /\ \A f \in Client, x \in Working : pc'[f] = x <=> pc[f] = x
       /\ Stored' = Stored
  BY <1>1, <1>5, <1>6 DEF Batches, Stored
<1>19. {"sync", "insert", "commit"} \subseteq Working
  BY DEF Working
<1>20. StoreOK'
  BY <1>1, <1>8, <1>18, <1>19 DEF QueueInv, StoreOK
<1>21. LogOK'
  BY <1>1, <1>18, <1>19 DEF QueueInv, LogOK
<1> QED  BY <1>11, <1>12, <1>15, <1>16, <1>17, <1>20, <1>21 DEF QueueInv

\* A writer that was signalled has its answer, or looks whether it is the front.
LEMMA ResumeLemma ==
  ASSUME QueueInv, NEW c \in Client, Resume(c)
  PROVE  QueueInv'
<1> DEFINE x == IF status[c] # "none" THEN "written" ELSE AtFront(writers, c)
<1>1. /\ pc[c] = "awake" /\ pc' = [pc EXCEPT ![c] = x]
      /\ UNCHANGED <<op, writers, status, group, seq, arrived>>
      /\ UNCHANGED <<lastSequence, mem, imm, tables, logged, synced>>
  BY DEF Resume, tableVars
<1>2. /\ status[c] # "none" => x = "written"
      /\ status[c] = "none" => x \in {"room", "queued"}
      /\ status[c] = "none" /\ x = "room" => writers[1] = c
  BY DEF AtFront
<1> HIDE DEF x
<1>3. pc \in [Client -> PC] /\ x \in PC
  BY <1>2 DEF QueueInv, QueueTypes, PC
<1>4. pc' \in [Client -> PC] /\ \A d \in Client : pc'[d] = IF d = c THEN x ELSE pc[d]
  BY <1>1, <1>3
<1>5. KeepsPlaces
  <2> SUFFICES ASSUME NEW d \in Client
               PROVE  /\ InQueue(d)' <=> InQueue(d)
                      /\ \A y \in Working \cup {"start"} : pc'[d] = y <=> pc[d] = y
                      /\ pc'[d] \in Leading => writers[1] = d
                      /\ pc'[d] \in Leading \cup {"queued"} => status[d] = "none"
    BY DEF KeepsPlaces
  <2>1. CASE d = c
    <3>1. pc[d] = "awake" /\ pc'[d] = x /\ status' = status
      BY <2>1, <1>1, <1>4
    <3> QED  BY <2>1, <3>1, <1>2 DEF InQueue, Leading, Working
  <2>2. CASE d # c
    <3>1. pc'[d] = pc[d] /\ status' = status
      BY <2>2, <1>1, <1>4
    <3> QED  BY <3>1 DEF InQueue, QueueInv, QueueOK
  <2> QED  BY <2>1, <2>2
<1>6. Stored' = Stored
  BY <1>1 DEF Stored
<1> QED  BY <1>1, <1>4, <1>5, <1>6, MoveLemma

--------------------------------------------------------------------------------
\* The front writes.

\* The group of the writer that writes heads the queue, and is the only one.
LEMMA WorkLemma ==
  ASSUME QueueInv, NEW c \in Client, pc[c] \in Working
  PROVE  /\ Heads(group[c]) /\ pc[c] \in Leading
         /\ \A f, d \in Client : Committing(f, d) => f = c /\ d \in Batches(c)
         /\ \A d \in Client : seq[d] <= lastSequence + Count(group[c], Len(group[c]))
         /\ Count(group[c], Len(group[c])) \in Nat
         /\ \A d \in Batches(c) : d \in Client /\ d \in ToSet(group[c]) /\ status[d] = "none"
<1> DEFINE g == group[c]
<1>1. pc[c] \in Leading
  BY DEF Leading
<1>2. g \in Seq(Client)
  BY DEF QueueInv, QueueTypes
<1>3. Heads(g)
  BY <1>2 DEF QueueInv, GroupOK, Heads
<1>4. /\ Len(g) \in Nat /\ 1 <= Len(g)
      /\ \A d : d \in ToSet(g) <=> \E i \in 1..Len(g) : g[i] = d
      /\ ToSet(g) \subseteq Client /\ ToSet(g) \subseteq ToSet(writers)
  BY <1>3, HeadsLemma DEF QueueInv
<1>5. \A f, d \in Client : Committing(f, d) => f = c /\ d \in Batches(c)
  <2> SUFFICES ASSUME NEW f \in Client, NEW d \in Client, Committing(f, d)  PROVE f = c
    BY DEF Committing
  <2>1. pc[f] \in Leading
    BY DEF Committing, Leading
  <2> QED  BY <2>1, <1>1, Alone DEF QueueInv
<1>6. \A i \in 1..Len(g) : CountIn(op, g, i) \in Nat /\ CountIn(op, g, i) <= CountIn(op, g, Len(g))
  <2> SUFFICES ASSUME NEW i \in 1..Len(g)
               PROVE  CountIn(op, g, i) \in Nat /\ CountIn(op, g, i) <= CountIn(op, g, Len(g))
    OBVIOUS
  <2>1. i \in Nat /\ 0 \in Nat /\ 0 < i /\ (i < Len(g) \/ i = Len(g))
    BY <1>4
  <2>2. CountIn(op, g, i) \in Nat
    BY <2>1, CountLemma
  <2>3. CASE i < Len(g)
    BY <2>1, <2>2, <2>3, <1>4, CountLemma
  <2>4. CASE i = Len(g)
    BY <2>2, <2>4
  <2> QED  BY <2>1, <2>3, <2>4
<1>7. Count(g, Len(g)) = CountIn(op, g, Len(g)) /\ CountIn(op, g, Len(g)) \in Nat
  <2>1. Len(g) \in 1..Len(g)
    BY <1>4
  <2> QED  BY <2>1, <1>6, CountIsCountIn
<1>8. ASSUME NEW d \in Client  PROVE seq[d] <= lastSequence + CountIn(op, g, Len(g))
  <2>1. seq[d] \in Nat /\ lastSequence \in Nat
    BY DEF QueueInv, QueueTypes
  <2>2. CASE seq[d] <= lastSequence
    BY <2>1, <2>2, <1>7
  <2>3. CASE seq[d] > lastSequence
    <3>1. d \in Batches(c)
      BY <2>3, <1>5 DEF QueueInv, NumberOK
    <3>2. PICK i \in 1..Len(g) : g[i] = d
      BY <3>1, <1>4 DEF Batches
    <3>3. op[d].batch
      BY <3>1 DEF Batches
    <3>4. seq[d] = lastSequence + CountIn(op, g, i)
      BY <3>2, <3>3 DEF QueueInv, GroupOK
    <3> QED  BY <3>4, <2>1, <1>6, <1>7
  <2> QED  BY <2>1, <2>2, <2>3
<1>9. ASSUME NEW d \in Batches(c)  PROVE d \in Client /\ d \in ToSet(group[c]) /\ status[d] = "none"
  <2>1. d \in ToSet(g) /\ d \in Client /\ d \in ToSet(writers)
    BY <1>4 DEF Batches
  <2>2. InQueue(d)
    BY <2>1 DEF QueueInv, QueueOK
  <2> QED  BY <2>1, <2>2 DEF QueueInv, QueueOK, InQueue
<1> QED  BY <1>1, <1>3, <1>5, <1>7, <1>8, <1>9

\* The group is answered and its sequence numbers are used up.
LEMMA CommitLemma ==
  ASSUME QueueInv, NEW c \in Client, pc[c] \in Working, NEW result \in {"ok", "error"},
         Commit(c, result), op' = op, group' = group, seq' = seq, arrived' = arrived,
         Stored' = Stored, synced' = synced,
         \A d \in Batches(c) : d \in Stored <=> result = "ok",
         SyncsAreLogged(op) /\ result = "ok" =>
           \A d \in Batches(c) : op[d].sync => d \in synced
  PROVE  QueueInv'
<1> DEFINE g == group[c]
<1>1. /\ Heads(g) /\ pc[c] \in Leading
      /\ \A f, d \in Client : Committing(f, d) => f = c /\ d \in Batches(c)
      /\ \A d \in Client : seq[d] <= lastSequence + Count(g, Len(g))
      /\ Count(g, Len(g)) \in Nat
  BY WorkLemma
<1>2. lastSequence' = lastSequence + Count(g, Len(g)) /\ Complete(c, g, result)
  BY DEF Commit
<1>3. lastSequence \in Nat /\ group \in [Client -> Seq(Client)]
  BY DEF QueueInv, QueueTypes
<1>4. lastSequence' \in Nat /\ \A d \in Client : seq[d] <= lastSequence'
  BY <1>1, <1>2, <1>3
<1>5. \A d : d \in Batches(c) <=> d \in ToSet(g) /\ op[d].batch
  BY DEF Batches
<1> HIDE DEF g
<1> QED  BY <1>1, <1>2, <1>3, <1>4, <1>5, CompleteLemma

\* The front goes from one piece of its work to the next.
LEMMA StageLemma ==
  ASSUME QueueInv, NEW c \in Client, pc[c] \in Working, NEW x \in Working,
         pc' = [pc EXCEPT ![c] = x],
         UNCHANGED <<op, writers, status, group, seq, lastSequence, arrived>>
  PROVE  /\ (QueueTypes /\ QueueOK /\ ArrivalOK /\ GroupOK /\ NumberOK)'
         /\ \A f \in Client : Batches(f)' = Batches(f)
         /\ \A f, d \in Client : Committing(f, d)' <=> Committing(f, d)
         /\ pc'[c] = x /\ \A d \in Client : pc'[d] \in Working => d = c
<1>1. /\ op' = op /\ writers' = writers /\ status' = status /\ group' = group /\ seq' = seq
      /\ lastSequence' = lastSequence /\ arrived' = arrived
  OBVIOUS
<1>2. Working \subseteq PC /\ Working \subseteq Leading /\ "start" \notin Working
      /\ "queued" \notin Working /\ "awake" \notin Working
  BY DEF Working, PC, Leading
<1>3. pc' \in [Client -> PC] /\ \A d \in Client : pc'[d] = IF d = c THEN x ELSE pc[d]
  BY <1>2 DEF QueueInv, QueueTypes
<1>4. \A d \in Client : /\ pc'[d] \in Working <=> pc[d] \in Working
                        /\ pc'[d] \in Leading <=> pc[d] \in Leading
                        /\ pc'[d] = "start" <=> pc[d] = "start"
                        /\ pc'[d] = "queued" <=> pc[d] = "queued"
                        /\ InQueue(d)' <=> InQueue(d)
  BY <1>1, <1>2, <1>3 DEF InQueue
<1>5. \A f \in Client : Batches(f)' = Batches(f)
  BY <1>1 DEF Batches
<1>6. \A f, d \in Client : Committing(f, d)' <=> Committing(f, d)
  BY <1>4, <1>5 DEF Committing
<1>7. \A d \in Client : pc'[d] \in Working => d = c
  BY <1>2, <1>4, Alone DEF QueueInv
<1>8. QueueTypes'
  BY <1>1, <1>3 DEF QueueInv, QueueTypes
<1>9. QueueOK'
  BY <1>1, <1>4 DEF QueueInv, QueueOK
<1>10. ArrivalOK'
  BY <1>1, <1>4 DEF QueueInv, QueueTypes, ArrivalOK
<1>11. GroupOK'
  BY <1>1, <1>4 DEF QueueInv, GroupOK
<1>12. NumberOK'
  BY <1>1, <1>4, <1>6 DEF QueueInv, NumberOK
<1> QED  BY <1>3, <1>5, <1>6, <1>7, <1>8, <1>9, <1>10, <1>11, <1>12

\* Nothing of a group is stored before the front inserts.
LEMMA NotYetStored ==
  ASSUME QueueInv, NEW c \in Client, pc[c] \in {"append", "sync"}
  PROVE  /\ \A d \in Batches(c) : d \notin Stored
         /\ \A d \in Client : ~(d \in Stored /\ status[d] = "none")
<1>1. pc[c] \in Working /\ pc[c] \notin {"insert", "commit"}
  BY DEF Working
<1>2. /\ \A f, d \in Client : Committing(f, d) => f = c /\ d \in Batches(c)
      /\ \A d \in Batches(c) : d \in Client /\ status[d] = "none"
  BY <1>1, WorkLemma
<1>3. \A d \in Client : ~(d \in Stored /\ status[d] = "none")
  BY <1>1, <1>2 DEF QueueInv, StoreOK
<1> QED  BY <1>2, <1>3

\* The record is added to the log, or the group fails.
LEMMA AppendRecordLemma ==
  ASSUME QueueInv, NEW c \in Client, AppendRecord(c)
  PROVE  QueueInv'
<1>1. /\ pc[c] = "append" /\ op' = op /\ group' = group /\ seq' = seq /\ arrived' = arrived
      /\ mem' = mem /\ imm' = imm /\ tables' = tables /\ synced' = synced
  BY DEF AppendRecord
<1>2. Stored' = Stored /\ pc[c] \in Working
  BY <1>1 DEF Stored, Working
<1>3. /\ \A d \in Batches(c) : d \notin Stored
      /\ \A d \in Client : ~(d \in Stored /\ status[d] = "none")
  BY <1>1, NotYetStored
<1>4. CASE Commit(c, "error")
  <2> QED  BY <1>1, <1>2, <1>3, <1>4, CommitLemma
<1>5. CASE /\ logged' = logged \cup Batches(c)
           /\ pc' = [pc EXCEPT ![c] = IF op[c].sync THEN "sync" ELSE "insert"]
           /\ UNCHANGED <<writers, status, lastSequence>>
  <2> DEFINE x == IF op[c].sync THEN "sync" ELSE "insert"
  <2>1. x \in Working /\ pc' = [pc EXCEPT ![c] = x] /\ x # "commit" /\ (x = "insert" => ~op[c].sync)
    BY <1>5 DEF Working
  <2>2. UNCHANGED <<op, writers, status, group, seq, lastSequence, arrived>>
    BY <1>1, <1>5
  <2> HIDE DEF x
  <2>3. /\ (QueueTypes /\ QueueOK /\ ArrivalOK /\ GroupOK /\ NumberOK)'
        /\ \A f \in Client : Batches(f)' = Batches(f)
        /\ pc'[c] = x /\ \A d \in Client : pc'[d] \in Working => d = c
    BY <1>2, <2>1, <2>2, StageLemma
  <2>4. \A d \in Client : pc'[d] # "commit" /\ (pc'[d] \in {"sync", "insert"} => d = c)
    BY <2>1, <2>3 DEF Working
  <2>5. StoreOK'
    BY <2>2, <2>4, <1>1, <1>2, <1>3 DEF QueueInv, StoreOK
  <2>6. LogOK'
    BY <2>1, <2>2, <2>3, <2>4, <1>1, <1>5 DEF QueueInv, LogOK
  <2> QED  BY <2>3, <2>5, <2>6 DEF QueueInv
<1> QED  BY <1>4, <1>5 DEF AppendRecord

\* The log is synced, or the group fails.
LEMMA SyncLemma ==
  ASSUME QueueInv, NEW c \in Client, Sync(c)
  PROVE  QueueInv'
<1>1. /\ pc[c] = "sync" /\ op' = op /\ group' = group /\ seq' = seq /\ arrived' = arrived
      /\ mem' = mem /\ imm' = imm /\ tables' = tables /\ logged' = logged
  BY DEF Sync
<1>2. Stored' = Stored /\ pc[c] \in Working
  BY <1>1 DEF Stored, Working
<1>3. /\ \A d \in Batches(c) : d \notin Stored
      /\ \A d \in Client : ~(d \in Stored /\ status[d] = "none")
  BY <1>1, NotYetStored
<1>4. CASE Commit(c, "error") /\ synced' = synced
  <2> QED  BY <1>1, <1>2, <1>3, <1>4, CommitLemma
<1>5. CASE /\ synced' = synced \cup logged
           /\ pc' = [pc EXCEPT ![c] = "insert"]
           /\ UNCHANGED <<writers, status, lastSequence>>
  <2>1. "insert" \in Working
    BY DEF Working
  <2>2. UNCHANGED <<op, writers, status, group, seq, lastSequence, arrived>>
    BY <1>1, <1>5
  <2>3. /\ (QueueTypes /\ QueueOK /\ ArrivalOK /\ GroupOK /\ NumberOK)'
        /\ \A f \in Client : Batches(f)' = Batches(f)
        /\ pc'[c] = "insert" /\ \A d \in Client : pc'[d] \in Working => d = c
    BY <1>2, <1>5, <2>1, <2>2, StageLemma
  <2>4. \A d \in Client : pc'[d] # "commit" /\ pc'[d] # "sync" /\ (pc'[d] = "insert" => d = c)
    BY <2>3 DEF Working
  <2>5. StoreOK'
    BY <2>2, <2>4, <1>1, <1>2, <1>3 DEF QueueInv, StoreOK
  <2>6. Batches(c) \subseteq synced'
    BY <1>1, <1>5 DEF QueueInv, LogOK
  <2>7. LogOK'
    BY <2>2, <2>3, <2>4, <2>6, <1>1, <1>5 DEF QueueInv, LogOK
  <2> QED  BY <2>3, <2>5, <2>7 DEF QueueInv
<1> QED  BY <1>4, <1>5 DEF Sync

\* One batch of the group goes into the memtable.
LEMMA InsertIntoLemma ==
  ASSUME QueueInv, NEW c \in Client, InsertInto(c)
  PROVE  QueueInv'
<1> DEFINE x == IF Batches(c) \subseteq mem' THEN "commit" ELSE "insert"
<1>1. /\ pc[c] = "insert" /\ pc' = [pc EXCEPT ![c] = x]
      /\ op' = op /\ group' = group /\ seq' = seq /\ arrived' = arrived
      /\ imm' = imm /\ tables' = tables /\ logged' = logged /\ synced' = synced
      /\ writers' = writers /\ status' = status /\ lastSequence' = lastSequence
  BY DEF InsertInto
<1>2. PICK d \in Batches(c) \ mem : mem' = mem \cup {d}
  BY DEF InsertInto
<1>3. x \in {"insert", "commit"} /\ x \in Working /\ pc[c] \in Working
      /\ (x = "commit" => Batches(c) \subseteq mem')
  BY <1>1 DEF Working
<1> HIDE DEF x
<1>4. UNCHANGED <<op, writers, status, group, seq, lastSequence, arrived>>
  BY <1>1
<1>5. /\ (QueueTypes /\ QueueOK /\ ArrivalOK /\ GroupOK /\ NumberOK)'
      /\ \A f \in Client : Batches(f)' = Batches(f)
      /\ \A f, e \in Client : Committing(f, e)' <=> Committing(f, e)
      /\ pc'[c] = x /\ \A e \in Client : pc'[e] \in Working => e = c
  BY <1>1, <1>3, <1>4, StageLemma
<1>6. \A e \in Client : pc'[e] # "sync" /\ (pc'[e] \in {"insert", "commit"} => e = c)
  BY <1>3, <1>5 DEF Working
<1>7. d \in Client /\ status[d] = "none" /\ Committing(c, d)
  BY <1>2, <1>3, WorkLemma DEF Committing
<1>8. Stored' = Stored \cup {d}
  BY <1>1, <1>2 DEF Stored
<1>9. \A f \in Client : pc[f] \in {"insert", "commit"} => f = c /\ pc'[f] \in {"insert", "commit"}
  <2>1. \A f \in Client : pc[f] \in {"insert", "commit"} => f = c
    <3>1. {"insert", "commit"} \subseteq Leading /\ pc[c] \in Leading
      BY <1>1 DEF Leading, Working
    <3> QED  BY <3>1, Alone DEF QueueInv
  <2> QED  BY <2>1, <1>3, <1>5
<1>10. StoreOK'
  <2>1. ASSUME NEW e \in Client, e \in Stored', status'[e] = "none"
        PROVE  \E f \in Client : Committing(f, e)' /\ pc'[f] \in {"insert", "commit"}
    <3>1. CASE e = d
      BY <3>1, <1>3, <1>5, <1>7
    <3>2. CASE e # d
      BY <2>1, <3>2, <1>1, <1>5, <1>8, <1>9 DEF QueueInv, StoreOK
    <3> QED  BY <3>1, <3>2
  <2>2. \A f \in Client : pc'[f] = "commit" => Batches(f)' \subseteq mem'
    BY <1>3, <1>5, <1>6
  <2>3. \A e \in Client : op[e].batch /\ status[e] = "ok" => e \in Stored'
    BY <1>8 DEF QueueInv, StoreOK
  <2>4. \A e \in Client : op[e].batch /\ status[e] = "error" => e \notin Stored'
    BY <1>7, <1>8 DEF QueueInv, StoreOK
  <2> QED  BY <2>1, <2>2, <2>3, <2>4, <1>1 DEF StoreOK
<1>11. LogOK'
  BY <1>1, <1>5, <1>6 DEF QueueInv, LogOK
<1> QED  BY <1>5, <1>10, <1>11 DEF QueueInv

\* The group is done.
LEMMA CommitGroupLemma ==
  ASSUME QueueInv, NEW c \in Client, CommitGroup(c)
  PROVE  QueueInv'
<1>1. /\ pc[c] = "commit" /\ Commit(c, "ok")
      /\ op' = op /\ group' = group /\ seq' = seq /\ arrived' = arrived
      /\ mem' = mem /\ imm' = imm /\ tables' = tables /\ synced' = synced
  BY DEF CommitGroup
<1>2. Stored' = Stored /\ pc[c] \in Working
  BY <1>1 DEF Stored, Working
<1>3. \A d \in Batches(c) : d \in Stored
  BY <1>1 DEF QueueInv, StoreOK, Stored
<1>4. ASSUME SyncsAreLogged(op), NEW d \in Batches(c), op[d].sync  PROVE d \in synced
  <2>1. group[c] \in Seq(Client) /\ d \in ToSet(group[c])
    BY DEF QueueInv, QueueTypes, Batches
  <2>2. PICK i \in 1..Len(group[c]) : group[c][i] = d
    BY <2>1, ToSetLemma
  <2>3. op[c].sync /\ op[c].batch
    BY <2>2, <1>2, <1>4 DEF QueueInv, GroupOK
  <2>4. op[c].writeahead
    BY <2>3, <1>4 DEF SyncsAreLogged
  <2> QED  BY <2>3, <2>4, <1>1 DEF QueueInv, LogOK
<1> QED  BY <1>1, <1>2, <1>3, <1>4, CommitLemma

--------------------------------------------------------------------------------
\* The front makes room.

\* The front gives up: MakeRoomForWrite failed.
LEMMA GiveUpLemma ==
  ASSUME QueueInv, NEW c \in Client, pc[c] = "room", Complete(c, <<c>>, "error"), op' = op,
         group' = group, seq' = seq, lastSequence' = lastSequence, arrived' = arrived,
         Stored' = Stored, synced' = synced
  PROVE  QueueInv'
<1> DEFINE g == <<c>>
<1>1. pc[c] \in Leading /\ InQueue(c)
  BY DEF Leading, InQueue
<1>2. /\ \A d \in Client : seq[d] <= lastSequence
      /\ \A f, d \in Client : ~Committing(f, d)
      /\ \A d \in Client : InQueue(d) => d \notin Stored
  BY QuietLemma
<1>3. Heads(g) /\ ToSet(g) = {c}
  BY <1>1, SingleLemma DEF QueueInv
<1>4. lastSequence' \in Nat /\ group' \in [Client -> Seq(Client)]
  BY DEF QueueInv, QueueTypes
<1>5. \A d \in ToSet(g) : d \notin Stored
  BY <1>1, <1>2, <1>3
<1>6. Complete(c, g, "error")
  OBVIOUS
<1>7. \A d \in Client : seq[d] <= lastSequence'
  BY <1>2
<1> HIDE DEF g
<1> QED  BY <1>1, <1>2, <1>3, <1>4, <1>5, <1>6, <1>7, CompleteLemma

\* The error of a background compaction is the answer.
LEMMA RoomErrorLemma ==
  ASSUME QueueInv, NEW c \in Client, RoomError(c)
  PROVE  QueueInv'
<1>1. /\ pc[c] = "room" /\ Complete(c, <<c>>, "error") /\ op' = op /\ group' = group
      /\ seq' = seq /\ arrived' = arrived
      /\ lastSequence' = lastSequence /\ mem' = mem /\ imm' = imm /\ tables' = tables
      /\ synced' = synced
  BY DEF RoomError, tableVars
<1>2. Stored' = Stored
  BY <1>1 DEF Stored
<1> QED  BY <1>1, <1>2, GiveUpLemma

\* There is room.
LEMMA RoomFoundLemma ==
  ASSUME QueueInv, NEW c \in Client, RoomFound(c)
  PROVE  QueueInv'
<1>1. /\ pc[c] = "room" /\ Go(c) /\ op' = op /\ arrived' = arrived
      /\ lastSequence' = lastSequence /\ mem' = mem /\ imm' = imm /\ tables' = tables
      /\ synced' = synced
  BY DEF RoomFound, tableVars
<1>2. Stored' = Stored
  BY <1>1 DEF Stored
<1> QED  BY <1>1, <1>2, GoLemma

\* A set of clients is a table.
LEMMA ClientsAreATable ==
  ASSUME NEW S, S \subseteq Client
  PROVE  S # NoTable
  BY TriggerAssumption DEF NoTable

\* The memtable becomes imm_, or the new log fails.
LEMMA RoomSwitchLemma ==
  ASSUME QueueInv, TableTypes, NEW c \in Client, RoomSwitch(c)
  PROVE  QueueInv'
<1>1. /\ pc[c] = "room" /\ MaySwitch /\ op' = op /\ arrived' = arrived
      /\ lastSequence' = lastSequence /\ tables' = tables /\ synced' = synced
  BY DEF RoomSwitch
<1>2. imm = NoTable
  BY <1>1 DEF MaySwitch
<1>3. CASE imm' = mem /\ mem' = {} /\ Go(c)
  <2>1. mem # NoTable
    BY ClientsAreATable DEF TableTypes
  <2>2. Stored' = Stored
    BY <1>1, <1>2, <1>3, <2>1 DEF Stored, NoTable
  <2> QED  BY <1>1, <1>3, <2>2, GoLemma
<1>4. CASE Complete(c, <<c>>, "error") /\ UNCHANGED <<imm, mem, group, seq>>
  <2>1. Stored' = Stored
    BY <1>1, <1>4 DEF Stored
  <2> QED  BY <1>1, <1>4, <2>1, GiveUpLemma
<1> QED  BY <1>3, <1>4 DEF RoomSwitch

\* Nothing of the queue changes but the place of a client that waits for room
\* or is outside the queue.
LEMMA ElsewhereLemma ==
  ASSUME QueueInv, NEW c \in Client,
         RoomDelay(c) \/ RoomWait(c) \/ Written(c) \/ WaitForImm(c) \/ SetManual(c) \/ ManualDone(c)
  PROVE  QueueInv'
<1>1. /\ op' = op /\ writers' = writers /\ status' = status /\ group' = group /\ seq' = seq
      /\ arrived' = arrived /\ tableVars' = tableVars
  BY DEF RoomDelay, RoomWait, Written, WaitForImm, SetManual, ManualDone
<1>2. /\ UNCHANGED <<op, writers, status, group, seq, lastSequence, logged, synced, arrived>>
      /\ mem' = mem /\ Stored' = Stored
  BY <1>1 DEF tableVars, Stored
<1>3. pc \in [Client -> PC]
  BY DEF QueueInv, QueueTypes
<1>4. CASE RoomDelay(c)
  <2>1. pc' = pc
    BY <1>4 DEF RoomDelay
  <2>2. SamePlaces
    BY <2>1 DEF SamePlaces
  <2> QED  BY <2>1, <2>2, <1>2, <1>3, FrameLemma
<1>5. CASE ~RoomDelay(c)
  <2>1. PICK x \in PC :
          /\ pc' = [pc EXCEPT ![c] = x]
          /\ \/ pc[c] \in {"room", "room wait"} /\ x \in {"room", "room wait"}
             \/ /\ pc[c] \in {"written", "imm", "slot", "manual"}
                /\ x \in {"returned", "imm", "imm wait", "slot", "slot wait", "manual wait"}
    <3>1. CASE RoomWait(c)
      BY <3>1 DEF RoomWait, PC
    <3>2. CASE Written(c)
      BY <3>2 DEF Written, PC
    <3>3. CASE WaitForImm(c)
      BY <3>3 DEF WaitForImm, PC
    <3>4. CASE SetManual(c)
      BY <3>4 DEF SetManual, PC
    <3>5. CASE ManualDone(c)
      BY <3>5 DEF ManualDone, PC
    <3> QED  BY <1>5, <3>1, <3>2, <3>3, <3>4, <3>5
  <2>2. \/ pc[c] \in {"room", "room wait"} /\ x \in {"room", "room wait"}
        \/ /\ pc[c] \notin Leading \cup {"queued", "awake", "start"}
           /\ x \notin Leading \cup {"queued", "awake", "start"}
    BY <2>1 DEF Leading, Working
  <2>3. pc' \in [Client -> PC] /\ SamePlaces
    BY <2>1, <2>2, <1>3, OwnPlaceLemma
  <2> QED  BY <2>3, <1>2, FrameLemma
<1> QED  BY <1>4, <1>5

--------------------------------------------------------------------------------
\* The background thread.

BgTypes == [at : {"idle", "scheduled", "flush", "work", "work flush", "sleep"},
            inputs : Nat, manual : BOOLEAN]

\* MaybeScheduleCompaction leaves a background thread that works alone.
LEMMA ScheduleLemma ==
  ASSUME NEW b \in BgTypes, NEW im, NEW man, NEW files
  PROVE  /\ MaybeSchedule(b, im, man, files) \in BgTypes
         /\ \/ MaybeSchedule(b, im, man, files) = b
            \/ MaybeSchedule(b, im, man, files).at = "scheduled"
  BY DEF MaybeSchedule, Schedule, Idle, BgTypes

\* After BackgroundCall the thread has nothing under way.
LEMMA FinishLemma ==
  ASSUME NEW im, NEW man, NEW files, Finish(im, man, files)
  PROVE  bg' \in BgTypes /\ bg'.at \in {"idle", "scheduled"} /\ pc' = Awake(pc)
<1>1. Idle \in BgTypes /\ Idle.at = "idle"
  BY DEF Idle, BgTypes
<1>2. bg' = MaybeSchedule(Idle, im, man, files) /\ pc' = Awake(pc)
  BY DEF Finish, SignalAll
<1> QED  BY <1>1, <1>2, ScheduleLemma

\* CompactMemTable moves imm_ to a table: nothing is lost and nothing is new.
LEMMA InstalledLemma ==
  ASSUME TableTypes, imm # NoTable, mem' = mem, Installed
  PROVE  Stored' = Stored /\ tables' \subseteq Client /\ imm' = NoTable /\ l0' \in Nat /\ l0 <= l0'
<1>1. tables' = tables \cup imm /\ imm' = NoTable /\ (l0' = l0 \/ l0' = l0 + 1)
  BY DEF Installed
<1>2. Stored' = Stored
  BY <1>1 DEF Stored
<1>3. tables \subseteq Client /\ imm \subseteq Client /\ l0 \in Nat
  BY DEF TableTypes
<1>4. l0' \in Nat /\ l0 <= l0'
  BY <1>1, <1>3
<1> QED  BY <1>1, <1>2, <1>3, <1>4

\* The background thread and the destructor do nothing to the queue.
LEMMA BackgroundKeepsQueue ==
  ASSUME IInv, BackgroundStep \/ Close
  PROVE  QueueInv'
<1>1. /\ op' = op /\ writers' = writers /\ status' = status /\ group' = group /\ seq' = seq
      /\ arrived' = arrived /\ mem' = mem
      /\ lastSequence' = lastSequence /\ logged' = logged /\ synced' = synced
  BY DEF BackgroundStep, BackgroundStart, BackgroundNothing, FlushFirst, FlushDone, WorkFlushDone,
         WorkDone, Slept, Close, clients, tableVars
<1>2. Stored' = Stored
  <2>1. CASE imm' = imm /\ tables' = tables
    BY <2>1, <1>1 DEF Stored
  <2>2. CASE bg.at \in {"flush", "work flush"} /\ Installed
    BY <2>2, <1>1, InstalledLemma DEF IInv, BackgroundOK
  <2> QED  BY <2>1, <2>2 DEF BackgroundStep, BackgroundStart, BackgroundNothing, FlushFirst,
                FlushDone, WorkFlushDone, WorkDone, Slept, Close, tableVars
<1>3. pc' = pc \/ pc' = Awake(pc)
  BY DEF BackgroundStep, BackgroundStart, BackgroundNothing, FlushFirst, FlushDone, WorkFlushDone,
         WorkDone, Slept, Close, clients, Finish, SignalAll
<1>4. pc \in [Client -> PC] /\ QueueInv
  BY DEF IInv, QueueInv, QueueTypes
<1>5. pc' \in [Client -> PC] /\ SamePlaces
  <2>1. CASE pc' = pc
    BY <2>1, <1>4 DEF SamePlaces
  <2>2. CASE pc' = Awake(pc)
    BY <2>2, <1>4, AwakeLemma
  <2> QED  BY <2>1, <2>2, <1>3
<1> QED  BY <1>1, <1>2, <1>4, <1>5, FrameLemma

\* A client leaves the background thread what it was started for.
LEMMA ClientKeepsBackground ==
  ASSUME IInv, NEW c \in Client, ClientStep(c)
  PROVE  (TableTypes /\ BackgroundOK)'
<1>1. /\ mem \subseteq Client /\ tables \subseteq Client /\ (imm = NoTable \/ imm \subseteq Client)
      /\ l0 \in Nat /\ bg \in BgTypes /\ BackgroundOK
  BY DEF IInv, TableTypes, BgTypes
<1>2. CASE UNCHANGED <<mem, tables, imm, l0, bg, manual>>
  BY <1>1, <1>2 DEF TableTypes, BackgroundOK, BgTypes
<1>3. CASE InsertInto(c)
  <2>1. /\ tables' = tables /\ imm' = imm /\ l0' = l0 /\ bg' = bg /\ manual' = manual
        /\ \E d \in Batches(c) : mem' = mem \cup {d}
        /\ pc[c] \in Working
    BY <1>3 DEF InsertInto, background, Working
  <2>2. Batches(c) \subseteq Client
    BY <2>1, WorkLemma DEF IInv
  <2> QED  BY <1>1, <2>1, <2>2 DEF TableTypes, BackgroundOK, BgTypes
<1>4. CASE RoomSwitch(c) /\ ~UNCHANGED <<mem, tables, imm, l0, bg, manual>>
  <2>1. /\ tables' = tables /\ imm = NoTable /\ imm' = mem /\ mem' = {} /\ l0' = l0
        /\ manual' = manual /\ bg' = MaybeSchedule(bg, mem, manual, l0)
    BY <1>4 DEF RoomSwitch, MaySwitch
  <2>2. bg' \in BgTypes /\ (bg' = bg \/ bg'.at = "scheduled")
    BY <1>1, <2>1, ScheduleLemma
  <2> QED  BY <1>1, <2>1, <2>2 DEF TableTypes, BackgroundOK, BgTypes
<1>5. CASE SetManual(c) /\ ~UNCHANGED <<mem, tables, imm, l0, bg, manual>>
  <2>1. /\ tables' = tables /\ imm' = imm /\ mem' = mem /\ l0' = l0
        /\ manual = NoClient /\ manual' = c /\ bg' = MaybeSchedule(bg, imm, c, l0)
    BY <1>5 DEF SetManual, tableVars
  <2>2. bg' \in BgTypes /\ (bg' = bg \/ bg'.at = "scheduled")
    BY <1>1, <2>1, ScheduleLemma
  <2> QED  BY <1>1, <2>1, <2>2 DEF TableTypes, BackgroundOK, BgTypes
<1> QED  BY <1>2, <1>3, <1>4, <1>5 DEF ClientStep, Write, Resume, RoomError, RoomDelay, RoomFound,
           RoomWait, AppendRecord, Sync, CommitGroup, Written, WaitForImm, ManualDone, tableVars,
           background

\* The background thread keeps to it too.
LEMMA BackgroundKeepsBackground ==
  ASSUME IInv, BackgroundStep \/ Close
  PROVE  (TableTypes /\ BackgroundOK)'
<1>1. /\ mem \subseteq Client /\ tables \subseteq Client /\ (imm = NoTable \/ imm \subseteq Client)
      /\ l0 \in Nat /\ bg \in BgTypes /\ BackgroundOK /\ TableTypes
  BY DEF IInv, TableTypes, BgTypes
<1>2. bg.inputs \in Nat /\ bg.manual \in BOOLEAN
  BY <1>1 DEF BgTypes
<1>3. CASE Close
  BY <1>1, <1>3 DEF Close, tableVars, TableTypes, BackgroundOK, BgTypes
<1>4. CASE BackgroundStart
  <2>1. mem' = mem /\ tables' = tables /\ imm' = imm /\ l0' = l0 /\ manual' = manual
    BY <1>4 DEF BackgroundStart, tableVars
  <2>2. CASE imm # NoTable /\ bg' = [bg EXCEPT !.at = "flush"]
    BY <1>1, <2>1, <2>2 DEF TableTypes, BackgroundOK, BgTypes
  <2>3. CASE imm = NoTable /\ bg' = [at |-> "work", inputs |-> l0, manual |-> manual # NoClient]
    <3> DEFINE m == manual # NoClient
    <3>1. m \in BOOLEAN /\ (m => manual # NoClient) /\ bg' = [at |-> "work", inputs |-> l0, manual |-> m]
      BY <2>3
    <3> HIDE DEF m
    <3>2. bg' \in BgTypes /\ bg'.at = "work" /\ bg'.inputs = l0 /\ bg'.manual = m
      BY <1>1, <3>1 DEF BgTypes
    <3>3. bg'.manual => manual # NoClient
      BY <3>1, <3>2
    <3>4. bg'.inputs <= l0'
      BY <1>1, <2>1, <3>2
    <3> QED  BY <1>1, <2>1, <3>2, <3>3, <3>4 DEF TableTypes, BackgroundOK, BgTypes
  <2> QED  BY <1>4, <2>2, <2>3 DEF BackgroundStart
<1>5. CASE BackgroundNothing
  <2>1. mem' = mem /\ tables' = tables /\ imm' = imm /\ l0' = l0 /\ Finish(imm, manual', l0)
    BY <1>5 DEF BackgroundNothing, tableVars
  <2>2. bg' \in BgTypes /\ bg'.at \in {"idle", "scheduled"}
    BY <2>1, FinishLemma
  <2> QED  BY <1>1, <2>1, <2>2 DEF TableTypes, BackgroundOK, BgTypes
<1>6. CASE FlushFirst
  BY <1>1, <1>6 DEF FlushFirst, tableVars, TableTypes, BackgroundOK, BgTypes
<1>7. CASE FlushDone
  <2>1. mem' = mem /\ manual' = manual /\ imm # NoTable
    BY <1>1, <1>7 DEF FlushDone, BackgroundOK
  <2>2. CASE Installed /\ Finish(NoTable, manual, l0')
    <3>1. bg' \in BgTypes /\ bg'.at \in {"idle", "scheduled"}
      BY <2>2, FinishLemma
    <3>2. tables' \subseteq Client /\ imm' = NoTable /\ l0' \in Nat
      BY <1>1, <2>1, <2>2, InstalledLemma
    <3> QED  BY <1>1, <2>1, <3>1, <3>2 DEF TableTypes, BackgroundOK, BgTypes
  <2>3. CASE bg' = [bg EXCEPT !.at = "sleep"] /\ UNCHANGED <<tables, imm, l0>>
    BY <1>1, <2>1, <2>3 DEF TableTypes, BackgroundOK, BgTypes
  <2> QED  BY <1>7, <2>2, <2>3 DEF FlushDone
<1>8. CASE WorkFlushDone
  <2>1. /\ mem' = mem /\ manual' = manual /\ imm # NoTable /\ bg' = [bg EXCEPT !.at = "work"]
        /\ bg.inputs <= l0 /\ (bg.manual => manual # NoClient)
    BY <1>1, <1>8 DEF WorkFlushDone, BackgroundOK
  <2>2. CASE Installed
    <3>1. tables' \subseteq Client /\ imm' = NoTable /\ l0' \in Nat /\ l0 <= l0'
      BY <1>1, <2>1, <2>2, InstalledLemma
    <3>2. bg' \in BgTypes /\ bg'.at = "work" /\ bg'.inputs = bg.inputs /\ bg'.manual = bg.manual
      BY <1>1, <2>1 DEF BgTypes
    <3>3. bg.inputs <= l0'
      BY <1>1, <1>2, <2>1, <3>1
    <3> QED  BY <1>1, <2>1, <3>1, <3>2, <3>3 DEF TableTypes, BackgroundOK, BgTypes
  <2>3. CASE UNCHANGED <<tables, imm, l0>>
    BY <1>1, <2>1, <2>3 DEF TableTypes, BackgroundOK, BgTypes
  <2> QED  BY <1>8, <2>2, <2>3 DEF WorkFlushDone
<1>9. CASE WorkDone
  <2>1. mem' = mem /\ tables' = tables /\ imm' = imm /\ bg.inputs <= l0
    BY <1>1, <1>9 DEF WorkDone, BackgroundOK, tableVars
  <2>2. CASE l0' = l0 - bg.inputs /\ Finish(imm, manual', l0')
    <3>1. bg' \in BgTypes /\ bg'.at \in {"idle", "scheduled"}
      BY <2>2, FinishLemma
    <3>2. l0' \in Nat
      BY <1>1, <1>2, <2>1, <2>2
    <3> QED  BY <1>1, <2>1, <3>1, <3>2 DEF TableTypes, BackgroundOK, BgTypes
  <2>3. CASE bg' = [bg EXCEPT !.at = "sleep"] /\ l0' = l0
    BY <1>1, <2>1, <2>3 DEF TableTypes, BackgroundOK, BgTypes
  <2> QED  BY <1>9, <2>2, <2>3 DEF WorkDone
<1>10. CASE Slept
  <2>1. /\ mem' = mem /\ tables' = tables /\ imm' = imm /\ l0' = l0
        /\ Finish(imm, manual, l0)
    BY <1>10 DEF Slept, tableVars
  <2>2. bg' \in BgTypes /\ bg'.at \in {"idle", "scheduled"}
    BY <2>1, FinishLemma
  <2> QED  BY <1>1, <2>1, <2>2 DEF TableTypes, BackgroundOK, BgTypes
<1> QED  BY <1>3, <1>4, <1>5, <1>6, <1>7, <1>8, <1>9, <1>10 DEF BackgroundStep

--------------------------------------------------------------------------------
\* The theorems.

\* A database that was just opened has an empty queue.
LEMMA InitLemma == Init => IInv
<1> SUFFICES ASSUME Init PROVE IInv
  OBVIOUS
<1>1. /\ op \in Calls /\ pc = [c \in Client |-> "start"] /\ writers = <<>> /\ arrived = <<>>
      /\ status = [c \in Client |-> "none"] /\ group = [c \in Client |-> <<>>]
      /\ seq = [c \in Client |-> 0] /\ lastSequence = 0 /\ mem = {} /\ imm = NoTable
      /\ tables = {} /\ l0 = 0 /\ bg = Idle
  BY DEF Init
<1>2. \A c \in Client : pc[c] = "start" /\ status[c] = "none" /\ seq[c] = 0
  BY <1>1
<1>3. QueueTypes
  <2>1. <<>> \in Seq(Client) /\ 0 \in Nat /\ "start" \in PC
    BY DEF PC
  <2>2. pc \in [Client -> PC] /\ status \in [Client -> {"none", "ok", "error"}]
    BY <1>1, <2>1
  <2>3. group \in [Client -> Seq(Client)] /\ seq \in [Client -> Nat]
    BY <1>1, <2>1
  <2> QED  BY <1>1, <2>1, <2>2, <2>3 DEF QueueTypes
<1>4. TableTypes /\ BackgroundOK
  BY <1>1 DEF TableTypes, BackgroundOK, Idle
<1>5. Stored = {} /\ Len(writers) = 0 /\ Len(arrived) = 0
  BY <1>1 DEF Stored, NoTable
<1>6. \A c \in Client : pc[c] \notin Leading \cup {"queued", "awake"} /\ pc[c] \notin Working
  BY <1>2 DEF Leading, Working
<1>7. ToSet(writers) = {}
  <2>1. writers \in Seq(Client)
    BY <1>3 DEF QueueTypes
  <2>2. \A d : d \in ToSet(writers) <=> \E i \in 1..Len(writers) : writers[i] = d
    BY <2>1, ToSetLemma
  <2>3. 1..Len(writers) = {}
    BY <1>5
  <2> QED  BY <2>2, <2>3
<1>8. QueueOK
  BY <1>2, <1>6, <1>7 DEF QueueOK, InQueue
<1>9. ArrivalOK
  BY <1>5 DEF ArrivalOK
<1>10. GroupOK
  BY <1>6 DEF GroupOK
<1>11. NumberOK
  BY <1>1, <1>2, <1>5 DEF NumberOK
<1>12. StoreOK
  BY <1>2, <1>5 DEF StoreOK
<1>13. LogOK
  BY <1>2 DEF LogOK
<1> QED  BY <1>3, <1>4, <1>8, <1>9, <1>10, <1>11, <1>12, <1>13 DEF IInv, QueueInv

\* A step in which nothing changes.
LEMMA StutterLemma ==
  ASSUME IInv, UNCHANGED vars
  PROVE  IInv'
<1>1. /\ UNCHANGED <<op, writers, status, group, seq, lastSequence, logged, synced, arrived>>
      /\ pc' = pc /\ mem' = mem /\ tables' = tables /\ imm' = imm /\ l0' = l0 /\ bg' = bg
      /\ manual' = manual
  BY DEF vars, clients, tableVars, background
<1>2. Stored' = Stored /\ SamePlaces /\ pc' \in [Client -> PC]
  BY <1>1 DEF Stored, SamePlaces, IInv, QueueInv, QueueTypes
<1>3. QueueInv'
  BY <1>1, <1>2, FrameLemma DEF IInv
<1>4. (TableTypes /\ BackgroundOK)'
  BY <1>1 DEF IInv, TableTypes, BackgroundOK
<1> QED  BY <1>3, <1>4 DEF IInv

\* Every step of every thread keeps the invariant.
LEMMA StepLemma == IInv /\ [Next]_vars => IInv'
<1> SUFFICES ASSUME IInv, [Next]_vars PROVE IInv'
  OBVIOUS
<1>1. ASSUME NEW c \in Client, ClientStep(c)  PROVE IInv'
  <2> QueueInv /\ TableTypes
    BY DEF IInv
  <2>1. CASE Write(c)  BY <2>1, WriteLemma, <1>1, ClientKeepsBackground DEF IInv
  <2>2. CASE Resume(c)  BY <2>2, ResumeLemma, <1>1, ClientKeepsBackground DEF IInv
  <2>3. CASE RoomError(c)  BY <2>3, RoomErrorLemma, <1>1, ClientKeepsBackground DEF IInv
  <2>4. CASE RoomFound(c)  BY <2>4, RoomFoundLemma, <1>1, ClientKeepsBackground DEF IInv
  <2>5. CASE RoomSwitch(c)  BY <2>5, RoomSwitchLemma, <1>1, ClientKeepsBackground DEF IInv
  <2>6. CASE AppendRecord(c)  BY <2>6, AppendRecordLemma, <1>1, ClientKeepsBackground DEF IInv
  <2>7. CASE Sync(c)  BY <2>7, SyncLemma, <1>1, ClientKeepsBackground DEF IInv
  <2>8. CASE InsertInto(c)  BY <2>8, InsertIntoLemma, <1>1, ClientKeepsBackground DEF IInv
  <2>9. CASE CommitGroup(c)  BY <2>9, CommitGroupLemma, <1>1, ClientKeepsBackground DEF IInv
  <2>10. CASE RoomDelay(c) \/ RoomWait(c) \/ Written(c) \/ WaitForImm(c) \/ SetManual(c) \/ ManualDone(c)
    BY <2>10, ElsewhereLemma, <1>1, ClientKeepsBackground DEF IInv
  <2> QED  BY <1>1, <2>1, <2>2, <2>3, <2>4, <2>5, <2>6, <2>7, <2>8, <2>9, <2>10 DEF ClientStep
<1>2. CASE BackgroundStep \/ Close
  BY <1>2, BackgroundKeepsQueue, BackgroundKeepsBackground DEF IInv
<1>3. CASE UNCHANGED vars
  BY <1>3, StutterLemma
<1> QED  BY <1>1, <1>2, <1>3 DEF Next, Terminated

\* The queue, the group that is being written, the sequence numbers, the
\* memtables and the log fit together at every moment, whatever the threads of
\* DBImpl do: only the front of writers_ works, its group heads the queue and
\* is numbered from last_sequence + 1, and what is stored was asked for.
THEOREM QueueConsistent == Spec => []IInv
<1>1. Init => IInv
  BY InitLemma
<1>2. IInv /\ [Next]_vars => IInv'
  BY StepLemma
<1> QED  BY <1>1, <1>2, PTL DEF Spec

\* The variables have their shapes.
THEOREM TypeCorrect == Spec => []TypeOK
<1>1. IInv => TypeOK
  BY DEF IInv, QueueInv, TypeOK
<1> QED  BY <1>1, QueueConsistent, PTL

\* What BackgroundCompaction looked at before it let go of the mutex is still
\* there when it has it again: the memtable it flushes, the level-0 files it
\* picked, the manual compaction it runs.
THEOREM BackgroundKeepsItsWork == Spec => []BackgroundOK
<1>1. IInv => BackgroundOK
  BY DEF IInv
<1> QED  BY <1>1, QueueConsistent, PTL

\* A Write that returned success can be read, and one that failed cannot.
THEOREM WritesAreVisible == Spec => []AcknowledgedIsVisible
<1>1. IInv => AcknowledgedIsVisible
  <2> SUFFICES ASSUME IInv, NEW c \in Client, op[c].batch
               PROVE  /\ status[c] = "ok" => c \in Stored /\ seq[c] <= lastSequence
                      /\ status[c] = "error" => c \notin Stored
    BY DEF AcknowledgedIsVisible
  <2>1. /\ status[c] = "ok" => c \in Stored
        /\ status[c] = "error" => c \notin Stored
    BY DEF IInv, QueueInv, StoreOK
  <2>2. ASSUME status[c] = "ok"  PROVE seq[c] <= lastSequence
    <3>1. seq[c] \in Nat /\ lastSequence \in Nat
      BY DEF IInv, QueueInv, QueueTypes
    <3>2. ASSUME seq[c] > lastSequence  PROVE FALSE
      <4>1. PICK f \in Client : Committing(f, c)
        BY <3>2 DEF IInv, QueueInv, NumberOK
      <4>2. pc[f] \in Working /\ c \in Batches(f)
        BY <4>1 DEF Committing
      <4>3. status[c] = "none"
        BY <4>2, WorkLemma DEF IInv
      <4> QED  BY <4>3, <2>2
    <3> QED  BY <3>1, <3>2
  <2> QED  BY <2>1, <2>2
<1> QED  BY <1>1, QueueConsistent, PTL

\* A reader never sees a part of a group that is still being written.
THEOREM GroupsAreAtomic == Spec => []NothingEarly
<1>1. IInv => NothingEarly
  <2> SUFFICES ASSUME IInv, NEW c \in Stored, status[c] = "none"
               PROVE  seq[c] > lastSequence
    BY DEF NothingEarly
  <2>1. c \in Client
    BY DEF IInv, TableTypes, Stored
  <2>2. PICK f \in Client : Committing(f, c)
    BY <2>1 DEF IInv, QueueInv, StoreOK
  <2>3. pc[f] \in Working /\ c \in ToSet(group[f]) /\ op[c].batch /\ group[f] \in Seq(Client)
    BY <2>2 DEF Committing, Batches, IInv, QueueInv, QueueTypes
  <2>4. PICK i \in 1..Len(group[f]) : group[f][i] = c
    BY <2>3, ToSetLemma
  <2>5. seq[c] = lastSequence + CountIn(op, group[f], i) /\ lastSequence \in Nat
    BY <2>3, <2>4 DEF IInv, QueueInv, GroupOK, QueueTypes
  <2>6. i \in Nat /\ 0 \in Nat /\ 0 < i
    BY <2>3, <2>4
  <2>7. /\ CountIn(op, group[f], 0) \in Nat /\ CountIn(op, group[f], i) \in Nat
        /\ CountIn(op, group[f], 0) < CountIn(op, group[f], i)
    BY <2>3, <2>4, <2>6, CountLemma
  <2> QED  BY <2>5, <2>7
<1> QED  BY <1>1, QueueConsistent, PTL

\* Sequence numbers follow the order in which the calls of Write queued up.
THEOREM NumbersFollowArrival == Spec => []ArrivalOrder
<1>1. IInv => ArrivalOrder
  <2> SUFFICES ASSUME IInv, NEW i \in DOMAIN arrived, NEW j \in DOMAIN arrived, i < j,
                      seq[arrived[i]] # 0, seq[arrived[j]] # 0
               PROVE  seq[arrived[i]] < seq[arrived[j]]
    BY DEF ArrivalOrder
  <2>1. DOMAIN arrived = 1..Len(arrived)
    BY DEF IInv, QueueInv, QueueTypes
  <2> QED  BY <2>1 DEF IInv, QueueInv, NumberOK
<1> QED  BY <1>1, QueueConsistent, PTL

\* If no call asks for a sync of a log it does not write to, a Write with
\* sync that returned success was synced to the log, also when another writer
\* committed it.
THEOREM SyncsAreKept ==
  ASSUME \A o \in Calls : SyncsAreLogged(o)
  PROVE  Spec => []SyncedWhenAcknowledged
<1>1. IInv => SyncedWhenAcknowledged
  <2> SUFFICES ASSUME IInv, NEW c \in Client,
                      op[c].batch, op[c].sync, op[c].writeahead, status[c] = "ok"
               PROVE  c \in synced
    BY DEF SyncedWhenAcknowledged
  <2>1. SyncsAreLogged(op)
    BY DEF IInv, QueueInv, QueueTypes
  <2> QED  BY <2>1 DEF IInv, QueueInv, LogOK
<1> QED  BY <1>1, QueueConsistent, PTL
================================================================================
