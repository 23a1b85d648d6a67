----------------------------- MODULE FsBenchProofs -----------------------------
(***************************************************************************)
(* Proofs about the threads of the two benchmark programs, for any number  *)
(* of benchmark threads and any list of benchmarks.                        *)
(***************************************************************************)
EXTENDS FsBench, FiniteSetTheorems, TLAPS

WorkerPlaces == {"unborn", "enter", "gate", "method", "put", "finish", "leave", "gone"}
MonitorPlaces == {"unborn", "enter", "gate", "watch", "sample", "last", "load", "store", "signal", "gone"}
CallerPlaces == {"create", "gather", "open", "collect", "block", "unlock", "report", "returned", "exit"}

\* A benchmark thread that has counted itself done; the caller has seen that all
\* have.
Finished == {"leave", "gone"}
Over == {"unlock", "report", "returned", "exit"}

\* The threads that num_initialized and num_done have counted.
Arrived == {t \in Started : pc[t] \notin {"unborn", "enter"}}
DoneWorkers == {w \in Worker : pc[w] \in Finished}

\* The shapes of the variables.
TypeOK ==
  /\ job \in Jobs
  /\ mu \in AllThreads \cup {Nobody} /\ waiting \subseteq AllThreads
  /\ num_initialized \in Nat /\ num_done \in Nat /\ loaded \in Nat /\ start \in BOOLEAN
  /\ DOMAIN work = {"todo", "at", "ops", "store", "order", "reported"}
  /\ work.todo \in Seq(STRING) /\ work.todo # <<>> /\ Len(work.todo) <= Len(job.benchmarks)

PlacesOK ==
  /\ pc = [t \in AllThreads |-> pc[t]]
  /\ \A t \in Threads : pc[t] \in WorkerPlaces
  /\ pc[Monitor] \in MonitorPlaces /\ pc[Caller] \in CallerPlaces
  /\ \A t \in Threads \cup {Monitor} : t \notin Started => pc[t] = "unborn"

\* Who is in a critical section holds the mutex or comes back from Wait.
LockOK ==
  /\ \A t \in Threads : pc[t] = "leave" => mu = t
  /\ pc[Caller] \in {"open", "block", "unlock"} => mu = Caller
  /\ \A t \in Threads \cup {Monitor} : mu = t => pc[t] \in {"gate", "leave"}
  /\ mu = Caller => pc[Caller] \in {"gather", "open", "collect", "block", "unlock"}
  /\ \A t \in waiting : mu # t /\ pc[t] \in InSection

\* Nobody passes the barrier before the caller opens it, and it does so when
\* everyone is there.
GateOK ==
  /\ start <=> pc[Caller] \notin {"create", "gather", "open"}
  /\ ~start => \A t \in Started : pc[t] \in {"unborn", "enter", "gate"}
  /\ pc[Caller] # "create" => \A t \in Started : pc[t] # "unborn"
  /\ pc[Caller] \notin {"create", "gather"} => \A t \in Started : pc[t] \notin {"unborn", "enter"}
  /\ num_initialized = Cardinality(Arrived)

\* The count is exact although the monitor thread adds to it without the
\* mutex: by then every other thread has done so.
DoneOK ==
  /\ num_done = Cardinality(DoneWorkers) + (IF pc[Monitor] \in {"signal", "gone"} THEN 1 ELSE 0)
  /\ pc[Monitor] \in {"last", "load", "store", "signal", "gone"} =>
       \A w \in Worker : pc[w] \in Finished
  /\ pc[Monitor] = "store" => loaded = num_done
  /\ pc[Caller] \in Over => /\ \A w \in Worker : pc[w] = "gone"
                            /\ Monitored => pc[Monitor] \in {"signal", "gone"}

\* The caller, once it has waited, is woken only when all is done and the monitor
\* thread has signalled; before, it holds the mutex, without which no thread
\* counts itself done.
SignalOK == ~job.spurious =>
  /\ pc[Caller] = "block" => \A w \in Worker : pc[w] \notin Finished
  /\ pc[Caller] = "collect" /\ Caller \notin waiting =>
       \/ mu = Caller /\ \A w \in Worker : pc[w] \notin Finished
       \/ /\ \A w \in Worker : pc[w] \in Finished
          /\ Monitored => pc[Monitor] = "gone"
  /\ pc[Caller] \in Over /\ Monitored => pc[Monitor] = "gone"

\* Who waits will be signalled: a thread at the barrier by the caller, the caller
\* by a thread that has not come to the barrier, or by the last one to be done.
NoLostWakeup == ~job.spurious =>
  /\ \A t \in waiting \ {Caller} : ~start
  /\ Caller \in waiting /\ pc[Caller] = "gather" => \E t \in Started : pc[t] = "enter"
  /\ Caller \in waiting /\ pc[Caller] = "collect" =>
       IF Monitored THEN pc[Monitor] # "gone" ELSE \E w \in Worker : pc[w] \notin Finished

IInv == TypeOK /\ PlacesOK /\ LockOK /\ GateOK /\ DoneOK /\ SignalOK /\ NoLostWakeup

--------------------------------------------------------------------------------
\* The threads of a benchmark.

\* The names of threads are different.
LEMMA NamesLemma ==
  /\ Threads \subseteq Nat /\ Monitor \notin Threads /\ Caller \notin Threads /\ Nobody \notin Threads
  /\ Monitor # Caller /\ Nobody # Monitor /\ Nobody # Caller
  /\ Monitor \in AllThreads /\ Caller \in AllThreads /\ Threads \subseteq AllThreads
  /\ Nobody \notin AllThreads
<1>1. Threads \subseteq Nat
  BY ThreadAssumption DEF Threads
<1>2. Monitor \notin Nat /\ Caller \notin Nat /\ Nobody \notin Nat
  BY ThreadAssumption
<1>3. Monitor # Caller /\ Nobody # Monitor /\ Nobody # Caller
  BY ThreadAssumption
<1> QED  BY <1>1, <1>2, <1>3 DEF AllThreads

\* total is the number of the threads that are started, one of which is a benchmark
\* thread.
LEMMA StartedLemma ==
  ASSUME TypeOK
  PROVE  /\ n \in Nat /\ n > 0 /\ 0 \in Worker /\ total \in Nat
         /\ Worker \subseteq Threads /\ Started \subseteq Threads \cup {Monitor}
         /\ Worker \subseteq Started /\ (Monitor \in Started <=> Monitored)
         /\ \A t \in Started : t = Monitor \/ t \in Worker
         /\ IsFiniteSet(Worker) /\ Cardinality(Worker) = n
         /\ IsFiniteSet(Started) /\ Cardinality(Started) = total
<1>1. job \in Jobs /\ job.threads \in Nat /\ job.threads > 0
  BY ThreadAssumption DEF TypeOK
<1>2. n \in Nat /\ n > 0 /\ n <= job.threads + 1
  BY <1>1 DEF n
<1> HIDE DEF n
<1>3. 0 \in Worker /\ Worker \subseteq Threads
  <2>1. Worker \subseteq 0 .. job.threads /\ 0 \in Worker
    BY <1>1, <1>2 DEF Worker
  <2> QED  BY <2>1, <1>1 DEF Threads
<1>4. IsFiniteSet(Worker) /\ Cardinality(Worker) = n
  <2>1. 0 \in Int /\ n - 1 \in Int /\ n - 1 - 0 + 1 = n /\ ~(0 > n - 1)
    BY <1>2
  <2> QED  BY <2>1, FS_Interval DEF Worker
<1>5. Monitor \notin Worker
  BY <1>3, NamesLemma
<1>6. Started = Worker \cup (IF Monitored THEN {Monitor} ELSE {})
  BY DEF Started
<1>7. CASE Monitored
  <2>1. Started = Worker \cup {Monitor} /\ total = n + 1
    BY <1>6, <1>7 DEF total
  <2>2. IsFiniteSet(Started) /\ Cardinality(Started) = n + 1
    BY <2>1, <1>4, <1>5, FS_AddElement
  <2> QED  BY <1>2, <1>3, <1>4, <1>5, <1>7, <2>1, <2>2
<1>8. CASE ~Monitored
  <2>1. Started = Worker /\ total = n
    BY <1>6, <1>8 DEF total
  <2> QED  BY <1>2, <1>3, <1>4, <1>5, <1>8, <2>1
<1> QED  BY <1>7, <1>8

\* A step within a benchmark changes none of that.
LEMMA SameBenchmark ==
  ASSUME job' = job, work'.todo = work.todo
  PROVE  /\ Worker' = Worker /\ Started' = Started /\ total' = total /\ n' = n
         /\ Monitored' <=> Monitored
<1>1. bench' = bench
  BY DEF bench
<1>2. n' = n
  BY <1>1 DEF n
<1>3. Monitored' <=> Monitored
  BY DEF Monitored
<1> QED  BY <1>2, <1>3 DEF Worker, Started, total

\* All benchmark threads are in a set of them if their number is that of the set.
LEMMA SubsetLemma ==
  ASSUME TypeOK, NEW S, S \subseteq Worker
  PROVE  IsFiniteSet(S) /\ Cardinality(S) \in Nat /\ Cardinality(S) <= n
         /\ (Cardinality(S) = n <=> S = Worker)
<1>1. IsFiniteSet(Worker) /\ Cardinality(Worker) = n /\ S \in SUBSET Worker
  BY StartedLemma
<1>2. IsFiniteSet(S) /\ Cardinality(S) <= n /\ (Cardinality(S) = n => S = Worker)
  BY <1>1, FS_Subset
<1>3. Cardinality(S) \in Nat
  BY <1>2, FS_CardinalityType
<1> QED  BY <1>1, <1>2, <1>3

\* num_initialized and num_done as counts of sets.
LEMMA CountsLemma ==
  ASSUME TypeOK
  PROVE  /\ IsFiniteSet(Arrived) /\ Cardinality(Arrived) \in Nat
         /\ Cardinality(Arrived) >= total => \A t \in Started : pc[t] \notin {"unborn", "enter"}
         /\ IsFiniteSet(DoneWorkers) /\ Cardinality(DoneWorkers) \in Nat
         /\ Cardinality(DoneWorkers) <= n
         /\ Cardinality(DoneWorkers) = n <=> \A w \in Worker : pc[w] \in Finished
<1>1. /\ IsFiniteSet(Worker) /\ Cardinality(Worker) = n /\ n \in Nat
      /\ IsFiniteSet(Started) /\ Cardinality(Started) = total /\ total \in Nat
  BY StartedLemma
<1>2. Arrived \in SUBSET Started /\ DoneWorkers \in SUBSET Worker
  BY DEF Arrived, DoneWorkers
<1>3. /\ IsFiniteSet(Arrived) /\ Cardinality(Arrived) <= total
      /\ Cardinality(Arrived) = total => Arrived = Started
      /\ IsFiniteSet(DoneWorkers) /\ Cardinality(DoneWorkers) <= n
      /\ Cardinality(DoneWorkers) = n => DoneWorkers = Worker
  BY <1>1, <1>2, FS_Subset
<1>4. Cardinality(Arrived) \in Nat /\ Cardinality(DoneWorkers) \in Nat
  BY <1>3, FS_CardinalityType
<1>5. Arrived = Started => \A t \in Started : pc[t] \notin {"unborn", "enter"}
  BY DEF Arrived
<1>6. DoneWorkers = Worker <=> \A w \in Worker : pc[w] \in Finished
  BY DEF DoneWorkers
<1>7. Cardinality(Arrived) >= total => Cardinality(Arrived) = total
  BY <1>1, <1>3, <1>4
<1> QED  BY <1>1, <1>3, <1>4, <1>5, <1>6, <1>7

--------------------------------------------------------------------------------
\* Steps that only move one thread.

\* The places between which no count, no lock and no wait tells a difference.
Apart(x, y) ==
  \/ x \in {"method", "put"} /\ y \in {"method", "put", "finish"}
  \/ x = "watch" /\ y = "sample"
  \/ x = "sample" /\ y = "watch"
  \/ x = "last" /\ y = "load"

\* A step that moves a thread so, and changes none of the shared state.
LEMMA MoveLemma ==
  ASSUME IInv, NEW t \in Threads \cup {Monitor}, NEW x, Apart(pc[t], x),
         pc' = [pc EXCEPT ![t] = x],
         UNCHANGED <<mu, waiting, num_initialized, num_done, start, loaded, job>>,
         DOMAIN work' = DOMAIN work, work'.todo = work.todo
  PROVE  IInv'
<1>1. /\ mu' = mu /\ waiting' = waiting /\ num_initialized' = num_initialized
      /\ num_done' = num_done /\ start' = start /\ loaded' = loaded /\ job' = job
  OBVIOUS
<1>2. Worker' = Worker /\ Started' = Started /\ (Monitored' <=> Monitored)
  BY SameBenchmark
<1>3. /\ TypeOK /\ PlacesOK /\ LockOK /\ GateOK /\ DoneOK /\ SignalOK /\ NoLostWakeup
  BY DEF IInv
<1>4. t # Caller /\ t \in AllThreads /\ Monitor # Caller /\ Monitor \notin Threads
  BY NamesLemma
<1>5. /\ Worker \subseteq Threads /\ Started \subseteq Threads \cup {Monitor}
      /\ Worker \subseteq Started
  BY <1>3, StartedLemma
<1>6. /\ pc' = [s \in AllThreads |-> pc'[s]]
      /\ \A s \in AllThreads : pc'[s] = IF s = t THEN x ELSE pc[s]
  BY <1>3, <1>4 DEF PlacesOK
<1>7. pc'[Caller] = pc[Caller] /\ pc'[t] = x /\ \A s \in Threads \cup {Monitor} : s # t => pc'[s] = pc[s]
  BY <1>4, <1>6, NamesLemma
<1>8. (t \in Threads => pc[t] \in {"method", "put"} /\ x \in {"method", "put", "finish"})
      /\ (t = Monitor => \/ pc[t] = "watch" /\ x = "sample"
                         \/ pc[t] = "sample" /\ x = "watch"
                         \/ pc[t] = "last" /\ x = "load")
  BY <1>3 DEF Apart, PlacesOK, WorkerPlaces, MonitorPlaces
<1>9. TypeOK'
  BY <1>1, <1>3 DEF TypeOK
<1>10. PlacesOK'
  BY <1>2, <1>3, <1>4, <1>6, <1>7, <1>8 DEF PlacesOK, WorkerPlaces, MonitorPlaces
<1>11. LockOK'
  BY <1>1, <1>3, <1>4, <1>7, <1>8 DEF LockOK, InSection
<1>12. Arrived' = Arrived /\ DoneWorkers' = DoneWorkers
  BY <1>2, <1>4, <1>5, <1>7, <1>8 DEF Arrived, DoneWorkers, Finished
<1>13. GateOK'
  BY <1>1, <1>2, <1>3, <1>5, <1>7, <1>8, <1>12 DEF GateOK
<1>14. DoneOK'
  BY <1>1, <1>2, <1>3, <1>4, <1>5, <1>7, <1>8, <1>12 DEF DoneOK, Finished
<1>15. SignalOK'
  BY <1>1, <1>2, <1>3, <1>4, <1>5, <1>7, <1>8 DEF SignalOK, Finished
<1>16. NoLostWakeup'
  BY <1>1, <1>2, <1>3, <1>4, <1>5, <1>7, <1>8 DEF NoLostWakeup, Finished
<1> QED  BY <1>9, <1>10, <1>11, <1>13, <1>14, <1>15, <1>16 DEF IInv

--------------------------------------------------------------------------------
\* The benchmark threads.

\* One call of a method, or its end.
LEMMA MethodLemma ==
  ASSUME IInv, NEW t \in Threads, RunMethod(t)
  PROVE  IInv'
<1>1. /\ UNCHANGED <<mu, waiting, num_initialized, num_done, start, loaded, job>>
      /\ pc[t] \in {"method", "put"}
  BY DEF RunMethod, MakeCall, EndMethod, TestOthers, PutAny
<1>2. PICK x \in {"method", "put", "finish"} : pc' = [pc EXCEPT ![t] = x]
  <2>1. pc[t] = "put" \/ pc[t] = "method"
    BY <1>1
  <2>2. pc = [s \in AllThreads |-> pc[s]] /\ t \in AllThreads
    BY NamesLemma DEF IInv, PlacesOK
  <2>3. CASE MakeCall(t)
    <3>1. \/ \E y \in {"method", "finish"} : pc' = [pc EXCEPT ![t] = y]
          \/ pc' = pc /\ pc[t] = "method"
      BY <2>3 DEF MakeCall, Goto
    <3>2. pc[t] = "method" => pc = [pc EXCEPT ![t] = "method"]
      BY <2>2
    <3> QED  BY <3>1, <3>2
  <2> QED  BY <2>3 DEF RunMethod, EndMethod, TestOthers, PutAny, Goto
<1>3. DOMAIN work' = DOMAIN work /\ work'.todo = work.todo
  <2>1. "todo" \in DOMAIN work
    BY DEF IInv, TypeOK
  <2>2. CASE MakeCall(t)
    BY <2>1, <2>2 DEF MakeCall
  <2>3. CASE PutAny(t)
    BY <2>1, <2>3 DEF PutAny
  <2> QED  BY <2>2, <2>3 DEF RunMethod, EndMethod, TestOthers
<1>4. Apart(pc[t], x)
  BY <1>1, <1>2 DEF Apart
<1> QED  BY <1>1, <1>2, <1>3, <1>4, MoveLemma

--------------------------------------------------------------------------------
\* The mutex and the barrier.

\* What every step of a thread within a benchmark may use.
LEMMA FactsLemma ==
  ASSUME IInv, NEW t \in AllThreads, NEW x, pc' = [pc EXCEPT ![t] = x], job' = job,
         work'.todo = work.todo
  PROVE  /\ Worker' = Worker /\ Started' = Started /\ total' = total /\ (Monitored' <=> Monitored)
         /\ pc' = [s \in AllThreads |-> pc'[s]] /\ pc'[t] = x
         /\ \A s \in AllThreads : s # t => pc'[s] = pc[s]
         /\ Worker \subseteq Threads /\ Started \subseteq Threads \cup {Monitor} /\ Worker \subseteq Started
         /\ 0 \in Worker /\ (Monitor \in Started <=> Monitored)
         /\ \A s \in Started : s = Monitor \/ s \in Worker
         /\ Monitor \notin Threads /\ Caller \notin Threads /\ Monitor # Caller
         /\ Monitor \in AllThreads /\ Caller \in AllThreads /\ Threads \subseteq AllThreads
         /\ Nobody \notin AllThreads
<1>1. TypeOK /\ PlacesOK
  BY DEF IInv
<1>2. Worker' = Worker /\ Started' = Started /\ total' = total /\ (Monitored' <=> Monitored)
  BY SameBenchmark
<1>3. /\ pc' = [s \in AllThreads |-> pc'[s]] /\ pc'[t] = x
      /\ \A s \in AllThreads : s # t => pc'[s] = pc[s]
  BY <1>1 DEF PlacesOK
<1>4. /\ Worker \subseteq Threads /\ Started \subseteq Threads \cup {Monitor} /\ Worker \subseteq Started
      /\ 0 \in Worker /\ (Monitor \in Started <=> Monitored)
      /\ \A s \in Started : s = Monitor \/ s \in Worker
  BY <1>1, StartedLemma
<1> QED  BY <1>2, <1>3, <1>4, NamesLemma

\* A thread comes to the barrier.
LEMMA EnterLemma ==
  ASSUME IInv, NEW t \in Threads \cup {Monitor}, Enter(t)
  PROVE  IInv'
<1>1. /\ pc[t] = "enter" /\ mu = Nobody /\ mu' = t /\ num_initialized' = num_initialized + 1
      /\ waiting' = waiting \/ (num_initialized' >= total /\ waiting' = {})
      /\ num_initialized' >= total => waiting' = {}
      /\ pc' = [pc EXCEPT ![t] = "gate"]
      /\ num_done' = num_done /\ start' = start /\ loaded' = loaded /\ work' = work /\ job' = job
  BY DEF Enter, Lock, SignalAll, Goto
<1>2. t \in AllThreads /\ t # Caller
  BY NamesLemma
<1>3. /\ Worker' = Worker /\ Started' = Started /\ total' = total /\ (Monitored' <=> Monitored)
      /\ pc' = [s \in AllThreads |-> pc'[s]] /\ pc'[t] = "gate"
      /\ \A s \in AllThreads : s # t => pc'[s] = pc[s]
      /\ Worker \subseteq Threads /\ Started \subseteq Threads \cup {Monitor} /\ Worker \subseteq Started
      /\ Monitor \notin Threads /\ Caller \notin Threads /\ Monitor # Caller
      /\ Monitor \in AllThreads /\ Caller \in AllThreads /\ Threads \subseteq AllThreads
      /\ Nobody \notin AllThreads
  BY <1>1, <1>2, FactsLemma
<1>4. TypeOK /\ PlacesOK /\ LockOK /\ GateOK /\ DoneOK /\ SignalOK /\ NoLostWakeup
  BY DEF IInv
<1>5. t \in Started /\ pc[Caller] \in {"create", "gather"} /\ ~start
  BY <1>1, <1>2, <1>4 DEF PlacesOK, GateOK
<1>6. TypeOK'
  BY <1>1, <1>2, <1>4 DEF TypeOK
<1>7. PlacesOK'
  BY <1>3, <1>2, <1>4, <1>5 DEF PlacesOK, WorkerPlaces, MonitorPlaces
<1>8. LockOK'
  BY <1>1, <1>2, <1>3, <1>4, <1>5 DEF LockOK, InSection, TypeOK
<1>9. DoneWorkers' = DoneWorkers
  BY <1>1, <1>3 DEF DoneWorkers, Finished
<1>10. num_initialized' = Cardinality(Arrived')
  <2>1. Arrived' = Arrived \cup {t} /\ t \notin Arrived
    BY <1>1, <1>2, <1>3, <1>5 DEF Arrived
  <2>2. IsFiniteSet(Arrived)
    BY <1>4, CountsLemma
  <2>3. Cardinality(Arrived') = Cardinality(Arrived) + 1
    BY <2>1, <2>2, FS_AddElement
  <2> QED  BY <2>3, <1>1, <1>4 DEF GateOK
<1>11. GateOK'
  BY <1>1, <1>2, <1>3, <1>4, <1>5, <1>10 DEF GateOK
<1>12. DoneOK'
  BY <1>1, <1>2, <1>3, <1>4, <1>5, <1>9 DEF DoneOK, Over, Finished
<1>13. SignalOK'
  BY <1>1, <1>2, <1>3, <1>5 DEF SignalOK, Over
<1>14. NoLostWakeup'
  <2>1. ASSUME Caller \in waiting', pc[Caller] = "gather"  PROVE \E s \in Started : pc'[s] = "enter"
    <3>1. num_initialized' < total /\ Cardinality(Arrived') < total
      <4>1. num_initialized' \in Nat /\ total \in Nat
        BY <1>4, <1>6, StartedLemma DEF TypeOK
      <4> QED  BY <4>1, <2>1, <1>1, <1>10
    <3>2. Arrived' # Started
      BY <3>1, <1>4, StartedLemma
    <3>3. PICK s \in Started : pc'[s] \in {"unborn", "enter"}
      BY <3>2, <1>3 DEF Arrived
    <3>4. pc'[s] # "unborn"
      BY <2>1, <1>2, <1>3, <1>11 DEF GateOK
    <3> QED  BY <3>3, <3>4
  <2> QED  BY <2>1, <1>1, <1>2, <1>3, <1>5 DEF NoLostWakeup
<1> QED  BY <1>6, <1>7, <1>8, <1>11, <1>12, <1>13, <1>14 DEF IInv

\* It passes it, or waits.
LEMMA PassGateLemma ==
  ASSUME IInv, NEW t \in Threads \cup {Monitor}, PassGate(t)
  PROVE  IInv'
<1> DEFINE x == IF start THEN Passed(t) ELSE "gate"
<1>1. t \in AllThreads /\ t # Caller
  BY NamesLemma
<1>2. /\ pc[t] = "gate" /\ mu = t /\ mu' = Nobody
      /\ start => waiting' = waiting /\ pc' = [pc EXCEPT ![t] = Passed(t)]
      /\ ~start => waiting' = waiting \cup {t} /\ pc' = pc
      /\ num_initialized' = num_initialized /\ num_done' = num_done /\ start' = start
      /\ loaded' = loaded /\ work' = work /\ job' = job
  BY DEF PassGate, Unlock, Wait, Goto
<1>3. pc' = [pc EXCEPT ![t] = x]
  <2>1. pc = [s \in AllThreads |-> pc[s]]
    BY DEF IInv, PlacesOK
  <2> QED  BY <2>1, <1>1, <1>2
<1>4. (start /\ t = Monitor => x = "watch") /\ (start /\ t # Monitor => x = "method") /\ (~start => x = "gate")
  BY DEF Passed
<1> HIDE DEF x
<1>5. /\ Worker' = Worker /\ Started' = Started /\ total' = total /\ (Monitored' <=> Monitored)
      /\ pc' = [s \in AllThreads |-> pc'[s]] /\ pc'[t] = x
      /\ \A s \in AllThreads : s # t => pc'[s] = pc[s]
      /\ Worker \subseteq Threads /\ Started \subseteq Threads \cup {Monitor} /\ Worker \subseteq Started
      /\ Monitor \notin Threads /\ Caller \notin Threads /\ Monitor # Caller
      /\ Monitor \in AllThreads /\ Caller \in AllThreads /\ Threads \subseteq AllThreads
      /\ Nobody \notin AllThreads
  BY <1>1, <1>2, <1>3, FactsLemma
<1>6. TypeOK /\ PlacesOK /\ LockOK /\ GateOK /\ DoneOK /\ SignalOK /\ NoLostWakeup
  BY DEF IInv
<1>7. t \in Started
  BY <1>2, <1>6 DEF PlacesOK
<1>8. TypeOK'
  BY <1>1, <1>2, <1>6 DEF TypeOK
<1>9. PlacesOK'
  BY <1>1, <1>4, <1>5, <1>6, <1>7 DEF PlacesOK, WorkerPlaces, MonitorPlaces
<1>10. LockOK'
  BY <1>1, <1>2, <1>4, <1>5, <1>6 DEF LockOK, InSection, TypeOK
<1>11. DoneWorkers' = DoneWorkers /\ Arrived' = Arrived
  BY <1>1, <1>2, <1>4, <1>5, <1>6 DEF DoneWorkers, Arrived, Finished, TypeOK
<1>12. GateOK'
  BY <1>1, <1>2, <1>4, <1>5, <1>6, <1>11 DEF GateOK, TypeOK
<1>13. DoneOK'
  BY <1>1, <1>2, <1>4, <1>5, <1>6, <1>11 DEF DoneOK, Over, Finished, TypeOK
<1>14. SignalOK'
  BY <1>1, <1>2, <1>4, <1>5, <1>6 DEF SignalOK, Over, Finished, TypeOK
<1>15. NoLostWakeup'
  BY <1>1, <1>2, <1>4, <1>5, <1>6 DEF NoLostWakeup, Finished, TypeOK
<1> QED  BY <1>8, <1>9, <1>10, <1>12, <1>13, <1>14, <1>15 DEF IInv

\* A thread is back from Wait.
LEMMA RelockLemma ==
  ASSUME IInv, NEW t \in AllThreads, Relock(t)
  PROVE  IInv'
<1>1. /\ pc[t] \in InSection /\ t \notin waiting /\ mu = Nobody /\ mu' = t
      /\ pc' = pc /\ waiting' = waiting /\ num_initialized' = num_initialized
      /\ num_done' = num_done /\ start' = start /\ loaded' = loaded /\ work' = work /\ job' = job
  BY DEF Relock, Lock
<1>2. Worker' = Worker /\ Started' = Started /\ total' = total /\ (Monitored' <=> Monitored)
  BY <1>1, SameBenchmark
<1>3. TypeOK /\ PlacesOK /\ LockOK /\ GateOK /\ DoneOK /\ SignalOK /\ NoLostWakeup
  BY DEF IInv
<1>4. TypeOK'
  BY <1>1, <1>3 DEF TypeOK
<1>5. PlacesOK'
  BY <1>1, <1>2, <1>3 DEF PlacesOK
<1>6. LockOK'
  <2>1. t \in Threads => pc[t] = "gate"
    BY <1>1, <1>3 DEF PlacesOK, InSection, WorkerPlaces
  <2>2. t = Monitor => pc[t] = "gate"
    BY <1>1, <1>3 DEF PlacesOK, InSection, MonitorPlaces
  <2>3. t = Caller => pc[t] \in {"gather", "collect"}
    BY <1>1, <1>3 DEF PlacesOK, InSection, CallerPlaces
  <2> QED  BY <1>1, <1>3, <2>1, <2>2, <2>3, NamesLemma DEF LockOK
<1>7. DoneWorkers' = DoneWorkers /\ Arrived' = Arrived
  BY <1>1, <1>2 DEF DoneWorkers, Arrived
<1>8. GateOK'
  BY <1>1, <1>2, <1>3, <1>7 DEF GateOK
<1>9. DoneOK'
  BY <1>1, <1>2, <1>3, <1>7 DEF DoneOK
<1>10. SignalOK'
  BY <1>1, <1>2, <1>3, NamesLemma DEF SignalOK
<1>11. NoLostWakeup'
  BY <1>1, <1>2, <1>3 DEF NoLostWakeup
<1> QED  BY <1>4, <1>5, <1>6, <1>8, <1>9, <1>10, <1>11 DEF IInv

\* A thread is woken without a signal.
LEMMA SpuriousLemma ==
  ASSUME IInv, NEW t \in AllThreads, SpuriousWakeup(t)
  PROVE  IInv'
<1>1. /\ job.spurious /\ waiting' = waiting \ {t} /\ mu' = mu
      /\ pc' = pc /\ num_initialized' = num_initialized
      /\ num_done' = num_done /\ start' = start /\ loaded' = loaded /\ work' = work /\ job' = job
  BY DEF SpuriousWakeup
<1>2. Worker' = Worker /\ Started' = Started /\ total' = total /\ (Monitored' <=> Monitored)
  BY <1>1, SameBenchmark
<1>3. TypeOK /\ PlacesOK /\ LockOK /\ GateOK /\ DoneOK
  BY DEF IInv
<1>4. DoneWorkers' = DoneWorkers /\ Arrived' = Arrived
  BY <1>1, <1>2 DEF DoneWorkers, Arrived
<1>5. TypeOK'
  BY <1>1, <1>3 DEF TypeOK
<1>6. PlacesOK'
  BY <1>1, <1>2, <1>3 DEF PlacesOK
<1>7. LockOK'
  BY <1>1, <1>3 DEF LockOK
<1>8. GateOK'
  BY <1>1, <1>2, <1>3, <1>4 DEF GateOK
<1>9. DoneOK'
  BY <1>1, <1>2, <1>3, <1>4 DEF DoneOK
<1>10. SignalOK' /\ NoLostWakeup'
  BY <1>1 DEF SignalOK, NoLostWakeup
<1> QED  BY <1>5, <1>6, <1>7, <1>8, <1>9, <1>10 DEF IInv

--------------------------------------------------------------------------------
\* The end of a benchmark thread and of the monitor thread.

\* A benchmark thread counts itself done.
LEMMA FinishLemma ==
  ASSUME IInv, NEW t \in Threads, Finish(t)
  PROVE  IInv'
<1>1. /\ pc[t] = "finish" /\ mu = Nobody /\ mu' = t /\ num_done' = num_done + 1
      /\ waiting' = waiting \/ (num_done' >= total /\ waiting' = {})
      /\ num_done' >= total => waiting' = {}
      /\ pc' = [pc EXCEPT ![t] = "leave"]
      /\ num_initialized' = num_initialized /\ start' = start /\ loaded' = loaded
      /\ work' = work /\ job' = job
  BY DEF Finish, Lock, SignalAll, Goto
<1>2. t \in AllThreads /\ t # Caller /\ t # Monitor
  BY NamesLemma
<1>3. /\ Worker' = Worker /\ Started' = Started /\ total' = total /\ (Monitored' <=> Monitored)
      /\ pc' = [s \in AllThreads |-> pc'[s]] /\ pc'[t] = "leave"
      /\ \A s \in AllThreads : s # t => pc'[s] = pc[s]
      /\ Worker \subseteq Threads /\ Started \subseteq Threads \cup {Monitor} /\ Worker \subseteq Started
      /\ (Monitor \in Started <=> Monitored) /\ \A s \in Started : s = Monitor \/ s \in Worker
      /\ Monitor \notin Threads /\ Caller \notin Threads /\ Monitor # Caller
      /\ Monitor \in AllThreads /\ Caller \in AllThreads /\ Threads \subseteq AllThreads
      /\ Nobody \notin AllThreads
  BY <1>1, <1>2, FactsLemma
<1>4. TypeOK /\ PlacesOK /\ LockOK /\ GateOK /\ DoneOK /\ SignalOK /\ NoLostWakeup
  BY DEF IInv
<1>5. t \in Started /\ t \in Worker
  BY <1>1, <1>2, <1>3, <1>4 DEF PlacesOK
<1>6. start /\ pc[Caller] \notin {"create", "gather", "open"}
  BY <1>1, <1>4, <1>5 DEF GateOK
<1>7. /\ pc[Monitor] \notin {"last", "load", "store", "signal", "gone"}
      /\ pc[Caller] \notin Over /\ pc[Caller] # "block" /\ mu # Caller
  BY <1>1, <1>3, <1>4, <1>5 DEF DoneOK, Finished, LockOK
<1>8. pc[Caller] = "collect"
  BY <1>6, <1>7, <1>4 DEF PlacesOK, CallerPlaces, Over
<1>9. TypeOK'
  BY <1>1, <1>2, <1>4 DEF TypeOK
<1>10. PlacesOK'
  BY <1>2, <1>3, <1>4, <1>5 DEF PlacesOK, WorkerPlaces
<1>11. LockOK'
  BY <1>1, <1>2, <1>3, <1>4, <1>8 DEF LockOK, InSection, TypeOK
<1>12. Arrived' = Arrived
  BY <1>1, <1>3 DEF Arrived
<1>13. num_done' = Cardinality(DoneWorkers') /\ Cardinality(DoneWorkers') \in Nat
  <2>1. DoneWorkers' = DoneWorkers \cup {t} /\ t \notin DoneWorkers
    BY <1>1, <1>2, <1>3, <1>5 DEF DoneWorkers, Finished
  <2>2. IsFiniteSet(DoneWorkers) /\ Cardinality(DoneWorkers) \in Nat
    BY <1>4, CountsLemma
  <2>3. Cardinality(DoneWorkers') = Cardinality(DoneWorkers) + 1
    BY <2>1, <2>2, FS_AddElement
  <2>4. num_done = Cardinality(DoneWorkers)
    BY <2>2, <1>4, <1>7 DEF DoneOK
  <2> QED  BY <2>2, <2>3, <2>4, <1>1
<1>14. GateOK'
  BY <1>1, <1>2, <1>3, <1>4, <1>6, <1>12 DEF GateOK, TypeOK
<1>15. DoneOK'
  BY <1>1, <1>2, <1>3, <1>4, <1>7, <1>13 DEF DoneOK, Over, Finished
<1>16. /\ Cardinality(DoneWorkers') <= n
       /\ Cardinality(DoneWorkers') = n <=> \A w \in Worker : pc'[w] \in Finished
       /\ n \in Nat /\ n > 0 /\ total \in Nat
  <2>1. /\ DoneWorkers' \subseteq Worker
        /\ DoneWorkers' = Worker <=> \A w \in Worker : pc'[w] \in Finished
    BY <1>3 DEF DoneWorkers
  <2> QED  BY <2>1, <1>4, SubsetLemma, StartedLemma
<1>17. /\ Monitored => num_done' < total
       /\ ~Monitored => (num_done' >= total <=> \A w \in Worker : pc'[w] \in Finished)
  BY <1>13, <1>16 DEF total
<1>18. SignalOK'
  <2>1. ASSUME ~job.spurious, Caller \notin waiting'
        PROVE  /\ \A w \in Worker : pc'[w] \in Finished
               /\ ~Monitored
    <3>1. waiting' = {}
      <4>1. CASE waiting' = waiting
        BY <2>1, <4>1, <1>1, <1>3, <1>4, <1>5, <1>7, <1>8 DEF SignalOK, Finished
      <4> QED  BY <4>1, <1>1
    <3>2. num_done' >= total
      BY <2>1, <3>1, <1>1, <1>3, <1>4, <1>5, <1>7, <1>8 DEF SignalOK, Finished
    <3>3. num_done' \in Nat
      BY <1>9 DEF TypeOK
    <3> QED  BY <3>2, <3>3, <1>16, <1>17
  <2> QED  BY <2>1, <1>1, <1>3, <1>8 DEF SignalOK, Over
<1>19. NoLostWakeup'
  <2>1. ASSUME Caller \in waiting', ~Monitored  PROVE \E w \in Worker : pc'[w] \notin Finished
    <3>1. ~(num_done' >= total)
      BY <2>1, <1>1
    <3> QED  BY <3>1, <2>1, <1>3, <1>17
  <2>2. waiting' \subseteq waiting
    BY <1>1
  <2> QED  BY <2>1, <2>2, <1>1, <1>3, <1>4, <1>7, <1>8 DEF NoLostWakeup
<1> QED  BY <1>9, <1>10, <1>11, <1>14, <1>15, <1>18, <1>19 DEF IInv

\* A benchmark thread gives the mutex back and is gone.
LEMMA LeaveLemma ==
  ASSUME IInv, NEW t \in Threads, Leave(t)
  PROVE  IInv'
<1>1. /\ pc[t] = "leave" /\ mu = t /\ mu' = Nobody /\ pc' = [pc EXCEPT ![t] = "gone"]
      /\ waiting' = waiting /\ num_initialized' = num_initialized /\ num_done' = num_done
      /\ start' = start /\ loaded' = loaded /\ work' = work /\ job' = job
  BY DEF Leave, Unlock, Goto
<1>2. t \in AllThreads /\ t # Caller /\ t # Monitor
  BY NamesLemma
<1>3. /\ Worker' = Worker /\ Started' = Started /\ total' = total /\ (Monitored' <=> Monitored)
      /\ pc' = [s \in AllThreads |-> pc'[s]] /\ pc'[t] = "gone"
      /\ \A s \in AllThreads : s # t => pc'[s] = pc[s]
      /\ Worker \subseteq Threads /\ Started \subseteq Threads \cup {Monitor} /\ Worker \subseteq Started
      /\ 0 \in Worker /\ (Monitor \in Started <=> Monitored)
      /\ \A s \in Started : s = Monitor \/ s \in Worker
      /\ Monitor \notin Threads /\ Caller \notin Threads /\ Monitor # Caller
      /\ Monitor \in AllThreads /\ Caller \in AllThreads /\ Threads \subseteq AllThreads
      /\ Nobody \notin AllThreads
  BY <1>1, <1>2, FactsLemma
<1>4. TypeOK /\ PlacesOK /\ LockOK /\ GateOK /\ DoneOK /\ SignalOK /\ NoLostWakeup
  BY DEF IInv
<1>5. t \in Worker /\ Arrived' = Arrived /\ DoneWorkers' = DoneWorkers
  BY <1>1, <1>2, <1>3, <1>4 DEF PlacesOK, Arrived, DoneWorkers, Finished
<1>6. TypeOK'
  BY <1>1, <1>4 DEF TypeOK
<1>7. PlacesOK'
  BY <1>2, <1>3, <1>4, <1>5 DEF PlacesOK, WorkerPlaces
<1>8. LockOK'
  BY <1>1, <1>2, <1>3, <1>4 DEF LockOK, InSection, TypeOK
<1>9. GateOK'
  BY <1>1, <1>2, <1>3, <1>4, <1>5 DEF GateOK, TypeOK
<1>10. DoneOK'
  BY <1>1, <1>2, <1>3, <1>4, <1>5 DEF DoneOK, Finished
<1>11. SignalOK'
  BY <1>1, <1>2, <1>3, <1>4, <1>5 DEF SignalOK, Finished
<1>12. NoLostWakeup'
  BY <1>1, <1>2, <1>3, <1>4, <1>5 DEF NoLostWakeup, Finished
<1> QED  BY <1>6, <1>7, <1>8, <1>9, <1>10, <1>11, <1>12 DEF IInv

\* The monitor thread leaves its loop when every benchmark thread is done.
LEMMA WatchLemma ==
  ASSUME IInv, Watch
  PROVE  IInv'
<1>1. /\ pc[Monitor] = "watch"
      /\ UNCHANGED <<mu, waiting, num_initialized, num_done, start, loaded, job>> /\ work' = work
      /\ pc' = [pc EXCEPT ![Monitor] = IF num_done < total - 1 THEN "sample" ELSE "last"]
  BY DEF Watch, Goto
<1>2. CASE num_done < total - 1
  BY <1>1, <1>2, MoveLemma DEF Apart
<1>3. CASE ~(num_done < total - 1)
  <2>1. pc' = [pc EXCEPT ![Monitor] = "last"] /\ job' = job /\ Monitor \in AllThreads
    BY <1>1, <1>3, NamesLemma
  <2>2. /\ Worker' = Worker /\ Started' = Started /\ total' = total /\ (Monitored' <=> Monitored)
        /\ pc' = [s \in AllThreads |-> pc'[s]] /\ pc'[Monitor] = "last"
        /\ \A s \in AllThreads : s # Monitor => pc'[s] = pc[s]
        /\ Worker \subseteq Threads /\ Started \subseteq Threads \cup {Monitor} /\ Worker \subseteq Started
        /\ 0 \in Worker /\ (Monitor \in Started <=> Monitored)
        /\ \A s \in Started : s = Monitor \/ s \in Worker
        /\ Monitor \notin Threads /\ Caller \notin Threads /\ Monitor # Caller
        /\ Monitor \in AllThreads /\ Caller \in AllThreads /\ Threads \subseteq AllThreads
        /\ Nobody \notin AllThreads
    BY <2>1, <1>1, FactsLemma
  <2>3. TypeOK /\ PlacesOK /\ LockOK /\ GateOK /\ DoneOK /\ SignalOK /\ NoLostWakeup
    BY DEF IInv
  <2>4. Monitored
    BY <2>2, <2>3, <1>1 DEF PlacesOK
  <2>5. \A w \in Worker : pc[w] \in Finished
    <3>1. num_done = Cardinality(DoneWorkers) /\ total = n + 1
      BY <2>3, <2>4, <1>1, CountsLemma DEF DoneOK, total
    <3>2. Cardinality(DoneWorkers) \in Nat /\ Cardinality(DoneWorkers) <= n /\ n \in Nat
      BY <2>3, CountsLemma, StartedLemma
    <3>3. Cardinality(DoneWorkers) = n
      BY <3>1, <3>2, <1>3
    <3> QED  BY <3>3, <2>3, CountsLemma
  <2>6. Arrived' = Arrived /\ DoneWorkers' = DoneWorkers
    BY <1>1, <2>2 DEF Arrived, DoneWorkers, Finished
  <2>7. TypeOK'
    BY <1>1, <2>3 DEF TypeOK
  <2>8. PlacesOK'
    BY <2>2, <2>3, <2>4 DEF PlacesOK, MonitorPlaces
  <2>9. LockOK'
    BY <1>1, <2>2, <2>3 DEF LockOK, InSection
  <2>10. GateOK'
    BY <1>1, <2>2, <2>3, <2>6 DEF GateOK
  <2>11. DoneOK'
    BY <1>1, <2>2, <2>3, <2>5, <2>6 DEF DoneOK
  <2>12. SignalOK'
    BY <1>1, <2>2, <2>3 DEF SignalOK
  <2>13. NoLostWakeup'
    BY <1>1, <2>2, <2>3 DEF NoLostWakeup
  <2> QED  BY <2>7, <2>8, <2>9, <2>10, <2>11, <2>12, <2>13 DEF IInv
<1> QED  BY <1>2, <1>3

\* The monitor thread samples.
LEMMA SampleLemma ==
  ASSUME IInv, Sample
  PROVE  IInv'
<1>1. /\ pc[Monitor] \in {"sample", "last"}
      /\ UNCHANGED <<mu, waiting, num_initialized, num_done, start, loaded, job>> /\ work' = work
      /\ pc' = [pc EXCEPT ![Monitor] = IF pc[Monitor] = "sample" THEN "watch" ELSE "load"]
  BY DEF Sample, Goto
<1>2. CASE pc[Monitor] = "sample"
  BY <1>1, <1>2, MoveLemma DEF Apart
<1>3. CASE pc[Monitor] = "last"
  <2>1. pc' = [pc EXCEPT ![Monitor] = "load"] /\ Apart(pc[Monitor], "load")
    BY <1>1, <1>3 DEF Apart
  <2> QED  BY <1>1, <2>1, MoveLemma
<1> QED  BY <1>1, <1>2, <1>3

\* The monitor thread reads num_done, adds one, and signals: each is a step.
LEMMA CountItselfLemma ==
  ASSUME IInv, Load \/ Store \/ Signal
  PROVE  IInv'
<1> DEFINE x == IF pc[Monitor] = "load" THEN "store" ELSE IF pc[Monitor] = "store" THEN "signal" ELSE "gone"
<1>1. /\ pc[Monitor] \in {"load", "store", "signal"}
      /\ pc[Monitor] = "load" => loaded' = num_done /\ num_done' = num_done /\ waiting' = waiting /\ x = "store"
      /\ pc[Monitor] = "store" => num_done' = loaded + 1 /\ loaded' = loaded /\ waiting' = waiting /\ x = "signal"
      /\ pc[Monitor] = "signal" => num_done' = num_done /\ loaded' = loaded /\ waiting' = {} /\ x = "gone"
      /\ pc' = [pc EXCEPT ![Monitor] = x]
      /\ mu' = mu /\ num_initialized' = num_initialized /\ start' = start /\ work' = work /\ job' = job
  BY DEF Load, Store, Signal, SignalAll, Goto
<1> HIDE DEF x
<1>2. /\ Worker' = Worker /\ Started' = Started /\ total' = total /\ (Monitored' <=> Monitored)
      /\ pc' = [s \in AllThreads |-> pc'[s]] /\ pc'[Monitor] = x
      /\ \A s \in AllThreads : s # Monitor => pc'[s] = pc[s]
      /\ Worker \subseteq Threads /\ Started \subseteq Threads \cup {Monitor} /\ Worker \subseteq Started
      /\ 0 \in Worker /\ (Monitor \in Started <=> Monitored)
      /\ \A s \in Started : s = Monitor \/ s \in Worker
      /\ Monitor \notin Threads /\ Caller \notin Threads /\ Monitor # Caller
      /\ Monitor \in AllThreads /\ Caller \in AllThreads /\ Threads \subseteq AllThreads
      /\ Nobody \notin AllThreads
  BY <1>1, NamesLemma, FactsLemma
<1>3. TypeOK /\ PlacesOK /\ LockOK /\ GateOK /\ DoneOK /\ SignalOK /\ NoLostWakeup
  BY DEF IInv
<1>4. Monitored /\ Monitor \in Started /\ \A w \in Worker : pc[w] \in Finished
  BY <1>1, <1>2, <1>3 DEF PlacesOK, DoneOK
<1>5. start /\ pc[Caller] \notin {"create", "gather", "open"}
  BY <1>1, <1>3, <1>4 DEF GateOK
<1>6. Arrived' = Arrived /\ DoneWorkers' = DoneWorkers
  BY <1>1, <1>2 DEF Arrived, DoneWorkers, Finished
<1>7. TypeOK'
  BY <1>1, <1>3 DEF TypeOK
<1>8. PlacesOK'
  BY <1>1, <1>2, <1>3, <1>4 DEF PlacesOK, MonitorPlaces
<1>9. LockOK'
  BY <1>1, <1>2, <1>3 DEF LockOK, InSection
<1>10. GateOK'
  BY <1>1, <1>2, <1>3, <1>6 DEF GateOK
<1>11. DoneOK'
  <2>1. Cardinality(DoneWorkers) \in Nat
    BY <1>3, CountsLemma
  <2> QED  BY <1>1, <1>2, <1>3, <1>4, <1>6, <2>1 DEF DoneOK, Over
<1>12. SignalOK'
  BY <1>1, <1>2, <1>3, <1>4 DEF SignalOK, Over, DoneOK
<1>13. NoLostWakeup'
  BY <1>1, <1>2, <1>3, <1>4 DEF NoLostWakeup
<1> QED  BY <1>7, <1>8, <1>9, <1>10, <1>11, <1>12, <1>13 DEF IInv

--------------------------------------------------------------------------------
\* The caller.

\* A thread is started.
LEMMA StartThreadLemma ==
  ASSUME IInv, NEW t \in Started, StartThread(t)
  PROVE  IInv'
<1>1. /\ pc[Caller] = "create" /\ pc[t] = "unborn" /\ pc' = [pc EXCEPT ![t] = "enter"]
      /\ mu' = mu /\ waiting' = waiting /\ num_initialized' = num_initialized
      /\ num_done' = num_done /\ start' = start /\ loaded' = loaded /\ work' = work /\ job' = job
  BY DEF StartThread, Goto
<1>2. TypeOK /\ PlacesOK /\ LockOK /\ GateOK /\ DoneOK /\ SignalOK /\ NoLostWakeup
  BY DEF IInv
<1>3. t \in Threads \cup {Monitor} /\ t \in AllThreads /\ t # Caller
  BY <1>2, StartedLemma, NamesLemma
<1>4. /\ Worker' = Worker /\ Started' = Started /\ total' = total /\ (Monitored' <=> Monitored)
      /\ pc' = [s \in AllThreads |-> pc'[s]] /\ pc'[t] = "enter"
      /\ \A s \in AllThreads : s # t => pc'[s] = pc[s]
      /\ Worker \subseteq Threads /\ Started \subseteq Threads \cup {Monitor} /\ Worker \subseteq Started
      /\ 0 \in Worker /\ (Monitor \in Started <=> Monitored)
      /\ \A s \in Started : s = Monitor \/ s \in Worker
      /\ Monitor \notin Threads /\ Caller \notin Threads /\ Monitor # Caller
      /\ Monitor \in AllThreads /\ Caller \in AllThreads /\ Threads \subseteq AllThreads
      /\ Nobody \notin AllThreads
  BY <1>1, <1>3, FactsLemma
<1>5. Arrived' = Arrived /\ DoneWorkers' = DoneWorkers
  BY <1>1, <1>3, <1>4 DEF Arrived, DoneWorkers, Finished
<1>6. TypeOK'
  BY <1>1, <1>2 DEF TypeOK
<1>7. PlacesOK'
  BY <1>2, <1>3, <1>4 DEF PlacesOK, WorkerPlaces, MonitorPlaces
<1>8. LockOK'
  BY <1>1, <1>2, <1>3, <1>4 DEF LockOK, InSection, TypeOK
<1>9. GateOK'
  BY <1>1, <1>2, <1>3, <1>4, <1>5 DEF GateOK
<1>10. DoneOK'
  BY <1>1, <1>2, <1>3, <1>4, <1>5 DEF DoneOK, Over, Finished
<1>11. SignalOK'
  BY <1>1, <1>3, <1>4 DEF SignalOK, Over
<1>12. NoLostWakeup'
  BY <1>1, <1>2, <1>3, <1>4 DEF NoLostWakeup
<1> QED  BY <1>6, <1>7, <1>8, <1>9, <1>10, <1>11, <1>12 DEF IInv

\* The caller takes the mutex once all threads are started.
LEMMA LockSharedLemma ==
  ASSUME IInv, LockShared
  PROVE  IInv'
<1>1. /\ pc[Caller] = "create" /\ mu = Nobody /\ mu' = Caller /\ pc' = [pc EXCEPT ![Caller] = "gather"]
      /\ \A t \in Started : pc[t] # "unborn"
      /\ waiting' = waiting /\ num_initialized' = num_initialized
      /\ num_done' = num_done /\ start' = start /\ loaded' = loaded /\ work' = work /\ job' = job
  BY DEF LockShared, Lock, Goto
<1>2. TypeOK /\ PlacesOK /\ LockOK /\ GateOK /\ DoneOK /\ SignalOK /\ NoLostWakeup
  BY DEF IInv
<1>3. /\ Worker' = Worker /\ Started' = Started /\ total' = total /\ (Monitored' <=> Monitored)
      /\ pc' = [s \in AllThreads |-> pc'[s]] /\ pc'[Caller] = "gather"
      /\ \A s \in AllThreads : s # Caller => pc'[s] = pc[s]
      /\ Worker \subseteq Threads /\ Started \subseteq Threads \cup {Monitor} /\ Worker \subseteq Started
      /\ 0 \in Worker /\ (Monitor \in Started <=> Monitored)
      /\ \A s \in Started : s = Monitor \/ s \in Worker
      /\ Monitor \notin Threads /\ Caller \notin Threads /\ Monitor # Caller
      /\ Monitor \in AllThreads /\ Caller \in AllThreads /\ Threads \subseteq AllThreads
      /\ Nobody \notin AllThreads
  BY <1>1, NamesLemma, FactsLemma
<1>4. Arrived' = Arrived /\ DoneWorkers' = DoneWorkers
  BY <1>1, <1>3 DEF Arrived, DoneWorkers, Finished
<1>5. TypeOK'
  BY <1>1, <1>2, <1>3 DEF TypeOK
<1>6. PlacesOK'
  BY <1>2, <1>3 DEF PlacesOK, CallerPlaces
<1>7. LockOK'
  BY <1>1, <1>2, <1>3 DEF LockOK, InSection, TypeOK
<1>8. GateOK'
  BY <1>1, <1>2, <1>3, <1>4 DEF GateOK
<1>9. DoneOK'
  BY <1>1, <1>2, <1>3, <1>4 DEF DoneOK, Over
<1>10. SignalOK'
  BY <1>1, <1>3 DEF SignalOK, Over
<1>11. NoLostWakeup'
  <2>1. Caller \notin waiting
    BY <1>1, <1>2 DEF LockOK, InSection
  <2> QED  BY <2>1, <1>1, <1>2, <1>3 DEF NoLostWakeup
<1> QED  BY <1>5, <1>6, <1>7, <1>8, <1>9, <1>10, <1>11 DEF IInv

\* It waits until all are at the barrier.
LEMMA GatherLemma ==
  ASSUME IInv, Gather
  PROVE  IInv'
<1> DEFINE x == IF num_initialized < total THEN "gather" ELSE "open"
<1>1. /\ pc[Caller] = "gather" /\ mu = Caller
      /\ num_initialized < total => mu' = Nobody /\ waiting' = waiting \cup {Caller} /\ pc' = pc
      /\ ~(num_initialized < total) => mu' = Caller /\ waiting' = waiting /\ pc' = [pc EXCEPT ![Caller] = "open"]
      /\ num_initialized' = num_initialized
      /\ num_done' = num_done /\ start' = start /\ loaded' = loaded /\ work' = work /\ job' = job
  BY DEF Gather, Wait, Unlock, Goto
<1>2. TypeOK /\ PlacesOK /\ LockOK /\ GateOK /\ DoneOK /\ SignalOK /\ NoLostWakeup
  BY DEF IInv
<1>3. pc' = [pc EXCEPT ![Caller] = x]
  BY <1>1, <1>2, NamesLemma DEF PlacesOK
<1>4. x \in {"gather", "open"} /\ (num_initialized < total <=> x = "gather")
  OBVIOUS
<1> HIDE DEF x
<1>5. /\ Worker' = Worker /\ Started' = Started /\ total' = total /\ (Monitored' <=> Monitored)
      /\ pc' = [s \in AllThreads |-> pc'[s]] /\ pc'[Caller] = x
      /\ \A s \in AllThreads : s # Caller => pc'[s] = pc[s]
      /\ Worker \subseteq Threads /\ Started \subseteq Threads \cup {Monitor} /\ Worker \subseteq Started
      /\ 0 \in Worker /\ (Monitor \in Started <=> Monitored)
      /\ \A s \in Started : s = Monitor \/ s \in Worker
      /\ Monitor \notin Threads /\ Caller \notin Threads /\ Monitor # Caller
      /\ Monitor \in AllThreads /\ Caller \in AllThreads /\ Threads \subseteq AllThreads
      /\ Nobody \notin AllThreads
  BY <1>1, <1>3, NamesLemma, FactsLemma
<1>6. Arrived' = Arrived /\ DoneWorkers' = DoneWorkers
  BY <1>1, <1>5 DEF Arrived, DoneWorkers, Finished
<1>7. /\ num_initialized \in Nat /\ total \in Nat
      /\ ~(num_initialized < total) => \A t \in Started : pc[t] \notin {"unborn", "enter"}
      /\ num_initialized < total => \E t \in Started : pc[t] = "enter"
  <2>1. num_initialized = Cardinality(Arrived) /\ num_initialized \in Nat /\ total \in Nat
    BY <1>2, StartedLemma DEF GateOK, TypeOK
  <2>2. ~(num_initialized < total) => \A t \in Started : pc[t] \notin {"unborn", "enter"}
    BY <1>2, <2>1, CountsLemma
  <2>3. ASSUME num_initialized < total  PROVE \E t \in Started : pc[t] = "enter"
    <3>1. Arrived # Started
      BY <1>2, <2>1, <2>3, StartedLemma
    <3>2. PICK t \in Started : pc[t] \in {"unborn", "enter"}
      BY <3>1 DEF Arrived
    <3> QED  BY <3>2, <1>1, <1>2 DEF GateOK
  <2> QED  BY <2>1, <2>2, <2>3
<1>8. TypeOK'
  BY <1>1, <1>2, <1>5, <1>7 DEF TypeOK
<1>9. PlacesOK'
  BY <1>2, <1>4, <1>5 DEF PlacesOK, CallerPlaces
<1>10. LockOK'
  BY <1>1, <1>2, <1>4, <1>5 DEF LockOK, InSection, TypeOK
<1>11. GateOK'
  BY <1>1, <1>2, <1>4, <1>5, <1>6, <1>7 DEF GateOK
<1>12. DoneOK'
  BY <1>1, <1>2, <1>4, <1>5, <1>6 DEF DoneOK, Over
<1>13. SignalOK'
  BY <1>1, <1>4, <1>5 DEF SignalOK, Over
<1>14. NoLostWakeup'
  BY <1>1, <1>2, <1>4, <1>5, <1>7 DEF NoLostWakeup, LockOK
<1> QED  BY <1>8, <1>9, <1>10, <1>11, <1>12, <1>13, <1>14 DEF IInv

\* It opens the barrier.
LEMMA OpenGateLemma ==
  ASSUME IInv, OpenGate
  PROVE  IInv'
<1>1. /\ pc[Caller] = "open" /\ start' = TRUE /\ waiting' = {} /\ pc' = [pc EXCEPT ![Caller] = "collect"]
      /\ mu' = mu /\ num_initialized' = num_initialized
      /\ num_done' = num_done /\ loaded' = loaded /\ work' = work /\ job' = job
  BY DEF OpenGate, SignalAll, Goto
<1>2. TypeOK /\ PlacesOK /\ LockOK /\ GateOK /\ DoneOK
  BY DEF IInv
<1>3. /\ Worker' = Worker /\ Started' = Started /\ total' = total /\ (Monitored' <=> Monitored)
      /\ pc' = [s \in AllThreads |-> pc'[s]] /\ pc'[Caller] = "collect"
      /\ \A s \in AllThreads : s # Caller => pc'[s] = pc[s]
      /\ Worker \subseteq Threads /\ Started \subseteq Threads \cup {Monitor} /\ Worker \subseteq Started
      /\ 0 \in Worker /\ (Monitor \in Started <=> Monitored)
      /\ \A s \in Started : s = Monitor \/ s \in Worker
      /\ Monitor \notin Threads /\ Caller \notin Threads /\ Monitor # Caller
      /\ Monitor \in AllThreads /\ Caller \in AllThreads /\ Threads \subseteq AllThreads
      /\ Nobody \notin AllThreads
  BY <1>1, NamesLemma, FactsLemma
<1>4. Arrived' = Arrived /\ DoneWorkers' = DoneWorkers
  BY <1>1, <1>3 DEF Arrived, DoneWorkers, Finished
<1>5. mu = Caller /\ \A t \in Started : pc[t] = "gate"
  BY <1>1, <1>2 DEF LockOK, GateOK
<1>6. TypeOK'
  BY <1>1, <1>2 DEF TypeOK
<1>7. PlacesOK'
  BY <1>2, <1>3 DEF PlacesOK, CallerPlaces
<1>8. LockOK'
  BY <1>1, <1>2, <1>3 DEF LockOK
<1>9. GateOK'
  BY <1>1, <1>2, <1>3, <1>4, <1>5 DEF GateOK
<1>10. DoneOK'
  BY <1>1, <1>2, <1>3, <1>4 DEF DoneOK, Over
<1>11. SignalOK'
  BY <1>1, <1>3, <1>5 DEF SignalOK, Over, Finished
<1>12. NoLostWakeup'
  BY <1>1 DEF NoLostWakeup
<1> QED  BY <1>6, <1>7, <1>8, <1>9, <1>10, <1>11, <1>12 DEF IInv

\* It tests whether all are done: only once that is so it goes on, and then no
\* thread is between its count and its Unlock.
LEMMA TestDoneLemma ==
  ASSUME IInv, TestDone
  PROVE  IInv'
<1> DEFINE x == IF num_done < total THEN "block" ELSE "unlock"
<1>1. /\ pc[Caller] = "collect" /\ mu = Caller /\ pc' = [pc EXCEPT ![Caller] = x]
      /\ mu' = mu /\ waiting' = waiting /\ num_initialized' = num_initialized
      /\ num_done' = num_done /\ start' = start /\ loaded' = loaded /\ work' = work /\ job' = job
  BY DEF TestDone, Goto
<1>2. TypeOK /\ PlacesOK /\ LockOK /\ GateOK /\ DoneOK /\ SignalOK /\ NoLostWakeup
  BY DEF IInv
<1>3. x \in {"block", "unlock"} /\ (num_done < total <=> x = "block")
  OBVIOUS
<1> HIDE DEF x
<1>4. /\ Worker' = Worker /\ Started' = Started /\ total' = total /\ (Monitored' <=> Monitored)
      /\ pc' = [s \in AllThreads |-> pc'[s]] /\ pc'[Caller] = x
      /\ \A s \in AllThreads : s # Caller => pc'[s] = pc[s]
      /\ Worker \subseteq Threads /\ Started \subseteq Threads \cup {Monitor} /\ Worker \subseteq Started
      /\ 0 \in Worker /\ (Monitor \in Started <=> Monitored)
      /\ \A s \in Started : s = Monitor \/ s \in Worker
      /\ Monitor \notin Threads /\ Caller \notin Threads /\ Monitor # Caller
      /\ Monitor \in AllThreads /\ Caller \in AllThreads /\ Threads \subseteq AllThreads
      /\ Nobody \notin AllThreads
  BY <1>1, NamesLemma, FactsLemma
<1>5. Arrived' = Arrived /\ DoneWorkers' = DoneWorkers
  BY <1>1, <1>4 DEF Arrived, DoneWorkers, Finished
<1>6. Caller \notin waiting /\ start
  BY <1>1, <1>2 DEF LockOK, GateOK
<1>7. ASSUME x = "unlock"
      PROVE  (\A w \in Worker : pc[w] = "gone") /\ (Monitored => pc[Monitor] \in {"signal", "gone"})
  <2>1. /\ Cardinality(DoneWorkers) \in Nat /\ Cardinality(DoneWorkers) <= n /\ n \in Nat
        /\ Cardinality(DoneWorkers) = n <=> \A w \in Worker : pc[w] \in Finished
        /\ num_done \in Nat /\ total \in Nat
    BY <1>2, CountsLemma, StartedLemma DEF TypeOK
  <2>2. num_done >= total
    BY <1>3, <1>7, <2>1
  <2>3. CASE Monitored
    <3>1. total = n + 1
      BY <2>3 DEF total
    <3>2. pc[Monitor] \in {"signal", "gone"} /\ Cardinality(DoneWorkers) = n
      BY <2>1, <2>2, <3>1, <1>2 DEF DoneOK
    <3> QED  BY <3>2, <2>1, <1>1, <1>2, <1>4 DEF LockOK, Finished
  <2>4. CASE ~Monitored
    <3>1. total = n /\ pc[Monitor] = "unborn"
      BY <2>4, <1>2, <1>4 DEF total, PlacesOK
    <3>2. Cardinality(DoneWorkers) = n
      BY <2>1, <2>2, <3>1, <1>2 DEF DoneOK
    <3> QED  BY <2>4, <3>2, <2>1, <1>1, <1>2, <1>4 DEF LockOK, Finished
  <2> QED  BY <2>3, <2>4
<1>8. ASSUME x = "block", ~job.spurious  PROVE \A w \in Worker : pc[w] \notin Finished
  <2>1. ASSUME \A w \in Worker : pc[w] \in Finished, Monitored => pc[Monitor] = "gone"  PROVE FALSE
    <3>1. /\ Cardinality(DoneWorkers) = n /\ n \in Nat
      BY <2>1, <1>2, CountsLemma, StartedLemma
    <3>2. num_done = total
      BY <2>1, <3>1, <1>2, <1>4 DEF DoneOK, total, PlacesOK
    <3> QED  BY <3>2, <1>3, <1>8, <1>2, StartedLemma
  <2> QED  BY <2>1, <1>1, <1>2, <1>6, <1>8 DEF SignalOK
<1>9. TypeOK'
  BY <1>1, <1>2 DEF TypeOK
<1>10. PlacesOK'
  BY <1>2, <1>3, <1>4 DEF PlacesOK, CallerPlaces
<1>11. LockOK'
  BY <1>1, <1>2, <1>3, <1>4, <1>6 DEF LockOK, TypeOK
<1>12. GateOK'
  BY <1>1, <1>2, <1>3, <1>4, <1>5 DEF GateOK
<1>13. DoneOK'
  BY <1>1, <1>2, <1>3, <1>4, <1>5, <1>7 DEF DoneOK, Over
<1>14. SignalOK'
  <2>1. ASSUME x = "unlock", ~job.spurious, Monitored  PROVE pc[Monitor] = "gone"
    <3>1. 0 \in Worker /\ pc[0] \in Finished
      BY <2>1, <1>4, <1>7 DEF Finished
    <3> QED  BY <2>1, <3>1, <1>1, <1>2, <1>6 DEF SignalOK
  <2> QED  BY <2>1, <1>1, <1>3, <1>4, <1>8 DEF SignalOK, Over
<1>15. NoLostWakeup'
  BY <1>1, <1>2, <1>3, <1>4, <1>6 DEF NoLostWakeup
<1> QED  BY <1>9, <1>10, <1>11, <1>12, <1>13, <1>14, <1>15 DEF IInv

\* It waits for the others to be done.
LEMMA BlockLemma ==
  ASSUME IInv, Block
  PROVE  IInv'
<1>1. /\ pc[Caller] = "block" /\ mu = Caller /\ mu' = Nobody /\ waiting' = waiting \cup {Caller}
      /\ pc' = [pc EXCEPT ![Caller] = "collect"] /\ num_initialized' = num_initialized
      /\ num_done' = num_done /\ start' = start /\ loaded' = loaded /\ work' = work /\ job' = job
  BY DEF Block, Wait, Unlock, Goto
<1>2. TypeOK /\ PlacesOK /\ LockOK /\ GateOK /\ DoneOK /\ SignalOK /\ NoLostWakeup
  BY DEF IInv
<1>3. /\ Worker' = Worker /\ Started' = Started /\ total' = total /\ (Monitored' <=> Monitored)
      /\ pc' = [s \in AllThreads |-> pc'[s]] /\ pc'[Caller] = "collect"
      /\ \A s \in AllThreads : s # Caller => pc'[s] = pc[s]
      /\ Worker \subseteq Threads /\ Started \subseteq Threads \cup {Monitor} /\ Worker \subseteq Started
      /\ 0 \in Worker /\ (Monitor \in Started <=> Monitored)
      /\ \A s \in Started : s = Monitor \/ s \in Worker
      /\ Monitor \notin Threads /\ Caller \notin Threads /\ Monitor # Caller
      /\ Monitor \in AllThreads /\ Caller \in AllThreads /\ Threads \subseteq AllThreads
      /\ Nobody \notin AllThreads
  BY <1>1, NamesLemma, FactsLemma
<1>4. Arrived' = Arrived /\ DoneWorkers' = DoneWorkers
  BY <1>1, <1>3 DEF Arrived, DoneWorkers, Finished
<1>5. TypeOK'
  BY <1>1, <1>2, <1>3 DEF TypeOK
<1>6. PlacesOK'
  BY <1>2, <1>3 DEF PlacesOK, CallerPlaces
<1>7. LockOK'
  BY <1>1, <1>2, <1>3 DEF LockOK, InSection, TypeOK
<1>8. GateOK'
  BY <1>1, <1>2, <1>3, <1>4 DEF GateOK
<1>9. DoneOK'
  BY <1>1, <1>2, <1>3, <1>4 DEF DoneOK, Over
<1>10. SignalOK'
  BY <1>1, <1>3 DEF SignalOK, Over
<1>11. NoLostWakeup'
  <2>1. ASSUME ~job.spurious
        PROVE  IF Monitored THEN pc[Monitor] # "gone" ELSE \E w \in Worker : pc[w] \notin Finished
    <3>1. \A w \in Worker : pc[w] \notin Finished
      BY <2>1, <1>1, <1>2 DEF SignalOK
    <3> QED  BY <3>1, <1>2, <1>3 DEF DoneOK
  <2> QED  BY <2>1, <1>1, <1>2, <1>3 DEF NoLostWakeup
<1> QED  BY <1>5, <1>6, <1>7, <1>8, <1>9, <1>10, <1>11 DEF IInv

\* It lets go of the mutex, reports, returns and ends, when all is over.
LEMMA OverLemma ==
  ASSUME IInv, UnlockShared \/ Return \/ Exit
  PROVE  IInv'
<1>1. PICK x \in {"report", "returned", "exit"} :
        /\ pc[Caller] \in Over /\ pc' = [pc EXCEPT ![Caller] = x]
        /\ pc[Caller] = "unlock" => mu = Caller /\ mu' = Nobody
        /\ pc[Caller] # "unlock" => mu' = mu
        /\ waiting' = waiting /\ num_initialized' = num_initialized
        /\ num_done' = num_done /\ start' = start /\ loaded' = loaded /\ job' = job
  BY DEF UnlockShared, Return, Exit, Unlock, Goto, Over
<1>2. TypeOK /\ PlacesOK /\ LockOK /\ GateOK /\ DoneOK /\ SignalOK /\ NoLostWakeup
  BY DEF IInv
<1>3. DOMAIN work' = DOMAIN work /\ work'.todo = work.todo
  <2>1. "todo" \in DOMAIN work
    BY <1>2 DEF TypeOK
  <2> QED  BY <2>1 DEF UnlockShared, Return, Exit
<1>4. /\ Worker' = Worker /\ Started' = Started /\ total' = total /\ (Monitored' <=> Monitored)
      /\ pc' = [s \in AllThreads |-> pc'[s]] /\ pc'[Caller] = x
      /\ \A s \in AllThreads : s # Caller => pc'[s] = pc[s]
      /\ Worker \subseteq Threads /\ Started \subseteq Threads \cup {Monitor} /\ Worker \subseteq Started
      /\ 0 \in Worker /\ (Monitor \in Started <=> Monitored)
      /\ \A s \in Started : s = Monitor \/ s \in Worker
      /\ Monitor \notin Threads /\ Caller \notin Threads /\ Monitor # Caller
      /\ Monitor \in AllThreads /\ Caller \in AllThreads /\ Threads \subseteq AllThreads
      /\ Nobody \notin AllThreads
  BY <1>1, <1>3, NamesLemma, FactsLemma
<1>5. Arrived' = Arrived /\ DoneWorkers' = DoneWorkers
  BY <1>1, <1>4 DEF Arrived, DoneWorkers, Finished
<1>6. TypeOK'
  BY <1>1, <1>2, <1>3 DEF TypeOK
<1>7. PlacesOK'
  BY <1>1, <1>2, <1>4 DEF PlacesOK, CallerPlaces
<1>8. LockOK'
  BY <1>1, <1>2, <1>4 DEF LockOK, InSection, TypeOK, Over
<1>9. GateOK'
  BY <1>1, <1>2, <1>4, <1>5 DEF GateOK, Over
<1>10. DoneOK'
  BY <1>1, <1>2, <1>4, <1>5 DEF DoneOK, Over
<1>11. SignalOK'
  BY <1>1, <1>2, <1>4 DEF SignalOK, Over
<1>12. NoLostWakeup'
  BY <1>1, <1>2, <1>4 DEF NoLostWakeup, Over
<1> QED  BY <1>6, <1>7, <1>8, <1>9, <1>10, <1>11, <1>12 DEF IInv

Fresh ==
  /\ TypeOK /\ pc = Born /\ mu = Nobody /\ waiting = {}
  /\ num_initialized = 0 /\ num_done = 0 /\ start = FALSE

\* Before a benchmark starts, nothing is counted.
LEMMA BornLemma == Fresh => IInv
<1> SUFFICES ASSUME Fresh PROVE IInv
  OBVIOUS
<1> USE DEF Fresh
<1>1. /\ pc[Caller] = "create" /\ pc[Monitor] = "unborn" /\ \A t \in Threads : pc[t] = "unborn"
      /\ pc = [t \in AllThreads |-> pc[t]]
  BY NamesLemma DEF Born
<1>2. /\ Worker \subseteq Threads /\ Started \subseteq Threads \cup {Monitor}
  BY StartedLemma
<1>3. Arrived = {} /\ DoneWorkers = {}
  BY <1>1, <1>2 DEF Arrived, DoneWorkers, Finished
<1>4. Cardinality(Arrived) = 0 /\ Cardinality(DoneWorkers) = 0
  BY <1>3, FS_EmptySet
<1>5. PlacesOK
  BY <1>1 DEF PlacesOK, WorkerPlaces, MonitorPlaces, CallerPlaces
<1>6. LockOK
  BY <1>1, NamesLemma DEF LockOK
<1>7. GateOK
  BY <1>1, <1>2, <1>4 DEF GateOK
<1>8. DoneOK
  BY <1>1, <1>4 DEF DoneOK, Over
<1>9. SignalOK /\ NoLostWakeup
  BY <1>1 DEF SignalOK, NoLostWakeup, Over
<1> QED  BY <1>5, <1>6, <1>7, <1>8, <1>9 DEF IInv

\* The list of benchmarks without its first.
LEMMA TailLemma ==
  ASSUME NEW s \in Seq(STRING), NEW all \in Seq(STRING), Len(s) > 1, Len(s) <= Len(all)
  PROVE  /\ Tail(s) \in Seq(STRING) /\ Tail(s) # <<>> /\ Len(Tail(s)) <= Len(all)
         /\ Len(all) # 1
<1> DEFINE r == Tail(s)
<1>1. Len(s) \in Nat /\ Len(all) \in Nat
  OBVIOUS
<1>2. r \in Seq(STRING) /\ Len(r) = Len(s) - 1
  <2>1. s # <<>>
    OBVIOUS
  <2> QED  BY <2>1
<1> HIDE DEF r
<1>3. ASSUME NEW k \in Nat, NEW m \in Nat, k > 1, k <= m  PROVE k - 1 > 0 /\ k - 1 <= m /\ m # 1
  BY <1>3
<1>4. Len(r) > 0 /\ Len(r) <= Len(all) /\ Len(all) # 1
  BY <1>1, <1>2, <1>3
<1>5. r # <<>>
  BY <1>4
<1> QED  BY <1>2, <1>4, <1>5 DEF r

\* The next benchmark starts: everybody is gone.
LEMMA NextBenchmarkLemma ==
  ASSUME IInv, NextBenchmark
  PROVE  IInv'
<1>1. /\ pc[Caller] = "returned" /\ Len(work.todo) > 1 /\ pc' = Born
      /\ num_initialized' = 0 /\ num_done' = 0 /\ start' = FALSE /\ loaded' = 0
      /\ mu' = mu /\ waiting' = waiting /\ job' = job
      /\ work' = [work EXCEPT !.todo = Tail(@), !.at = Idle, !.ops = Idle,
                              !.store = FreshStore(Head(Tail(work.todo)), @), !.reported = 0]
  BY DEF NextBenchmark
<1>2. TypeOK /\ PlacesOK /\ LockOK /\ DoneOK /\ SignalOK
  BY DEF IInv
<1>3. DOMAIN work' = DOMAIN work /\ work'.todo = Tail(work.todo)
  BY <1>1, <1>2 DEF TypeOK
<1>4. /\ work.todo \in Seq(STRING) /\ Len(work.todo) <= Len(job.benchmarks)
      /\ job \in Jobs /\ job.benchmarks \in Seq(STRING)
      /\ job.spurious => Len(job.benchmarks) = 1
  BY <1>2, ThreadAssumption DEF TypeOK
<1>5. /\ Tail(work.todo) \in Seq(STRING) /\ Tail(work.todo) # <<>>
      /\ Len(Tail(work.todo)) <= Len(job.benchmarks) /\ Len(job.benchmarks) # 1
  BY <1>1, <1>4, TailLemma
<1>6. ~job.spurious
  BY <1>4, <1>5
<1>7. \A t \in Threads \cup {Monitor} : pc[t] \in {"gone", "unborn"}
  <2>1. \A w \in Worker : pc[w] = "gone"
    BY <1>1, <1>2 DEF DoneOK, Over
  <2>2. Monitored => pc[Monitor] = "gone"
    BY <1>1, <1>2, <1>6 DEF SignalOK, Over
  <2>3. \A t \in Started : t = Monitor \/ t \in Worker
    BY <1>2, StartedLemma
  <2>4. Monitor \in Started <=> Monitored
    BY <1>2, StartedLemma
  <2> QED  BY <2>1, <2>2, <2>3, <2>4, <1>2 DEF PlacesOK
<1>8. mu = Nobody
  BY <1>1, <1>2, <1>7 DEF LockOK, TypeOK, AllThreads
<1>9. waiting = {}
  BY <1>1, <1>2, <1>7 DEF LockOK, TypeOK, AllThreads, InSection
<1>10. TypeOK'
  BY <1>1, <1>2, <1>3, <1>4, <1>5 DEF TypeOK
<1>11. pc' = Born'
  BY <1>1 DEF Born
<1>12. Fresh'
  BY <1>1, <1>8, <1>9, <1>10, <1>11 DEF Fresh
<1> QED  BY <1>12, BornLemma, PTL

--------------------------------------------------------------------------------
\* The theorems.

\* The program starts so.
LEMMA InitLemma == Init => IInv
<1> SUFFICES ASSUME Init PROVE Fresh
  BY BornLemma
<1>1. /\ job \in Jobs /\ pc = Born /\ mu = Nobody /\ waiting = {} /\ num_initialized = 0
      /\ num_done = 0 /\ start = FALSE /\ loaded = 0
  BY DEF Init
<1>2. /\ DOMAIN work = {"todo", "at", "ops", "store", "order", "reported"}
      /\ work.todo = job.benchmarks
  BY DEF Init
<1>3. job.benchmarks \in Seq(STRING) /\ job.benchmarks # <<>>
  BY <1>1, ThreadAssumption
<1>4. Len(work.todo) <= Len(job.benchmarks)
  <2>1. Len(job.benchmarks) \in Nat
    BY <1>3
  <2> QED  BY <2>1, <1>2
<1>5. 0 \in Nat /\ start \in BOOLEAN /\ waiting \subseteq AllThreads
  BY <1>1
<1>6. TypeOK
  BY <1>1, <1>2, <1>3, <1>4, <1>5 DEF TypeOK
<1> QED  BY <1>1, <1>6 DEF Fresh

\* A step in which nothing changes.
LEMMA StutterLemma ==
  ASSUME IInv, UNCHANGED vars
  PROVE  IInv'
<1>1. /\ pc' = pc /\ mu' = mu /\ waiting' = waiting /\ num_initialized' = num_initialized
      /\ num_done' = num_done /\ start' = start /\ loaded' = loaded /\ job' = job /\ work' = work
  BY DEF vars
<1>2. Worker' = Worker /\ Started' = Started /\ (Monitored' <=> Monitored)
  BY <1>1, SameBenchmark
<1>3. Arrived' = Arrived /\ DoneWorkers' = DoneWorkers
  BY <1>1, <1>2 DEF Arrived, DoneWorkers
<1>4. TypeOK' /\ LockOK'
  BY <1>1 DEF IInv, TypeOK, LockOK
<1>5. PlacesOK'
  BY <1>1, <1>2 DEF IInv, PlacesOK
<1>6. GateOK'
  BY <1>1, <1>2, <1>3 DEF IInv, GateOK
<1>7. DoneOK'
  BY <1>1, <1>2, <1>3 DEF IInv, DoneOK
<1>8. SignalOK' /\ NoLostWakeup'
  BY <1>1, <1>2 DEF IInv, SignalOK, NoLostWakeup
<1> QED  BY <1>4, <1>5, <1>6, <1>7, <1>8 DEF IInv

\* Every step of every thread keeps the invariant.
LEMMA StepLemma == IInv /\ [Next]_vars => IInv'
<1> SUFFICES ASSUME IInv, [Next]_vars PROVE IInv'
  OBVIOUS
<1>1. ASSUME NEW t \in AllThreads \ {Caller}, StartedStep(t)  PROVE IInv'
  <2>1. t \in Threads \cup {Monitor} /\ (t # Monitor => t \in Threads)
    BY DEF AllThreads
  <2>2. CASE Enter(t)  BY <2>1, <2>2, EnterLemma
  <2>3. CASE PassGate(t)  BY <2>1, <2>3, PassGateLemma
  <2>4. CASE t # Monitor /\ RunMethod(t)  BY <2>1, <2>4, MethodLemma
  <2>5. CASE t # Monitor /\ Finish(t)  BY <2>1, <2>5, FinishLemma
  <2>6. CASE t # Monitor /\ Leave(t)  BY <2>1, <2>6, LeaveLemma
  <2> QED  BY <1>1, <2>2, <2>3, <2>4, <2>5, <2>6 DEF StartedStep, WorkerStep
<1>2. CASE MonitorStep
  BY <1>2, WatchLemma, SampleLemma, CountItselfLemma DEF MonitorStep
<1>3. CASE CallerStep
  <2>1. CASE \E t \in Started : StartThread(t)  BY <2>1, StartThreadLemma
  <2>2. CASE LockShared  BY <2>2, LockSharedLemma
  <2>3. CASE Gather  BY <2>3, GatherLemma
  <2>4. CASE OpenGate  BY <2>4, OpenGateLemma
  <2>5. CASE TestDone  BY <2>5, TestDoneLemma
  <2>6. CASE Block  BY <2>6, BlockLemma
  <2>7. CASE UnlockShared \/ Return \/ Exit  BY <2>7, OverLemma
  <2>8. CASE NextBenchmark  BY <2>8, NextBenchmarkLemma
  <2> QED  BY <1>3, <2>1, <2>2, <2>3, <2>4, <2>5, <2>6, <2>7, <2>8 DEF CallerStep, RunBenchmark
<1>4. ASSUME NEW t \in AllThreads, Relock(t) \/ SpuriousWakeup(t)  PROVE IInv'
  BY <1>4, RelockLemma, SpuriousLemma
<1>5. CASE UNCHANGED vars
  BY <1>5, StutterLemma
<1> QED  BY <1>1, <1>2, <1>3, <1>4, <1>5 DEF Next, Ended

\* The threads of a benchmark, the mutex, the barrier and the two counts fit
\* together at every moment, although the monitor thread increments num_done
\* and signals without the mutex.
THEOREM BenchmarkConsistent == Spec => []IInv
<1>1. Init => IInv
  BY InitLemma
<1>2. IInv /\ [Next]_vars => IInv'
  BY StepLemma
<1> QED  BY <1>1, <1>2, PTL DEF Spec

\* No thread touches the SharedState once RunBenchmark has returned, if waits end
\* only with a signal.
THEOREM SharedStateOutlivesThreads == Spec => []NoUseAfterReturn
<1>1. IInv => NoUseAfterReturn
  <2> SUFFICES ASSUME IInv, ~job.spurious, pc[Caller] \in {"returned", "exit"}, NEW t \in Started
               PROVE  pc[t] = "gone"
    BY DEF NoUseAfterReturn
  <2>1. pc[Caller] \in Over
    BY DEF Over
  <2>2. /\ \A w \in Worker : pc[w] = "gone"
        /\ Monitored => pc[Monitor] = "gone"
    BY <2>1 DEF IInv, DoneOK, SignalOK
  <2>3. (t = Monitor \/ t \in Worker) /\ (Monitor \in Started <=> Monitored)
    BY StartedLemma DEF IInv
  <2> QED  BY <2>2, <2>3
<1> QED  BY <1>1, BenchmarkConsistent, PTL

\* The monitor thread and RunBenchmark never sample tmon at once, not even if a
\* wait ends without a signal.
THEOREM SamplesNeverMeet == Spec => []SamplesApart
<1>1. IInv => SamplesApart
  <2> SUFFICES ASSUME IInv, pc[Caller] \in {"open", "report", "returned", "exit"}
               PROVE  pc[Monitor] \notin {"watch", "sample", "last"}
    BY DEF SamplesApart
  <2>1. Monitor \notin Started => pc[Monitor] = "unborn"
    BY DEF IInv, PlacesOK
  <2>2. Monitor \in Started <=> Monitored
    BY StartedLemma DEF IInv
  <2>3. CASE pc[Caller] = "open"
    BY <2>1, <2>3 DEF IInv, GateOK
  <2>4. CASE pc[Caller] # "open"
    BY <2>1, <2>2, <2>4 DEF IInv, DoneOK, Over
  <2> QED  BY <2>3, <2>4
<1> QED  BY <1>1, BenchmarkConsistent, PTL

\* No method runs before the last thread came to the barrier, and the caller
\* does not go on while one still runs.
THEOREM MethodsRunBetweenBarriers == Spec => []BetweenBarriers
<1>1. IInv => BetweenBarriers
  <2> SUFFICES ASSUME IInv, NEW w \in Worker, pc[w] \in Methods
               PROVE  /\ \A t \in Started : pc[t] \notin {"unborn", "enter"}
                      /\ pc[Caller] \in {"collect", "block"}
    BY DEF BetweenBarriers
  <2>1. w \in Started
    BY StartedLemma DEF IInv
  <2>2. pc[Caller] \notin {"create", "gather", "open"}
    BY <2>1 DEF IInv, GateOK, Methods
  <2>3. pc[Caller] \notin Over
    BY DEF IInv, DoneOK, Methods
  <2> QED  BY <2>2, <2>3 DEF IInv, GateOK, PlacesOK, CallerPlaces, Over
<1> QED  BY <1>1, BenchmarkConsistent, PTL

\* No wakeup is lost, if waits end only with a signal: as long as a thread
\* waits, there is one that will signal it.
THEOREM WaitersAreSignalled == Spec => []NoLostWakeup
<1>1. IInv => NoLostWakeup
  BY DEF IInv
<1> QED  BY <1>1, BenchmarkConsistent, PTL
================================================================================
