--------------------------------- MODULE FsBench --------------------------------
(***************************************************************************)
(* The benchmark programs, src/src/fsbench.cpp and                         *)
(* src/lib/leveldb/db/db_bench.cc: for each benchmark the calling thread,  *)
(* the benchmark threads and the monitor thread meet at a barrier, the     *)
(* threads run, and the caller takes the shared state (on its stack) and   *)
(* the thread arguments away when all have counted themselves done.  The   *)
(* monitor thread reads and increments num_done, and signals, without the  *)
(* mutex.                                                                  *)
(*                                                                         *)
(* A thread whose pc is a place inside a critical section and who is not   *)
(* the holder of mu is on its way back from CondVar::Wait.                 *)
(***************************************************************************)
EXTENDS BenchMethods

CONSTANTS Monitor,  \* the monitor thread
          Caller,   \* the thread in RunBenchmark
          Nobody,
          Jobs      \* what is run: [program, threads, benchmarks, spurious]

ASSUME ThreadAssumption ==
  /\ Monitor # Caller /\ Nobody \notin {Monitor, Caller}
  /\ {Monitor, Caller, Nobody} \cap Nat = {}
  /\ \A j \in Jobs : /\ j.program \in {"fsbench", "db_bench"}
                     /\ j.threads \in Nat \ {0}
                     /\ j.benchmarks \in Seq(STRING) /\ j.benchmarks # <<>>
                     /\ j.spurious \in BOOLEAN
                     /\ j.spurious => Len(j.benchmarks) = 1

VARIABLES job,              \* the one of Jobs; spurious: Wait may return without a signal
          pc,               \* where each thread is
          mu,               \* SharedState::mu: its holder, or Nobody
          waiting,          \* SharedState::cv: the threads blocked in Wait
          num_initialized, num_done, start,
          loaded,           \* what the monitor thread read in num_done++
          work              \* what the methods do, see Idle

vars == <<job, pc, mu, waiting, num_initialized, num_done, start, loaded, work>>

\* Benchmark::Run, of both programs: the benchmark, and the number of its threads.
bench == Head(work.todo)
Monitored == job.program = "fsbench"
n == IF bench = "readwhilewriting" THEN job.threads + 1 ELSE job.threads

\* The benchmark threads there are at most, all threads, and those of the
\* benchmark.
Threads == UNION {0 .. j.threads : j \in Jobs}
AllThreads == Threads \cup {Monitor, Caller}
Worker == 0 .. n - 1
Started == Worker \cup (IF Monitored THEN {Monitor} ELSE {})
total == IF Monitored THEN n + 1 ELSE n

\* What a benchmark starts from: the threads have made no call (at) and counted
\* nothing (ops); reported is the sum the last one gave.
Idle == [t \in Threads |-> 0]
FreshStore(name, store) == IF ~Monitored /\ name \in FreshDb THEN {} ELSE store

Born == [t \in AllThreads |-> IF t = Caller THEN "create" ELSE "unborn"]

Init == /\ job \in Jobs
        /\ pc = Born
        /\ mu = Nobody
        /\ waiting = {}
        /\ num_initialized = 0
        /\ num_done = 0
        /\ start = FALSE
        /\ loaded = 0
        /\ \E o \in PathOrders :
             work = [todo |-> job.benchmarks, at |-> Idle, ops |-> Idle,
                     store |-> IF Monitored THEN {<<>>} ELSE {}, order |-> o, reported |-> 0]

Goto(t, place) == pc' = [pc EXCEPT ![t] = place]
Lock(t) == mu = Nobody /\ mu' = t
Unlock(t) == mu = t /\ mu' = Nobody
Wait(t) == Unlock(t) /\ waiting' = waiting \cup {t}
SignalAll == waiting' = {}

\* Coming back from Wait: with a signal, and in possession of the mutex.
InSection == {"gate", "gather", "collect"}
Relock(t) ==
  /\ pc[t] \in InSection
  /\ t \notin waiting
  /\ Lock(t)
  /\ UNCHANGED <<pc, waiting, num_initialized, num_done, start, loaded, work, job>>

SpuriousWakeup(t) ==
  /\ job.spurious
  /\ t \in waiting
  /\ waiting' = waiting \ {t}
  /\ UNCHANGED <<pc, mu, num_initialized, num_done, start, loaded, work, job>>

--------------------------------------------------------------------------------
\* ThreadBody and MonitorThreadBody, up to the barrier.

Enter(t) ==
  /\ pc[t] = "enter"
  /\ Lock(t)
  /\ num_initialized' = num_initialized + 1
  /\ IF num_initialized' >= total THEN SignalAll ELSE UNCHANGED waiting
  /\ Goto(t, "gate")
  /\ UNCHANGED <<num_done, start, loaded, work, job>>

Passed(t) == IF t = Monitor THEN "watch" ELSE "method"

\* Mutant of PassGate: the threads wait for each other, but not for the caller.
PassGateUncalled(t) ==
  /\ pc[t] = "gate"
  /\ IF num_initialized >= total
     THEN Unlock(t) /\ UNCHANGED waiting /\ Goto(t, Passed(t))
     ELSE Wait(t) /\ UNCHANGED pc
  /\ UNCHANGED <<num_initialized, num_done, start, loaded, work, job>>

PassGate(t) ==
  /\ pc[t] = "gate"
  /\ IF start
     THEN Unlock(t) /\ UNCHANGED waiting /\ Goto(t, Passed(t))
     ELSE Wait(t) /\ UNCHANGED pc
  /\ UNCHANGED <<num_initialized, num_done, start, loaded, work, job>>

\* The benchmark method, call by call.
Script(t) == IF Monitored THEN FsMethod(bench, t, n, work.order) ELSE DbMethod(bench)
Writer(t) == bench = "readwhilewriting" /\ t = 0

MakeCall(t) ==
  /\ pc[t] = "method"
  /\ ~Writer(t)
  /\ work.at[t] < Len(Script(t))
  /\ LET call == Script(t)[work.at[t] + 1] IN
     \/ \E arg \in call.args :
          /\ work' = [work EXCEPT !.at[t] = @ + 1,
                                 !.ops[t] = @ + Counted(call, arg, work.store),
                                 !.store = After(call, arg, @)]
          /\ Goto(t, IF GivesUp(call, arg, work.store) THEN "finish" ELSE "method")
     \/ /\ call.args = {}
        /\ work' = [work EXCEPT !.at[t] = @ + 1]
        /\ UNCHANGED pc
  /\ UNCHANGED <<mu, waiting, num_initialized, num_done, start, loaded, job>>

EndMethod(t) ==
  /\ pc[t] = "method"
  /\ ~Writer(t)
  /\ work.at[t] = Len(Script(t))
  /\ Goto(t, "finish")
  /\ UNCHANGED <<mu, waiting, num_initialized, num_done, start, loaded, work, job>>

\* ReadWhileWriting of thread 0: it writes until it is the only one not done, and
\* its work is not counted.
TestOthers(t) ==
  /\ pc[t] = "method"
  /\ Writer(t)
  /\ mu = Nobody
  /\ Goto(t, IF num_done + 1 >= num_initialized THEN "finish" ELSE "put")
  /\ UNCHANGED <<mu, waiting, num_initialized, num_done, start, loaded, work, job>>

PutAny(t) ==
  /\ pc[t] = "put"
  /\ \E key \in Keys : work' = [work EXCEPT !.store = @ \cup {key}]
  /\ Goto(t, "method")
  /\ UNCHANGED <<mu, waiting, num_initialized, num_done, start, loaded, job>>

RunMethod(t) == MakeCall(t) \/ EndMethod(t) \/ TestOthers(t) \/ PutAny(t)

\* The rest of ThreadBody.
Finish(t) ==
  /\ pc[t] = "finish"
  /\ Lock(t)
  /\ num_done' = num_done + 1
  /\ IF num_done' >= total THEN SignalAll ELSE UNCHANGED waiting
  /\ Goto(t, "leave")
  /\ UNCHANGED <<num_initialized, start, loaded, work, job>>

Leave(t) ==
  /\ pc[t] = "leave"
  /\ Unlock(t)
  /\ Goto(t, "gone")
  /\ UNCHANGED <<waiting, num_initialized, num_done, start, loaded, work, job>>

--------------------------------------------------------------------------------
\* The rest of MonitorThreadBody.  Its loop reads num_done without the mutex (the
\* calls in the loop make the compiler read it each time), and num_done ++ is a
\* read and a write.

\* Mutant of Watch: the monitor thread waits for its own count as well.
WatchForItself ==
  /\ pc[Monitor] = "watch"
  /\ Goto(Monitor, IF num_done < total THEN "sample" ELSE "last")
  /\ UNCHANGED <<mu, waiting, num_initialized, num_done, start, loaded, work, job>>

Watch ==
  /\ pc[Monitor] = "watch"
  /\ Goto(Monitor, IF num_done < total - 1 THEN "sample" ELSE "last")
  /\ UNCHANGED <<mu, waiting, num_initialized, num_done, start, loaded, work, job>>

\* tmon->DoMonitor() in the loop, with the sleep, and after it.
Sample ==
  /\ pc[Monitor] \in {"sample", "last"}
  /\ Goto(Monitor, IF pc[Monitor] = "sample" THEN "watch" ELSE "load")
  /\ UNCHANGED <<mu, waiting, num_initialized, num_done, start, loaded, work, job>>

Load ==
  /\ pc[Monitor] = "load"
  /\ loaded' = num_done
  /\ Goto(Monitor, "store")
  /\ UNCHANGED <<mu, waiting, num_initialized, num_done, start, work, job>>

Store ==
  /\ pc[Monitor] = "store"
  /\ num_done' = loaded + 1
  /\ Goto(Monitor, "signal")
  /\ UNCHANGED <<mu, waiting, num_initialized, start, loaded, work, job>>

Signal ==
  /\ pc[Monitor] = "signal"
  /\ SignalAll
  /\ Goto(Monitor, "gone")
  /\ UNCHANGED <<mu, num_initialized, num_done, start, loaded, work, job>>

--------------------------------------------------------------------------------
\* RunBenchmark.

\* The benchmark threads are started one by one, the monitor thread after them.
StartThread(t) ==
  /\ pc[Caller] = "create"
  /\ pc[t] = "unborn"
  /\ IF t = Monitor THEN \A w \in Worker : pc[w] # "unborn" ELSE \A w \in 0 .. t - 1 : pc[w] # "unborn"
  /\ Goto(t, "enter")
  /\ UNCHANGED <<mu, waiting, num_initialized, num_done, start, loaded, work, job>>

LockShared ==
  /\ pc[Caller] = "create"
  /\ \A t \in Started : pc[t] # "unborn"
  /\ Lock(Caller)
  /\ Goto(Caller, "gather")
  /\ UNCHANGED <<waiting, num_initialized, num_done, start, loaded, work, job>>

\* while (num_initialized < total) Wait.  Only the holder of mu changes the count.
Gather ==
  /\ pc[Caller] = "gather"
  /\ IF num_initialized < total
     THEN Wait(Caller) /\ UNCHANGED pc
     ELSE /\ mu = Caller
          /\ Goto(Caller, "open")
          /\ UNCHANGED <<mu, waiting>>
  /\ UNCHANGED <<num_initialized, num_done, start, loaded, work, job>>

\* emon and tmon are sampled, with mu held, and the barrier opens.
OpenGate ==
  /\ pc[Caller] = "open"
  /\ start' = TRUE
  /\ SignalAll
  /\ Goto(Caller, "collect")
  /\ UNCHANGED <<mu, num_initialized, num_done, loaded, work, job>>

\* Mutants: the monitor thread is not counted in the test; polling in the place
\* of Wait.
TestDoneTooFew ==
  /\ pc[Caller] = "collect"
  /\ mu = Caller
  /\ Goto(Caller, IF num_done < total - 1 THEN "block" ELSE "unlock")
  /\ UNCHANGED <<mu, waiting, num_initialized, num_done, start, loaded, work, job>>

BlockPolls ==
  /\ pc[Caller] = "block"
  /\ Unlock(Caller)
  /\ Goto(Caller, "collect")
  /\ UNCHANGED <<waiting, num_initialized, num_done, start, loaded, work, job>>

\* while (num_done <= n) Wait: the monitor thread may come between the test and
\* the Wait.
TestDone ==
  /\ pc[Caller] = "collect"
  /\ mu = Caller
  /\ Goto(Caller, IF num_done < total THEN "block" ELSE "unlock")
  /\ UNCHANGED <<mu, waiting, num_initialized, num_done, start, loaded, work, job>>

Block ==
  /\ pc[Caller] = "block"
  /\ Wait(Caller)
  /\ Goto(Caller, "collect")
  /\ UNCHANGED <<num_initialized, num_done, start, loaded, work, job>>

UnlockShared ==
  /\ pc[Caller] = "unlock"
  /\ Unlock(Caller)
  /\ Goto(Caller, "report")
  /\ UNCHANGED <<waiting, num_initialized, num_done, start, loaded, work, job>>

\* fsbench samples emon and tmon once more, db_bench merges the threads' Stats and
\* pretends at least one operation; the arguments are deleted, and with the return
\* goes the SharedState.
Counts == SumFunction([t \in Worker |-> work.ops[t]])
Return ==
  /\ pc[Caller] = "report"
  /\ work' = [work EXCEPT !.reported = IF Monitored THEN Counts ELSE Max({1, Counts})]
  /\ Goto(Caller, "returned")
  /\ UNCHANGED <<mu, waiting, num_initialized, num_done, start, loaded, job>>

\* Benchmark::Run goes on to the next benchmark, or is through.
NextBenchmark ==
  /\ pc[Caller] = "returned"
  /\ Len(work.todo) > 1
  /\ work' = [work EXCEPT !.todo = Tail(@), !.at = Idle, !.ops = Idle,
                         !.store = FreshStore(Head(Tail(work.todo)), @), !.reported = 0]
  /\ pc' = Born
  /\ num_initialized' = 0
  /\ num_done' = 0
  /\ start' = FALSE
  /\ loaded' = 0
  /\ UNCHANGED <<mu, waiting, job>>

Exit ==
  /\ pc[Caller] = "returned"
  /\ Len(work.todo) = 1
  /\ Goto(Caller, "exit")
  /\ UNCHANGED <<mu, waiting, num_initialized, num_done, start, loaded, work, job>>

--------------------------------------------------------------------------------
WorkerStep(t) == RunMethod(t) \/ Finish(t) \/ Leave(t)
MonitorStep == Watch \/ Sample \/ Load \/ Store \/ Signal
RunBenchmark == \/ \E t \in Started : StartThread(t)
                \/ LockShared \/ Gather \/ OpenGate \/ TestDone \/ Block \/ UnlockShared
                \/ Return
CallerStep == RunBenchmark \/ NextBenchmark \/ Exit
StartedStep(t) == Enter(t) \/ PassGate(t) \/ (t # Monitor /\ WorkerStep(t))

Ended == /\ pc[Caller] = "exit"
         /\ \A t \in Started : pc[t] = "gone"
         /\ UNCHANGED vars

Next == \/ \E t \in AllThreads \ {Caller} : StartedStep(t)
        \/ MonitorStep
        \/ CallerStep
        \/ \E t \in AllThreads : Relock(t) \/ SpuriousWakeup(t)
        \/ Ended

\* Each thread runs whenever it can, the mutex is granted when it stays free, and
\* a benchmark method ends.
Fairness == /\ \A t \in AllThreads \ {Caller} : WF_vars(StartedStep(t))
            /\ \A t \in AllThreads : WF_vars(Relock(t))
            /\ WF_vars(MonitorStep)
            /\ WF_vars(CallerStep)

Spec == Init /\ [][Next]_vars /\ Fairness

--------------------------------------------------------------------------------
\* No thread uses the shared state after RunBenchmark has returned and its stack
\* frame is gone, not even the unlocked SignalAll of the monitor thread, if
\* waits end only with a signal.
NoUseAfterReturn ==
  ~job.spurious /\ pc[Caller] \in {"returned", "exit"} => \A t \in Started : pc[t] = "gone"

\* tmon, which has no lock, is never sampled by the monitor thread and by
\* RunBenchmark at once, nor while RunBenchmark deletes what tmon reads.
SamplesApart ==
  pc[Caller] \in {"open", "report", "returned", "exit"} => pc[Monitor] \notin {"watch", "sample", "last"}

\* The benchmark starts when everyone is there and is over when everyone is done:
\* no method runs before the last thread came to the barrier, and the caller
\* does not go on while one still runs.  With RunBenchmark the work of all threads
\* is done, however their calls interleaved: metadatacreate has made the whole
\* trace, with no file tried before its directory is there, deletequery removes
\* each file once, renamequery keeps every file under one name, fillseq and
\* fillbatch leave every key, and the count of the threads together is exact.
Methods == {"method", "put"}
Trace == {paths[i] : i \in DOMAIN paths}
Files == {FilePaths[i] : i \in DOMAIN FilePaths}
WorkIsDone ==
  CASE bench \in {"metadatacreate", "metadatacreatecompact"} ->
         /\ Trace \subseteq work.store
         /\ work.reported = n * numdirs + Cardinality(Files)
    [] bench = "deletequery" -> work.store \cap Files = {}
    [] bench = "renamequery" -> Files \cap work.store = {}
    [] bench \in {"fillseq", "fillbatch"} -> Keys \subseteq work.store
    [] bench = "deleteseq" -> Keys \cap work.store = {}
    [] bench \in {"readrandom", "readwhilewriting"} -> work.reported = job.threads * FLAGS_reads
    [] OTHER -> TRUE
BetweenBarriers ==
  \A w \in Worker :
    pc[w] \in Methods => /\ \A t \in Started : pc[t] \notin {"unborn", "enter"}
                         /\ pc[Caller] \in {"collect", "block"}
RunsTogether ==
  /\ BetweenBarriers
  /\ ~job.spurious /\ pc[Caller] = "returned" => WorkIsDone

\* Every RunBenchmark returns and the program is through: no wakeup is lost, if
\* waits end only with a signal.
Returns == job.spurious \/ <>(pc[Caller] = "exit")
================================================================================
