------------------------------- MODULE WriteQueue ------------------------------
(***************************************************************************)
(* The threads of one DBImpl: writers that queue up in writers_ and commit *)
(* in groups, CompactRange, the background thread, and the destructor.     *)
(*                                                                         *)
(* A step is what a thread does from the moment it has mutex_ to the       *)
(* moment it gives it up, or one piece of work without it.  A thread that  *)
(* waits on a condition variable runs again only once it was signalled.    *)
(* Every client makes one call; a batch holds one update.                  *)
(***************************************************************************)
EXTENDS Integers, SequencesExt

CONSTANTS Client, NoClient,
          Calls,               \* the calls that clients make: functions to Op
          WriteBufferSize,     \* write_buffer_size, in batches
          L0_CompactionTrigger,
          L0_SlowdownWritesTrigger,
          L0_StopWritesTrigger,
          MaxFailures          \* bound: I/O operations that fail

\* A call: a Write with options sync and writeahead, or, without a batch, a
\* CompactRange, which starts with Write(WriteOptions(), NULL).
Op == [batch : BOOLEAN, sync : BOOLEAN, writeahead : BOOLEAN]

ASSUME TriggerAssumption ==
  /\ NoClient \notin Client /\ Calls \subseteq [Client -> Op]
  /\ 0 < L0_CompactionTrigger /\ L0_CompactionTrigger <= L0_SlowdownWritesTrigger
  /\ L0_SlowdownWritesTrigger < L0_StopWritesTrigger

VARIABLES pc,       \* what each client does next
          op,       \* its call
          paranoid, \* options_.paranoid_checks
          writers,  \* writers_
          status,   \* what its Write returned: "none", "ok" or "error"
          force,    \* force of MakeRoomForWrite
          delay,    \* allow_delay of MakeRoomForWrite
          group,    \* the group it commits, from BuildBatchGroup
          done,     \* manual.done of TEST_CompactRange
          seq,      \* the sequence number of its batch, 0 if none
          lastSequence,
          mem, imm, \* the batches in mem_ and in imm_
          tables,   \* the batches in table files
          logged,   \* the batches in the current log file
          synced,   \* the batches in a log that was synced after them
          l0,       \* NumLevelFiles(0)
          manual,   \* manual_compaction_: its client
          bg,       \* the background thread, see Idle
          bgError,  \* bg_error_ is set
          closing,  \* the destructor: "no", "wait", "awake" or "done"
          failures, \* I/O operations that failed so far
          arrived   \* history: the calls of Write in order

clients == <<pc, op, paranoid, writers, status, force, delay, group, seq, done>>
tableVars == <<lastSequence, mem, imm, tables, logged, synced>>
background == <<l0, manual, bg, bgError, closing>>
vars == <<clients, tableVars, background, failures, arrived>>

NoTable == {NoClient}
\* bg_compaction_scheduled_ is at # "idle"; inputs counts the level-0 files a
\* compaction has picked.
Idle == [at |-> "idle", inputs |-> 0, manual |-> FALSE]

Init ==
  /\ pc = [c \in Client |-> "start"]
  /\ op \in Calls /\ paranoid \in BOOLEAN
  /\ writers = <<>>
  /\ status = [c \in Client |-> "none"]
  /\ force = [c \in Client |-> FALSE] /\ delay = [c \in Client |-> FALSE]
  /\ group = [c \in Client |-> <<>>]
  /\ seq = [c \in Client |-> 0] /\ done = [c \in Client |-> FALSE]
  /\ lastSequence = 0
  /\ mem = {} /\ imm = NoTable /\ tables = {}
  /\ logged = {} /\ synced = {}
  /\ l0 = 0 /\ manual = NoClient /\ bg = Idle
  /\ bgError = FALSE /\ closing = "no" /\ failures = 0
  /\ arrived = <<>>

Fails == failures < MaxFailures /\ failures' = failures + 1
Works == UNCHANGED failures

--------------------------------------------------------------------------------
\* Condition variables.

\* bg_cv_.SignalAll(): every waiting client tests its condition again.
Awake(p) ==
  [c \in Client |-> CASE p[c] = "room wait" -> "room"
                      [] p[c] = "imm wait" -> "imm"
                      [] p[c] = "slot wait" -> "slot"
                      [] p[c] = "manual wait" -> "manual"
                      [] OTHER -> p[c]]
SignalAll ==
  /\ pc' = Awake(pc)
  /\ closing' = IF closing = "wait" THEN "awake" ELSE closing

\* Env::Schedule: the queue of the background thread is empty when it is
\* called, since bg_compaction_scheduled_ is not set.  Env::BGThread takes the
\* call from the queue as soon as it is there.
Schedule == [Idle EXCEPT !.at = "scheduled"]
BGThread == bg.at = "scheduled"

\* MaybeScheduleCompaction, given what its caller has just set.
MaybeSchedule(b, im, man, files) ==
  IF /\ b.at = "idle" /\ closing = "no"
     /\ im # NoTable \/ man # NoClient \/ files >= L0_CompactionTrigger
  THEN Schedule ELSE b

--------------------------------------------------------------------------------
\* DBImpl::Write.

\* Where a client goes that is at the front of the queue, or not.
AtFront(q, c) == IF q[1] = c THEN "room" ELSE "queued"

Write(c) ==
  /\ pc[c] = "start"
  /\ writers' = Append(writers, c)
  /\ pc' = [pc EXCEPT ![c] = AtFront(writers', c)]
  /\ force' = [force EXCEPT ![c] = ~op[c].batch]
  /\ delay' = [delay EXCEPT ![c] = op[c].batch]
  /\ arrived' = Append(arrived, c)
  /\ UNCHANGED <<op, paranoid, status, group, seq, done, tableVars, background, failures>>

\* w.cv was signalled: the call is done, or this writer is the front.
Resume(c) ==
  /\ pc[c] = "awake"
  /\ pc' = [pc EXCEPT ![c] = IF status[c] # "none" THEN "written" ELSE AtFront(writers, c)]
  /\ UNCHANGED <<op, paranoid, writers, status, force, delay, group, seq, done, tableVars, background, failures, arrived>>

\* Mutant: every writer joins, whether or not it asks for a sync.
GroupIgnoringSync(q) == {q}

\* BuildBatchGroup: the front and the writers behind it, up to the first that
\* asks for a sync the front does not make.  A writer without a batch joins
\* too; a batch may be one too many for max_size.
BuildBatchGroup(q) ==
  LET joined == {n \in 1..Len(q) : \A i \in 2..n : op[q[i]].sync => op[q[1]].sync}
      ends == {n \in joined : n + 1 \in joined => op[q[n + 1]].batch}
  IN  {SubSeq(q, 1, n) : n \in ends}

\* WriteBatchInternal::Count of the first n writers of a group.
Count(g, n) == Cardinality({i \in 1..n : op[g[i]].batch})

\* Mutant: the batch of the front is appended last.
PositionFrontLast(g, d) ==
  IF d = g[1] THEN Count(g, Len(g)) ELSE Count(g, CHOOSE i \in DOMAIN g : g[i] = d) - 1

\* The place of a batch among those appended to tmp_batch_.
Position(g, d) == Count(g, CHOOSE i \in DOMAIN g : g[i] = d)

\* The end of Write: the group is told and leaves, the new front is signalled.
Complete(c, g, result) ==
  LET rest == SubSeq(writers, Len(g) + 1, Len(writers))
  IN  /\ writers' = rest
      /\ status' = [d \in Client |-> IF d \in ToSet(g) THEN result ELSE status[d]]
      /\ pc' = [d \in Client |->
                 CASE d = c -> "written"
                   [] d # c /\ pc[d] = "queued"
                            /\ (d \in ToSet(g) \/ (rest # <<>> /\ d = rest[1])) -> "awake"
                   [] OTHER -> pc[d]]

\* Mutant: the number of the last update is given to the next one again.
LastSequenceAgain == lastSequence

\* What WriteBatchInternal::SetSequence stores in the batch.
FirstSequence == lastSequence + 1

\* MakeRoomForWrite is through.
Go(c) ==
  IF op[c].batch
  THEN /\ \E g \in BuildBatchGroup(writers) :
            /\ group' = [group EXCEPT ![c] = g]
            /\ seq' = [d \in Client |-> IF d \in ToSet(g) /\ op[d].batch
                                        THEN FirstSequence + Position(g, d) - 1 ELSE seq[d]]
       /\ pc' = [pc EXCEPT ![c] = IF op[c].writeahead THEN "append" ELSE "insert"]
       /\ UNCHANGED <<writers, status>>
  ELSE /\ Complete(c, <<c>>, "ok")
       /\ UNCHANGED <<group, seq>>

HasRoom(c) == ~force[c] /\ Cardinality(mem) <= WriteBufferSize
Slow(c) == delay[c] /\ l0 >= L0_SlowdownWritesTrigger

\* MakeRoomForWrite finds the error of a background compaction.
RoomError(c) ==
  /\ pc[c] = "room" /\ bgError
  /\ Complete(c, <<c>>, "error")
  /\ UNCHANGED <<op, paranoid, force, delay, group, seq, done, tableVars, background, failures, arrived>>

\* It sleeps for a millisecond, once.
RoomDelay(c) ==
  /\ pc[c] = "room" /\ ~bgError /\ Slow(c)
  /\ delay' = [delay EXCEPT ![c] = FALSE]
  /\ UNCHANGED <<pc, op, paranoid, writers, status, force, group, seq, done, tableVars, background, failures, arrived>>

RoomFound(c) ==
  /\ pc[c] = "room" /\ ~bgError /\ ~Slow(c) /\ HasRoom(c)
  /\ Go(c)
  /\ UNCHANGED <<op, paranoid, force, delay, done, tableVars, background, failures, arrived>>

RoomWait(c) ==
  /\ pc[c] = "room" /\ ~bgError /\ ~Slow(c) /\ ~HasRoom(c)
  /\ imm # NoTable \/ l0 >= L0_StopWritesTrigger
  /\ pc' = [pc EXCEPT ![c] = "room wait"]
  /\ UNCHANGED <<op, paranoid, writers, status, force, delay, group, seq, done, tableVars, background, failures, arrived>>

\* Mutant: the switch does not wait for the previous memtable.
MaySwitchOver == l0 < L0_StopWritesTrigger

MaySwitch == imm = NoTable /\ l0 < L0_StopWritesTrigger

\* A new log and memtable; the new memtable has room.  The new log may fail
\* to be created.
RoomSwitch(c) ==
  /\ pc[c] = "room" /\ ~bgError /\ ~Slow(c) /\ ~HasRoom(c)
  /\ MaySwitch
  /\ \/ /\ Works
        /\ imm' = mem /\ mem' = {} /\ logged' = {}
        /\ force' = [force EXCEPT ![c] = FALSE]
        /\ bg' = MaybeSchedule(bg, mem, manual, l0)
        /\ Go(c)
     \/ /\ Fails
        /\ Complete(c, <<c>>, "error")
        /\ UNCHANGED <<imm, mem, logged, force, bg, group, seq>>
  /\ UNCHANGED <<op, paranoid, delay, done, lastSequence, tables, synced, l0, manual, bgError, closing, arrived>>

Batches(c) == {d \in ToSet(group[c]) : op[d].batch}

\* The relocked end of a group: sequence numbers are used up in any case.
Commit(c, result) ==
  /\ lastSequence' = lastSequence + Count(group[c], Len(group[c]))
  /\ Complete(c, group[c], result)

\* log_->AddRecord, without the mutex; a failure ends the call.
AppendRecord(c) ==
  /\ pc[c] = "append"
  /\ \/ /\ Works
        /\ logged' = logged \cup Batches(c)
        /\ pc' = [pc EXCEPT ![c] = IF op[c].sync THEN "sync" ELSE "insert"]
        /\ UNCHANGED <<writers, status, lastSequence>>
     \/ /\ Fails
        /\ Commit(c, "error")
        /\ UNCHANGED logged
  /\ UNCHANGED <<op, paranoid, force, delay, group, seq, done, mem, imm, tables, synced, background, arrived>>

Sync(c) ==
  /\ pc[c] = "sync"
  /\ \/ /\ Works
        /\ synced' = synced \cup logged
        /\ pc' = [pc EXCEPT ![c] = "insert"]
        /\ UNCHANGED <<writers, status, lastSequence>>
     \/ /\ Fails
        /\ Commit(c, "error")
        /\ UNCHANGED synced
  /\ UNCHANGED <<op, paranoid, force, delay, group, seq, done, mem, imm, tables, logged, background, arrived>>

\* WriteBatchInternal::InsertInto, batch after batch, without the mutex.
InsertInto(c) ==
  /\ pc[c] = "insert"
  /\ \E d \in Batches(c) \ mem :
       /\ \A e \in Batches(c) \ mem : seq[d] <= seq[e]
       /\ mem' = mem \cup {d}
  /\ pc' = [pc EXCEPT ![c] = IF Batches(c) \subseteq mem' THEN "commit" ELSE "insert"]
  /\ UNCHANGED <<op, paranoid, writers, status, force, delay, group, seq, done, lastSequence, imm, tables, logged,
                 synced, background, failures, arrived>>

CommitGroup(c) ==
  /\ pc[c] = "commit"
  /\ Commit(c, "ok")
  /\ UNCHANGED <<op, paranoid, force, delay, group, seq, done, mem, imm, tables, logged, synced, background, failures,
                 arrived>>

--------------------------------------------------------------------------------
\* The rest of CompactRange: TEST_CompactMemTable waits for imm_, then
\* TEST_CompactRange for the compaction of one level.

Written(c) ==
  /\ pc[c] = "written"
  /\ pc' = [pc EXCEPT ![c] = CASE op[c].batch -> "returned"
                               [] ~op[c].batch /\ status[c] = "ok" -> "imm"
                               [] OTHER -> "slot"]
  /\ UNCHANGED <<op, paranoid, writers, status, force, delay, group, seq, done, tableVars, background, failures, arrived>>

WaitForImm(c) ==
  /\ pc[c] = "imm"
  /\ pc' = [pc EXCEPT ![c] = IF imm # NoTable /\ ~bgError THEN "imm wait" ELSE "slot"]
  /\ UNCHANGED <<op, paranoid, writers, status, force, delay, group, seq, done, tableVars, background, failures, arrived>>

SetManual(c) ==
  /\ pc[c] = "slot"
  /\ IF manual # NoClient
     THEN /\ pc' = [pc EXCEPT ![c] = "slot wait"]
          /\ UNCHANGED <<manual, bg>>
     ELSE /\ pc' = [pc EXCEPT ![c] = "manual wait"]
          /\ manual' = c
          /\ bg' = MaybeSchedule(bg, imm, c, l0)
  /\ UNCHANGED <<op, paranoid, writers, status, force, delay, group, seq, done, tableVars, l0, bgError, closing,
                 failures, arrived>>

\* Once the slot is not its own the client asks again for what is left of
\* the range, unless it was done.
ManualDone(c) ==
  /\ pc[c] = "manual"
  /\ pc' = [pc EXCEPT ![c] = CASE manual = c -> "manual wait"
                               [] manual # c /\ ~done[c] -> "slot"
                               [] OTHER -> "returned"]
  /\ UNCHANGED <<op, paranoid, writers, status, force, delay, group, seq, done, tableVars, background, failures,
                 arrived>>

--------------------------------------------------------------------------------
\* The background thread: BackgroundCall.

\* The end of BackgroundCall: rescheduled if there is more to do.
Finish(im, man, files) == bg' = MaybeSchedule(Idle, im, man, files) /\ SignalAll

\* BackgroundCall starts: a memtable first, then a manual compaction, then
\* what PickCompaction finds.
BackgroundStart ==
  /\ BGThread /\ closing = "no"
  /\ \/ imm # NoTable /\ bg' = [bg EXCEPT !.at = "flush"]
     \/ /\ imm = NoTable /\ (manual # NoClient \/ l0 >= L0_CompactionTrigger)
        /\ bg' = [at |-> "work", inputs |-> l0, manual |-> manual # NoClient]
  /\ UNCHANGED <<clients, tableVars, l0, manual, bgError, closing, failures, arrived>>

\* Mutant: a manual compaction is never done.
ManualGoesOn(isDone) == manual' = NoClient /\ UNCHANGED done

\* The end of BackgroundCompaction for the client of a manual compaction.
ManualEnds(isDone) ==
  /\ manual' = NoClient
  /\ done' = [done EXCEPT ![manual] = isDone]

\* Nothing to do: the database is being closed, a manual compaction finds no
\* file in its range, or there is no compaction to pick.
BackgroundNothing ==
  /\ BGThread
  /\ \/ closing # "no" /\ UNCHANGED <<manual, done>>
     \/ closing = "no" /\ imm = NoTable /\ manual # NoClient /\ ManualEnds(TRUE)
     \/ /\ closing = "no" /\ imm = NoTable /\ manual = NoClient /\ l0 < L0_CompactionTrigger
        /\ UNCHANGED <<manual, done>>
  /\ Finish(imm, manual', l0)
  /\ UNCHANGED <<op, paranoid, writers, status, force, delay, group, seq, tableVars, l0, bgError, failures, arrived>>

\* DoCompactionWork sees has_imm_.
FlushFirst ==
  /\ bg.at = "work" /\ imm # NoTable /\ closing = "no"
  /\ bg' = [bg EXCEPT !.at = "work flush"]
  /\ UNCHANGED <<clients, tableVars, l0, manual, bgError, closing, failures, arrived>>

\* CompactMemTable: the table is installed, at level 0 or deeper.
Installed ==
  /\ tables' = tables \cup imm
  /\ imm' = NoTable
  /\ l0' \in IF imm = {} THEN {l0} ELSE {l0, l0 + 1}

FlushDone ==
  /\ bg.at = "flush"
  /\ \/ Works /\ Installed /\ Finish(NoTable, manual, l0')
     \/ \* an error, or the database is being closed: BackgroundCall waits
        /\ IF closing = "no" THEN Fails ELSE Works
        /\ bg' = [bg EXCEPT !.at = "sleep"]
        /\ SignalAll
        /\ UNCHANGED <<tables, imm, l0>>
  /\ UNCHANGED <<op, paranoid, writers, status, force, delay, group, seq, done, lastSequence, mem, logged, synced, manual,
                 bgError, arrived>>

\* Within DoCompactionWork the result of CompactMemTable is not looked at.
WorkFlushDone ==
  /\ bg.at = "work flush"
  /\ \/ Works /\ Installed
     \/ /\ IF closing = "no" THEN Fails ELSE Works
        /\ UNCHANGED <<tables, imm, l0>>
  /\ bg' = [bg EXCEPT !.at = "work"]
  /\ SignalAll
  /\ UNCHANGED <<op, paranoid, writers, status, force, delay, group, seq, done, lastSequence, mem, logged, synced, manual,
                 bgError, arrived>>

\* The end of BackgroundCompaction: the inputs are replaced, or the error is
\* kept if checks are paranoid; either way the manual slot is free again.
WorkDone ==
  /\ bg.at = "work"
  /\ \/ /\ closing = "no" /\ Works
        /\ IF bg.manual THEN ManualEnds(FALSE) ELSE UNCHANGED <<manual, done>>
        /\ l0' = l0 - bg.inputs
        /\ Finish(imm, manual', l0')
        /\ UNCHANGED bgError
     \/ /\ IF closing = "no" THEN Fails ELSE Works
        /\ IF bg.manual THEN ManualEnds(TRUE) ELSE UNCHANGED <<manual, done>>
        /\ bgError' = (bgError \/ (closing = "no" /\ paranoid))
        /\ bg' = [bg EXCEPT !.at = "sleep"]
        /\ SignalAll
        /\ UNCHANGED l0
  /\ UNCHANGED <<op, paranoid, writers, status, force, delay, group, seq, tableVars, arrived>>

\* One second after an error.
Slept ==
  /\ bg.at = "sleep"
  /\ Finish(imm, manual, l0)
  /\ UNCHANGED <<op, paranoid, writers, status, force, delay, group, seq, done, tableVars, l0, manual, bgError, failures,
                 arrived>>

--------------------------------------------------------------------------------
\* ~DBImpl, once every client has returned.

Close ==
  /\ \/ closing = "no" /\ \A c \in Client : pc[c] = "returned"
     \/ closing = "awake"
  /\ closing' = IF bg.at # "idle" THEN "wait" ELSE "done"
  /\ UNCHANGED <<clients, tableVars, l0, manual, bg, bgError, failures, arrived>>

Terminated == closing = "done" /\ UNCHANGED vars

ClientStep(c) ==
  \/ Write(c) \/ Resume(c)
  \/ RoomError(c) \/ RoomDelay(c) \/ RoomFound(c) \/ RoomWait(c) \/ RoomSwitch(c)
  \/ AppendRecord(c) \/ Sync(c) \/ InsertInto(c) \/ CommitGroup(c)
  \/ Written(c) \/ WaitForImm(c) \/ SetManual(c) \/ ManualDone(c)

BackgroundStep ==
  BackgroundStart \/ BackgroundNothing \/ FlushFirst \/ FlushDone \/ WorkFlushDone \/ WorkDone \/ Slept

Next == (\E c \in Client : ClientStep(c)) \/ BackgroundStep \/ Close \/ Terminated

\* A thread that can run does; the range of a manual compaction shrinks with
\* every part, so that at last it holds no file.
Fairness ==
  /\ \A c \in Client : WF_vars(ClientStep(c))
  /\ WF_vars(BackgroundStep) /\ SF_vars(BackgroundNothing)
  /\ WF_vars(Close)

Spec == Init /\ [][Next]_vars /\ Fairness

--------------------------------------------------------------------------------
Stored == mem \cup tables \cup (IF imm = NoTable THEN {} ELSE imm)

\* A Write that returned success is in a memtable or a table, at a sequence
\* number that readers see; one that failed is in none.
AcknowledgedIsVisible ==
  \A c \in Client : op[c].batch =>
    /\ status[c] = "ok" => c \in Stored /\ seq[c] <= lastSequence
    /\ status[c] = "error" => c \notin Stored

\* Readers at lastSequence never see half of a group: what is in a memtable
\* before its group is committed has a later sequence number.
NothingEarly ==
  \A c \in Stored : status[c] = "none" => seq[c] > lastSequence

\* Sequence numbers are handed out in the order in which the calls queued up,
\* each once.
ArrivalOrder ==
  \A i, j \in DOMAIN arrived :
    LET c == arrived[i]
        d == arrived[j]
    IN  i < j /\ seq[c] # 0 /\ seq[d] # 0 => seq[c] < seq[d]

\* A Write with sync that returned success was synced to the log.
SyncedWhenAcknowledged ==
  \A c \in Client :
    op[c].batch /\ op[c].sync /\ op[c].writeahead /\ status[c] = "ok" => c \in synced

\* Every call returns and the database can be closed.
AllReturn == <>(closing = "done")
================================================================================
