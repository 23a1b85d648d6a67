------------------------------ MODULE WritePath ------------------------------
(***************************************************************************)
(* One batch after another on its way into the database (DBImpl::Write     *)
(* after the queue): appended to the log, synced if asked for, inserted    *)
(* into the memtable under the eyes of a reader; and what recovery reads   *)
(* of the log after the process or the machine stops at any point.         *)
(***************************************************************************)
EXTENDS LogFile, MemTable

CONSTANTS
  Clients,   \* workloads: [batches, sizes, heights, reads, faults, crash]
  None

VARIABLES
  client,      \* the workload
  log,         \* the log file, its mapping and the pieces to append
  list, arena, \* the memtable
  writer,      \* [pc, id, size, sync, keys, step, height]
  reader,      \* the search of the reader, and how many it may still begin
  past,        \* what was written: [sizes, logged, safe, spoilt, faults]
  recovered    \* [records, due] read from the log after a stop, or None

vars == <<client, log, list, arena, writer, reader, past, recovered>>

Resting == [pc |-> "idle", id |-> 0, size |-> 0, sync |-> FALSE, keys |-> << >>,
            step |-> 0, height |-> 0]

Init ==
  /\ client \in Clients
  /\ log = NewLog /\ list = NewList /\ arena = NewArena
  /\ writer = Resting /\ reader = [search |-> Idle, left |-> client.reads]
  /\ past = [sizes |-> << >>, logged |-> 0, safe |-> 0, spoilt |-> FALSE, faults |-> client.faults]
  /\ recovered = None

Running == recovered = None

-----------------------------------------------------------------------------
(* DBImpl::Write *)

BeginWrite ==
  /\ Running /\ writer.pc = "idle" /\ Len(past.sizes) < Len(client.batches)
  /\ \E size \in client.sizes, sync \in client.syncs :
       LET id == Len(past.sizes) + 1
       IN  /\ writer' = [Resting EXCEPT !.pc = "log", !.id = id, !.size = size, !.sync = sync,
                                        !.keys = client.batches[id]]
           /\ log' = AddRecord(log, Payload(id, size))
           /\ past' = [past EXCEPT !.sizes = Append(@, size)]
  /\ UNCHANGED <<client, list, arena, reader, recovered>>

Logging == Running /\ writer.pc = "log"

AppendPiece ==
  /\ Logging /\ log.todo # << >>
  /\ log' = IF NeedsRegion(log) THEN MapNewRegion(UnmapCurrentRegion(log)) ELSE CopyPiece(log)
  /\ UNCHANGED <<client, list, arena, writer, reader, past, recovered>>

\* ftruncate or mmap fails: the writer gets the error, the next one goes on
AppendPieceFails ==
  /\ Logging /\ log.todo # << >> /\ NeedsRegion(log) /\ past.faults > 0
  /\ log' = AppendFails(log)
  /\ past' = [past EXCEPT !.spoilt = TRUE, !.faults = @ - 1]
  /\ writer' = IF Head(log.todo).trailer THEN writer ELSE Resting
  /\ UNCHANGED <<client, list, arena, reader, recovered>>

\* AddRecord has returned: sync, if asked for, and go on to the memtable
FinishLogging ==
  /\ Logging /\ log.todo = << >>
  /\ log' = IF writer.sync THEN Sync(log) ELSE log
  /\ past' = [past EXCEPT !.logged = writer.id, !.safe = IF writer.sync THEN writer.id ELSE @]
  /\ writer' = [writer EXCEPT !.pc = "insert"]
  /\ UNCHANGED <<client, list, arena, reader, recovered>>

SyncingFails ==
  /\ Logging /\ log.todo = << >> /\ writer.sync /\ past.faults > 0
  /\ log' = SyncFails(log)
  /\ past' = [past EXCEPT !.spoilt = TRUE, !.faults = @ - 1]
  /\ writer' = Resting
  /\ UNCHANGED <<client, list, arena, reader, recovered>>

\* WriteBatchInternal::InsertInto, MemTable::Add: the entry, then its node
AddEntry ==
  /\ Running /\ writer.pc = "insert" /\ writer.step = 0 /\ writer.keys # << >>
  /\ \E height \in client.heights :
       /\ list' = NewNode(list, Head(writer.keys), height)
       /\ arena' = AllocateAligned(Allocate(arena, EntrySize), NodeSize + (height - 1) * Align)
       /\ writer' = [writer EXCEPT !.step = 1, !.height = height]
  /\ UNCHANGED <<client, log, reader, past, recovered>>

LinkEntry ==
  /\ Running /\ writer.pc = "insert" /\ writer.step > 0
  /\ list' = Store(list, Head(writer.keys), writer.step)
  /\ writer' = IF writer.step < 2 * writer.height THEN [writer EXCEPT !.step = @ + 1]
               ELSE [writer EXCEPT !.step = 0, !.keys = Tail(@)]
  /\ UNCHANGED <<client, log, arena, reader, past, recovered>>

FinishWrite ==
  /\ Running /\ writer.pc = "insert" /\ writer.keys = << >>
  /\ writer' = Resting
  /\ UNCHANGED <<client, log, list, arena, reader, past, recovered>>

-----------------------------------------------------------------------------
(* A reader of the memtable *)

Resumes(search) == /\ reader' = [search |-> search, left |-> reader.left - 1]
                   /\ UNCHANGED <<client, log, list, arena, writer, past, recovered>>

ReaderBegins ==
  /\ Running /\ reader.left > 0 /\ reader.search.level = 0
  /\ \E op \in {"FindGreaterOrEqual", "FindLessThan", "FindLast"},
        target \in client.targets, level \in 1 .. list.height :
       Resumes(BeginSearch(list, op, target, level))

\* SeekToFirst from the head, Next from the node the reader is on
ReaderFollows ==
  /\ Running /\ reader.left > 0 /\ reader.search.level = 0
  /\ \E from \in {Head0, reader.search.node} \ {NULL} : Resumes(FollowLink(list, "Next", from))

ReaderSteps ==
  /\ Running /\ reader.search.level > 0
  /\ reader' = [reader EXCEPT !.search = SearchStep(list, @)]
  /\ UNCHANGED <<client, log, list, arena, writer, past, recovered>>

-----------------------------------------------------------------------------
(* The end: what RecoverLogFile reads.  due is the number of batches that    *)
(* have to be there unless an append or a sync failed.                       *)

Stop(file, due) ==
  /\ recovered' = [records |-> ReadLog(file), due |-> IF past.spoilt THEN 0 ELSE due]
  /\ UNCHANGED <<client, log, list, arena, writer, reader, past>>

ProcessCrash == Running /\ client.crash /\ Stop(log.cells, past.logged)
MachineCrash == /\ Running /\ client.crash
                /\ \E pages \in SUBSET DirtyPages(log) : Stop(AfterCrash(log, pages), past.safe)
CloseLog == Running /\ writer.pc = "idle" /\ Stop(Closed(log), past.logged)

Next == \/ BeginWrite \/ AppendPiece \/ AppendPieceFails \/ FinishLogging \/ SyncingFails
        \/ AddEntry \/ LinkEntry \/ FinishWrite
        \/ ReaderBegins \/ ReaderFollows \/ ReaderSteps
        \/ ProcessCrash \/ MachineCrash \/ CloseLog
Spec == Init /\ [][Next]_vars

-----------------------------------------------------------------------------
(* Properties *)

\* log::Reader returns whole batches that were written, in their order, and
\* every batch whose write was acknowledged as synced (or, when only the
\* process stopped, every batch that was logged), unless an append or a sync
\* had failed: whatever pages a crash of the machine kept of the rest.
RecoversWritten ==
  recovered # None =>
    LET n == Len(past.sizes)
        Written(i) == Payload(i, past.sizes[i])
        ids == {i \in 1 .. n : \E r \in ToSet(recovered.records) : r = Written(i)}
        RECURSIVE Listed(_)
        Listed(i) == IF i > n THEN << >>
                     ELSE (IF i \in ids THEN <<Written(i)>> ELSE << >>) \o Listed(i + 1)
    IN  recovered.records = Listed(1) /\ 1 .. recovered.due \subseteq ids

\* A search that runs beside an insertion misses no key that was in the list
\* when it began: the links and the height may be seen old or new.
ReadersFind == reader.search.op # "idle" /\ reader.search.level = 0 => FoundRight(reader.search)

\* The arena gives every entry and node bytes of its own, inside a block, and
\* nodes (every second allocation) start at a pointer boundary.
ArenaApart ==
  \A i \in DOMAIN arena.taken :
    LET t == arena.taken[i]
    IN  /\ t.to <= arena.blocks[t.block]
        /\ i % 2 = 0 => t.from % Align = 0
        /\ \A j \in 1 .. i - 1 :
             LET u == arena.taken[j]
             IN  t.block = u.block => t.from >= u.to \/ u.from >= t.to
=============================================================================
