------------------------------- MODULE Durability ------------------------------
(***************************************************************************)
(* What a LevelDB database keeps on disk, and what opening or repairing it *)
(* after a crash brings back: log files, table files, MANIFEST files and   *)
(* CURRENT.  Readers and a running compaction hold old versions meanwhile. *)
(*                                                                         *)
(* A write is its sequence number.  A log or a MANIFEST is its records and *)
(* the number of them that were synced; a crash of the machine may lose    *)
(* any of the others, and any crash may tear the record of a MANIFEST that *)
(* is being written.  Table files are synced before they are named.        *)
(* Creating, renaming and deleting files survives a crash, in order.       *)
(***************************************************************************)
EXTENDS Integers, SequencesExt

CONSTANTS WriteBufferSize,  \* in writes
          Faults,           \* what goes wrong in an execution, see Fault
          MaxSeq,           \* bound: sequence numbers
          MaxNum            \* bound: file numbers

\* machine   whether a crash loses what was not synced
\* crashes, recover, manifest   bounds: crashes, tables that recovery fails to
\*           write, syncs of a MANIFEST that fail
Fault == [machine : BOOLEAN, crashes : Nat, recover : Nat, manifest : Nat]

ASSUME FaultAssumption == WriteBufferSize \in Nat /\ Faults \subseteq Fault

VARIABLES disk,     \* the directory: logs, tables, manifests by number, and what
                    \* CURRENT names, 0 if it does not exist
          db,       \* the process, see Closed
          left,     \* the faults that may still come, an element of Fault
          promised, \* history: writes that must survive
          spoilt    \* history: a recovery or the sync of a MANIFEST has failed

vars == <<disk, db, left, promised, spoilt>>

NoTable == {0}
NoEdit == [log |-> 0, next |-> 0, last |-> 0, add |-> {}, del |-> {}]
NoWork == [inputs |-> {}, out |-> 0]
EmptyFile == [recs |-> <<>>, synced |-> 0]
Add(file, rec) == [file EXCEPT !.recs = Append(@, rec)]
Synced(file) == [file EXCEPT !.synced = Len(file.recs)]
With(f, n, x) == [k \in DOMAIN f \cup {n} |-> IF k = n THEN x ELSE f[k]]
Only(f, S) == [k \in DOMAIN f \cap S |-> f[k]]

\* at        what the process does: "closed", the steps of Open and RepairDB, "open"
\* mem, imm, log, last, next, manifest   DBImpl and VersionSet
\* ver       the tables of the current version, and log_number_
\* edit      the edit that Recover or the background thread builds
\* todo, ok  the logs that Recover has still to read, and its status
\* bg        the background thread: "idle", "logged" or "delete"
\* work      the running compaction: its inputs and its pending output
\* reader    the tables of the version that an iterator holds
Closed == [at |-> "closed", mem |-> {}, imm |-> NoTable, log |-> 0, last |-> 0, next |-> 2,
           manifest |-> 0, ver |-> [files |-> {}, log |-> 0], edit |-> NoEdit,
           todo |-> {}, ok |-> TRUE, bg |-> "idle", work |-> NoWork, reader |-> {}]

\* VersionEdit::EncodeTo and DecodeFrom: a record of a MANIFEST is a sequence of
\* tagged fields, and a counter that was not set has none.
Field(tag, n) == IF n = 0 THEN <<>> ELSE <<[tag |-> tag, n |-> n]>>
Fields(tag, S) == LET s == SetToSeq(S) IN [i \in DOMAIN s |-> [tag |-> tag, n |-> s[i]]]

EncodeTo(e) == Field("log", e.log) \o Field("next", e.next) \o Field("last", e.last)
                 \o Fields("del", e.del) \o Fields("add", e.add)

\* A later field sets the counter again; the tables add up.
Counter(fields, tag) ==
  LET at == {i \in DOMAIN fields : fields[i].tag = tag}
  IN  IF at = {} THEN 0 ELSE fields[Max(at)].n
Tables(fields, tag) == {f.n : f \in {g \in ToSet(fields) : g.tag = tag}}
DecodeFrom(fields) == [log |-> Counter(fields, "log"), next |-> Counter(fields, "next"),
                       last |-> Counter(fields, "last"),
                       add |-> Tables(fields, "add"), del |-> Tables(fields, "del")]

Empty == [n \in {} |-> EmptyFile]
NoDatabase == [logs |-> Empty, tables |-> Empty, manifests |-> Empty, current |-> 0]

Init == /\ disk = NoDatabase
        /\ db = Closed
        /\ left \in Faults
        /\ promised = {} /\ spoilt = FALSE

\* What the records of a MANIFEST add up to: the last value of each counter, and
\* the tables that are left.
Known(old, new) == IF new = 0 THEN old ELSE new
Applied(v, e) == [files |-> (v.files \ e.del) \cup e.add, log |-> Known(v.log, e.log),
                  next |-> Known(v.next, e.next), last |-> Known(v.last, e.last)]
NoVersion == [files |-> {}, log |-> 0, next |-> 0, last |-> 0]
Replay(recs) ==
  LET v[n \in 0..Len(recs)] == IF n = 0 THEN NoVersion ELSE Applied(v[n - 1], DecodeFrom(recs[n]))
  IN  v[Len(recs)]

--------------------------------------------------------------------------------
\* DB::Open.

\* NewDB: MANIFEST-1 is closed without a sync, then CURRENT names it.
NewDB ==
  /\ db.at = "closed" /\ disk.current = 0
  /\ disk' = [disk EXCEPT !.manifests =
                With(@, 1, Add(EmptyFile, EncodeTo([NoEdit EXCEPT !.next = 2])))]
  /\ db' = [db EXCEPT !.at = "new"]
  /\ UNCHANGED <<left, promised, spoilt>>

\* SetCurrentFile(1), for NewDB and for RepairDB.
SetCurrentNew ==
  /\ db.at = "new"
  /\ disk' = [disk EXCEPT !.current = 1]
  /\ db' = [db EXCEPT !.at = "closed"]
  /\ UNCHANGED <<left, promised, spoilt>>

\* Mutant: the log that the MANIFEST names is taken to be old.
LaterLogs(min_log) == {n \in DOMAIN disk.logs : n > min_log}

\* The logs that the MANIFEST does not declare to be old.
LogsToRecover(min_log) == {n \in DOMAIN disk.logs : n >= min_log}

\* Half of a record, or one with a page missing: its checksum is wrong.
Torn == <<[tag |-> "torn", n |-> 0]>>
Whole(file) == Torn \notin ToSet(file.recs)

\* VersionSet::Recover: a MANIFEST that is not there, that has a bad record or
\* that has no counters is an error.
Readable(file) == Whole(file) /\ Replay(file.recs).next # 0
Recover ==
  /\ db.at = "closed" /\ disk.current # 0
  /\ LET v == Replay(disk.manifests[disk.current].recs)
     IN  db' = IF disk.current \notin DOMAIN disk.manifests
                    \/ ~Readable(disk.manifests[disk.current])
               THEN [db EXCEPT !.at = "corrupt"]
               ELSE [Closed EXCEPT !.at = "logs", !.ver = [files |-> v.files, log |-> v.log],
                                   !.manifest = v.next, !.next = v.next + 1, !.last = v.last,
                                   !.todo = LogsToRecover(v.log)]
  /\ UNCHANGED <<disk, left, promised, spoilt>>

\* The records of a log, cut into memtables.
Memtables(recs) ==
  LET size == WriteBufferSize + 1
  IN  [i \in 1..((Len(recs) + WriteBufferSize) \div size) |->
         {recs[j] : j \in {k \in DOMAIN recs : (k - 1) \div size = i - 1}}]

\* Mutant: the sequence numbers of the log are forgotten.
LastUnchanged(parts) == db.last

\* max_sequence, over the memtables that were read.
MaxSequence(parts) == Max({db.last} \cup UNION ToSet(parts))

MarkFileNumberUsed(next, n) == Max({next, n + 1})

\* RecoverLogFile: every memtable becomes a table at level 0.  Writing the table
\* number i + 1 may fail, which ends the log; the next log sets the status again.
RecoverLogFile ==
  /\ db.at = "logs" /\ db.todo # {}
  /\ LET n == Min(db.todo)
         parts == Memtables(disk.logs[n].recs)
     IN  \E i \in {Len(parts)} \cup IF left.recover > 0 THEN 0..(Len(parts) - 1) ELSE {} :
           LET nums == {db.next + j - 1 : j \in 1..i}
               fails == i < Len(parts)
               used == IF fails THEN i + 1 ELSE i
           IN  /\ disk' = [disk EXCEPT !.tables =
                             [k \in DOMAIN @ \cup nums |->
                                IF k \in nums THEN parts[k - db.next + 1] ELSE @[k]]]
               /\ db' = [db EXCEPT !.edit.add = @ \cup nums, !.ok = ~fails, !.todo = @ \ {n},
                                   !.last = MaxSequence(SubSeq(parts, 1, used)),
                                   !.next = MarkFileNumberUsed(@ + used, n)]
               /\ left' = IF fails THEN [left EXCEPT !.recover = @ - 1] ELSE left
               /\ spoilt' = (spoilt \/ fails)
  /\ UNCHANGED promised

\* Recover has failed, and so has Open; it may be called again.
OpenFails ==
  /\ db.at = "logs" /\ db.todo = {} /\ ~db.ok
  /\ db' = Closed
  /\ UNCHANGED <<disk, left, promised, spoilt>>

\* WriteSnapshot and the edit.
SnapshotAndEdit(edit) ==
  Add(Add(EmptyFile, EncodeTo([NoEdit EXCEPT !.add = db.ver.files])), EncodeTo(edit))

\* A new log, and a new MANIFEST.
NewManifest ==
  /\ db.at = "logs" /\ db.todo = {} /\ db.ok
  /\ LET edit == [db.edit EXCEPT !.log = db.next, !.next = db.next + 1, !.last = db.last]
     IN  /\ disk' = [disk EXCEPT !.logs = With(@, db.next, EmptyFile),
                                 !.manifests = With(@, db.manifest, SnapshotAndEdit(edit))]
         /\ db' = [db EXCEPT !.at = "manifest", !.log = db.next, !.next = @ + 1, !.edit = edit]
  /\ UNCHANGED <<left, promised, spoilt>>

\* Mutant: CURRENT is switched to a MANIFEST that nobody has synced.
SyncNothing ==
  /\ db.at = "manifest"
  /\ db' = [db EXCEPT !.at = "current"]
  /\ UNCHANGED <<disk, left, promised, spoilt>>

SyncManifest ==
  /\ db.at = "manifest"
  /\ disk' = [disk EXCEPT !.manifests[db.manifest] = Synced(@)]
  /\ db' = [db EXCEPT !.at = "current"]
  /\ UNCHANGED <<left, promised, spoilt>>

SetCurrent ==
  /\ db.at = "current"
  /\ disk' = [disk EXCEPT !.current = db.manifest]
  /\ db' = [db EXCEPT !.at = "install"]
  /\ UNCHANGED <<left, promised, spoilt>>

\* Mutant: the output of the running compaction is not among them.
LiveVersions(v) == v.files \cup db.reader \cup db.work.inputs

\* pending_outputs_ and AddLiveFiles: the tables of every version that someone
\* holds.
LiveFiles(v) == v.files \cup db.reader \cup db.work.inputs \cup {db.work.out}

\* DeleteObsoleteFiles, when v is the current version.
DeleteObsoleteFiles(v, live) ==
  disk' = [disk EXCEPT !.logs = Only(@, {n \in DOMAIN @ : n >= v.log}),
                       !.tables = Only(@, live),
                       !.manifests = Only(@, {n \in DOMAIN @ : n >= db.manifest})]

\* AppendVersion: the edit makes a new version, which is current from then on.
AppendVersion == [files |-> (db.ver.files \ db.edit.del) \cup db.edit.add, log |-> db.edit.log]

\* The database is open.
Opened ==
  /\ db.at = "install"
  /\ LET v == AppendVersion
     IN  /\ DeleteObsoleteFiles(v, v.files)
         /\ db' = [db EXCEPT !.at = "open", !.ver = v, !.edit = NoEdit]
  /\ UNCHANGED <<left, promised, spoilt>>

--------------------------------------------------------------------------------
\* An open database.

Logged(file, sync) == IF sync THEN Synced(Add(file, db.last + 1)) ELSE Add(file, db.last + 1)

\* A write to log and memtable.  What it promises depends on the crashes that
\* are looked at: without sync it survives those of the process.
Write(sync) ==
  /\ db.at = "open" /\ db.last < MaxSeq /\ Cardinality(db.mem) <= WriteBufferSize
  /\ disk' = [disk EXCEPT !.logs[db.log] = Logged(@, sync)]
  /\ db' = [db EXCEPT !.last = @ + 1, !.mem = @ \cup {db.last + 1}]
  /\ promised' = IF sync \/ ~left.machine THEN promised \cup {db.last + 1} ELSE promised
  /\ UNCHANGED <<left, spoilt>>

\* MakeRoomForWrite, for the next write or for the one without a batch that a
\* CompactRange begins with.
SwitchMemTable ==
  /\ db.at = "open" /\ db.imm = NoTable /\ Cardinality(db.mem) > WriteBufferSize
  /\ db.next <= MaxNum
  /\ disk' = [disk EXCEPT !.logs = With(@, db.next, EmptyFile)]
  /\ db' = [db EXCEPT !.log = db.next, !.next = @ + 1, !.imm = db.mem, !.mem = {}]
  /\ UNCHANGED <<left, promised, spoilt>>

\* An iterator holds the current version, and lets go of it.
Acquire ==
  /\ db.at = "open" /\ db.reader = {} /\ db.ver.files # {}
  /\ db' = [db EXCEPT !.reader = db.ver.files]
  /\ UNCHANGED <<disk, left, promised, spoilt>>
ReleaseReader ==
  /\ db.at = "open" /\ db.reader # {}
  /\ db' = [db EXCEPT !.reader = {}]
  /\ UNCHANGED <<disk, left, promised, spoilt>>

\* The first half of LogAndApply: a record of the MANIFEST, not yet synced.
LogEdit(e, next) ==
  LET edit == [e EXCEPT !.next = next, !.last = db.last]
  IN  /\ disk' = [disk EXCEPT !.tables = With(@, CHOOSE n \in e.add : TRUE,
                                 IF e.del = {} THEN db.imm
                                 ELSE UNION {disk.tables[n] : n \in e.del}),
                              !.manifests[db.manifest] = Add(@, EncodeTo(edit))]
      /\ db' = [db EXCEPT !.next = next, !.edit = edit, !.bg = "logged"]

\* CompactMemTable up to there, also from within a compaction: the memtable is
\* in a table and later logs are all that is needed.
CompactMemTable ==
  /\ db.at = "open" /\ db.bg = "idle" /\ db.imm # NoTable /\ db.next <= MaxNum
  /\ LogEdit([NoEdit EXCEPT !.log = db.log, !.add = {db.next}], db.next + 1)
  /\ UNCHANGED <<left, promised, spoilt>>

\* A compaction of all tables opens its output, which is pending.
BeginCompaction ==
  /\ db.at = "open" /\ db.bg = "idle" /\ db.imm = NoTable /\ db.work = NoWork
  /\ db.next <= MaxNum
  /\ Cardinality(db.ver.files) >= 2 /\ db.ver.files \subseteq DOMAIN disk.tables
  /\ disk' = [disk EXCEPT !.tables = With(@, db.next, {})]
  /\ db' = [db EXCEPT !.next = @ + 1, !.work = [inputs |-> db.ver.files, out |-> db.next]]
  /\ UNCHANGED <<left, promised, spoilt>>

\* The output is complete, unless someone has deleted it.
FinishCompaction ==
  /\ db.at = "open" /\ db.bg = "idle" /\ db.work # NoWork
  /\ db.work.inputs \subseteq DOMAIN disk.tables
  /\ LogEdit([NoEdit EXCEPT !.log = db.ver.log, !.add = {db.work.out}, !.del = db.work.inputs],
             db.next)
  /\ UNCHANGED <<left, promised, spoilt>>

\* The second half of LogAndApply.  A flush drops its memtable, a compaction
\* its inputs and its pending output.
Installed(ok) ==
  [db EXCEPT !.ver = IF ok THEN AppendVersion ELSE @,
             !.imm = IF ok /\ db.edit.del = {} THEN NoTable ELSE @,
             !.work = IF db.edit.del # {} THEN NoWork ELSE @,
             !.edit = NoEdit,
             !.bg = IF ok \/ db.edit.del # {} THEN "delete" ELSE "idle"]

Install ==
  /\ db.at = "open" /\ db.bg = "logged"
  /\ disk' = [disk EXCEPT !.manifests[db.manifest] = Synced(@)]
  /\ db' = Installed(TRUE)
  /\ UNCHANGED <<left, promised, spoilt>>

\* The sync fails: the version stays as it is.  Only a compaction deletes
\* files then.
InstallFails ==
  /\ db.at = "open" /\ db.bg = "logged" /\ left.manifest > 0
  /\ db' = Installed(FALSE)
  /\ left' = [left EXCEPT !.manifest = @ - 1] /\ spoilt' = TRUE
  /\ UNCHANGED <<disk, promised>>

Delete ==
  /\ db.at = "open" /\ db.bg = "delete"
  /\ DeleteObsoleteFiles(db.ver, LiveFiles(db.ver))
  /\ db' = [db EXCEPT !.bg = "idle"]
  /\ UNCHANGED <<left, promised, spoilt>>

--------------------------------------------------------------------------------
\* RepairDB, once Open has reported a corruption, and DestroyDB.

\* The next file number, of which the MANIFESTs take none.
FindFiles ==
  /\ db.at = "corrupt"
  /\ db' = [db EXCEPT !.at = "repair",
                      !.next = 1 + Max({0} \cup DOMAIN disk.logs \cup DOMAIN disk.tables)]
  /\ UNCHANGED <<disk, left, promised, spoilt>>

\* Logs become tables and are moved away, one after the other.
RepairLog ==
  /\ db.at = "repair" /\ disk.logs # Empty
  /\ LET n == Min(DOMAIN disk.logs)
         recs == ToSet(disk.logs[n].recs)
     IN  disk' = [disk EXCEPT !.logs = Only(@, DOMAIN @ \ {n}),
                              !.tables = IF recs = {} THEN @ ELSE With(@, db.next, recs)]
  /\ db' = [db EXCEPT !.next = @ + 1]
  /\ UNCHANGED <<left, promised, spoilt>>

\* Tables that cannot be read, such as one that a compaction had not finished, are
\* moved away.
ScanTable(n) == disk.tables[n] # {}
ExtractMetaData ==
  /\ db.at = "repair" /\ disk.logs = Empty
  /\ disk' = [disk EXCEPT !.tables = Only(@, {n \in DOMAIN @ : ScanTable(n)})]
  /\ db' = [db EXCEPT !.at = "scanned"]
  /\ UNCHANGED <<left, promised, spoilt>>

\* WriteDescriptor: the old MANIFESTs are moved away, then the new one gets its
\* name, in which every table there is is at level 0.
ArchiveManifests ==
  /\ db.at = "scanned"
  /\ disk' = [disk EXCEPT !.manifests = Empty]
  /\ db' = [db EXCEPT !.at = "archived"]
  /\ UNCHANGED <<left, promised, spoilt>>
WriteDescriptor ==
  /\ db.at = "archived"
  /\ LET edit == [NoEdit EXCEPT !.add = DOMAIN disk.tables, !.next = db.next,
                    !.last = Max({0} \cup UNION {disk.tables[n] : n \in DOMAIN disk.tables})]
     IN  disk' = [disk EXCEPT !.manifests = With(Empty, 1, Add(EmptyFile, EncodeTo(edit)))]
  /\ db' = [db EXCEPT !.at = "new"]
  /\ UNCHANGED <<left, promised, spoilt>>

RepairDB == FindFiles \/ RepairLog \/ ExtractMetaData \/ ArchiveManifests \/ WriteDescriptor

DestroyDB ==
  /\ db.at = "closed" /\ disk # NoDatabase
  /\ disk' = NoDatabase
  /\ promised' = {}
  /\ UNCHANGED <<db, left, spoilt>>

--------------------------------------------------------------------------------
\* What a crash may leave of a log: any of its records that were not synced
\* are gone, and the reader's checksums skip them.
Leftovers(file) ==
  LET Places(n) == {at \in [1..n -> DOMAIN file.recs] :
                      /\ \A i \in 1..file.synced : at[i] = i
                      /\ \A i, j \in 1..n : i < j => at[i] < at[j]}
  IN  UNION {{[recs |-> [i \in 1..n |-> file.recs[at[i]]], synced |-> n] : at \in Places(n)} :
               n \in file.synced..Len(file.recs)}

\* Of a MANIFEST it leaves the first records, and the next one may be torn: it
\* hides those after it.
Cutoffs(file) ==
  LET Cut(n) == SubSeq(file.recs, 1, n)
  IN  {Synced([file EXCEPT !.recs = Cut(n)]) : n \in file.synced..Len(file.recs)}
        \cup {Synced([file EXCEPT !.recs = Append(Cut(n), Torn)]) :
                n \in file.synced..(Len(file.recs) - 1)}

\* If only the process dies, then what it has written stays, and at most the
\* record that it is writing is not there or torn.
Appending == IF db.at = "manifest" THEN 2 ELSE IF db.bg = "logged" THEN 1 ELSE 0
Settled(file) == [file EXCEPT !.synced = Max({@, Len(file.recs) - Appending})]

\* What a crash may leave of the log and of the MANIFEST number n.
LogRemains(n) == IF left.machine THEN Leftovers(disk.logs[n]) ELSE {disk.logs[n]}
Remains(n) ==
  LET file == disk.manifests[n]
  IN  IF left.machine THEN Cutoffs(file)
      ELSE IF n = db.manifest THEN Cutoffs(Settled(file))
      ELSE {file}

\* Each file of f with one of its leftovers.
CrashOutcomes(f, Left(_)) ==
  {g \in [DOMAIN f -> UNION {Left(n) : n \in DOMAIN f}] : \A n \in DOMAIN f : g[n] \in Left(n)}

\* A crash, or a clean exit of the process, which flushes nothing.  Whatever
\* is found on disk after a crash of the machine stays.
Crash ==
  /\ db.at # "closed" /\ left.crashes > 0
  /\ left' = [left EXCEPT !.crashes = @ - 1]
  /\ db' = Closed
  /\ \E l \in CrashOutcomes(disk.logs, LogRemains), m \in CrashOutcomes(disk.manifests, Remains) :
       disk' = [disk EXCEPT !.logs = l, !.manifests = m]
  /\ UNCHANGED <<promised, spoilt>>

Next ==
  \/ NewDB \/ SetCurrentNew \/ Recover \/ RecoverLogFile \/ OpenFails
  \/ NewManifest \/ SyncManifest \/ SetCurrent \/ Opened
  \/ \E sync \in BOOLEAN : Write(sync)
  \/ SwitchMemTable \/ Acquire \/ ReleaseReader
  \/ CompactMemTable \/ BeginCompaction \/ FinishCompaction
  \/ Install \/ InstallFails \/ Delete
  \/ RepairDB \/ DestroyDB
  \/ Crash

Spec == Init /\ [][Next]_vars

--------------------------------------------------------------------------------
Visible ==
  db.mem \cup (IF db.imm = NoTable THEN {} ELSE db.imm)
    \cup UNION {disk.tables[n] : n \in db.ver.files \cap DOMAIN disk.tables}

\* Once the database is open again, every write that was promised to survive
\* is there, wherever flushes, compactions, recovery or repair were cut off,
\* unless a recovery or the sync of a MANIFEST has failed before.
Durable == db.at = "open" /\ ~spoilt => promised \subseteq Visible

\* Except while an edit of its MANIFEST is being written, a database that has
\* been opened can be opened again without repair whatever a crash does at that
\* moment, unless the sync of a MANIFEST has failed before.  So can one that is
\* being opened, save for the first MANIFEST, which nobody has synced.
Recoverable ==
  \/ spoilt
  \/ db.at \notin {"logs", "manifest", "current", "install", "open"} \/ db.bg = "logged"
  \/ db.at \in {"logs", "manifest", "current"} /\ disk.current = 1
  \/ /\ disk.current \in DOMAIN disk.manifests
     /\ \A file \in Remains(disk.current) : Readable(file)

\* The tables that an Open after a crash may be told to read.
Named ==
  IF disk.current \notin DOMAIN disk.manifests THEN {}
  ELSE UNION {Replay(f.recs).files : f \in {g \in Cutoffs(disk.manifests[disk.current]) : Whole(g)}}

\* Every table that the MANIFEST on disk may name exists, and so does every
\* table that an iterator or the running compaction reads or writes, unless a
\* recovery or the sync of a MANIFEST has failed before.
TablesExist == ~spoilt =>
  /\ Named \subseteq DOMAIN disk.tables
  /\ db.reader \cup db.work.inputs \subseteq DOMAIN disk.tables
  /\ db.work # NoWork => db.work.out \in DOMAIN disk.tables

\* New writes get sequence numbers after those of all that was recovered, and
\* new files numbers after those of all that the database uses.
FreshNumbers ==
  db.at = "open" => /\ \A s \in Visible : s <= db.last
                    /\ \A n \in DOMAIN disk.logs \cup Named \cup {db.manifest} : n < db.next
================================================================================
