# A verification of TableFS

TableFS is a file system that keeps its metadata and its small files in a
LevelDB table and its large files in a directory of the local file system. FUSE
(or a library front end) calls one handler per system call. This directory holds
TLA+ models of TableFS, of the LevelDB it carries with it (a fork with its own
changes: a `writeahead` option, adjustable file sizes), and of the benchmark
drivers; TLC configurations that check them on small instances; and TLAPS proofs,
for instances of every size, about the caches, the file system on top of them,
LevelDB's write queue and recovery, and the threads of the benchmarks.

The repository is in the middle of a translation from C++ to C. The `.cpp` and
`.cc` files are the complete program and are what is modelled; the `.c` files
repeat the same logic, partly as stubs.

## 1. Inventory

| Part | State | Operations | Modelled in |
|---|---|---|---|
| LRU cache (`leveldb/util/cache.cc`) | hash table, list, reference counts, usage | Insert, Lookup, Release, Erase, destructor | `LRUCacheOps`, `LRUCache`, `CacheContract`, `HandleTable` |
| Dentry cache (`fs/dcache.cpp`) | list of nodes, map of iterators | Find, Insert, Evict | `DentryCache`, `LossyMap` |
| Inode cache (`fs/icache.cpp`) | LRU cache of dirty, clean and deleted inodes | Get, Insert, Release, WriteBack, BatchCommit, Evict, the deleter | `InodeCacheOps` |
| Handlers (`fs/tablefs.cpp`) | both caches, the table, open files and directories, data files | the FUSE operations, Init, Destroy | `TableFS`, `NameSpace`, `Mount` |
| File system state (`fs/tfs_state.cpp`) | inode counter, its file | NewInode, Setup, Destroy | `TableFS`, `Mount` |
| LevelDB adaptor (`adaptor/leveldb_adaptor.cpp`) | when the log was last synced | Get, Put, Delete, Write, Sync | `Mount` |
| Wrapper (`fs/fswrapper.cpp`) | descriptor table, offsets | Open, Read, Write, Seek, Close, Listdir ... | `Mount`, `BenchMethods` |
| Benchmark drivers (`fsbench.cpp`, `leveldb/db/db_bench.cc`) | mutex, condition variable, counters, monitor | the list of benchmarks, the thread bodies, the methods | `FsBench`, `BenchMethods` |
| Versions and compactions (`db/version_set.cc`, `db/db_impl.cc`) | memtables, files of every level, snapshots, pointers | flush, compactions of four kinds, reads | `VersionOps`, `LSM` |
| Write queue (`db/db_impl.cc`, `util/env_posix.cc`) | queue of writers, memtables, background call | Write, CompactRange, background work, destructor | `WriteQueue` |
| Recovery (`db/db_impl.cc`, `db/version_set.cc`, `db/repair.cc`) | logs, tables, MANIFESTs, CURRENT | Open, Recover, LogAndApply, RepairDB | `Durability` |
| Read path (`table/*`, `db/db_iter.cc`, `util/bloom.cc`) | blocks, index, filter, iterators | Seek, Next, Prev, Get | `SSTable`, `Iterators`, `ReadPath`, `SnapshotCursor` |
| Write path (`db/log_*.cc`, `db/skiplist.h`, `util/arena.cc`, `util/env_posix.cc`) | log file, mapped region, skip list, arena | AddRecord, Sync, ReadRecord, Insert, search | `LogFile`, `MemTable`, `WritePath` |
| Encodings (`util/coding.cc`, `db/write_batch.cc`, `table/format.cc`, `db/filename.cc`) | none | encode, decode, parse | `Coding`, `CodingLaws` |
| Inode locks (`fs/inodemutex.cpp`) | none: the bodies are empty | ReadLock, WriteLock, Unlock | absent, as in the code |

How they interact. A handler resolves its path one component at a time
(`ParentPathLookup`): dentry cache, then LevelDB, *never the inode cache*. It
then asks the inode cache for the inode of the last component, with a mode (read,
write, delete). The handle it gets is shared with every open file of that inode.
It changes the inode in place, writes it back or leaves that to the deleter, and
releases the handle. The deleter runs when the last reference goes, possibly in
the middle of an unrelated handler that pushed the entry out of the cache.
`MakeNode`, `MakeDir` and `Symlink` write LevelDB directly. A write to LevelDB
queues up, is appended to a log and inserted in a memtable by whoever is at the
front of the queue; one background thread flushes full memtables to tables of
level 0 (or deeper), merges tables downward, and records each new version in a
MANIFEST. Opening the database replays the MANIFEST that CURRENT names and then
the logs that it does not cover.

What is hard here:

* the inode cache evicts entries that are in use, so two copies of one inode can
  exist at once; so does the first close of a file opened twice;
* a deletion is only a mode of a shared handle, carried out at the last close;
* a record can be written by a handler, by a deleter, or by a batch, in an order
  that depends on the capacity and on who holds what;
* the data of a file moves between its inode and a data file, in steps that a
  crash can separate; the inode counter, the data files and the LevelDB log become
  durable at different times;
* the dentry cache leaves orphaned nodes, whose keys are removed from the map
  when the nodes are popped;
* the LevelDB writer at the front works without the mutex on behalf of the others,
  and waits for a background thread that may fail and retry;
* compactions work on a version that flushes replace meanwhile, and drop entries
  against a snapshot list that was read once;
* recovery may itself crash and be repeated;
* iterators turn round over entries that appear underneath them;
* the benchmark's monitor thread counts and signals without the mutex.

What makes each part correct:

* LRU cache: counts, links and charges are exact in every order of operations,
  and an entry's deleter runs at the very step `cache.h` promises;
* dentry cache: no iterator dangles, and it never answers with a value that was
  overwritten or evicted;
* inode cache and handlers: no handle leaks; what may be evicted is clean; the
  dentry cache agrees with the table; a client sees the latest inode; closing
  loses nothing; no two entries share an inode number; a read returns the bytes
  that were written, and a crash loses no more than was not closed or not synced;
* versions: a read sees the last write for its key; no entry passes a newer one;
* write queue: order, atomicity and the promise of sync survive group commit, and
  every call returns;
* recovery: what was acknowledged survives, and no number is used twice;
* read path: the iterator is a cursor over one snapshot; Get agrees with it;
* write path: the reader of a torn log returns whole batches in order;
* benchmark drivers: every `RunBenchmark` returns, nobody uses its stack frame
  afterwards, and the methods together do the work.

`PROJECT.json` lists the hazards one by one, with the properties that cover them.

## 2. The modules

### The caches and the handlers

`LRUCacheOps` defines the operations of one shard as functions from a record
(allocated entries, table, list, usage) to a record. The shard's mutex makes each
operation atomic, so its clients compose them freely. The loop of `Insert` is its
closed form: `Evictions` is the first round after which the loop's condition
fails. Entries are charged 1, as the inode cache charges them. The table is a
function there; `HandleTable` has the chains, the resizing and the choice of a
shard, and `HandleTableLaws` says that they are a finite map and that a key has
one shard.

`LRUCache` makes a state machine of it: any client does any operation that the
contract allows, and `held` counts what the clients have not released.
`CacheContract` is the specification of `cache.h`: it has no list, no counts and no
capacity, only who is mapped, who is held and who is alive.

`DentryCache` models list nodes by their addresses, so that a node that is freed
and allocated again is the same address, and an iterator that outlives its node is
visible as such. `current` is a history variable: what was inserted last for each
key that was not evicted since. `LossyMap` is what path resolution relies on: a map
that may forget, on the same `current`.

`InodeCacheOps` extends `LRUCacheOps`: its state is the pair of the LRU cache and
the LevelDB table. `WithDeleters` applies an operation of the cache and the deleters
(`CleanInodeHandle`) of everything that operation freed.

`TableFS` has one action per handler. `tablefs_main.cpp` passes `-s` to FUSE, so a
handler is one step; clients interleave them arbitrarily. Paths, names and inodes
are abstracted as the header of the module says; the times in an inode are left
out, and the data of a file is part of `attr`. What the clients do comes from the VFS layer
(or the wrapper), which looks a path up before it calls a handler: `Next` only
calls a handler with a path whose directories exist and whose last component has
the type that the handler is for. A handler whose own lookup fails all the same
changes nothing but the dentry cache. `Failing` says which handlers may find that the data
file cannot be opened. The dentry cache is unbounded in `TableFS` (its 16384
entries are out of a checker's reach); `DentryCache` shows that the bounded one only forgets.
`client` is the part of the file system that a behaviour exercises, chosen at the
start; several modules have such a variable, so that one run asks its question of
several workloads.

`taken` is a history variable of `TableFS`: the entries that were unlinked, removed, moved or
replaced *while open*. TableFS makes no promise about those: the deferred
deletion may hit a new file of the same name, and a late write may bring the old
one back. Properties that say so exclude exactly the keys or numbers in `taken`.

`NameSpace` is what a client expects of the tree: one entry changes at a time, by
creation with a number never used before, update, removal, or a move.

`Mount` follows the bytes: the descriptors and offsets of the wrapper, the inline
data in a cached inode, the data files with their open descriptors, the counter's file, and
the LevelDB table with what a crash of the machine may leave of each record: what the files
before the current log may hold of it (`older`), and what the current log adds (`since`).
A sync makes the current log durable and nothing else (`SyncLog`), and LevelDB may begin a
new log at any time (`SwitchMemTable`). Here too a handler is one step,
except for the `Truncate` that unlinks a data file before the table is told. The migration
of inline data to a data file may fail, in its `open` or in its `pwrite`. Three
places of the code have no defined result, and the model makes a choice over what a
build can produce and does not follow a behaviour past the first choice that breaks
another file: the uninitialised `fd` of `Truncate`, its `iheader` that points into
memory already replaced, and descriptors that were closed. What the properties may
not claim is recorded file by file (`Tainting` and the definitions above it): files
whose descriptor is stale or whose inode has two live copies, files that share an inode
number with another or meet a left-over data file, files whose migration failed and lost
their data, names that `ReadDir` passes over.

### LevelDB

`VersionOps` is `version_set.cc` as functions: searching a version, placing a new
table, picking the inputs of a compaction (by size, by seeks, by hand), the grand
parents, the merged input, the split of the outputs, which entries are dropped, and
the builder that makes the next version from an edit. `LSM` is the state machine: a
compaction spans two steps, between which clients write and flushes change the version.
A version with overlapping files is not followed further: the check in
`Builder::SaveTo` aborts there (`version_set.cc:677`), in a build with assertions.

`WriteQueue` has a program counter per client. A step is what a thread does from the
moment it has `mutex_` to the moment it gives it up, or one piece of work without it.
Each client makes one call, a `Write` or a `CompactRange`; the background thread is
the one of `PosixEnv`, and the destructor is a caller of its own. The size limit of a
group is abstracted: `BuildBatchGroup` is the set of the groups that the limits of
`db_impl.cc:1228-1245` allow, from the front alone to all that may join it.

`Durability` keeps on disk what the process keeps: logs and MANIFESTs with the number
of records that are synced, tables, CURRENT. Open, a flush, a compaction and the repairer are
cut into steps where they write, sync, rename or delete a file, and a crash may come between
any two. The append of a record to a MANIFEST is one step; a crash while it is being
written is the one that leaves it torn (section 3).
`promised` is what an acknowledged write has a right to, `spoilt` that a recovery or a
MANIFEST sync has failed (see section 3).

`SSTable` builds tables: internal keys, shared prefixes, restart points, the index with
its shortened separators, filters by offset and the bloom filter. `Iterators` has the
block, two-level, file and merging iterators as records of their classes' fields, and
`Move`, the virtual call. `ReadPath` puts `DBIter` and `Get` on top, with writers that
go on. `SnapshotCursor` is what `iterator.h` promises, with one exception that the
code needs (section 3).

`LogFile` is the log writer on a memory-mapped file, one memcpy at a time, and the
reader on whatever a crash left. `MemTable` is the skip list, one store at a time, and
the arena. `WritePath` sends batches through both, beside a reader.

`Coding` models encodings as functions on sequences of bytes, with the base scaled down where
the width is a parameter; `CodingLaws` states that decoding inverts encoding, refuses
what is cut off, and that file names parse to what made them.

### The benchmark drivers

`FsBench` goes through a list of benchmarks; each starts threads, opens the barrier, runs, counts and
tears down. The caller, the benchmark threads and the monitor thread have a program counter each, and
`leveldb::port`'s mutex and condition variable a holder and a set of blocked threads.
Sections under the mutex are one step where they touch only what the mutex protects;
the caller's test of `num_done` and its Wait are two, and the monitor thread's
`num_done ++` is a load and a store, because that thread does not take the mutex.
`BenchMethods` says which calls each method makes: a call is one step, and random
numbers are a choice.

## 3. The runs

| Run | Instance | Shows |
|---|---|---|
| `lru_cache` | 3 keys, 4 addresses, 2 values, capacity 2, 2 references each | exact counts and links; oldest first; refinement of `CacheContract`; the laws of `HandleTable` |
| `dentry_cache` | 3 keys, 4 addresses, 2 values, maxsize 3, symmetric addresses | valid iterators; refinement of `LossyMap` |
| `tablefs_shared` | one file open twice, or two names of which one may be a directory with an entry; capacity 1 | balanced handles; clean copies are current; evictable is clean; unique inode numbers; fresh dentries |
| `tablefs_exclusive` | the same paths, capacity 4, large and small sizes, failing opens | current answers; data files exist; closing loses nothing; refinement of `NameSpace` |
| `mount` | one file and 6 calls, or two files and 4, two mounts, a threshold of one byte | reads return what was written; crashes lose no more than was not closed, or not synced in its own log |
| `fsbench` | 7 lists of benchmarks, 2 or 3 threads, with and without spurious wakeups | every RunBenchmark returns; no use after return; samples apart; the work is done |
| `lsm` | snapshots, seeks and failures; CompactRange, also with a gap between its inputs; large entries; 4 levels | reads see the last write; newer above older; a level's files stay apart unless a flush fills such a gap |
| `write_queue` | 3 clients, one I/O failure, the destructor | acknowledged is visible; nothing early; order; synced when acknowledged; all return |
| `durability` | 3 writes, 2 crashes of process or machine, one failed recovery and one failed sync | acknowledged writes survive; Open finds a MANIFEST it can read, unless an edit is being written; tables exist; numbers are fresh |
| `read_path` | 3 keys, 4 writes in 3 layouts and one more while the iterator is open, unreadable blocks | refinement of `SnapshotCursor`; Get agrees; sizes add up |
| `read_path_turn` | the same | *violation*: a Next that turns round may stay where it is |
| `write_path` | 3 batches over blocks, pages and regions; a reader beside insertions | recovery reads whole batches in order; searches miss nothing; allocations apart; the laws of `Coding` |

`SizesAddUp`, `HandleTableLaws` and `CodingLaws` are assumptions that TLC evaluates
before it starts on the run: pure functions against what they are for, over all inputs
of a bounded size.

### The bounds

In `lru_cache` three keys over a capacity of two make evictions,
displacements and the over-full cache with an empty list all happen; a fourth
address keeps an unmapped entry alive beside them. In `dentry_cache` the list
fills with orphans of every key, and a node's address comes back while its orphan
is still around; no operation compares or chooses addresses, so their symmetry is
sound. A capacity of one (`tablefs_shared`) makes *every* Get of another key push an
entry out, held or not; two open files share one inode or hold two copies of it; two
inode numbers are enough for a name to be deleted late and created again.
`HandleBound` states how many addresses the instances need; it is an assumption that TLC evaluates.

`lsm`: five writes fill the memtable, level 0 up to its trigger and two deeper levels;
the large client's entries make a file each, so that outputs are split at the size
limit and at the grandparents, inputs are expanded, and files are moved without a merge.
The gap client writes the keys 1 and 3 to files of their own first, and calls CompactRange
when four more files have been numbered (`calls`): six writes are then enough to have
`{1}` and `{3}` at two levels as the inputs and to flush `{2}` between them.
`durability`: two crashes, so that a recovery is itself cut off and repeated. `write_path`: the sizes make
records end exactly at, one short of, and across the end of a block, a page and a
mapped region. `mount`: six calls are enough to write a file past the threshold, cut it
down, write it again and read it, over a crash. A switch of memtables takes the place of a
call, once in a mount: a second one waits for the flush of the first, which only makes more
durable. A client stops when nothing is claimed of any of its files. `write_queue`: three clients are a
group of two behind a writer that waits, or a writer between two compactions.
`fsbench`: with three threads two may race for the count while a third is still at work.

### Fairness

`FsBench`: weak fairness of every thread's steps and of its return from Wait. The operating
system runs every thread that can run, nobody takes the mutex more than a bounded
number of times, and a benchmark method is a finite sequence of calls (the writer of
readwhilewriting stops when it sees that the others are done, which is what is checked).

`WriteQueue`: weak fairness of every client, of the background thread and of the
destructor. A step of theirs takes the mutex, which is held for bounded times only and granted
to whoever waits. The background thread's step that finds nothing to do has strong
fairness: a CompactRange reschedules it again and again while its range shrinks, and
whether a given piece of the range needs work is decided anew each time; a range has finitely
many pieces, so that it cannot find work for ever.

The other runs check safety, action properties and refinements. Deadlock is checked
wherever a behaviour need not end; where it may (a bounded number of writes or calls) the
configuration says so. `Ended` is the step of a behaviour that is over.

### What a crash does

`Durability` and `WritePath`: a crash of the process keeps the page cache, hence everything that was
appended; a crash of the machine keeps what was synced and any part of the rest.
Creating, renaming and deleting files survives, in order (a journalled file system);
table files are synced before they are named. Of a log any unsynced record may be
lost, and the reader's checksums skip it. A MANIFEST with a torn record is refused (`log_reader.cc:229`, `version_set.cc:838`): `Cutoffs` has
every prefix of its unsynced records, each also with a torn record behind it, and
`Remains` leaves one after a crash of the process too, where a record was only
half copied. `Open` then asks for a repair.

`Mount`: a crash of the process keeps the table as it is. A crash of the machine leaves of each record
any of the values that `older` and `since` allow. They are chosen record by record, because an
earlier record of the log before may be lost while a later one of the current log
survives: `DBImpl::Write` syncs the current log only (`db_impl.cc:1176`), and the log that
`MakeRoomForWrite` leaves behind is closed without a sync. A data file keeps its bytes or goes back to
what its last sync left; the code never syncs one except through `Fsync`.

### Conditions that the code needs

`AnswersAreCurrent` needs two conditions, and the code needs them too:

* with `Exclusive = FALSE`, `AnswersAreCurrent` fails: a file that is unlinked or
  renamed while open is answered for from the table until the close;
* with `Capacity = 1` it fails as well, although clients leave open files alone:
  a Get of another key pushes the open inode out of the cache, and a second,
  older copy of it is read from LevelDB. The cache must have room for what is open.
  The refinement of `NameSpace` holds all the same (section 4): names and numbers are
  right, but a change that goes to the second copy may show only after the close.

And with `"Truncate"` in `Failing`, `BlobBacked` fails: `Truncate` ignores the
result of `MigrateToDiskFile` and records `has_blob` all the same
(`tablefs.cpp:777-795`).

`tablefs_shared` checks its invariants with a `Failing` that is empty; that they hold when
the data file of an Open or a Write cannot be opened is proved (section 4).
In `write_queue` a writer waits for the flush of the immutable memtable;
the stop at level 0 is in the model, but three clients do not reach it.
In `read_path` the unreadable blocks are in tables of one block.

`fsbench` needs that `CondVar::Wait` returns only when signalled, which is what
`port/port_example.h` says of it. POSIX allows more, and with spurious wakeups
`Returns` and `NoUseAfterReturn` fail: the caller wakes up, finds `num_done` one short and is
about to wait again when the monitor thread counts itself and signals (the wakeup is
lost); or it sees the count before the signal and returns, and the monitor thread
signals a condition variable on a stack frame that is gone. The lists with spurious wakeups
are therefore checked for the other two properties.

### What the models showed

`read_path_turn` is a violation: `DBIter::Next`, turning from a backward walk, takes the
key to skip from the entry its internal iterator lands on. If that is an entry of a
smaller key that the snapshot hides, the current key is not skipped and is returned
again, although `iterator.h:43` says that Next moves to the next entry.
`SnapshotCursor` allows exactly that repetition, and nothing else.

The following were met while modelling. The instances of the passing runs stay clear of
them, or the properties exclude them by name:

* LevelDB, compactions: the split of outputs may put two versions of one key in two
  files of a level when a snapshot keeps both and a file is full between them
  (`version_set.cc:1225` then picks one of the files); a manual compaction of level 0
  is cut off at a file size (`version_set.cc:1323`), which may separate overlapping files.
* LevelDB, flushes during a compaction: a manual compaction of level 0 with the inputs
  `{1}` and `{3}` leaves a gap. A flush of `{2}` in the middle of it (`db_impl.cc:878`) overlaps
  no file of the current version and goes to level 1, where the output `{1, 3}` then spans
  it. `Builder::SaveTo` aborts (`version_set.cc:677`, "Make sure there is no overlap in levels >
  0"); with `NDEBUG`, which the Makefiles set, a Get of 2 binary-searches its way to the
  output and misses the file. The instance of `lsm` reaches this: `LevelsDisjoint` without
  `GapFilled`, and `ReadsLatest` without `NoOverlap`, are violated there. Inputs that
  `PickCompaction` chooses leave no gap at their level, and for those there is no exception.
* LevelDB, writes: a group may mix `writeahead` and other writers, and takes the first
  one's choice for all (`db_impl.cc:1233`); a NULL batch of a CompactRange is absorbed
  by a group (`db_impl.cc:1239`).
* LevelDB, the log: a failed append moves `block_offset_` although the file did not
  move (`log_writer.cc:98`), so that later records are framed for boundaries that are
  not there; a failed Sync has already forgotten what was to be synced
  (`env_posix.cc:266-280`). `RecoversWritten` claims less after a failure.
* LevelDB, recovery: the first MANIFEST is not synced (`db_impl.cc:199`; `Recoverable` excludes it); the
  status of one log's recovery is overwritten by the next (`db_impl.cc:332`); after a failed MANIFEST sync
  memory and disk differ (`version_set.cc:794`). `spoilt` marks the last two. A kill while an
  edit is being appended to the MANIFEST may leave a record that the next Open
  reports as corruption (`version_set.cc:840`), so that the database needs a repair:
  `Recoverable` leaves that moment out, and `Durable` covers the repair.
* TableFS, unmounting: `Init` does not start the monitor thread and `Destroy` waits for
  it, so that `root.dat` is never written and each mount numbers inodes from 1
  again (`tfs_state.cpp:76`): files of two mounts share numbers and data files.
* TableFS, `Fsync`: a sync reaches the current log only. A file that was closed before LevelDB
  switched logs may be lost in a crash after a later `Fsync` of another, or the same, file.
  `CrashKeepsClosed` claims what was logged since the switch; with all files claimed
  it is violated.
* TableFS, data: a `pwrite` that fails in `MigrateToDiskFile` (`tablefs.cpp:533-537`) returns
  an error after the inline data has been dropped, and the inode does not say that it
  has a data file: the data is lost. `Fsync` does not write the inode back; a data file left over from a lost
  migration shows its bytes in the next file with that number, because it is opened
  without `O_TRUNC`; a crash after `Truncate` has unlinked the data file loses it
  (`tablefs.cpp:515`).
* TableFS, listing: `ReadDir` of the root lists the root's own record and passes
  over names whose hash has a zero first byte (`tablefs.cpp:980`).
* The benchmark `smallfilecreate` may give up early: a thread can come to a file before
  another has made its directory (`fsbench.cpp:426`). Only `metadatacreate` is claimed
  to make the whole trace.

Every property has a mutant: a small mistake in one mapped definition (a dropped
release, a loop that stops one round early, a counter incremented too late) under
which TLC finds the property violated on the same instance. The mutants stand
beside the definitions they change.

## 4. The proofs

TLC checks the instances of section 3; the theorems here hold for every value of the
constants that satisfies the named assumptions. `PROJECT.json` lists them. They come
in pairs of a component and a module of proofs.

| Proofs | For every | Proved |
|---|---|---|
| `LRUOpsProofs`, `LRUCacheProofs` | keys, values, capacity, finite set of addresses | the state invariants of `LRUCache`, `EvictsOldestFirst`, refinement of `CacheContract` |
| `DentryCacheProofs` | keys, values, addresses, positive maxsize | the state invariants of `DentryCache`, refinement of `LossyMap` |
| `InodeCacheProofs`, `TableFSProofs` | names, attributes, capacity, open files and directories, failing handlers, clients | `HandlesBalanced`, `UnpinnedIsClean`, `CleanIsCurrent`, `UniqueInodes`, `DentryFresh`; with `Exclusive`, `ImplementsNameSpace`; while what is open also stays cached, `AnswersAreCurrent`, `OpenCloseKeepTree` and `BlobBacked` |
| `WriteQueueProofs` | clients, calls, triggers, number of failures | `AcknowledgedIsVisible`, `NothingEarly`, `ArrivalOrder`, `SyncedWhenAcknowledged`, what the background thread relies on |
| `DurabilityProofs` | writes, files, crashes, failing syncs and recoveries, memtable sizes | `Durable`, `Recoverable`, `TablesExist`, `FreshNumbers` |
| `FsBenchProofs` | lists of benchmarks, numbers of threads | `NoUseAfterReturn`, `SamplesApart`, the barrier half of `RunsTogether`, that no wakeup is lost |

### LRU cache

The assumptions are `CapacityAssumption` (a natural number) and
`HandleAssumption` (finitely many addresses, for cardinalities). `LRUOpsProofs` is about
the operations as functions from a cache to a cache, with the outside
references as a parameter, so that `LRUCacheProofs` and the inode cache share it.

The inductive invariant is the conjunction of the five state invariants, and none of
them is inductive alone. That an entry on the list is allocated needs the exact counts
(an Unref frees it only if the list's reference was the last); the counts need
that the list has no duplicates and agrees with the table (otherwise a removal
drops the wrong reference); that usage never goes negative needs it to be the
number of live entries.

The argument. `RemoveLemma`, `AppendLemma` and `SuffixLemma` say what the three
changes of a list do to its elements. `UnrefShape` says what dropping one
reference of each of a set of entries does. `DetachLemma` joins them: when a set
of entries leaves the list and loses one reference each, counts and charges stay
exact and what remains on the list stays allocated. `UnlinkLemma` adds the table.
Erase, the eviction loop and the destructor are instances of `UnlinkLemma`; the
displacement in Insert is an instance of `DetachLemma` alone, because there the
table already names the new entry. `EvictionsLemma` shows that the loop of Insert
ends, by the least element of a set of naturals. `OldestGoFirst` is the action property
that what Insert drops for lack of room is a prefix of the list. `ShardMeetsContract`
maps every step to one of `CacheContract`: an entry is alive there exactly while it is
mapped or held, which is what the exact counts say.

### Dentry cache

Again the conjunction of the state invariants is inductive and its parts are not:
that the node popped by Insert is no longer pointed at needs every iterator to point
at a node *of its own key*, because the map forgets the key of the popped node and
not its address. `Valid` states the consistency of list, nodes, map and history as a
predicate of four values, so that the halves of a step can be treated one after the
other: `PushValid` for the new node in front (Insert and a hit of Find share it),
`ForgetValid` for the map, `FreeValid` for a node that nothing points at. Each step
is a step of `LossyMap` by the definitions, but for the hit of Find, which needs the
invariant: the value that the node holds is the current one.

### Inode cache and file system

`InodeCacheProofs` says what each operation of the inode cache (Get, Insert, Release,
Evict, WriteBack, BatchCommit) does to cache and table, the deleters of everything it
frees included: `Cleaned` describes their joint effect, key by key. `Sound` is what every operation keeps:
a cached inode belongs to the record of its key (`NamedOK`), what the cache answers with
is what the table holds unless it is being written to (`FreshOK`), and a directory is
never left dirty (`DirsClean`). Its parameters exempt the keys taken away while open,
and, between the operations of one handler, the entry the handler is about to evict or to write
back. `Handled` is what a whole handler does: it keeps that, and no key gets a number
it did not have (`Carries`).

`TableFSProofs` has the inductive invariant `IInv`, in four parts that need each other:

* `TypeOK` and `OpenOK`: what is open is a live handle, of a file in `files` and of
  a directory in `dirs`;
* `CacheInv`: the LRU invariant with the references of *exactly* what is open (hence
  no handler leaks or doubles a Release on any path through it), and `Sound`. Without the
  exact counts an entry could be evicted while a handler still uses it; without `NamedOK` a
  deleter could write a record that was deleted;
* numbers (`OwnedOK`, `BoundOK`): a number belongs to one key, in table *and* cache, and
  none is above the counter. The cache must be included because a deleter may write
  what it holds at any later time;
* `DentryOK` and `RootOK`: the dentry cache names what the table names, and the
  root is there. This needs the numbers: a stale dentry would be a second owner.

What was unlinked, removed, moved or replaced *while open* (`taken`) is exempt, as in the
properties. There is one lemma per handler, each a chain of the lemmas of
`InodeCacheProofs`. The assumptions are on the shape of the constants (`KeyAssumption`,
`NameAssumption`, `RecordAssumption`, `ClientAssumption`) and `HandleBound`: enough
addresses that an allocation succeeds, and finitely many open files.

`AnswersStayCurrent` is about what a client sees: GetAttr of *any* path, of any length,
answers with the latest inode, through both caches. It has the two hypotheses of
"Conditions that the code needs" in section 3. `Exclusive`: clients leave alone
what is open. `OpenIsCached`: the inode cache has not pushed out what is open in that state;
it holds throughout `tablefs_exclusive`, and fails with a capacity of one. A path is resolved by
a recursive function; that the walk through the caches and the walk through the current inodes meet
at every component is proved by induction over the length, from the
well-ordering of the naturals (`LeastElement`, `Induction`).

`HandlersImplementNameSpace` is the refinement: with `Exclusive`, every handler is one
step of `NameSpace` or none. It needs no `OpenIsCached`: an open inode is what its
handle says, wherever the cache has put a copy of it. `View` is the tree, the current
inode of every key. The lemma of each handler says within which keys it stays
(`Leaves`): the records of the others, and what the open handles of the others show, are
as before, *including* the records that are written when an unrelated entry is evicted. From
this `StepChangesOneEntry` has it that a step edits, makes or removes one entry, or moves one
(`OneEntry`), and `TreeStep` that this is a step of the tree. `Seen` says how `View` follows from table
and open handles; it needs `OneHandle`, that no key is open through two handles, which
`Exclusive` keeps (`OneHandleStays`), and that number and type of an entry are the same in
table and handle, so that an edit never changes them.

`OpeningKeepsTree` and `DataFilesStay` do need `OpenIsCached`: an open inode that was
pushed out is not the copy that SetAttr and Truncate change, so that its close brings
one of two different inodes into view. Opening shows what was there (`OpenedIsSame`), and the last close leaves in the table
what the handle showed (`ClosedIsSame`). For `BlobBacked`, a handler that removes a
data file removes that of the inode it changes or deletes, and no two keys show one
number (`ShownApart`); it holds with any of the other handlers in `Failing`, but not `"Truncate"`.

### Write queue

`IInv` of `WriteQueueProofs` says: the queue is the tail of the arrivals, and only its front
works (`QueueOK`, `ArrivalOK`); the group being written is the head of the queue,
numbered consecutively from the last sequence number, and asks for no sync that the front does not make
(`GroupOK`); numbers above the last sequence, and stored batches without an
answer, belong to that group (`NumberOK`, `StoreOK`); a group with sync is in the synced log
before it is inserted (`LogOK`). The front works without the mutex, so that every
other client's step has to preserve this too; it does because it can only append
to the queue. `BackgroundKeepsItsWork` is the same for the background thread: the
memtable it flushes and the files it picked are still there when it has the mutex again.

`SyncsAreKept` has the hypothesis that no call asks for a sync of a log it does not write
(`SyncsAreLogged`): with `writeahead` off, `DBImpl::Write` skips the sync as well
(`db_impl.cc:1177`). The adaptor takes `writeahead` from one property, true by default
(`leveldb_adaptor.cpp:50`), so that its calls satisfy this unless logging is switched off
altogether; the calls of the run satisfy it.

### Recovery

The bounds `MaxSeq` and `MaxNum` play no part; `FaultAssumption` says that the size of a
memtable and the numbers of faults are natural numbers. TLC checked `Consistent`, the inductive
invariant of `DurabilityProofs`, on all states of `durability` before it was proved.

None of the four properties is inductive, because a crash takes the state back to what the *files*
say, and may cut the current MANIFEST back to any prefix that holds its synced records.
`Versions` is the set of what those prefixes describe, and the invariant speaks of all of them:

* `VersionOK`: the tables of a version exist, have numbers below the one it would hand out
  next and writes below the number it would hand out next, and hold, with the
  logs that the version does not declare to be old, every promised write (`Safe`). This is
  what both deletions, of logs and of tables, can violate;
* `ManifestOK`, `DiskOK`, `Opens`: it holds of every version of the MANIFEST that CURRENT
  names, whose counters only grow from version to version. Only MANIFEST-1, which `NewDB` does not sync,
  may be cut back to nothing, and then all tables and all logs hold what was promised;
* the phases of a process. `NumbersOK`: what it hands out is above all that is on disk.
  `LogsOK`: while logs are being recovered, the tables written so far and the logs still to
  be read hold what was promised. `NewManifestOK`: the MANIFEST being written is the snapshot of
  what was found, once it is synced. `RepairOK`, `NewOK`: a directory being made or repaired;
* `OpenOK`: an open database's memory and the last version of its MANIFEST agree
  (`OpenVersions`), what is not in tables is in the logs that are kept (`OpenPromise`), the
  background thread's edit adds what it removes (`EditOK`), its inputs and its output stay
  (`WorkOK`, `OpenTables`).

The argument is about directories first. `DecodeEncode` says that recovery reads the edit
that was written; `ReplayLemma`, by induction over the records, that each record changes the version by its
edit; `CutoffLemma` and `LeftoverLemma` what a crash leaves of a MANIFEST and of a log. A step
then keeps a directory good for one of three reasons: what its versions rely on stays
(`DiskStays`), a new version relies on what is already there (`ManifestGrows`, `DiskSynced`), or what goes
away is named by no version (`DiskShrinks`). There is one lemma per action; `RecoverLogFile`
needs that `max_sequence` and `MarkFileNumberUsed` move the counters past a log that no
record knows of. `spoilt` exempts `Durable` and `TablesExist` after a failed recovery
or MANIFEST sync, as in the run, and `Recoverable` too, because the record whose sync
failed may be torn; `FreshNumbers` is proved without it.

`Versions` are those of the prefixes that can be read (`Whole`); about the torn ones nothing has to hold but that
Open does not get past them. That it *does* find a MANIFEST it can read needs one more fact
(`Settles`): unless it is the first one, an edit is being written, or a sync has failed, every
record of the MANIFEST that CURRENT names is synced (`Certain`), so that a crash leaves it as it
is (`SyncedRemains`). A new MANIFEST is synced before the rename (`OpeningSettles`), an
edit before the next can begin (`RunningSettles`), and what a crash leaves is what
the disk has, synced (`CrashSettles`).

### Benchmark drivers

`IInv` of `FsBenchProofs` ties program counters, mutex and counts together. `num_done` is exact
although the monitor thread increments it without the mutex, because by then every other
thread has counted itself (`DoneOK`). That RunBenchmark does not return before the monitor
thread has signalled (`SignalOK`) needs that waits end only with a signal, and so does
`NoLostWakeup`; the other parts, and with them `SamplesApart` and the barrier, hold with
spurious wakeups too. `WaitersAreSignalled` is the safety core of `Returns`: whoever waits has somebody left to
signal it.

### Only model-checked

* Liveness under fairness (`Returns`, `AllReturn`) is out of the prover's reach.
* `ReadPath`, `WritePath`, `CodingLaws` and `HandleTableLaws` are built on
  recursive operators, with which the prover does not work.
* `ReadsLatest` and `NewerAbove` of `LSM` do not hold for all constants: the split of outputs and
  the cut of level 0 (section 3) break them on larger instances. `LevelsDisjoint` was not
  tried: its invariant would need the order of the entries that these two break.
* The second half of `RunsTogether` (the methods together do the work) is a
  count over the interleaved calls of all threads.
* `Mount` has the bytes of files and partial crashes; its properties exclude so much by
  name (`Tainting`) that an invariant for it would be longer than the model.

## 5. Not modelled

* `Access` (always succeeds), `GetStat`, `Compact` and the logging of the handlers; the
  times in an inode.
* Collisions of the 64-bit hash of names: `BuildMetaKey` is taken to be injective.
* The adaptor's options and metrics; the metrics monitor thread, which nobody starts.
* Compression of blocks (snappy), the polynomial of crc32c (a checksum stands for the
  payload it was computed from), the table cache's limit on open files.
* `tablefs_lib.cpp`: it uses the class `TableFS` as a namespace, which does not
  compile; the empty inode locks matter only to a caller with threads like it.
* The wrappers of other file systems in `fswrapper.cpp`: one system call each.
* The block allocator: no handler calls it.
* Sockets, properties, logging and commands of `src/util`: input and output.
* `db/c.cc` (a binding), `helpers/memenv` (for tests), the drivers of other databases in
  `doc/bench`, the tests.
* The C files: an unfinished translation of what is modelled, partly stubs.

## 6. Plan

1. *Done*: the caches, the handlers, the bytes of files over crashes and
   mounts, the benchmark drivers, and LevelDB from the write queue to recovery.
2. *Done*: proofs for both caches with their refinements, the invariants of the file
   system, the write queue, recovery after any number of crashes, and the threads of the
   benchmarks.
3. *Done*: the refinement of `NameSpace`, `OpenCloseKeepTree` and `BlobBacked`.
4. Larger instances of `lsm` with entries of one key that fill a file, once
   the split is repaired; `LevelsDisjoint` without its exception, once a flush looks at the
   outputs of the running compaction as well.
