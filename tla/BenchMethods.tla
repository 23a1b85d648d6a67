------------------------------ MODULE BenchMethods ------------------------------
(***************************************************************************)
(* What the threads of the two benchmark programs do: src/src/fsbench.cpp, *)
(* over the calls of FileSystemWrapper (src/src/fs/fswrapper.h), and       *)
(* src/lib/leveldb/db/db_bench.cc, over the calls of DB.  A method is the  *)
(* sequence of calls that thread tid of n makes.  A call has a set of      *)
(* arguments, of which the random numbers of the method choose one; it     *)
(* says what a benchmark counts, and whether the thread gives up when it   *)
(* fails.  The store is the set of the paths, or of the keys, there are.   *)
(***************************************************************************)
EXTENDS Integers, Sequences, SequencesExt, FiniteSets

CONSTANTS DirPaths, FilePaths,  \* the trace: sequences of paths
          RenamedTo(_),         \* a last component with ".rename" after it
          create_numpaths, query_number,
          FLAGS_num, FLAGS_reads, \* db_bench: the number of keys, of reads
          BatchSize             \* db_bench: entries_per_batch_ of fillbatch

\* TraceLoader: directories come first.
paths == DirPaths \o FilePaths
GetPath(i) == IF i < Len(paths) THEN {paths[i + 1]} ELSE {}
GetDirPath(i) == IF i \in 0 .. Len(DirPaths) - 1 THEN {paths[i + 1]} ELSE {}
GetFilePath(i) == IF i \in 0 .. Len(FilePaths) - 1 THEN {paths[i + Len(DirPaths) + 1]} ELSE {}

\* RandomPicker::Next, in either mode, and rand() % range.
Picks(range) == 0 .. range - 1
AnyOf(F(_), range) == UNION {F(i) : i \in Picks(range)}

\* for (i = tid; i < n; i += step)
Strided(tid, step, n, F(_)) ==
  [k \in 1 .. (IF tid < n THEN (n - tid - 1) \div step + 1 ELSE 0) |-> F(tid + (k - 1) * step)]

Call(name, args, counts) == [name |-> name, args |-> args, counts |-> counts, gives_up |-> FALSE]
Times(n, call) == [k \in 1 .. n |-> call]

--------------------------------------------------------------------------------
\* FileSystemWrapper, and the kernel's file system behind it.

Mkdir(store, p) == IF p \notin store /\ Front(p) \in store THEN store \cup {p} ELSE store
Unlink(store, p) == store \ {p}
Mknod(store, p) == IF p \notin store /\ Front(p) \in store THEN store \cup {p} ELSE store
Listed(store, p) == Cardinality({q \in store : q # <<>> /\ Front(q) = p}) + 2
Rename(store, p, q) == IF p \in store /\ Front(q) \in store THEN (store \ {p}) \cup {q} ELSE store

--------------------------------------------------------------------------------
\* The methods of fsbench.

numfiles == create_numpaths
numdirs == Len(DirPaths)

\* Mutant of MetadataCreate: the threads share the directories as they share the
\* files.
MetadataCreateShared(tid, n, order) ==
  Strided(tid, n, numdirs, LAMBDA i : Call("Mkdir", GetDirPath(i), "always"))
    \o Strided(tid, n, numfiles, LAMBDA i : Call("Mknod", GetFilePath(i), "always"))

\* Every thread makes every directory, and its share of the files.
MetadataCreate(tid, n, order) ==
  [i \in 1 .. numdirs |-> Call("Mkdir", GetDirPath(i - 1), "always")]
    \o Strided(tid, n, numfiles, LAMBDA i : Call("Mknod", GetFilePath(i), "always"))

MetadataCreateWithCompact(tid, n, order) ==
  Append(MetadataCreate(tid, n, order), Call("Compact", {<<>>}, "never"))

\* Chmod, Utime or Stat of any path.
MetadataQueryTest(tid, n, order) ==
  Times(query_number, Call("Stat", AnyOf(GetPath, numfiles + numdirs), "always"))

OnedirFile(i) == {<<i>>}
OnedirCreate(tid, n, order) ==
  Strided(tid, n, numfiles, LAMBDA i : Call("Mknod", AnyOf(OnedirFile, numfiles), "always"))

OnedirQueryTest(tid, n, order) ==
  Times(query_number, Call("Stat", AnyOf(OnedirFile, numfiles), "always"))

\* A file is made, opened and written; a thread that cannot open its file returns.
SmallFileCreate(tid, n, order) ==
  Strided(tid, n, numfiles + numdirs,
          LAMBDA i : [Call("Mknod", GetPath(i), "always") EXCEPT !.gives_up = i >= numdirs])

\* Any file is opened and read, or written.  A number with no path is not left out:
\* its path is what sprintf makes of NULL, and is not there.
SmallFileQueryTest(tid, n, order) ==
  Times(query_number, Call("Stat", AnyOf(GetFilePath, numfiles) \cup {<<"(null)">>}, "always"))

DeleteQueryTest(tid, n, order) ==
  Strided(tid, n, query_number, LAMBDA i : Call("Unlink", GetFilePath(order[i % numfiles]), "success"))

ScanQueryTest(tid, n, order) ==
  Strided(tid, n, query_number, LAMBDA i : Call("Listdir", AnyOf(GetDirPath, numdirs), "entries"))
LsstatQueryTest(tid, n, order) ==
  Strided(tid, n, query_number, LAMBDA i : Call("Lsstat", AnyOf(GetDirPath, numdirs), "entries"))
ScanfileQueryTest(tid, n, order) ==
  Strided(tid, n, query_number, LAMBDA i : Call("Scanfile", AnyOf(GetDirPath, numdirs), "entries"))

\* rename_type 0: the new name is the old one with ".rename" after it.
RenameQueryTest(tid, n, order) ==
  Strided(tid, n, query_number, LAMBDA i : Call("Rename", GetFilePath(order[i % numfiles]), "success"))

--------------------------------------------------------------------------------
\* The methods of db_bench.  A key is a sequence of one number, a batch of them a
\* set.

Key(i) == {<<i>>}
Keys == AnyOf(Key, FLAGS_num)

\* The batches, in order or at random; every thread goes over all keys.
Batches(seq, batch) ==
  [b \in 1 .. (FLAGS_num + batch - 1) \div batch |->
     IF seq THEN {UNION {Key((b - 1) * batch + j) : j \in 0 .. batch - 1}} ELSE {{k} : k \in Keys}]
DoWrite(seq, batch) ==
  [b \in DOMAIN Batches(seq, batch) |-> Call("Put", Batches(seq, batch)[b], "entries")]
DoDelete(seq) ==
  [b \in DOMAIN Batches(seq, 1) |-> Call("Delete", Batches(seq, 1)[b], "entries")]

\* An iterator sees the keys there are when it is made.
ReadSequential == <<Call("Scan", {<<>>}, "entries")>>

\* ReadRandom, ReadMissing, ReadHot and SeekRandom: a Get or a Seek of any key.
ReadRandom == Times(FLAGS_reads, Call("Get", Keys, "always"))

DbMethod(bench) ==
  CASE bench = "fillseq" -> DoWrite(TRUE, 1)
    [] bench = "fillbatch" -> DoWrite(TRUE, BatchSize)
    [] bench \in {"fillrandom", "overwrite"} -> DoWrite(FALSE, 1)
    [] bench \in {"readseq", "readreverse"} -> ReadSequential
    [] bench \in {"readrandom", "readmissing", "readhot", "seekrandom"} -> ReadRandom
    [] bench = "deleteseq" -> DoDelete(TRUE)
    [] bench = "deleterandom" -> DoDelete(FALSE)
    [] bench = "compact" -> <<Call("Compact", {<<>>}, "never")>>
    [] bench = "readwhilewriting" -> ReadRandom

\* Benchmark::Run starts these with an empty database.
FreshDb == {"fillseq", "fillbatch", "fillrandom"}

--------------------------------------------------------------------------------
FsMethod(bench, tid, n, order) ==
  CASE bench = "metadatacreate" -> MetadataCreate(tid, n, order)
    [] bench = "metadatacreatecompact" -> MetadataCreateWithCompact(tid, n, order)
    [] bench = "metadataquery" -> MetadataQueryTest(tid, n, order)
    [] bench = "onedircreate" -> OnedirCreate(tid, n, order)
    [] bench = "onedirquery" -> OnedirQueryTest(tid, n, order)
    [] bench = "smallfilecreate" -> SmallFileCreate(tid, n, order)
    [] bench = "smallfilequery" -> SmallFileQueryTest(tid, n, order)
    [] bench = "scanquery" -> ScanQueryTest(tid, n, order)
    [] bench = "lsstatquery" -> LsstatQueryTest(tid, n, order)
    [] bench = "scanfilequery" -> ScanfileQueryTest(tid, n, order)
    [] bench = "renamequery" -> RenameQueryTest(tid, n, order)
    [] bench = "deletequery" -> DeleteQueryTest(tid, n, order)

\* The path order of the constructor, a shuffle that leaves no file in its place.
Shuffles[n \in Nat] ==
  IF n <= 1 THEN {[i \in {0} |-> 0]}
  ELSE UNION {{[o EXCEPT ![j] = n - 1] @@ (n - 1 :> o[j]) : j \in 0 .. n - 2} : o \in Shuffles[n - 1]}
PathOrders == Shuffles[numfiles]

\* A call with the argument that was chosen: the store after it, and what it adds to
\* the thread's count.
RenamedPath(p) == Append(Front(p), RenamedTo(Last(p)))
After(call, arg, store) ==
  CASE call.name = "Mknod" -> Mknod(store, arg)
    [] call.name = "Mkdir" -> Mkdir(store, arg)
    [] call.name = "Unlink" -> Unlink(store, arg)
    [] call.name = "Rename" -> Rename(store, arg, RenamedPath(arg))
    [] call.name = "Put" -> store \cup arg
    [] call.name = "Delete" -> store \ arg
    [] OTHER -> store

Entries(call, arg, store) ==
  CASE call.name \in {"Put", "Delete"} -> Cardinality(arg)
    [] call.name = "Scan" -> Min({FLAGS_reads, Cardinality(store)})
    [] arg \in store -> Listed(store, arg)
    [] OTHER -> 0

\* The thread returns from the method.
GivesUp(call, arg, store) == call.gives_up /\ arg \notin After(call, arg, store)

Counted(call, arg, store) ==
  CASE GivesUp(call, arg, store) -> 0
    [] call.counts = "always" -> 1
    [] call.counts = "success" -> IF After(call, arg, store) # store THEN 1 ELSE 0
    [] call.counts = "entries" -> Entries(call, arg, store)
    [] call.counts = "never" -> 0

================================================================================
