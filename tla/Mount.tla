---------------------------------- MODULE Mount ---------------------------------
(***************************************************************************)
(* The bytes of files, from mount to crash.  A client reads, writes and    *)
(* truncates files of the root directory through the descriptors of        *)
(* TableFSWrapper (src/src/fs/fswrapper.cpp) and the handlers of TableFS   *)
(* (src/src/fs/tablefs.cpp).  A small file is kept inside its inode, in    *)
(* the handle of the inode cache and in the LevelDB table; above the       *)
(* threshold it moves to a data file named after its inode number.  The    *)
(* process or the machine may crash at any time, and is mounted again      *)
(* (src/src/fs/tfs_state.cpp, src/src/adaptor/leveldb_adaptor.cpp).        *)
(*                                                                         *)
(* FUSE calls one handler at a time, so a handler is one step, except for  *)
(* Truncate where it unlinks a data file before the table is told: there   *)
(* a crash can come between.  The inode cache has room for every inode;    *)
(* module TableFS is about the one that has not.                           *)
(***************************************************************************)
EXTENDS Integers, Sequences, FiniteSets, FiniteSetsExt, Functions, TLC

CONSTANTS Names,        \* names in the root directory
          Clients,      \* sets of names, one of which the client works with
          Root,         \* the path "/"
          EarlyHash,    \* the names whose hash has a zero in its first byte
          Threshold,    \* FileSystemState::threshold_
          SyncSizeLimit, SyncTimeLimit,  \* of the adaptor; not positive: off
          FdLimit,      \* TableFSWrapper::FDLIMIT
          Bytes, MaxSize, MaxMounts,
          MaxOps(_),    \* bound on the calls of a client
          MaxDirHandles \* bound on the handles that Listdir leaks

Keys == Names \cup {Root}
Slots == 1 .. Cardinality(Names) + 2   \* addresses of inode handles
Numbers == 1 .. FdLimit + 1            \* descriptors of the process
ROOT_INODE_ID == 0

VARIABLES phase,   \* "down", "open" (the table), "up", "shrink" (in Truncate),
                   \* "stuck" (in Destroy), "undefined" (not followed further)
          state,   \* FileSystemState: the inode counter, and its file root.dat
          store,   \* the table behind the adaptor, and the inode cache
          disk,    \* data files and the descriptors the process has of them
          fis,     \* the descriptors of the wrapper
          ghost,   \* what a file system would have to answer
          wrong,   \* the calls that were answered wrongly
          pending, \* the locals of an interrupted Truncate
          client, ops, mounts

vars == <<phase, state, store, disk, fis, ghost, wrong, pending, client, ops, mounts>>

--------------------------------------------------------------------------------
\* An inode value: the header's st_ino, st_size and has_blob, and the inline data
\* after the name.

Resize(s, n) == [i \in 1 .. n |-> IF i <= Len(s) THEN s[i] ELSE 0]
Replace(s, offset, buf) ==
  LET long == Resize(s, Max({Len(s), offset + Len(buf)}))
  IN [i \in DOMAIN long |-> IF i \in offset + 1 .. offset + Len(buf) THEN buf[i - offset] ELSE long[i]]

InitInodeValue(ino) == [ino |-> ino, size |-> 0, blob |-> FALSE, inline |-> <<>>]

GetInlineData(v, offset, size) ==
  IF offset < Len(v.inline) THEN SubSeq(v.inline, offset + 1, Min({Len(v.inline), offset + size})) ELSE <<>>

UpdateInlineData(v, buf, offset) == [v EXCEPT !.inline = Replace(@, offset, buf)]
TruncateInlineData(v, new_size) == [v EXCEPT !.inline = Resize(@, new_size)]
DropInlineData(v) == [v EXCEPT !.inline = <<>>]
UpdateInodeHeader(v, size, blob) == [v EXCEPT !.size = size, !.blob = blob]

--------------------------------------------------------------------------------
\* The table behind the adaptor, and what a crash of the machine may leave of each
\* record: older is what the files before the current log may hold of it, since what
\* the current log adds.  A value or its absence is a sequence of at most one element.

Maybe(f, n) == IF n \in DOMAIN f THEN <<f[n]>> ELSE <<>>

\* DBImpl::Write with sync makes the whole of the current log durable, and nothing
\* else.
SyncLog(d) ==
  LET logged == {k \in Keys : d.since[k] # {}}
  IN [d EXCEPT !.older = [k \in Keys |-> IF k \in logged THEN {} ELSE @[k]],
               !.since = [k \in Keys |-> IF k \in logged THEN {Maybe(d.cur, k)} ELSE {}]]

\* The record k becomes what it is in cur.
Written(d, k, cur, sync) ==
  LET w == [d EXCEPT !.cur = cur, !.since[k] = @ \cup {Maybe(cur, k)}]
  IN IF sync THEN SyncLog(w) ELSE w

\* Mutant of Sync: the flag of the write options is forgotten.
SyncWithoutFlag(d) == d

\* Put of the record "sync", which no path looks up, in a synchronous write.
Sync(d) == SyncLog(d)

\* The tables that a crash of the machine may leave.
LeftBy(d) ==
  LET left(k) == d.older[k] \cup d.since[k]
      outcomes == {f \in [Keys -> UNION {left(k) : k \in Keys}] : \A k \in Keys : f[k] \in left(k)}
  IN {[k \in {i \in Keys : f[i] # <<>>} |-> f[k][1]] : f \in outcomes}

\* A Put is synchronous when enough bytes have been put since the last such Put or,
\* if there is no limit on them, when it is long ago (due).
PutSyncs(d, v) ==
  IF SyncSizeLimit > 0 THEN d.async_data_size + 1 + Len(v.inline) > SyncSizeLimit
                       ELSE SyncTimeLimit > 0 /\ d.due

Put(d, k, v) ==
  LET sync == PutSyncs(d, v)
      w == Written(d, k, (k :> v) @@ d.cur, sync)
  IN IF SyncSizeLimit > 0
     THEN [w EXCEPT !.async_data_size = IF sync THEN 0 ELSE @ + 1 + Len(v.inline)]
     ELSE [w EXCEPT !.due = @ /\ ~sync]

Delete(d, k) == Written(d, k, Restrict(d.cur, DOMAIN d.cur \ {k}), FALSE)

--------------------------------------------------------------------------------
\* The inode cache: a handle has a value, a mode and references, one of them the
\* cache's.

NoHandle == [key |-> Root, val |-> InitInodeValue(ROOT_INODE_ID), mode |-> "free", refs |-> 0]
Live(s, k) == {h \in Slots : s.handle[h].refs > 0 /\ s.handle[h].key = k}

\* The deleter of the cache writes back what is dirty.
CleanInodeHandle(s, h) ==
  LET x == s.handle[h]
  IN [s EXCEPT !.handle[h] = NoHandle,
               !.db = CASE x.mode = "write" -> Put(@, x.key, x.val)
                        [] x.mode = "delete" -> Delete(@, x.key)
                        [] OTHER -> @]

Release(s, h) ==
  IF s.handle[h].refs = 1 THEN CleanInodeHandle(s, h) ELSE [s EXCEPT !.handle[h].refs = @ - 1]

Evict(s, k) == IF s.at[k] = 0 THEN s ELSE Release([s EXCEPT !.at[k] = 0], s.at[k])

\* Get: the handle's address, 0 when there is no such record, and the cache after it.
Get(s, k, mode) ==
  IF s.at[k] # 0
  THEN [h |-> s.at[k],
        s |-> [s EXCEPT !.handle[s.at[k]].refs = @ + 1,
                        !.handle[s.at[k]].mode = IF mode = "read" THEN @ ELSE mode]]
  ELSE IF k \notin DOMAIN s.db.cur THEN [h |-> 0, s |-> s]
  ELSE LET h == CHOOSE i \in Slots : s.handle[i].refs = 0
       IN [h |-> h,
           s |-> [s EXCEPT !.at[k] = h,
                           !.handle[h] = [key |-> k, val |-> s.db.cur[k], mode |-> mode, refs |-> 2]]]

WriteBack(s, h) ==
  LET x == s.handle[h]
  IN CASE x.mode = "write"  -> [s EXCEPT !.db = Put(@, x.key, x.val), !.handle[h].mode = "read"]
       [] x.mode = "delete" -> Evict([s EXCEPT !.db = Delete(@, x.key)], x.key)
       [] OTHER -> s

--------------------------------------------------------------------------------
\* Data files.  at: the file object a directory entry names, 0 for none; fd: the
\* object a descriptor of the process is open on, 0 when it is closed.

GetDiskFile(dk, ino) == IF ino \in DOMAIN dk.at THEN dk.at[ino] ELSE 0
WithFile(dk, ino) ==
  IF GetDiskFile(dk, ino) # 0 THEN dk
  ELSE [dk EXCEPT !.at = (ino :> Len(dk.obj) + 1) @@ @,
                  !.obj = Append(@, [data |-> <<>>, safe |-> <<>>])]

\* open(O_CREAT): the lowest free descriptor.
FreeNumber(dk) == CHOOSE n \in Numbers : dk.fd[n] = 0 /\ \A k \in Numbers : dk.fd[k] = 0 => n <= k
OpenDiskFile(dk, ino, trunc) ==
  LET d == WithFile(dk, ino)
      o == d.at[ino]
      n == FreeNumber(d)
  IN [n |-> n, dk |-> [d EXCEPT !.fd[n] = o, !.obj[o].data = IF trunc THEN <<>> ELSE @]]

CloseDiskFile(dk, n) == IF n = 0 THEN dk ELSE [dk EXCEPT !.fd[n] = 0]
Pread(dk, n, offset, size) ==
  IF dk.fd[n] = 0 THEN <<>> ELSE GetInlineData([inline |-> dk.obj[dk.fd[n]].data], offset, size)
Pwrite(dk, n, buf, offset) ==
  IF dk.fd[n] = 0 THEN dk ELSE [dk EXCEPT !.obj[dk.fd[n]].data = Replace(@, offset, buf)]
Fsync(dk, n) == IF n = 0 \/ dk.fd[n] = 0 THEN dk ELSE [dk EXCEPT !.obj[dk.fd[n]].safe = dk.obj[dk.fd[n]].data]
TruncateDiskFile(dk, ino, new_size) ==
  IF GetDiskFile(dk, ino) = 0 THEN dk ELSE [dk EXCEPT !.obj[dk.at[ino]].data = Resize(@, new_size)]
UnlinkDiskFile(dk, ino) == [dk EXCEPT !.at = Restrict(@, DOMAIN @ \ {ino})]

\* What MigrateDiskFileToBuffer reads before it unlinks the file.
DataOf(dk, ino, size) ==
  IF GetDiskFile(dk, ino) = 0 THEN <<>> ELSE GetInlineData([inline |-> dk.obj[dk.at[ino]].data], 0, size)

\* How MigrateToDiskFile ends: the file cannot be opened, pwrite fails, or all goes
\* well.  A write of so few bytes is not cut short.
Ends(v) == {"no file", "done"} \cup IF v.size > 0 THEN {"not written"} ELSE {}

\* Mutant of MigrateToDiskFile: the inline data is dropped, but not written.
MigrateForgetsData(dk, v, n, trunc, end) ==
  LET o == OpenDiskFile(CloseDiskFile(dk, n), v.ino, trunc)
  IN IF end = "no file" THEN [n |-> 0, dk |-> CloseDiskFile(dk, n), v |-> v]
     ELSE [n |-> o.n, dk |-> o.dk, v |-> IF v.size > 0 THEN DropInlineData(v) ELSE v]

\* The inline data moves to the data file; a descriptor the caller has is closed
\* first.  The data is dropped even if pwrite fails.
MigrateToDiskFile(dk, v, n, trunc, end) ==
  LET closed == CloseDiskFile(dk, n)
      o == OpenDiskFile(closed, v.ino, trunc)
  IN CASE end = "no file" -> [n |-> 0, dk |-> closed, v |-> v]
       [] end = "not written" -> [n |-> o.n, dk |-> o.dk, v |-> DropInlineData(v)]
       [] OTHER -> [n |-> o.n, v |-> IF v.size > 0 THEN DropInlineData(v) ELSE v,
                    dk |-> Pwrite(o.dk, o.n, Resize(v.inline, v.size), 0)]

--------------------------------------------------------------------------------
\* What the client may expect.  want: the contents of each file; closed: what they
\* were at the last close, truncate or create; versions: what a crash of the machine
\* may leave, all they were at those since they were last made durable; logged: the
\* files that changed in the table since LevelDB began its log.  tainted: files
\* about which nothing is claimed.

Saved(g, n) ==
  [g EXCEPT !.closed = (n :> g.want[n]) @@ @, !.versions[n] = @ \cup {<<g.want[n]>>},
            !.logged = @ \cup {n}]
Gone(g, n) ==
  [g EXCEPT !.want = Restrict(@, DOMAIN @ \ {n}), !.closed = Restrict(@, DOMAIN @ \ {n}),
            !.versions[n] = @ \cup {<<>>}, !.logged = @ \cup {n}]

\* The files ns are durable as they were last closed.
Synced(g, ns) ==
  [g EXCEPT !.versions = [n \in Names |-> IF n \in ns THEN {Maybe(g.closed, n)} ELSE @[n]]]
Recovered(g, got) ==
  LET there == {n \in Names : got[n] # <<>>}
      f == [n \in there |-> got[n][1]]
  IN [g EXCEPT !.want = f, !.closed = f]

\* Two handles of one inode live beside each other once the cache has lost the
\* first one (module TableFS); their copies of the data then differ.
Splits(n) == IF store.at[n] = 0 /\ Live(store, n) # {} THEN {n} ELSE {}
Tainting(g, ns) == [g EXCEPT !.tainted = @ \cup ns]

NoPending == [h |-> 0, n |-> Root, buf |-> <<>>, old |-> 0]
Answered(call, ns, got, want) ==
  wrong' = IF got = want \/ ns \cap ghost'.tainted # {} THEN wrong ELSE wrong \cup {call}

--------------------------------------------------------------------------------
\* Mounting, and what ends a mount.

NoFi == [used |-> FALSE, name |-> Root, h |-> 0, rw |-> FALSE, fd_ |-> 0, offset |-> 0]
EmptyCache == [handle |-> [h \in Slots |-> NoHandle], at |-> [k \in Keys |-> 0]]
Fresh(cur) == [cur |-> cur, older |-> [k \in Keys |-> {Maybe(cur, k)}], since |-> [k \in Keys |-> {}],
               switched |-> FALSE, async_data_size |-> 0, due |-> FALSE]

Init == /\ phase = "down"
        /\ state = [max_inode_num |-> 0, root_dat |-> -1]
        /\ store = [db |-> Fresh(<<>>)] @@ EmptyCache
        /\ disk = [at |-> <<>>, obj |-> <<>>, fd |-> [n \in Numbers |-> 0]]
        /\ fis = [fd \in 1 .. FdLimit |-> NoFi]
        /\ ghost = [want |-> <<>>, closed |-> <<>>, versions |-> [n \in Names |-> {<<>>}],
                    logged |-> {}, tainted |-> {}]
        /\ wrong = {}
        /\ pending = NoPending
        /\ client \in Clients
        /\ ops = 0
        /\ mounts = 0

\* FileSystemState::Setup: LevelDB recovers and makes durable what is in its log;
\* the counter comes from root.dat.
Setup ==
  /\ phase = "down" /\ mounts < MaxMounts
  /\ phase' = "open"
  /\ mounts' = mounts + 1
  /\ state' = IF state.root_dat < 0 THEN [max_inode_num |-> 0, root_dat |-> 0]
                                    ELSE [state EXCEPT !.max_inode_num = state.root_dat]
  /\ store' = [db |-> Fresh(store.db.cur)] @@ EmptyCache
  /\ ghost' = [Synced(ghost, Names) EXCEPT !.logged = {}]
  /\ UNCHANGED <<wrong, disk, fis, pending, ops, client>>

\* TableFS::Init: an empty counter means a new file system, which gets its root.
InitFS ==
  /\ phase = "open"
  /\ phase' = "up"
  /\ store' = IF state.max_inode_num = 0
              THEN [store EXCEPT !.db = Put(@, Root, InitInodeValue(ROOT_INODE_ID))]
              ELSE store
  /\ UNCHANGED <<state, disk, fis, ghost, wrong, pending, ops, mounts, client>>

\* TableFS::Destroy waits in monitor_destroy for a thread that Init does not start;
\* what follows the wait (writing root.dat is part of it) is never reached.
Destroy ==
  /\ phase = "up"
  /\ phase' = "stuck"
  /\ UNCHANGED <<state, store, disk, fis, ghost, wrong, pending, ops, mounts, client>>

\* The contents a mount finds for each name.
ContentsIn(t, dk) ==
  [n \in Names |-> IF n \notin DOMAIN t THEN <<>>
                   ELSE IF t[n].blob THEN <<DataOf(dk, t[n].ino, MaxSize)>>
                   ELSE <<t[n].inline>>]

\* Nothing is claimed later of a file that shares its inode number, or whose data
\* file has not the length that its inode says.
Odd(t, dk) ==
  {n \in Names \cap DOMAIN t : \/ \E m \in DOMAIN t \ {n} : t[m].ino = t[n].ino
                             \/ t[n].size # Len(ContentsIn(t, dk)[n][1])}

\* A crash of either kind: t is the table and dk are the data files that are left.
\* Nothing is claimed about a file that was about to give up its data file.
Crash(t, dk, allowed, exempt) ==
  LET got == ContentsIn(t, dk)
      fine(n) == n \in exempt \cup ghost.tainted \cup {pending.n} \/ got[n] \in allowed[n]
  IN /\ phase \notin {"down", "undefined"}
     /\ phase' = "down"
     /\ store' = [db |-> Fresh(t)] @@ EmptyCache
     /\ disk' = [dk EXCEPT !.fd = [n \in Numbers |-> 0]]
     /\ fis' = [fd \in 1 .. FdLimit |-> NoFi]
     /\ ghost' = Tainting(Recovered(ghost, got), Odd(t, dk))
     /\ wrong' = IF \A n \in Names : fine(n) THEN wrong ELSE wrong \cup {"crash"}
     /\ pending' = NoPending
     /\ UNCHANGED <<state, ops, mounts, client>>

ProcessCrash ==
  Crash(store.db.cur, disk, [n \in Names |-> {Maybe(ghost.closed, n), Maybe(ghost.want, n)}], {})

\* Of a data file that was not synced the old or the new contents are left, so
\* nothing is claimed about a file that was in one at its last closes.
MachineCrash ==
  \E t \in LeftBy(store.db), old \in SUBSET DOMAIN disk.obj :
    Crash(t,
          [disk EXCEPT !.obj = [o \in DOMAIN @ |-> IF o \in old THEN [@[o] EXCEPT !.data = disk.obj[o].safe] ELSE @[o]]],
          ghost.versions,
          {n \in Names : \E c \in ghost.versions[n] : c # <<>> /\ Len(c[1]) > Threshold})

--------------------------------------------------------------------------------
\* The handlers.  Called: one more call of the client, which makes none when nothing
\* is claimed of any of its files.

Calls == phase = "up" /\ ops < MaxOps(client) /\ ~(client \subseteq ghost.tainted)
Called == /\ Calls
          /\ ops' = ops + 1
          /\ UNCHANGED <<state, mounts, pending, client>>
Step == Called /\ phase' = phase

Exists(n) == n \in DOMAIN store.db.cur
OpenFds(n) == {fd \in DOMAIN fis : fis[fd].used /\ fis[fd].name = n}
FreeFd(fd) == ~fis[fd].used /\ \A i \in 1 .. fd - 1 : fis[i].used

\* TableFSWrapper::Mknod: Stat, MakeNode with the next inode number, Stat.
InUse(ino) == GetDiskFile(disk, ino) # 0 \/ \E n \in Names \cap DOMAIN store.db.cur : store.db.cur[n].ino = ino
Mknod(n) ==
  LET ino == state.max_inode_num + 1
      g == Get([store EXCEPT !.db = Put(@, n, InitInodeValue(ino))], n, "read")
      born == [ghost EXCEPT !.want = (n :> <<>>) @@ @]
      mixed == {m \in Names \cap DOMAIN store.db.cur : store.db.cur[m].ino = ino} \cup {n}
  IN /\ Calls
     /\ ~Exists(n) /\ store.at[n] = 0
     /\ state' = [state EXCEPT !.max_inode_num = ino]
     /\ store' = Release(g.s, g.h)
     /\ ghost' = Tainting(Saved(born, n), IF InUse(ino) THEN mixed ELSE {})
     /\ ops' = ops + 1
     /\ UNCHANGED <<wrong, mounts, phase, pending, disk, fis, client>>

\* TableFSWrapper::Stat.  The answer is the size.
Stat(n) ==
  LET g == Get(store, n, "read")
  IN /\ Step
     /\ g.h # 0
     /\ store' = Release(g.s, g.h)
     /\ ghost' = Tainting(ghost, Splits(n))
     /\ Answered("stat", {n}, g.s.handle[g.h].val.size, IF n \in DOMAIN ghost.want THEN Len(ghost.want[n]) ELSE -1)
     /\ UNCHANGED <<disk, fis>>

\* TableFSWrapper::Open takes the first free descriptor (with none left it would
\* use index -1: the client does not open more than FDLIMIT files).
Open(fd, n, rw) ==
  LET g == Get(store, n, IF rw THEN "write" ELSE "read")
      v == g.s.handle[g.h].val
      o == OpenDiskFile(disk, v.ino, FALSE)
      blob == g.h # 0 /\ v.blob
  IN /\ Step
     /\ FreeFd(fd) /\ g.h # 0
     /\ store' = g.s
     /\ disk' = IF blob THEN o.dk ELSE disk
     /\ fis' = [fis EXCEPT ![fd] = [used |-> TRUE, name |-> n, h |-> g.h, rw |-> rw,
                                    fd_ |-> IF blob THEN o.n ELSE 0, offset |-> 0]]
     /\ ghost' = Tainting(ghost, Splits(n))
     /\ UNCHANGED wrong

Seek(fd, offset) ==
  /\ Step
  /\ fis[fd].used /\ fis[fd].offset # offset
  /\ fis' = [fis EXCEPT ![fd].offset = offset]
  /\ UNCHANGED <<wrong, store, disk, ghost>>

\* The descriptor of the data file, opened now if the file has become a blob since
\* Open.
OnDisk(fi, v) ==
  IF v.blob /\ fi.fd_ = 0 THEN OpenDiskFile(disk, v.ino, FALSE) ELSE [n |-> fi.fd_, dk |-> disk]

Read(fd, size) ==
  LET fi == fis[fd]
      v == store.handle[fi.h].val
      o == OnDisk(fi, v)
      got == IF v.blob THEN Pread(o.dk, o.n, fi.offset, size) ELSE GetInlineData(v, fi.offset, size)
  IN /\ Step
     /\ fi.used
     /\ disk' = o.dk
     /\ fis' = [fis EXCEPT ![fd].fd_ = o.n, ![fd].offset = @ + Len(got)]
     /\ UNCHANGED <<store, ghost>>
     /\ Answered("read", {fi.name}, got, GetInlineData([inline |-> ghost.want[fi.name]], fi.offset, size))

\* Where the bytes go: into the data file, into one made for them, or into the
\* inode.
Migrates(fi, v, buf) == ~v.blob /\ fi.offset + Len(buf) > Threshold
Placed(fi, v, buf) ==
  LET end == fi.offset + Len(buf)
      o == OnDisk(fi, v)
      mg == MigrateToDiskFile(disk, v, fi.fd_, FALSE, "done")
      size == Max({v.size, end})
  IN CASE v.blob ->
            [n |-> o.n, dk |-> Pwrite(o.dk, o.n, buf, fi.offset),
             v |-> IF o.dk.fd[o.n] # 0 THEN UpdateInodeHeader(v, size, TRUE) ELSE v]
       [] Migrates(fi, v, buf) ->
            [n |-> mg.n, dk |-> Pwrite(mg.dk, mg.n, buf, fi.offset), v |-> UpdateInodeHeader(mg.v, end, TRUE)]
       [] OTHER ->
            [n |-> fi.fd_, dk |-> disk, v |-> UpdateInodeHeader(UpdateInlineData(v, buf, fi.offset), size, FALSE)]

\* Another descriptor of the file is still open on a data file that has lost its
\* name.
Stale(dk, n, ino, but) ==
  {m \in {n} : \E fd \in OpenFds(n) \ {but} :
                  fis[fd].fd_ # 0 /\ dk.fd[fis[fd].fd_] # GetDiskFile(dk, ino)}

\* A data file of an earlier mount that the table does not know of.
LeftOver(fi, v, buf) ==
  Migrates(fi, v, buf) /\ DataOf(disk, v.ino, MaxSize) # <<>>

\* MigrateToDiskFile copies st_size bytes, which are there unless an earlier pwrite
\* has failed.
Defined(ok) == IF ok THEN "up" ELSE "undefined"
Complete(v) == v.size <= Len(v.inline)

Write(fd, buf) ==
  LET fi == fis[fd]
      v == store.handle[fi.h].val
      p == Placed(fi, v, buf)
  IN /\ Called
     /\ fi.used /\ fi.rw /\ fi.offset + Len(buf) <= MaxSize
     /\ disk' = p.dk
     /\ store' = [store EXCEPT !.handle[fi.h].mode = "write", !.handle[fi.h].val = p.v]
     /\ fis' = [fis EXCEPT ![fd].fd_ = p.n, ![fd].offset = @ + Len(buf)]
     /\ ghost' = Tainting([ghost EXCEPT !.want[fi.name] = Replace(@, fi.offset, buf)],
                          Stale(p.dk, fi.name, v.ino, fd)
                            \cup IF LeftOver(fi, v, buf) THEN {fi.name} ELSE {})
     /\ phase' = Defined(Migrates(fi, v, buf) => Complete(v))
     /\ UNCHANGED wrong

\* MigrateToDiskFile fails, and so does Write.  The file stays as it is when it is
\* open that failed; when it is pwrite, its data is lost.
WriteFails(fd, buf) ==
  LET fi == fis[fd]
      v == store.handle[fi.h].val
  IN /\ Called
     /\ fi.used /\ fi.rw /\ fi.offset + Len(buf) <= MaxSize /\ Migrates(fi, v, buf)
     /\ \E end \in Ends(v) \ {"done"} :
          LET mg == MigrateToDiskFile(disk, v, fi.fd_, FALSE, end)
          IN /\ disk' = mg.dk
             /\ store' = [store EXCEPT !.handle[fi.h].mode = "write", !.handle[fi.h].val = mg.v]
             /\ fis' = [fis EXCEPT ![fd].fd_ = mg.n]
             /\ ghost' = Tainting(ghost, IF end = "no file" THEN {} ELSE {fi.name})
             /\ phase' = Defined(end = "no file" \/ Complete(v))
     /\ UNCHANGED wrong

\* TableFS::Fsync: nothing unless the handle is dirty, and the inode stays where it
\* is.
FsyncFile(fd, datasync) ==
  LET fi == fis[fd]
      x == store.handle[fi.h]
  IN /\ Step
     /\ fi.used /\ x.mode = "write"
     /\ disk' = IF x.val.blob THEN Fsync(disk, fi.fd_) ELSE disk
     /\ store' = IF datasync THEN store ELSE [store EXCEPT !.db = Sync(@)]
     /\ ghost' = IF datasync THEN ghost ELSE Synced(ghost, ghost.logged)
     /\ UNCHANGED <<wrong, fis>>

\* TableFSWrapper::Close, TableFS::Release.
Close(fd) ==
  LET fi == fis[fd]
      dirty == store.handle[fi.h].mode = "write"
  IN /\ Step
     /\ fi.used
     /\ disk' = CloseDiskFile(disk, fi.fd_)
     /\ store' = Evict(Release(WriteBack(store, fi.h), fi.h), fi.name)
     /\ fis' = [fis EXCEPT ![fd] = NoFi]
     /\ ghost' = [Saved(ghost, fi.name) EXCEPT !.logged = IF dirty THEN @ ELSE ghost.logged]
     /\ UNCHANGED wrong

--------------------------------------------------------------------------------
\* Truncate.  It compares the new size with the old through a pointer into the value,
\* which a longer value may have freed (moved): what it then sees is a choice.

SizesSeen(old, new_size, moved) == {old} \cup (IF moved THEN {new_size} ELSE {})
Header(v, seen, new_size) ==
  IF seen = new_size THEN v ELSE UpdateInodeHeader(v, new_size, new_size > Threshold)
Cut(g, n, new_size) == Saved([g EXCEPT !.want[n] = Resize(@, new_size)], n)

\* The end of the handler: header, write-back, release.
Finish(s, h, v) == Release(WriteBack([s EXCEPT !.handle[h].val = v], h), h)

\* The file was and stays in a data file.
TruncateBlob(n, g, v, new_size) ==
  /\ v.blob /\ new_size > Threshold
  /\ disk' = TruncateDiskFile(disk, v.ino, new_size)
  /\ store' = Finish(g.s, g.h, Header(v, v.size, new_size))
  /\ ghost' = Tainting(Cut(ghost, n, new_size), Splits(n))
  /\ phase' = phase

\* The inline data moves to a data file.  MigrateToDiskFile gets an uninitialised
\* descriptor and closes what it happens to name.  If it fails, the header says
\* all the same that the data is there.
TruncateToBlob(n, g, v, new_size) ==
  \E junk \in {0} \cup {i \in Numbers : disk.fd[i] # 0}, end \in Ends(v) :
    LET mg == MigrateToDiskFile(disk, v, junk, TRUE, end)
    IN /\ ~v.blob /\ new_size > Threshold
       /\ disk' = IF end = "done"
                  THEN CloseDiskFile(Fsync(TruncateDiskFile(mg.dk, v.ino, new_size), mg.n), mg.n)
                  ELSE mg.dk
       /\ store' = Finish(g.s, g.h, Header(mg.v, v.size, new_size))
       /\ ghost' = Tainting(Cut(ghost, n, new_size),
                            Splits(n) \cup Stale(mg.dk, n, v.ino, 0) \cup IF end = "done" THEN {} ELSE {n})
       /\ phase' = Defined(junk = 0 /\ (end = "no file" \/ Complete(v)))

TruncateInline(n, g, v, new_size) ==
  \E seen \in SizesSeen(v.size, new_size, new_size > Len(v.inline)) :
    /\ ~v.blob /\ new_size <= Threshold
    /\ store' = Finish(g.s, g.h, Header(TruncateInlineData(v, new_size), seen, new_size))
    /\ ghost' = Tainting(Cut(ghost, n, new_size), Splits(n))
    /\ phase' = Defined(seen = v.size)
    /\ UNCHANGED disk

Truncate(n, new_size) ==
  LET g == Get(store, n, "write")
      v == g.s.handle[g.h].val
  IN /\ Called
     /\ g.h # 0
     /\ \/ TruncateBlob(n, g, v, new_size)
        \/ TruncateToBlob(n, g, v, new_size)
        \/ TruncateInline(n, g, v, new_size)
     /\ UNCHANGED <<wrong, fis>>

\* MigrateDiskFileToBuffer: the data file is read and unlinked.  A descriptor that
\* is open on it will go on using the file that has no name any more.
TruncateUnlink(n, new_size) ==
  LET g == Get(store, n, "write")
      v == g.s.handle[g.h].val
  IN /\ Calls
     /\ g.h # 0 /\ v.blob /\ new_size <= Threshold
     /\ disk' = UnlinkDiskFile(disk, v.ino)
     /\ store' = g.s
     /\ pending' = [h |-> g.h, n |-> n, buf |-> Resize(DataOf(disk, v.ino, new_size), new_size), old |-> v.size]
     /\ ghost' = Tainting(ghost, Splits(n))
     /\ phase' = "shrink"
     /\ UNCHANGED <<wrong, state, fis, mounts, ops, client>>

\* The rest of Truncate: the bytes that were read become inline data.
TruncateFinish ==
  LET p == pending
      v == UpdateInlineData(store.handle[p.h].val, p.buf, 0)
  IN /\ phase = "shrink"
     /\ pending' = NoPending
     /\ \E seen \in SizesSeen(p.old, Len(p.buf), p.buf # <<>>) :
          /\ store' = Finish(store, p.h, Header(v, seen, Len(p.buf)))
          /\ ghost' = Cut(ghost, p.n, Len(p.buf))
          /\ phase' = Defined(seen = p.old)
     /\ ops' = ops + 1
     /\ UNCHANGED <<state, disk, fis, wrong, mounts, client>>

--------------------------------------------------------------------------------
\* Unlink of a file that is not open (module TableFS has the other case).
Unlink(n) ==
  LET g == Get(store, n, "delete")
      v == g.s.handle[g.h].val
  IN /\ Step
     /\ OpenFds(n) = {} /\ g.h # 0
     /\ disk' = IF v.size > Threshold THEN UnlinkDiskFile(disk, v.ino) ELSE disk
     /\ store' = Evict(Release(g.s, g.h), n)
     /\ ghost' = Gone(ghost, n)
     /\ UNCHANGED <<wrong, fis>>

\* ReadDir of the root seeks the hash 1, and keys are compared byte by byte: it
\* passes over the names in EarlyHash, and lists the root's own record.
ReadDir(t) == (DOMAIN t \cap Keys) \ EarlyHash

\* TableFSWrapper::Listdir never releases the handle that OpenDir returns.  Its filler
\* returns no value; the listing is the one a filler that goes on gets.
Listdir ==
  LET g == Get(store, Root, "read")
  IN /\ Step
     /\ g.h # 0 /\ g.s.handle[g.h].refs <= MaxDirHandles + 1
     /\ store' = g.s
     /\ ghost' = ghost
     /\ Answered("list", {}, ReadDir(store.db.cur), (DOMAIN ghost.want \ EarlyHash) \cup {Root})
     /\ UNCHANGED <<disk, fis>>

\* More than sync_time_limit has passed since the last synchronous Put.
TimePasses ==
  /\ phase = "up" /\ SyncSizeLimit <= 0 /\ SyncTimeLimit > 0
  /\ ~store.db.due
  /\ store' = [store EXCEPT !.db.due = TRUE]
  /\ UNCHANGED <<wrong, phase, state, disk, fis, ghost, pending, ops, mounts, client>>

\* MakeRoomForWrite: the memtable is full, and the log is closed as it is, without a
\* sync.  Bound: once in a mount, in the place of a call; a second time waits for
\* the flush of the first, which would only make more durable.
SwitchMemTable ==
  LET d == store.db
  IN /\ Step
     /\ ~d.switched
     /\ store' = [store EXCEPT !.db.switched = TRUE, !.db.since = [k \in Keys |-> {}],
                               !.db.older = [k \in Keys |-> @[k] \cup d.since[k]]]
     /\ ghost' = [ghost EXCEPT !.logged = {}]
     /\ UNCHANGED <<wrong, disk, fis>>

\* The last mount has ended.
Ended == /\ phase = "undefined" \/ (phase = "down" /\ mounts = MaxMounts)
         /\ UNCHANGED vars

Buffers == {[i \in 1 .. k |-> b] : k \in {1, 2}, b \in Bytes}

Next ==
  \/ Setup \/ InitFS \/ Destroy \/ ProcessCrash \/ MachineCrash
  \/ TruncateFinish \/ Listdir \/ TimePasses \/ SwitchMemTable \/ Ended
  \/ \E n \in client : Mknod(n) \/ Stat(n) \/ Unlink(n)
  \/ \E n \in client, size \in 0 .. MaxSize : Truncate(n, size) \/ TruncateUnlink(n, size)
  \/ \E fd \in DOMAIN fis : \/ Close(fd)
                            \/ Read(fd, MaxSize)
                            \/ \E n \in client, rw \in BOOLEAN : Open(fd, n, rw)
                            \/ \E offset \in 0 .. MaxSize - 1 : Seek(fd, offset)
                            \/ \E buf \in Buffers : Write(fd, buf) \/ WriteFails(fd, buf)
                            \/ \E datasync \in BOOLEAN : FsyncFile(fd, datasync)

Spec == Init /\ [][Next]_vars

--------------------------------------------------------------------------------

\* Every Read returns the bytes that the calls of Write and Truncate before it have
\* left there, every Stat their number and every listing the names, wherever the
\* data is by then (TableFS::Read, MigrateToDiskFile, MigrateDiskFileToBuffer).
ReadsBack == wrong \cap {"read", "stat", "list"} = {}

\* A crash of the process loses at most what was written since the last close.  A crash
\* of the machine goes back at most to what was closed when the client last asked for
\* a synchronous write, unless LevelDB had begun a new log between that close and the
\* request, which syncs the current log only (TableFS::Release, TableFS::Fsync,
\* LevelDBAdaptor::Sync, DBImpl::Write).
CrashKeepsClosed == "crash" \notin wrong

================================================================================
