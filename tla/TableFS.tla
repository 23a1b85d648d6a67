-------------------------------- MODULE TableFS --------------------------------
(***************************************************************************)
(* The name space of src/src/fs/tablefs.cpp: the handlers of the file      *)
(* system over the inode cache, the dentry cache, the LevelDB table and    *)
(* the directory of data files.  tablefs_main.cpp runs FUSE with "-s", so  *)
(* a handler is one step; the clients interleave handlers in any order.    *)
(*                                                                         *)
(* An inode record is abstracted to                                        *)
(*   ino   st_ino                                                          *)
(*   dir   S_ISDIR(st_mode)                                                *)
(*   blob  has_blob, which is st_size > threshold: the data is in a file   *)
(*         of the data directory named after ino                           *)
(*   attr  everything else that a client may change: permissions, owner,   *)
(*         the size and the inline data; the times are left out            *)
(* A key is <<inode of the directory, name>>: BuildMetaKey hashes the name *)
(* with murmur64, taken to be injective.                                   *)
(***************************************************************************)
EXTENDS InodeCacheOps

CONSTANTS Name,       \* names of directory entries
          MaxIno,     \* bound: inode numbers handed out
          Attr,       \* values of the rest of an inode record
          Fh,         \* bound: open files
          Dh,         \* bound: open directories
          Failing,    \* the handlers that may find the data file cannot be opened
          Exclusive,  \* whether clients leave alone what is open, see Free
          Clients     \* bounds: what the clients of an execution do, see Client

ROOT_INODE_ID == 0
Ino == ROOT_INODE_ID..MaxIno
RootKey == <<ROOT_INODE_ID, "">>
MetaKey == (Ino \X Name) \cup {RootKey}
Inode == [ino : Ino, dir : BOOLEAN, blob : BOOLEAN, attr : Attr]

ASSUME KeyAssumption == Key = MetaKey
ASSUME NameAssumption == "" \notin Name
ASSUME RecordAssumption == MaxIno \in Nat /\ Attr # {} /\ NoRecord \notin Inode
\* The paths the clients use, <<>> is the root; the files they have open at once,
\* the attributes they set, the sizes they use, TRUE for above the threshold,
\* the inode numbers they use up, and whether they make directories.
Client == [path : SUBSET Seq(Name), fh : SUBSET Fh, attr : SUBSET Attr,
           large : SUBSET BOOLEAN, inodes : Ino, mkdir : BOOLEAN]
ASSUME ClientAssumption == Clients \subseteq Client
\* Bound: enough addresses for what the cache and the clients can keep alive
\* and for the two handles that a handler takes, so FreshHandle finds one.
ASSUME HandleBound ==
  /\ IsFiniteSet(Fh) /\ IsFiniteSet(Dh)
  /\ Cardinality(Handle) >= Capacity + 2
  /\ Cardinality(Handle) >= Cardinality(Fh) + Cardinality(Dh) + 2

VARIABLES store,      \* inode cache and LevelDB table, see InodeCacheOps
          dentry,     \* dentry cache: key -> inode number, see LossyMap
          files,      \* open files: tfs_file_handle_t, see NoFile
          dirs,       \* open directories: the InodeCacheHandle in fi->fh
          maxIno,     \* FileSystemState::max_inode_num
          disk,       \* inode numbers that have a file in the data directory
          client,     \* the clients of this execution, an element of Clients
          taken       \* history: <<key, inode number>> of the entries that were
                      \* unlinked, removed, moved or replaced while open

vars == <<store, dentry, files, dirs, maxIno, disk, client, taken>>

\* A tfs_file_handle_t: handle_, whether fd_ is open on a data file, and
\* whether flags_ allow writing.
NoFile == [h |-> NoHandle, fd |-> FALSE, w |-> FALSE]

InitAttr == CHOOSE a \in Attr : TRUE

\* TableFS::Init on a new metadata directory.
Init ==
  /\ store = [cache |-> EmptyCache,
              db |-> [k \in Key |->
                        IF k = RootKey
                        THEN [ino |-> ROOT_INODE_ID, dir |-> TRUE,
                              blob |-> FALSE, attr |-> InitAttr]
                        ELSE NoRecord]]
  /\ dentry = <<>>
  /\ files = [f \in Fh |-> NoFile]
  /\ dirs = [d \in Dh |-> NoHandle]
  /\ maxIno = ROOT_INODE_ID
  /\ disk = {}
  /\ client \in Clients
  /\ taken = {}

--------------------------------------------------------------------------------
\* Path resolution.

DentryInsert(d, k, i) == [x \in DOMAIN d \cup {k} |-> IF x = k THEN i ELSE d[x]]
DentryEvict(d, k) == [x \in DOMAIN d \ {k} |-> d[x]]

\* One component of ParentPathLookup: dentry cache first, then the LevelDB
\* table, never the inode cache, and whatever the record's type.
LookupStep(r, name) ==
  LET k == <<r.ino, name>>
  IN  CASE ~r.ok -> r
        [] r.ok /\ k \in DOMAIN r.dentry -> [r EXCEPT !.ino = r.dentry[k]]
        [] r.ok /\ k \notin DOMAIN r.dentry /\ store.db[k] # NoRecord ->
             [r EXCEPT !.ino = store.db[k].ino,
                       !.dentry = DentryInsert(@, k, store.db[k].ino)]
        [] OTHER -> [r EXCEPT !.ok = FALSE]

ParentPathLookup(d, p) ==
  LET step[i \in 0..Len(p)] ==
        IF i = 0 THEN [ok |-> TRUE, ino |-> ROOT_INODE_ID, dentry |-> d]
                 ELSE LookupStep(step[i - 1], p[i])
  IN  step[IF p = <<>> THEN 0 ELSE Len(p) - 1]

PathLookup(d, p) ==
  LET r == ParentPathLookup(d, p)
  IN  [ok |-> r.ok, dentry |-> r.dentry,
       key |-> IF p = <<>> THEN RootKey ELSE <<r.ino, p[Len(p)]>>]

--------------------------------------------------------------------------------
\* The clients: the kernel's VFS layer, or TableFSWrapper, which look a path
\* up (GetAttr) before they call a handler with it.

\* What GetAttr would answer for p.
Visible(p) ==
  LET r == PathLookup(dentry, p)
  IN  CASE ~r.ok -> NoRecord
        [] r.ok /\ r.key \in DOMAIN store.cache.table ->
             ValueOf(store, store.cache.table[r.key])
        [] OTHER -> store.db[r.key]

Exists(p) == Visible(p) # NoRecord
IsDir(p) == Exists(p) /\ Visible(p).dir
IsFile(p) == Exists(p) /\ ~Visible(p).dir

\* Every directory on the way to p exists.
Reachable(p) == \A i \in 0..(Len(p) - 1) : IsDir(SubSeq(p, 1, i))

FileHandles == {files[f].h : f \in {g \in Fh : files[g] # NoFile}}
DirHandles == {dirs[d] : d \in {e \in Dh : dirs[e] # NoHandle}}
OpenHandles == FileHandles \cup DirHandles
OpenKeys == {KeyOf(store, h) : h \in OpenHandles}

\* With Exclusive, no client opens again, removes, or moves what is open.
Free(k) == Exclusive => k \notin OpenKeys

\* The entries among K that are open, as the history records them.
Taken(K) == {<<KeyOf(store, h), ValueOf(store, h).ino>> :
               h \in {x \in OpenHandles : KeyOf(store, x) \in K}}
TakenKeys == {t[1] : t \in taken}
TakenInos == {t[2] : t \in taken}

FreeFh == CHOOSE f \in client.fh : files[f] = NoFile
FreeDh == CHOOSE d \in Dh : dirs[d] = NoHandle

--------------------------------------------------------------------------------
\* The handlers.  Each looks the path up, which may fill the dentry cache,
\* then gets the inode, and gives the handle back before it returns unless
\* the client keeps it.

\* Get the handle of k, run Op on it when there is one.
WithHandle(k, mode, Op(_, _)) ==
  LET g == InodeCache_Get(store, k, mode)
  IN  store' = IF g.h = NoHandle THEN g.s ELSE Op(g.s, g.h)

\* Mutant of GetAttr: the handle is not released.
GetAttrLeaks(p) ==
  LET r == PathLookup(dentry, p)
  IN  /\ IF r.ok THEN store' = InodeCache_Get(store, r.key, INODE_READ).s
                 ELSE UNCHANGED store
      /\ dentry' = r.dentry
      /\ UNCHANGED <<files, dirs, maxIno, disk, taken>>

GetAttr(p) ==
  LET r == PathLookup(dentry, p)
  IN  /\ IF r.ok THEN WithHandle(r.key, INODE_READ, InodeCache_Release)
                 ELSE UNCHANGED store
      /\ dentry' = r.dentry
      /\ UNCHANGED <<files, dirs, maxIno, disk, taken>>

\* Readlink reads the LevelDB table and leaves only the dentry cache changed.
Readlink(p) ==
  /\ dentry' = PathLookup(dentry, p).dentry
  /\ UNCHANGED <<store, files, dirs, maxIno, disk, taken>>

\* Open, for reading or for writing.  A blob's data file is opened, with
\* O_CREAT; when that fails the handle is released but keeps its mode.
Open(p, w, fails) ==
  LET r == PathLookup(dentry, p)
      g == InodeCache_Get(store, r.key, IF w THEN INODE_WRITE ELSE INODE_READ)
      inode == ValueOf(g.s, g.h)
  IN  /\ Free(r.key)
      /\ \E f \in client.fh : files[f] = NoFile
      /\ g.h # NoHandle
      /\ fails => inode.blob
      /\ IF fails
         THEN /\ store' = InodeCache_Release(g.s, g.h)
              /\ UNCHANGED <<files, disk>>
         ELSE /\ store' = g.s
              /\ files' = [files EXCEPT ![FreeFh] =
                             [h |-> g.h, fd |-> inode.blob, w |-> w]]
              /\ disk' = IF inode.blob THEN disk \cup {inode.ino} ELSE disk
      /\ dentry' = r.dentry
      /\ UNCHANGED <<dirs, maxIno, taken>>

\* Read of a blob whose data file this open file has not opened yet.
Read(f) ==
  LET h == files[f].h
  IN  /\ files[f] # NoFile
      /\ ValueOf(store, h).blob /\ ~files[f].fd
      /\ files' = [files EXCEPT ![f].fd = TRUE]
      /\ disk' = disk \cup {ValueOf(store, h).ino}
      /\ UNCHANGED <<store, dentry, dirs, maxIno, taken>>

\* Write makes the handle dirty, whatever its mode was; past the threshold
\* the inline data moves to a data file.  When the data file cannot be opened
\* fd_ is -1 and the inode as it was, but the handle stays dirty.
Write(f, large, a, fails) ==
  LET h == files[f].h
      inode == ValueOf(store, h)
      toDisk == inode.blob \/ large
      opens == toDisk /\ ~(inode.blob /\ files[f].fd)
      dirty == SetMode(store, h, INODE_WRITE)
  IN  /\ files[f] # NoFile /\ files[f].w
      /\ fails => opens
      /\ store' = IF fails THEN dirty
                  ELSE SetValue(dirty, h, [inode EXCEPT !.blob = toDisk, !.attr = a])
      /\ files' = [files EXCEPT ![f].fd = ~fails /\ (@ \/ toDisk)]
      /\ disk' = IF opens /\ ~fails THEN disk \cup {inode.ino} ELSE disk
      /\ UNCHANGED <<dentry, dirs, maxIno, taken>>

\* Mutant of CloseFile: the handle is not written back, but its mode reset.
CloseWithoutWriteBack(f) ==
  LET h == files[f].h
      k == KeyOf(store, h)
  IN  /\ files[f] # NoFile
      /\ store' = InodeCache_Evict(
                    InodeCache_Release(SetMode(store, h, INODE_READ), h), k)
      /\ files' = [files EXCEPT ![f] = NoFile]
      /\ UNCHANGED <<dentry, dirs, maxIno, disk, taken>>

\* TableFS::Release: the handle is written back, released and evicted,
\* whoever else has the file open.
CloseFile(f) ==
  LET h == files[f].h
      k == KeyOf(store, h)
  IN  /\ files[f] # NoFile
      /\ store' = InodeCache_Evict(
                    InodeCache_Release(InodeCache_WriteBack(store, h), h), k)
      /\ files' = [files EXCEPT ![f] = NoFile]
      /\ UNCHANGED <<dentry, dirs, maxIno, disk, taken>>

\* Mutant of Truncate: the data file of an inode that grows past the threshold
\* is not made.
TruncateWithoutFile(p, large, a, fails) ==
  LET r == PathLookup(dentry, p)
      inode == Visible(p)
      Resize(s, h) ==
        InodeCache_Release(
          InodeCache_WriteBack(
            SetValue(s, h, [ValueOf(s, h) EXCEPT !.blob = large, !.attr = a]),
            h), h)
  IN  /\ WithHandle(r.key, INODE_WRITE, Resize)
      /\ disk' = IF inode.blob /\ ~large THEN disk \ {inode.ino} ELSE disk
      /\ dentry' = r.dentry
      /\ UNCHANGED <<files, dirs, maxIno, taken>>

\* Truncate to a size above or not above the threshold.  The inode says that
\* the data is in a data file even when that file could not be opened.
Truncate(p, large, a, fails) ==
  LET r == PathLookup(dentry, p)
      inode == Visible(p)
      Resize(s, h) ==
        InodeCache_Release(
          InodeCache_WriteBack(
            SetValue(s, h, [ValueOf(s, h) EXCEPT !.blob = large, !.attr = a]),
            h), h)
  IN  /\ fails => ~inode.blob /\ large
      /\ WithHandle(r.key, INODE_WRITE, Resize)
      /\ disk' = CASE inode.blob /\ ~large -> disk \ {inode.ino}
                   [] ~inode.blob /\ large /\ ~fails -> disk \cup {inode.ino}
                   [] OTHER -> disk
      /\ dentry' = r.dentry
      /\ UNCHANGED <<files, dirs, maxIno, taken>>

\* Mutants of SetAttr: the LevelDB record is changed behind the inode cache;
\* the handle is not written back.
SetAttrBehindCache(p, a) ==
  LET r == PathLookup(dentry, p)
  IN  /\ store.db[r.key] # NoRecord
      /\ store' = [store EXCEPT !.db[r.key].attr = a]
      /\ dentry' = r.dentry
      /\ UNCHANGED <<files, dirs, maxIno, disk, taken>>
SetAttrStaysDirty(p, a) ==
  LET r == PathLookup(dentry, p)
      Update(s, h) ==
        InodeCache_Release(
          SetValue(s, h, [ValueOf(s, h) EXCEPT !.attr = a]), h)
  IN  /\ WithHandle(r.key, INODE_WRITE, Update)
      /\ dentry' = r.dentry
      /\ UNCHANGED <<files, dirs, maxIno, disk, taken>>

\* Chmod, Chown and UpdateTimens.
SetAttr(p, a) ==
  LET r == PathLookup(dentry, p)
      Update(s, h) ==
        InodeCache_Release(
          InodeCache_WriteBack(
            SetValue(s, h, [ValueOf(s, h) EXCEPT !.attr = a]), h), h)
  IN  /\ WithHandle(r.key, INODE_WRITE, Update)
      /\ dentry' = r.dentry
      /\ UNCHANGED <<files, dirs, maxIno, disk, taken>>

\* Mutant of PutNewInode: the counter is incremented after it is used.
PostIncrement(p, dir) ==
  LET r == PathLookup(dentry, p)
  IN  /\ r.ok
      /\ maxIno < client.inodes
      /\ maxIno' = maxIno + 1
      /\ store' = [store EXCEPT !.db[r.key] =
                     [ino |-> maxIno, dir |-> dir, blob |-> FALSE,
                      attr |-> InitAttr]]
      /\ dentry' = r.dentry
      /\ UNCHANGED <<files, dirs, disk, taken>>

\* MakeNode, MakeDir and Symlink: a new inode number, and a Put that neither
\* looks at what the key holds nor at the caches.
PutNewInode(p, dir) ==
  LET r == PathLookup(dentry, p)
  IN  /\ maxIno < client.inodes
      /\ IF r.ok
         THEN /\ maxIno' = maxIno + 1
              /\ store' = [store EXCEPT !.db[r.key] =
                             [ino |-> maxIno + 1, dir |-> dir, blob |-> FALSE,
                              attr |-> InitAttr]]
         ELSE UNCHANGED <<maxIno, store>>
      /\ dentry' = r.dentry
      /\ UNCHANGED <<files, dirs, disk, taken>>

MakeNode(p) == PutNewInode(p, FALSE)
MakeDir(p) == PutNewInode(p, TRUE)
Symlink(p) == PutNewInode(p, FALSE)

\* Release and Evict drop the two references that Get left; the deleter then
\* deletes the record, unless the entry is open: it does so at the last close.
DropEntry(s, h) ==
  InodeCache_Evict(InodeCache_Release(s, h), KeyOf(s, h))

Unlink(p) ==
  LET r == PathLookup(dentry, p)
  IN  /\ Free(r.key)
      /\ disk' = IF Visible(p).blob THEN disk \ {Visible(p).ino} ELSE disk
      /\ dentry' = DentryEvict(r.dentry, r.key)
      /\ WithHandle(r.key, INODE_DELETE, DropEntry)
      /\ taken' = taken \cup Taken({r.key})
      /\ UNCHANGED <<files, dirs, maxIno>>

\* Mutant of RemoveDir: the dentry cache keeps the directory.
RemoveDirKeepsDentry(p) ==
  LET r == PathLookup(dentry, p)
  IN  /\ p # <<>> /\ Free(r.key)
      /\ dentry' = r.dentry
      /\ WithHandle(r.key, INODE_DELETE, DropEntry)
      /\ taken' = taken \cup Taken({r.key})
      /\ UNCHANGED <<files, dirs, maxIno, disk>>

\* RemoveDir does not look for entries in the directory.
RemoveDir(p) ==
  LET r == PathLookup(dentry, p)
  IN  /\ p # <<>> /\ Free(r.key)
      /\ dentry' = DentryEvict(r.dentry, r.key)
      /\ WithHandle(r.key, INODE_DELETE, DropEntry)
      /\ taken' = taken \cup Taken({r.key})
      /\ UNCHANGED <<files, dirs, maxIno, disk>>

OpenDir(p) ==
  LET r == PathLookup(dentry, p)
      g == InodeCache_Get(store, r.key, INODE_READ)
  IN  /\ Free(r.key)
      /\ \E d \in Dh : dirs[d] = NoHandle
      /\ g.h # NoHandle
      /\ store' = g.s
      /\ dirs' = [dirs EXCEPT ![FreeDh] = g.h]
      /\ dentry' = r.dentry
      /\ UNCHANGED <<files, maxIno, disk, taken>>

\* ReleaseDir releases the handle but, unlike Release, evicts nothing.
ReleaseDir(d) ==
  /\ dirs[d] # NoHandle
  /\ store' = InodeCache_Release(store, dirs[d])
  /\ dirs' = [dirs EXCEPT ![d] = NoHandle]
  /\ UNCHANGED <<dentry, files, maxIno, disk, taken>>

IsPrefix(p, q) == Len(p) <= Len(q) /\ SubSeq(q, 1, Len(p)) = p

\* Mutant of Rename: the old entry is taken for reading, and so not deleted.
RenameKeepsOld(p, q) ==
  LET old == PathLookup(dentry, p)
      new == PathLookup(old.dentry, q)
      g == InodeCache_Get(store, old.key, INODE_READ)
      i == InodeCache_Insert(g.s, new.key, ValueOf(g.s, g.h))
      s1 == InodeCache_BatchCommit(i.s, g.h, i.h)
      s2 == InodeCache_Release(InodeCache_Release(s1, i.h), g.h)
  IN  /\ ~IsPrefix(p, q) /\ ~IsPrefix(q, p)
      /\ Exists(q) => IsDir(p) = IsDir(q)
      /\ Free(old.key) /\ Free(new.key)
      /\ g.h # NoHandle
      /\ store' = InodeCache_Evict(s2, old.key)
      /\ dentry' = DentryEvict(DentryEvict(new.dentry, old.key), new.key)
      /\ taken' = taken \cup Taken({old.key, new.key})
      /\ UNCHANGED <<files, dirs, maxIno, disk>>

\* The old entry is taken for deletion, a dirty copy of it is inserted under
\* the new key, both go to the LevelDB table in one batch, and only then are
\* the handles released.  What the new key named before is not looked at.
Rename(p, q) ==
  LET old == PathLookup(dentry, p)
      new == PathLookup(old.dentry, q)
      g == InodeCache_Get(store, old.key, INODE_DELETE)
      i == InodeCache_Insert(g.s, new.key, ValueOf(g.s, g.h))
      s1 == InodeCache_BatchCommit(i.s, g.h, i.h)
      s2 == InodeCache_Release(InodeCache_Release(s1, i.h), g.h)
  IN  /\ ~IsPrefix(p, q) /\ ~IsPrefix(q, p)
      /\ Exists(q) => IsDir(p) = IsDir(q)
      /\ Free(old.key) /\ Free(new.key)
      /\ IF new.ok /\ g.h # NoHandle
         THEN /\ store' = InodeCache_Evict(s2, old.key)
              /\ dentry' = DentryEvict(DentryEvict(new.dentry, old.key), new.key)
              /\ taken' = taken \cup Taken({old.key, new.key})
         ELSE /\ dentry' = new.dentry
              /\ UNCHANGED <<store, taken>>
      /\ UNCHANGED <<files, dirs, maxIno, disk>>

\* Whether the data file that a handler needs cannot be opened.
Outcomes(handler) == IF handler \in Failing THEN BOOLEAN ELSE {FALSE}

\* The clients call the handlers with paths whose directories exist, those
\* that create with a name that does not, the others with one that does and
\* has the right type.
Handlers ==
  \/ LET here == {p \in client.path : Reachable(p)}
         file == {p \in here : IsFile(p)}
         dir == {p \in here : IsDir(p)}
         none == here \ (file \cup dir)
     IN  \/ \E p \in here : GetAttr(p)
         \/ \E p \in file : \/ Readlink(p) \/ Unlink(p)
                            \/ \E w \in BOOLEAN, fails \in Outcomes("Open") :
                                 Open(p, w, fails)
                            \/ \E large \in client.large, a \in client.attr, fails \in Outcomes("Truncate") :
                                 Truncate(p, large, a, fails)
         \/ \E p \in dir : RemoveDir(p) \/ OpenDir(p)
         \/ \E p \in file \cup dir, a \in client.attr : SetAttr(p, a)
         \/ \E p \in none : MakeNode(p) \/ Symlink(p) \/ (client.mkdir /\ MakeDir(p))
         \/ \E p \in file \cup dir, q \in here : Rename(p, q)
  \/ \E f \in client.fh : \/ Read(f) \/ CloseFile(f)
                   \/ \E large \in client.large, a \in client.attr, fails \in Outcomes("Write") :
                        Write(f, large, a, fails)
  \/ \E d \in Dh : ReleaseDir(d)

Next == Handlers /\ UNCHANGED client

Spec == Init /\ [][Next]_vars

--------------------------------------------------------------------------------
\* Between handlers every reference to a cached inode belongs to the cache's
\* list, an open file or an open directory: no handler, on no path through
\* it, leaks a handle or gives one back twice.
HandlesBalanced ==
  /\ OpenHandles \subseteq Live(store.cache)
  /\ \A h \in Live(store.cache) :
       store.cache.ent[h].refs =
         (IF h \in InList(store.cache) THEN 1 ELSE 0)
         + Cardinality({f \in Fh : files[f].h = h})
         + Cardinality({d \in Dh : dirs[d] = h})

\* A cached inode that nobody has open says what the LevelDB table says and
\* is not due for deletion, so evicting it may happen at any time.
UnpinnedIsClean ==
  \A k \in DOMAIN store.cache.table \ TakenKeys :
    LET h == store.cache.table[k]
    IN  h \notin OpenHandles =>
          ValueOf(store, h) = store.db[k] /\ ModeOf(store, h) # INODE_DELETE

\* A cached inode in mode INODE_READ, open or not, is what the LevelDB table
\* holds: what changes a record either writes it back or evicts it.
CleanIsCurrent ==
  \A k \in DOMAIN store.cache.table \ TakenKeys :
    LET h == store.cache.table[k]
    IN  ModeOf(store, h) = INODE_READ => ValueOf(store, h) = store.db[k]

\* The dentry cache names the inode that the LevelDB table has for the key.
DentryFresh ==
  \A k \in DOMAIN dentry \ TakenKeys :
    store.db[k] # NoRecord /\ store.db[k].ino = dentry[k]

\* Two entries never share an inode number, hence never a data file.
UniqueInodes ==
  \A j, k \in Key :
    j # k /\ store.db[j] # NoRecord /\ store.db[k] # NoRecord =>
      store.db[j].ino # store.db[k].ino \/ store.db[j].ino \in TakenInos

\* The inode that a client must see for k: the one it is writing to if k is
\* open, otherwise the one in the LevelDB table.
Current(k) ==
  IF k \in OpenKeys
  THEN LET h == CHOOSE x \in OpenHandles : KeyOf(store, x) = k
       IN  ValueOf(store, h)
  ELSE store.db[k]

\* Resolution of a path through what the clients must see.
CurrentInode(p) ==
  LET step[i \in 0..Len(p)] ==
        IF i = 0 THEN Current(RootKey)
        ELSE IF step[i - 1] = NoRecord THEN NoRecord
        ELSE Current(<<step[i - 1].ino, p[i]>>)
  IN  step[Len(p)]

\* GetAttr answers with the latest inode for every path, through both caches.
AnswersAreCurrent == \A p \in client.path : Reachable(p) => Visible(p) = CurrentInode(p)

\* Opening and closing files and directories changes nothing that a client
\* can see; in particular a close loses nothing that was written.
OpenCloseKeepTree ==
  [][<<{f \in Fh : files[f] = NoFile}, dirs>>' # <<{f \in Fh : files[f] = NoFile}, dirs>>
       => \A k \in Key : Current(k)' = Current(k)]_vars

\* An inode that says its data is in a data file has that file.
BlobBacked ==
  \A k \in Key : Current(k) # NoRecord /\ Current(k).blob => Current(k).ino \in disk

\* As long as clients leave alone what is open, the handlers implement the
\* name space, each in one step.
Tree == INSTANCE NameSpace
  WITH tree <- [k \in Key |-> Current(k)], last <- maxIno
ImplementsNameSpace == Tree!Spec
================================================================================
