------------------------------ MODULE TableFSProofs ----------------------------
(***************************************************************************)
(* Proofs about the file system, for every set of names and attributes,    *)
(* every capacity of the inode cache, any number of open files and         *)
(* directories, every set of handlers that may fail, and clients that      *)
(* leave alone what is open or do not.                                     *)
(*                                                                         *)
(* The inductive invariant IInv says four things that need each other:     *)
(* what the clients have open is what the reference counts count (TypeOK,  *)
(* OpenOK, Held); cache and table agree, but for what a client is writing  *)
(* (CacheInv); a number stays with one key (OwnedOK, BoundOK); and the     *)
(* dentry cache names what the table names, from the root down (DentryOK,  *)
(* RootOK).  Entries that were taken away while they were open, the        *)
(* history variable taken, are exempt: their last close deletes or writes  *)
(* whatever their key names then.                                          *)
(*                                                                         *)
(* With clients that leave alone what is open, View, the inode that a      *)
(* client must see for each key, changes in one place at a time (OneEntry, *)
(* Seen): this gives the refinement of NameSpace, that opening and closing *)
(* change nothing, and that no inode loses its data file.                  *)
(***************************************************************************)
EXTENDS TableFS, InodeCacheProofs

--------------------------------------------------------------------------------
\* Induction over the natural numbers, from the well-ordering of <.

\* A set of natural numbers has a least element.
LEMMA LeastElement ==
  ASSUME NEW T \in SUBSET Nat, T # {}
  PROVE  \E x \in T : \A y \in T : x <= y
<1> DEFINE L == OpToRel(<, Nat)
<1>1. IsWellFoundedOn(L, Nat)
  BY NatLessThanWellFounded
<1>2. \A a, b \in Nat : a < b => <<a, b>> \in L
  BY DEF OpToRel
<1> HIDE DEF L
<1>3. PICK x \in T : \A y \in T : ~ (<<y, x>> \in L)
  BY <1>1, WFMin
<1>4. \A y \in T : ~ (y < x)
  BY <1>2, <1>3
<1> QED  BY <1>4

\* A set that holds 0 and, with n, n + 1.
LEMMA Induction ==
  ASSUME NEW T \in SUBSET Nat, 0 \in T, \A n \in T : n + 1 \in T
  PROVE  T = Nat
<1> DEFINE U == Nat \ T
<1> SUFFICES ASSUME U # {}  PROVE FALSE
  OBVIOUS
<1>1. PICK x \in U : \A y \in U : x <= y
  BY LeastElement
<1>2. x # 0 /\ x - 1 \in T
  BY <1>1
<1> QED  BY <1>1, <1>2

--------------------------------------------------------------------------------
\* Path resolution.

Walk(f, d, p, n) ==
  f = [i \in 0..n |-> IF i = 0 THEN [ok |-> TRUE, ino |-> ROOT_INODE_ID, dentry |-> d]
                      ELSE LookupStep(f[i - 1], p[i])]

\* The recursion of ParentPathLookup defines a function, for every path.
LEMMA WalkExists ==
  ASSUME NEW d, NEW p, NEW n \in Nat
  PROVE  \E f : Walk(f, d, p, n)
<1> DEFINE base == [ok |-> TRUE, ino |-> ROOT_INODE_ID, dentry |-> d]
           T == {m \in Nat : \E f : Walk(f, d, p, m)}
<1> HIDE DEF base
<1>1. 0 \in T
  <2> DEFINE f == [i \in 0..0 |-> base]
  <2>1. Walk(f, d, p, 0)
    BY DEF Walk, base
  <2> QED  BY <2>1
<1>2. ASSUME NEW m \in T  PROVE m + 1 \in T
  <2>1. PICK f : Walk(f, d, p, m)
    OBVIOUS
  <2> DEFINE g == [i \in 0..(m + 1) |-> IF i = m + 1 THEN LookupStep(f[m], p[m + 1]) ELSE f[i]]
  <2>2. m \in Nat
    OBVIOUS
  <2>3. \A i \in 0..m : g[i] = f[i]
    BY <2>2
  <2>4. \A i \in 0..m : f[i] = IF i = 0 THEN base ELSE LookupStep(f[i - 1], p[i])
    BY <2>1, <2>2 DEF Walk, base
  <2>5. ASSUME NEW i \in 0..(m + 1)
        PROVE  g[i] = IF i = 0 THEN base ELSE LookupStep(g[i - 1], p[i])
    <3>1. CASE i = m + 1
      <4>1. g[i] = LookupStep(f[m], p[m + 1]) /\ i - 1 = m /\ i # 0 /\ g[m] = f[m]
        BY <3>1, <2>2, <2>3
      <4> QED  BY <3>1, <4>1
    <3>2. CASE i # m + 1
      <4>1. i \in 0..m /\ (i # 0 => i - 1 \in 0..m)
        BY <3>2, <2>2
      <4> QED  BY <4>1, <2>3, <2>4
    <3> QED  BY <3>1, <3>2
  <2>6. g = [i \in 0..(m + 1) |-> IF i = 0 THEN base ELSE LookupStep(g[i - 1], p[i])]
    <3>1. g = [i \in 0..(m + 1) |-> g[i]]
      OBVIOUS
    <3> HIDE DEF g
    <3> QED  BY <3>1, <2>5
  <2>7. Walk(g, d, p, m + 1)
    BY <2>6 DEF Walk, base
  <2> QED  BY <2>2, <2>7
<1>3. T = Nat
  <2> HIDE DEF T
  <2>1. T \subseteq Nat
    BY DEF T
  <2> QED  BY <1>1, <1>2, <2>1, Induction
<1> QED  BY <1>3

\* The steps of ParentPathLookup are the ones of its recursive definition.
LEMMA WalkLemma ==
  ASSUME NEW d, NEW p \in Seq(Name)
  PROVE  \E f : /\ Walk(f, d, p, Len(p))
                /\ ParentPathLookup(d, p) = f[IF p = <<>> THEN 0 ELSE Len(p) - 1]
<1> DEFINE f == CHOOSE g : Walk(g, d, p, Len(p))
<1>1. Len(p) \in Nat
  OBVIOUS
<1>2. Walk(f, d, p, Len(p))
  BY <1>1, WalkExists
<1>3. ParentPathLookup(d, p) = f[IF p = <<>> THEN 0 ELSE Len(p) - 1]
  BY DEF ParentPathLookup, Walk
<1> QED  BY <1>2, <1>3

\* The dentry cache d names inodes, of keys outside T the ones that b has.
DentryOK(d, b, T) ==
  /\ DOMAIN d \subseteq Key
  /\ \A k \in DOMAIN d : d[k] \in Ino
  /\ \A k \in DOMAIN d : k \notin T => b[k] # NoRecord /\ b[k].ino = d[k]

\* What a step of the path resolution has.
FoundOK(r, b, T) ==
  /\ r = [ok |-> r.ok, ino |-> r.ino, dentry |-> r.dentry]
  /\ r.ok \in BOOLEAN /\ r.ino \in Ino /\ DentryOK(r.dentry, b, T)

\* One component of a path.
LEMMA StepFinds ==
  ASSUME store.db \in [Key -> Inode \cup {NoRecord}],
         NEW r, NEW T, FoundOK(r, store.db, T), NEW name \in Name
  PROVE  FoundOK(LookupStep(r, name), store.db, T)
<1> DEFINE k == <<r.ino, name>>
           b == store.db[k]
           u == LookupStep(r, name)
<1>1. k \in Key
  BY KeyAssumption DEF MetaKey, FoundOK
<1>2. CASE ~r.ok
  BY <1>2 DEF LookupStep
<1>3. CASE r.ok /\ k \in DOMAIN r.dentry
  <2>1. u = [r EXCEPT !.ino = r.dentry[k]]
    BY <1>3 DEF LookupStep
  <2>2. r.dentry[k] \in Ino
    BY <1>3 DEF FoundOK, DentryOK
  <2> DEFINE i == r.dentry[k]
  <2> HIDE DEF i, u
  <2>3. u = [ok |-> r.ok, ino |-> i, dentry |-> r.dentry]
    BY <2>1 DEF FoundOK, i
  <2> QED  BY <2>2, <2>3 DEF FoundOK, i, u
<1>4. CASE r.ok /\ k \notin DOMAIN r.dentry /\ b # NoRecord
  <2> DEFINE i == b.ino
             d == DentryInsert(r.dentry, k, i)
  <2>1. u = [r EXCEPT !.ino = i, !.dentry = DentryInsert(@, k, i)]
    BY <1>4 DEF LookupStep
  <2>2. i \in Ino
    BY <1>1, <1>4 DEF Inode
  <2>3. DOMAIN d = DOMAIN r.dentry \cup {k} /\ d[k] = i
        /\ \A x \in DOMAIN r.dentry : x # k => d[x] = r.dentry[x]
    BY DEF DentryInsert
  <2>4. u = [ok |-> r.ok, ino |-> i, dentry |-> d]
    BY <2>1 DEF FoundOK
  <2> HIDE DEF d, u, k
  <2>5. DentryOK(d, store.db, T)
    BY <1>1, <1>4, <2>2, <2>3 DEF FoundOK, DentryOK
  <2> HIDE DEF i
  <2>6. u.ok = r.ok /\ u.ino = i /\ u.dentry = d
    BY <2>4
  <2> QED  BY <2>2, <2>4, <2>5, <2>6 DEF FoundOK, u
<1>5. CASE r.ok /\ k \notin DOMAIN r.dentry /\ b = NoRecord
  <2>1. u = [r EXCEPT !.ok = FALSE]
    BY <1>5 DEF LookupStep
  <2> HIDE DEF u
  <2>2. u = [ok |-> FALSE, ino |-> r.ino, dentry |-> r.dentry]
    BY <2>1 DEF FoundOK
  <2> QED  BY <2>2 DEF FoundOK, u
<1>6. r.ok \in BOOLEAN
  BY DEF FoundOK
<1> QED  BY <1>2, <1>3, <1>4, <1>5, <1>6

\* Path resolution finds a key, and leaves the dentry cache in order.
LEMMA PathFinds ==
  ASSUME store.db \in [Key -> Inode \cup {NoRecord}],
         NEW d, NEW T, DentryOK(d, store.db, T), NEW p \in Seq(Name)
  PROVE  LET r == PathLookup(d, p)
         IN  r.ok \in BOOLEAN /\ r.key \in Key /\ DentryOK(r.dentry, store.db, T)
<1> DEFINE n == IF p = <<>> THEN 0 ELSE Len(p) - 1
<1>1. PICK f : Walk(f, d, p, Len(p)) /\ ParentPathLookup(d, p) = f[n]
  BY WalkLemma
<1>2. Len(p) \in Nat /\ n \in 0..Len(p) /\ (p # <<>> => p[Len(p)] \in Name)
      /\ \A i \in 1..Len(p) : p[i] \in Name
  OBVIOUS
<1>3. /\ f[0] = [ok |-> TRUE, ino |-> ROOT_INODE_ID, dentry |-> d]
      /\ \A i \in 1..Len(p) : f[i] = LookupStep(f[i - 1], p[i])
  <2> DEFINE e == [ok |-> TRUE, ino |-> ROOT_INODE_ID, dentry |-> d]
  <2>1. f = [i \in 0..Len(p) |-> IF i = 0 THEN e ELSE LookupStep(f[i - 1], p[i])]
    BY <1>1 DEF Walk
  <2> HIDE DEF e
  <2>2. f[0] = e
    BY <1>2, <2>1
  <2>3. \A i \in 1..Len(p) : f[i] = LookupStep(f[i - 1], p[i])
    BY <1>2, <2>1
  <2> QED  BY <2>2, <2>3 DEF e
<1> DEFINE G == {i \in Nat : i <= Len(p) => FoundOK(f[i], store.db, T)}
<1>4. 0 \in G
  <2>1. ROOT_INODE_ID \in Ino
    BY RecordAssumption DEF Ino, ROOT_INODE_ID
  <2>2. FoundOK(f[0], store.db, T)
    BY <1>3, <2>1 DEF FoundOK
  <2> QED  BY <2>2
<1>5. ASSUME NEW i \in G  PROVE i + 1 \in G
  <2> SUFFICES ASSUME i + 1 <= Len(p)  PROVE FoundOK(f[i + 1], store.db, T)
    OBVIOUS
  <2>1. i \in Nat /\ i + 1 \in 1..Len(p) /\ i <= Len(p) /\ (i + 1) - 1 = i
    BY <1>2
  <2>2. f[i + 1] = LookupStep(f[i], p[i + 1]) /\ p[i + 1] \in Name
    BY <1>2, <1>3, <2>1
  <2>3. FoundOK(f[i], store.db, T)
    BY <2>1
  <2> QED  BY <2>2, <2>3, StepFinds
<1>6. G = Nat
  <2>1. G \in SUBSET Nat
    OBVIOUS
  <2> HIDE DEF G
  <2> QED  BY <2>1, <1>4, <1>5, Induction
<1>7. FoundOK(f[n], store.db, T)
  <2>1. n \in Nat /\ n <= Len(p)
    BY <1>2
  <2> HIDE DEF n
  <2> QED  BY <2>1, <1>6
<1> DEFINE r == f[n]
           k == IF p = <<>> THEN RootKey ELSE <<r.ino, p[Len(p)]>>
<1> HIDE DEF r, n
<1>8. k \in Key
  BY <1>2, <1>7, KeyAssumption DEF FoundOK, MetaKey, r
<1>9. PathLookup(d, p) = [ok |-> r.ok, dentry |-> r.dentry, key |-> k]
  BY <1>1 DEF PathLookup, r, n
<1> QED  BY <1>7, <1>8, <1>9 DEF FoundOK, r

--------------------------------------------------------------------------------
\* The inductive invariant.

\* What the clients hold, as the reference counts must have it.
Uses(A, F, x) == Cardinality({a \in A : F[a] = x})
FileOf == [f \in Fh |-> files[f].h]
Held == [h \in Handle |-> Uses(Fh, FileOf, h) + Uses(Dh, dirs, h)]

OpenFile == [h : Handle \cup {NoHandle}, fd : BOOLEAN, w : BOOLEAN]

TypeOK ==
  /\ files \in [Fh -> OpenFile]
  /\ dirs \in [Dh -> Handle \cup {NoHandle}]
  /\ maxIno \in Ino
  /\ client \in Clients

\* Open files are files, open directories are directories.
OpenOK ==
  /\ \A f \in Fh : files[f] # NoFile => files[f].h \in Handle /\ ~ValueOf(store, files[f].h).dir
  /\ \A d \in Dh : dirs[d] # NoHandle => dirs[d] \in Handle /\ ValueOf(store, dirs[d]).dir

CacheInv == StoreOK(store, Held, Inode) /\ Sound(store, Held, TakenKeys, TakenKeys, {})

\* An inode number belongs to one key, in the table and in the cache, unless
\* its entry was taken away while it was open.
OwnedOK(N, I) == \A a, b \in N : a[2] = b[2] /\ a[2] \notin I => a[1] = b[1]
BoundOK(N, n) == \A a \in N : a[2] \in Ino /\ a[2] <= n

\* The root is there, and nobody can take it away.
RootOK(b, T) ==
  /\ RootKey \in Key /\ RootKey \notin T /\ b[RootKey] # NoRecord
  /\ b[RootKey].ino = ROOT_INODE_ID /\ b[RootKey].dir

NamesInv ==
  /\ OwnedOK(Holds(store), TakenInos)
  /\ BoundOK(Holds(store), maxIno)
  /\ DentryOK(dentry, store.db, TakenKeys)
  /\ RootOK(store.db, TakenKeys)

IInv == TypeOK /\ OpenOK /\ CacheInv /\ NamesInv

\* Who is held is who is open.
LEMMA UsesLemma ==
  ASSUME NEW A, IsFiniteSet(A), NEW F, NEW x
  PROVE  Uses(A, F, x) \in Nat /\ (Uses(A, F, x) > 0 <=> \E a \in A : F[a] = x)
<1> DEFINE S == {a \in A : F[a] = x}
<1>1. IsFiniteSet(S)
  BY FS_Subset
<1>2. (\E a \in A : F[a] = x) <=> S # {}
  OBVIOUS
<1> HIDE DEF S
<1>3. Cardinality(S) \in Nat /\ (Cardinality(S) = 0 <=> S = {})
  BY <1>1, FS_CardinalityType, FS_EmptySet
<1> QED  BY <1>2, <1>3 DEF Uses, S

HeldFacts ==
  /\ Held \in [Handle -> Nat]
  /\ HeldIn(Held) = OpenHandles
  /\ OpenHandles \subseteq LiveIn(store)
  /\ \A f \in Fh : files[f] # NoFile => files[f].h \in OpenHandles
  /\ \A d \in Dh : dirs[d] # NoHandle => dirs[d] \in OpenHandles

\* What the counts say is held is what the clients have open, and it is alive.
LEMMA HeldLemma ==
  ASSUME IInv
  PROVE  HeldFacts
<1>1. \A x : /\ Uses(Fh, FileOf, x) \in Nat /\ Uses(Dh, dirs, x) \in Nat
             /\ Uses(Fh, FileOf, x) > 0 <=> \E f \in Fh : FileOf[f] = x
             /\ Uses(Dh, dirs, x) > 0 <=> \E d \in Dh : dirs[d] = x
  BY UsesLemma, HandleBound
<1>2. Held \in [Handle -> Nat]
  BY <1>1 DEF Held
<1>3. \A f \in Fh : FileOf[f] = files[f].h /\ (files[f].h \in Handle <=> files[f] # NoFile)
  <2> TAKE f \in Fh
  <2>1. FileOf[f] = files[f].h /\ (files[f] # NoFile => files[f].h \in Handle)
    BY DEF IInv, OpenOK, FileOf
  <2>2. NoFile.h = NoHandle
    BY DEF NoFile
  <2> QED  BY <2>1, <2>2, NoHandleAssumption
<1>4. \A d \in Dh : dirs[d] \in Handle <=> dirs[d] # NoHandle
  BY NoHandleAssumption DEF IInv, OpenOK
<1>5. \A x \in Handle : Held[x] > 0 <=> x \in OpenHandles
  <2> TAKE x \in Handle
  <2>1. Held[x] = Uses(Fh, FileOf, x) + Uses(Dh, dirs, x)
    BY DEF Held
  <2>2. Held[x] > 0 <=> Uses(Fh, FileOf, x) > 0 \/ Uses(Dh, dirs, x) > 0
    BY <1>1, <2>1
  <2>3. (\E f \in Fh : FileOf[f] = x) <=> x \in FileHandles
    BY <1>3 DEF FileHandles
  <2>4. (\E d \in Dh : dirs[d] = x) <=> x \in DirHandles
    BY <1>4 DEF DirHandles
  <2> QED  BY <1>1, <2>2, <2>3, <2>4 DEF OpenHandles
<1>6. OpenHandles \subseteq Handle
  BY <1>3, <1>4 DEF OpenHandles, FileHandles, DirHandles
<1>7. OpenHandles \subseteq LiveIn(store)
  <2>1. StoreFacts(store, Held, Inode)
    BY StoreLemma DEF IInv, CacheInv
  <2> QED  BY <2>1, <1>5, <1>6 DEF StoreFacts
<1> QED  BY <1>2, <1>5, <1>6, <1>7 DEF HeldFacts, HeldIn, OpenHandles, FileHandles, DirHandles

\* The clients hold at most as many handles as they have files and directories
\* open.
LEMMA OpenBound ==
  ASSUME IInv
  PROVE  /\ IsFiniteSet(OpenHandles) /\ Cardinality(OpenHandles) \in Nat
         /\ Cardinality(OpenHandles) <= Cardinality(Fh) + Cardinality(Dh)
<1> DEFINE A == {g \in Fh : files[g] # NoFile}
           B == {e \in Dh : dirs[e] # NoHandle}
           F == [g \in A |-> files[g].h]
           G == [e \in B |-> dirs[e]]
<1>1. /\ IsFiniteSet(A) /\ Cardinality(A) <= Cardinality(Fh)
      /\ IsFiniteSet(B) /\ Cardinality(B) <= Cardinality(Dh)
  BY HandleBound, FS_Subset
<1>2. F \in Surjection(A, FileHandles) /\ G \in Surjection(B, DirHandles)
  BY DEF Surjection, FileHandles, DirHandles
<1> HIDE DEF A, B, F, G
<1>3. /\ IsFiniteSet(FileHandles) /\ Cardinality(FileHandles) <= Cardinality(A)
      /\ IsFiniteSet(DirHandles) /\ Cardinality(DirHandles) <= Cardinality(B)
  BY <1>1, <1>2, FS_Surjection
<1>4. /\ IsFiniteSet(OpenHandles)
      /\ Cardinality(OpenHandles) = Cardinality(FileHandles) + Cardinality(DirHandles)
                                      - Cardinality(FileHandles \cap DirHandles)
  BY <1>3, FS_Union DEF OpenHandles
<1>5. IsFiniteSet(FileHandles \cap DirHandles)
  BY <1>3, FS_Subset
<1>6. /\ Cardinality(A) \in Nat /\ Cardinality(B) \in Nat
      /\ Cardinality(Fh) \in Nat /\ Cardinality(Dh) \in Nat
      /\ Cardinality(FileHandles) \in Nat /\ Cardinality(DirHandles) \in Nat
      /\ Cardinality(FileHandles \cap DirHandles) \in Nat
      /\ Cardinality(OpenHandles) \in Nat
  BY <1>1, <1>3, <1>4, <1>5, HandleBound, FS_CardinalityType
<1> QED  BY <1>1, <1>3, <1>4, <1>6

\* A handler that takes a handle finds an address for it, Rename for two.
LEMMA RoomForHandles ==
  ASSUME IInv
  PROVE  /\ HasRoom(store)
         /\ \A s, h, q : StoreOK(s, q, Inode) /\ h \in Handle /\ HeldIn(q) \subseteq OpenHandles \cup {h}
              => HasRoom(s)
<1>0. Cardinality(Handle) \in Nat /\ Cardinality(Fh) \in Nat /\ Cardinality(Dh) \in Nat
  BY HandleAssumption, HandleBound, FS_CardinalityType
<1>1. Capacity < Cardinality(Handle)
  BY <1>0, HandleBound, CapacityAssumption
<1>2. OpenHandles \subseteq Handle /\ HeldIn(Held) = OpenHandles
  BY HeldLemma DEF HeldFacts, HeldIn
<1>3. IsFiniteSet(OpenHandles) /\ Cardinality(OpenHandles) \in Nat
      /\ Cardinality(OpenHandles) <= Cardinality(Fh) + Cardinality(Dh)
  BY OpenBound
<1>4. ASSUME NEW s, NEW h \in Handle, NEW q, StoreOK(s, q, Inode),
             HeldIn(q) \subseteq OpenHandles \cup {h}
      PROVE  HasRoom(s)
  <2>1. Cardinality(OpenHandles \cup {h}) <= Cardinality(OpenHandles) + 1
        /\ Cardinality(OpenHandles \cup {h}) \in Nat
    <3>1. IsFiniteSet(OpenHandles \cup {h})
          /\ Cardinality(OpenHandles \cup {h}) =
               IF h \in OpenHandles THEN Cardinality(OpenHandles) ELSE Cardinality(OpenHandles) + 1
      BY <1>3, FS_AddElement
    <3>2. Cardinality(OpenHandles \cup {h}) \in Nat
      BY <3>1, FS_CardinalityType
    <3> QED  BY <1>3, <3>1, <3>2
  <2>2. Cardinality(OpenHandles \cup {h}) < Cardinality(Handle)
    BY <1>0, <1>3, <2>1, HandleBound
  <2> DEFINE B == OpenHandles \cup {h}
  <2>3. B \subseteq Handle /\ HeldIn(q) \subseteq B /\ Cardinality(B) < Cardinality(Handle)
    BY <1>2, <1>4, <2>2
  <2> HIDE DEF B
  <2> QED  BY <1>1, <1>4, <2>3, RoomLemma
<1>5. HasRoom(store)
  <2>1. Cardinality(OpenHandles) < Cardinality(Handle)
    BY <1>0, <1>3, HandleBound
  <2> QED  BY <1>1, <1>2, <2>1, RoomLemma DEF IInv, CacheInv
<1> QED  BY <1>4, <1>5

--------------------------------------------------------------------------------
\* What every handler keeps.

\* The entries that a handler takes away while they are open.
LEMMA TakenGrows ==
  ASSUME NEW K, taken' = taken \cup Taken(K)
  PROVE  /\ TakenKeys \subseteq TakenKeys' /\ TakenKeys' \subseteq TakenKeys \cup K
         /\ TakenInos \subseteq TakenInos'
         /\ \A h \in OpenHandles : KeyOf(store, h) \in K =>
              KeyOf(store, h) \in TakenKeys' /\ ValueOf(store, h).ino \in TakenInos'
<1>1. \A a \in taken : a \in taken'
  OBVIOUS
<1>2. \A h \in OpenHandles : KeyOf(store, h) \in K =>
        <<KeyOf(store, h), ValueOf(store, h).ino>> \in taken'
  BY DEF Taken
<1>3. \A a \in taken' : a \in taken \/ a[1] \in K
  BY DEF Taken
<1>4. \A h : LET a == <<KeyOf(store, h), ValueOf(store, h).ino>>
             IN  a[1] = KeyOf(store, h) /\ a[2] = ValueOf(store, h).ino
  OBVIOUS
<1>5. TakenKeys' = {a[1] : a \in taken'} /\ TakenInos' = {a[2] : a \in taken'}
  BY DEF TakenKeys, TakenInos
<1>6. TakenKeys = {a[1] : a \in taken} /\ TakenInos = {a[2] : a \in taken}
  BY DEF TakenKeys, TakenInos
<1>7. TakenKeys \subseteq TakenKeys' /\ TakenInos \subseteq TakenInos'
  BY <1>1, <1>5, <1>6
<1>8. TakenKeys' \subseteq TakenKeys \cup K
  BY <1>3, <1>5, <1>6
<1>9. ASSUME NEW h \in OpenHandles, KeyOf(store, h) \in K
      PROVE  KeyOf(store, h) \in TakenKeys' /\ ValueOf(store, h).ino \in TakenInos'
  <2> DEFINE a == <<KeyOf(store, h), ValueOf(store, h).ino>>
  <2>1. a \in taken' /\ a[1] = KeyOf(store, h) /\ a[2] = ValueOf(store, h).ino
    BY <1>2, <1>9
  <2> HIDE DEF a
  <2> QED  BY <2>1, <1>5
<1> QED  BY <1>7, <1>8, <1>9

\* The handler takes the names K away; where nobody has them open, what the
\* cache has for them is what the table has.
Restored(s, K, O) ==
  \A h \in LiveIn(s) :
    KeyOf(s, h) \in K /\ h \notin O =>
      ValueOf(s, h) = s.db[KeyOf(s, h)] /\ ModeOf(s, h) = INODE_READ

\* Inode numbers stay with their keys, and the dentry cache right.
LEMMA NamesKept ==
  ASSUME IInv, NEW K, NEW X, RootKey \notin K,
         Handled(store, Held, store', Held', TakenKeys \cup K, X, Inode),
         K # {} => Held' = Held, taken' = taken \cup Taken(K), Restored(store', K, OpenHandles),
         DentryOK(dentry', store.db, TakenKeys), DOMAIN dentry' \cap K = {},
         OwnedOK(Holds(store'), TakenInos'), BoundOK(Holds(store'), maxIno')
  PROVE  CacheInv' /\ NamesInv'
<1> DEFINE T == TakenKeys \cup K
           U == TakenKeys'
           O == HeldIn(Held) \cap HeldIn(Held')
<1>1. StoreOK(store', Held', Inode) /\ Sound(store', Held', T, T, {})
      /\ Carries(store, store', T, X, O)
  BY DEF Handled
<1>2. U \subseteq T /\ TakenKeys \subseteq U
      /\ \A h \in OpenHandles : KeyOf(store, h) \in K => KeyOf(store, h) \in U
  BY TakenGrows
<1>3. HeldIn(Held) = OpenHandles
  BY HeldLemma DEF HeldFacts
<1> HIDE DEF U
<1>4. \A h \in LiveIn(store') :
        KeyOf(store', h) \in T /\ KeyOf(store', h) \notin U =>
          ValueOf(store', h) = store'.db[KeyOf(store', h)] /\ ModeOf(store', h) = INODE_READ
  <2> SUFFICES ASSUME NEW h \in LiveIn(store'), KeyOf(store', h) \in T, KeyOf(store', h) \notin U
               PROVE  ValueOf(store', h) = store'.db[KeyOf(store', h)]
                      /\ ModeOf(store', h) = INODE_READ
    OBVIOUS
  <2>1. KeyOf(store', h) \in K /\ O = OpenHandles
    BY <1>2, <1>3
  <2>2. CASE h \in OpenHandles
    <3>1. KeyOf(store', h) = KeyOf(store, h)
      BY <2>1, <2>2, <1>1 DEF Carries
    <3> QED  BY <2>1, <2>2, <3>1, <1>2
  <2>3. CASE h \notin OpenHandles
    BY <2>1, <2>3 DEF Restored
  <2> QED  BY <2>2, <2>3
<1>5. Sound(store', Held', U, U, {})
  <2> HIDE DEF T
  <2> QED  BY <1>1, <1>2, <1>4, NamesRestored
<1>6. CacheInv'
  BY <1>1, <1>5 DEF CacheInv, U
<1>7. DentryOK(dentry', store'.db, U)
  <2>1. DOMAIN dentry' \subseteq Key /\ \A k \in DOMAIN dentry' : dentry'[k] \in Ino
    BY DEF DentryOK
  <2>2. ASSUME NEW k \in DOMAIN dentry', k \notin U
        PROVE  store'.db[k] # NoRecord /\ store'.db[k].ino = dentry'[k]
    <3>1. k \notin T /\ k \in Key
      BY <1>2, <2>1, <2>2
    <3>2. store.db[k] # NoRecord /\ store.db[k].ino = dentry'[k]
      BY <3>1 DEF DentryOK
    <3> QED  BY <1>1, <3>1, <3>2 DEF Carries
  <2> QED  BY <2>1, <2>2 DEF DentryOK
<1>8. RootOK(store'.db, U)
  <2>1. RootOK(store.db, TakenKeys)
    BY DEF IInv, NamesInv
  <2>2. RootKey \in Key \ T
    BY <2>1 DEF RootOK
  <2> QED  BY <1>1, <1>2, <2>1, <2>2 DEF RootOK, Carries
<1> QED  BY <1>6, <1>7, <1>8 DEF NamesInv, U

\* Handlers after which no new key has a number.
LEMMA NumbersKept ==
  ASSUME IInv, NEW K, taken' = taken \cup Taken(K), Holds(store') \subseteq Holds(store),
         maxIno' = maxIno
  PROVE  OwnedOK(Holds(store'), TakenInos') /\ BoundOK(Holds(store'), maxIno')
<1>1. TakenInos \subseteq TakenInos'
  BY TakenGrows
<1>2. OwnedOK(Holds(store), TakenInos) /\ BoundOK(Holds(store), maxIno)
  BY DEF IInv, NamesInv
<1> DEFINE I == TakenInos
           J == TakenInos'
<1>3. I \subseteq J
  BY <1>1
<1> HIDE DEF I, J
<1>4. OwnedOK(Holds(store'), J)
  BY <1>2, <1>3 DEF OwnedOK, I
<1> QED  BY <1>2, <1>4 DEF BoundOK, J

\* What was open and stays open is what it was.
LEMMA OpenKept ==
  ASSUME IInv, NEW T, NEW X, Handled(store, Held, store', Held', T, X, Inode),
         NEW h \in OpenHandles, Held'[h] > 0
  PROVE  ValueOf(store', h).dir = ValueOf(store, h).dir
<1>1. h \in HeldIn(Held) \cap HeldIn(Held')
  BY HeldLemma DEF HeldFacts, HeldIn
<1> QED  BY <1>1 DEF Handled, Carries

\* The same of the state after a step.
LEMMA HeldLater == IInv' => HeldFacts'
<1>1. IInv => HeldFacts
  BY HeldLemma
<1> QED  BY <1>1, PTL

\* What is held after a handle was taken or given back.
LEMMA HeldThen ==
  ASSUME IInv, NEW h \in Handle
  PROVE  /\ HeldIn([Held EXCEPT ![h] = @ + 1]) = OpenHandles \cup {h}
         /\ HeldIn([Held EXCEPT ![h] = @ - 1]) \subseteq OpenHandles
         /\ OpenHandles \ HeldIn([Held EXCEPT ![h] = @ - 1]) \subseteq {h}
<1> DEFINE n == Held
           O == OpenHandles
           q == [n EXCEPT ![h] = @ + 1]
           u == [n EXCEPT ![h] = @ - 1]
<1>1. HeldIn(n) = O /\ n \in [Handle -> Nat]
  BY HeldLemma DEF HeldFacts
<1> HIDE DEF n, O
<1>2. /\ q[h] = n[h] + 1 /\ u[h] = n[h] - 1
      /\ \A x \in Handle \ {h} : q[x] = n[x] /\ u[x] = n[x]
  BY <1>1
<1> HIDE DEF q, u
<1>3. HeldIn(q) = O \cup {h} /\ HeldIn(u) \subseteq O /\ O \ HeldIn(u) \subseteq {h}
  BY <1>1, <1>2 DEF HeldIn
<1> QED  BY <1>3 DEF q, u, n, O

\* The open handles that are not of a key of K.
Outside(K) == {h \in OpenHandles : KeyOf(store, h) \notin K}

\* A step changes nothing outside the keys K: no record, nothing that an open
\* handle shows; and nothing of another key is opened or closed.
Leaves(K) ==
  /\ \A k \in Key \ K : store'.db[k] = store.db[k]
  /\ \A h \in OpenHandles \cap OpenHandles' :
       /\ KeyOf(store', h) = KeyOf(store, h)
       /\ KeyOf(store, h) \notin K => ValueOf(store', h) = ValueOf(store, h)
  /\ \A h \in OpenHandles \ OpenHandles' : KeyOf(store, h) \in K
  /\ \A h \in OpenHandles' \ OpenHandles : KeyOf(store', h) \in K

\* And the records of K keep their names.
Edits(K) == Leaves(K) /\ Carries(store, store', TakenKeys, {}, {})

\* The same, as the operations of the inode cache say it.
Within(K) ==
  /\ Steady(store, store', K, Outside(K) \cap HeldIn(Held'))
  /\ \A h \in OpenHandles \ HeldIn(Held') : KeyOf(store, h) \in K
  /\ \A h \in HeldIn(Held') \ OpenHandles : KeyOf(store', h) \in K

\* What they say is what the clients can see of it.
LEMMA LeavesLemma ==
  ASSUME IInv, IInv', NEW T, NEW X, Handled(store, Held, store', Held', T, X, Inode),
         NEW K, Within(K)
  PROVE  Leaves(K) /\ OpenHandles' = HeldIn(Held')
<1>1. HeldIn(Held') = OpenHandles' /\ HeldIn(Held) = OpenHandles
  BY HeldLemma, HeldLater DEF HeldFacts
<1> DEFINE Q == OpenHandles'
<1> HIDE DEF Q
<1>2. \A h \in OpenHandles \cap Q : KeyOf(store', h) = KeyOf(store, h)
  BY <1>1 DEF Handled, Carries, Q
<1>3. \A h \in OpenHandles \cap Q :
        KeyOf(store, h) \notin K => ValueOf(store', h) = ValueOf(store, h)
  BY <1>1 DEF Within, Steady, Outside, Q
<1> QED  BY <1>1, <1>2, <1>3 DEF Leaves, Within, Steady, Q

\* A handler that leaves alone what is open.
LEMMA NothingOpened ==
  ASSUME IInv, NEW T, NEW X, Handled(store, Held, store', Held, T, X, Inode),
         files' = files, dirs' = dirs
  PROVE  OpenOK' /\ Held' = Held
<1>1. Held' = Held
  BY DEF Held, FileOf
<1>2. HeldFacts
  BY HeldLemma
<1>3. \A h \in OpenHandles : ValueOf(store', h).dir = ValueOf(store, h).dir
  <2> TAKE h \in OpenHandles
  <2>1. h \in HeldIn(Held) \cap HeldIn(Held)
    BY <1>2 DEF HeldFacts
  <2> QED  BY <2>1 DEF Handled, Carries
<1>4. OpenOK'
  BY <1>2, <1>3 DEF OpenOK, HeldFacts, IInv
<1> QED  BY <1>1, <1>4

\* A handler that takes no name away and opens or closes nothing.
LEMMA QuietKeeps ==
  ASSUME IInv, Handled(store, Held, store', Held, TakenKeys, {}, Inode),
         DentryOK(dentry', store.db, TakenKeys),
         UNCHANGED <<files, dirs, maxIno, client, taken>>,
         NEW L, Steady(store, store', L, Outside(L))
  PROVE  IInv' /\ Edits(L) /\ OpenHandles' = OpenHandles
<1> DEFINE K == {}
<1>1. OpenOK' /\ Held' = Held
  BY NothingOpened
<1>2. taken' = taken \cup Taken(K) /\ TakenKeys \cup K = TakenKeys
  BY DEF Taken
<1>3. Restored(store', K, OpenHandles) /\ DOMAIN dentry' \cap K = {} /\ RootKey \notin K
  BY DEF Restored
<1>4. Holds(store') \subseteq Holds(store)
  BY DEF Handled, Carries
<1> HIDE DEF K
<1>5. OwnedOK(Holds(store'), TakenInos') /\ BoundOK(Holds(store'), maxIno')
  BY <1>2, <1>4, NumbersKept
<1> DEFINE X == {}
<1>6. Handled(store, Held, store', Held', TakenKeys \cup K, X, Inode)
  BY <1>1, <1>2
<1> HIDE DEF X
<1>7. CacheInv' /\ NamesInv'
  BY <1>1, <1>2, <1>3, <1>5, <1>6, NamesKept
<1>8. TypeOK'
  BY DEF IInv, TypeOK
<1>9. IInv'
  BY <1>1, <1>7, <1>8 DEF IInv
<1>10. HeldIn(Held) = OpenHandles
  BY HeldLemma DEF HeldFacts
<1>11. Within(L)
  BY <1>1, <1>10 DEF Within, Steady
<1>12. Leaves(L) /\ OpenHandles' = OpenHandles
  <2> DEFINE Y == {}
  <2>1. Handled(store, Held, store', Held', TakenKeys, Y, Inode)
    BY <1>1
  <2> HIDE DEF Y
  <2>2. Leaves(L) /\ OpenHandles' = HeldIn(Held')
    BY <1>9, <1>11, <2>1, LeavesLemma
  <2> QED  BY <1>1, <1>10, <2>2
<1>13. Carries(store, store', TakenKeys, {}, {})
  BY DEF Handled, Carries
<1> QED  BY <1>9, <1>12, <1>13 DEF Edits

--------------------------------------------------------------------------------
\* The handlers.

Resolved(p, r) ==
  /\ r.ok \in BOOLEAN /\ r.key \in Key /\ DentryOK(r.dentry, store.db, TakenKeys)
  /\ Visible(p) = IF r.ok THEN Shown(store, r.key) ELSE NoRecord

\* A path resolves to a key, and what GetAttr shows for the path is what a Get
\* of that key answers with.
LEMMA ResolvedLemma ==
  ASSUME IInv, NEW p \in Seq(Name)
  PROVE  Resolved(p, PathLookup(dentry, p))
<1> DEFINE r == PathLookup(dentry, p)
<1>1. store.db \in [Key -> Inode \cup {NoRecord}] /\ DentryOK(dentry, store.db, TakenKeys)
  BY DEF IInv, CacheInv, NamesInv, StoreOK
<1>2. r.ok \in BOOLEAN /\ r.key \in Key /\ DentryOK(r.dentry, store.db, TakenKeys)
  BY <1>1, PathFinds
<1>3. Visible(p) = CASE ~r.ok -> NoRecord
                     [] r.ok /\ r.key \in DOMAIN store.cache.table ->
                          ValueOf(store, store.cache.table[r.key])
                     [] OTHER -> store.db[r.key]
  BY DEF Visible
<1> HIDE DEF r
<1>4. Visible(p) = IF r.ok THEN Shown(store, r.key) ELSE NoRecord
  BY <1>2, <1>3 DEF Shown
<1> QED  BY <1>2, <1>4 DEF Resolved, r

\* A handler that leaves cache and table alone keeps them in order.
LEMMA NothingDone ==
  ASSUME IInv
  PROVE  Handled(store, Held, store, Held, TakenKeys, {}, Inode)
         /\ Steady(store, store, TakenKeys, HeldIn(Held))
BY DEF IInv, CacheInv, Handled, Carries, Steady

\* Less is said of what is outside more keys.
LEMMA SteadyOutside ==
  ASSUME IInv, NEW t, Steady(store, t, TakenKeys, HeldIn(Held)), NEW L, TakenKeys \subseteq L
  PROVE  Steady(store, t, L, Outside(L))
<1>1. HeldIn(Held) = OpenHandles
  BY HeldLemma DEF HeldFacts
<1> QED  BY <1>1 DEF Steady, Outside

\* What the inode cache answers.
LEMMA GetAnswers ==
  ASSUME IInv, NEW k \in Key, NEW mode \in InodeAccessMode
  PROVE  LET g == InodeCache_Get(store, k, mode)
         IN  \/ Shown(store, k) = NoRecord /\ g.h = NoHandle /\ g.s = store
             \/ Shown(store, k) \in Inode /\ Shown(store, k) # NoRecord /\ g.h # NoHandle
<1>1. StoreOK(store, Held, Inode) /\ HasRoom(store)
  BY RoomForHandles DEF IInv, CacheInv
<1>2. LET g == InodeCache_Get(store, k, mode)
      IN  \/ Shown(store, k) = NoRecord /\ g.h = NoHandle /\ g.s = store
          \/ Shown(store, k) \in Inode /\ g.h \in Handle
  BY <1>1, GetEffect
<1> QED  BY <1>2, NoHandleAssumption, RecordAssumption

\* GetAttr gives back the handle that it takes.
LEMMA GetAttrKeeps ==
  ASSUME IInv, NEW p \in Seq(Name), GetAttr(p), UNCHANGED client
  PROVE  IInv' /\ Edits(TakenKeys) /\ OpenHandles' = OpenHandles
<1> DEFINE r == PathLookup(dentry, p)
           k == r.key
           g == InodeCache_Get(store, k, INODE_READ)
<1>1. Resolved(p, r)
  BY ResolvedLemma
<1>2. k \in Key /\ DentryOK(r.dentry, store.db, TakenKeys)
  BY <1>1 DEF Resolved
<1>3. INODE_READ \in InodeAccessMode /\ INODE_READ \in {INODE_READ, INODE_WRITE}
      /\ INODE_READ # INODE_WRITE
  BY DEF InodeAccessMode, INODE_READ, INODE_WRITE
<1>4. IF r.ok THEN store' = IF g.h = NoHandle THEN g.s ELSE InodeCache_Release(g.s, g.h)
              ELSE store' = store
  BY DEF GetAttr, WithHandle
<1>5. UNCHANGED <<files, dirs, maxIno, client, taken>> /\ dentry' = r.dentry
  BY DEF GetAttr
<1>6. HasRoom(store) /\ StoreOK(store, Held, Inode) /\ Sound(store, Held, TakenKeys, TakenKeys, {})
  BY RoomForHandles DEF IInv, CacheInv
<1>7. g.h = NoHandle => g.s = store
  BY <1>2, <1>3, GetAnswers
<1>8. g.h # NoHandle =>
        /\ Handled(store, Held, InodeCache_Release(g.s, g.h), Held, TakenKeys, {}, Inode)
        /\ Steady(store, InodeCache_Release(g.s, g.h), TakenKeys, HeldIn(Held))
  BY <1>2, <1>3, <1>6, GetAndRelease
<1> HIDE DEF g, r
<1>9. Handled(store, Held, store', Held, TakenKeys, {}, Inode)
      /\ Steady(store, store', TakenKeys, HeldIn(Held))
  BY <1>4, <1>7, <1>8, NothingDone
<1>10. Steady(store, store', TakenKeys, Outside(TakenKeys))
  BY <1>9, SteadyOutside
<1> QED  BY <1>2, <1>5, <1>9, <1>10, QuietKeeps

\* Readlink only fills the dentry cache.
LEMMA ReadlinkKeeps ==
  ASSUME IInv, NEW p \in Seq(Name), Readlink(p), UNCHANGED client
  PROVE  IInv' /\ Edits(TakenKeys) /\ OpenHandles' = OpenHandles
<1>1. DentryOK(dentry', store.db, TakenKeys) /\ store' = store
      /\ UNCHANGED <<files, dirs, maxIno, client, taken>>
  BY ResolvedLemma DEF Resolved, Readlink
<1>2. Handled(store, Held, store', Held, TakenKeys, {}, Inode)
      /\ Steady(store, store', TakenKeys, Outside(TakenKeys))
  BY <1>1, NothingDone, SteadyOutside
<1> QED  BY <1>1, <1>2, QuietKeeps

\* The record of k is changed to val, and so is the inode that the cache has for
\* k, if it is open.
Writes(k, val) ==
  /\ k \notin TakenKeys => store'.db[k] = val
  /\ k \in DOMAIN store.cache.table /\ store.cache.table[k] \in OpenHandles =>
       ValueOf(store', store.cache.table[k]) = val

\* SetAttr and Truncate change what the inode cache answers with.
LEMMA UpdateKeeps ==
  ASSUME IInv, NEW k \in Key, NEW g, NEW val,
         g = InodeCache_Get(store, k, INODE_WRITE),
         ValueOf(g.s, g.h) \in Inode =>
           /\ val \in Inode
           /\ val.ino = ValueOf(g.s, g.h).ino /\ val.dir = ValueOf(g.s, g.h).dir,
         store' = IF g.h = NoHandle THEN g.s
                  ELSE InodeCache_Release(
                         InodeCache_WriteBack(SetValue(g.s, g.h, val), g.h), g.h),
         DentryOK(dentry', store.db, TakenKeys),
         UNCHANGED <<files, dirs, maxIno, client, taken>>
  PROVE  /\ IInv' /\ Edits(TakenKeys \cup {k}) /\ OpenHandles' = OpenHandles
         /\ Shown(store, k) # NoRecord => ValueOf(g.s, g.h) = Shown(store, k) /\ Writes(k, val)
<1>1. INODE_WRITE \in InodeAccessMode /\ INODE_WRITE \in {INODE_READ, INODE_WRITE}
  BY DEF InodeAccessMode
<1>2. \/ Shown(store, k) = NoRecord /\ g.h = NoHandle /\ g.s = store
      \/ Shown(store, k) \in Inode /\ Shown(store, k) # NoRecord /\ g.h # NoHandle
  BY <1>1, GetAnswers
<1>3. HasRoom(store) /\ StoreOK(store, Held, Inode) /\ Sound(store, Held, TakenKeys, TakenKeys, {})
  BY RoomForHandles DEF IInv, CacheInv
<1> DEFINE L == TakenKeys \cup {k}
<1>t. TakenKeys \subseteq L
  OBVIOUS
<1>4. CASE g.h # NoHandle
  <2>1. ValueOf(g.s, g.h) = Shown(store, k)
    <3>1. INODE_WRITE # INODE_DELETE
      BY DEF INODE_WRITE, INODE_DELETE
    <3>2. Fetched(store, g.s, [Held EXCEPT ![g.h] = @ + 1], g.h, k, INODE_WRITE, TakenKeys)
      BY <1>1, <1>3, <1>4, <3>1, GetSound
    <3> QED  BY <3>2 DEF Fetched
  <2>2. val \in Inode /\ val.ino = Shown(store, k).ino /\ val.dir = Shown(store, k).dir
    BY <1>2, <1>4, <2>1
  <2>3. Updated(store, Held,
                InodeCache_Release(InodeCache_WriteBack(SetValue(g.s, g.h, val), g.h), g.h),
                g.h, k, val, TakenKeys, Inode)
    BY <1>3, <1>4, <2>2, GetAndUpdate
  <2>4. /\ Handled(store, Held, store', Held, TakenKeys, {}, Inode)
        /\ Steady(store, store', L, NotOf(store, k, HeldIn(Held)))
        /\ g.h \in HeldIn(Held) => ValueOf(store', g.h) = val
        /\ k \notin TakenKeys => store'.db[k] = val
    BY <1>4, <2>3 DEF Updated
  <2>5. Steady(store, store', L, Outside(L)) /\ HeldIn(Held) = OpenHandles
    <3>1. HeldIn(Held) = OpenHandles
      BY HeldLemma DEF HeldFacts
    <3>2. Outside(L) \subseteq NotOf(store, k, HeldIn(Held))
      BY <3>1 DEF Outside, NotOf
    <3> QED  BY <3>1, <3>2, <2>4 DEF Steady
  <2>6. k \in DOMAIN store.cache.table => g.h = store.cache.table[k]
    <3>1. Got(store, g.s, g.h, k, INODE_WRITE)
      BY <1>1, <1>2, <1>3, <1>4, GetEffect
    <3> QED  BY <3>1 DEF Got
  <2>7. Writes(k, val)
    BY <2>4, <2>5, <2>6 DEF Writes
  <2> HIDE DEF L
  <2>8. IInv' /\ Edits(L) /\ OpenHandles' = OpenHandles
    BY <2>4, <2>5, QuietKeeps
  <2> QED  BY <2>1, <2>7, <2>8 DEF L
<1>5. CASE g.h = NoHandle
  <2>1. Handled(store, Held, store', Held, TakenKeys, {}, Inode)
        /\ Steady(store, store', TakenKeys, HeldIn(Held))
    BY <1>2, <1>5, NothingDone
  <2> HIDE DEF L
  <2>2. Steady(store, store', L, Outside(L))
    BY <1>t, <2>1, SteadyOutside
  <2>3. IInv' /\ Edits(L) /\ OpenHandles' = OpenHandles
    BY <2>1, <2>2, QuietKeeps
  <2> QED  BY <1>2, <1>5, <2>3 DEF L
<1> QED  BY <1>4, <1>5

\* Chmod, Chown and UpdateTimens write back what they change.
LEMMA SetAttrKeeps ==
  ASSUME IInv, NEW p \in Seq(Name), NEW a \in Attr, SetAttr(p, a), UNCHANGED client
  PROVE  LET k == PathLookup(dentry, p).key
         IN  /\ IInv' /\ k \in Key /\ Edits(TakenKeys \cup {k}) /\ OpenHandles' = OpenHandles
             /\ Shown(store, k) # NoRecord => Writes(k, [Shown(store, k) EXCEPT !.attr = a])
<1> DEFINE r == PathLookup(dentry, p)
           k == r.key
           g == InodeCache_Get(store, k, INODE_WRITE)
           val == [ValueOf(g.s, g.h) EXCEPT !.attr = a]
<1>1. k \in Key /\ DentryOK(r.dentry, store.db, TakenKeys)
  BY ResolvedLemma DEF Resolved
<1>2. store' = IF g.h = NoHandle THEN g.s
               ELSE InodeCache_Release(
                      InodeCache_WriteBack(SetValue(g.s, g.h, val), g.h), g.h)
  BY DEF SetAttr, WithHandle
<1>3. UNCHANGED <<files, dirs, maxIno, client, taken>> /\ dentry' = r.dentry
  BY DEF SetAttr
<1>4. ValueOf(g.s, g.h) \in Inode =>
        val \in Inode /\ val.ino = ValueOf(g.s, g.h).ino /\ val.dir = ValueOf(g.s, g.h).dir
  <2> DEFINE v == ValueOf(g.s, g.h)
  <2> HIDE DEF v
  <2>1. v \in Inode => /\ [v EXCEPT !.attr = a] \in Inode
                       /\ [v EXCEPT !.attr = a].ino = v.ino
                       /\ [v EXCEPT !.attr = a].dir = v.dir
    BY DEF Inode
  <2> QED  BY <2>1 DEF v
<1>6. ValueOf(g.s, g.h) = Shown(store, k) => val = [Shown(store, k) EXCEPT !.attr = a]
  OBVIOUS
<1> HIDE DEF val, r, k
<1>5. DentryOK(dentry', store.db, TakenKeys)
  BY <1>1, <1>3
<1>7. /\ IInv' /\ Edits(TakenKeys \cup {k}) /\ OpenHandles' = OpenHandles
      /\ Shown(store, k) # NoRecord => ValueOf(g.s, g.h) = Shown(store, k) /\ Writes(k, val)
  BY <1>1, <1>2, <1>3, <1>4, <1>5, UpdateKeeps
<1> QED  BY <1>1, <1>6, <1>7 DEF k, r

\* Truncate writes the inode back whether or not the data file could be opened.
LEMMA TruncateKeeps ==
  ASSUME IInv, NEW p \in Seq(Name), NEW large \in BOOLEAN, NEW a \in Attr, NEW fails,
         Truncate(p, large, a, fails), UNCHANGED client
  PROVE  LET k == PathLookup(dentry, p).key
         IN  /\ IInv' /\ k \in Key /\ Edits(TakenKeys \cup {k}) /\ OpenHandles' = OpenHandles
             /\ Shown(store, k) # NoRecord => Writes(k, [Shown(store, k) EXCEPT !.blob = large, !.attr = a])
<1> DEFINE r == PathLookup(dentry, p)
           k == r.key
           g == InodeCache_Get(store, k, INODE_WRITE)
           val == [ValueOf(g.s, g.h) EXCEPT !.blob = large, !.attr = a]
<1>1. k \in Key /\ DentryOK(r.dentry, store.db, TakenKeys)
  BY ResolvedLemma DEF Resolved
<1>2. store' = IF g.h = NoHandle THEN g.s
               ELSE InodeCache_Release(
                      InodeCache_WriteBack(SetValue(g.s, g.h, val), g.h), g.h)
  BY DEF Truncate, WithHandle
<1>3. UNCHANGED <<files, dirs, maxIno, client, taken>> /\ dentry' = r.dentry
  BY DEF Truncate
<1>4. ValueOf(g.s, g.h) \in Inode =>
        val \in Inode /\ val.ino = ValueOf(g.s, g.h).ino /\ val.dir = ValueOf(g.s, g.h).dir
  <2> DEFINE v == ValueOf(g.s, g.h)
  <2> HIDE DEF v
  <2>1. v \in Inode => /\ [v EXCEPT !.blob = large, !.attr = a] \in Inode
                       /\ [v EXCEPT !.blob = large, !.attr = a].ino = v.ino
                       /\ [v EXCEPT !.blob = large, !.attr = a].dir = v.dir
    BY DEF Inode
  <2> QED  BY <2>1 DEF v
<1>6. ValueOf(g.s, g.h) = Shown(store, k) => val = [Shown(store, k) EXCEPT !.blob = large, !.attr = a]
  OBVIOUS
<1> HIDE DEF val, r, k
<1>5. DentryOK(dentry', store.db, TakenKeys)
  BY <1>1, <1>3
<1>7. /\ IInv' /\ Edits(TakenKeys \cup {k}) /\ OpenHandles' = OpenHandles
      /\ Shown(store, k) # NoRecord => ValueOf(g.s, g.h) = Shown(store, k) /\ Writes(k, val)
  BY <1>1, <1>2, <1>3, <1>4, <1>5, UpdateKeeps
<1> QED  BY <1>1, <1>6, <1>7 DEF k, r

--------------------------------------------------------------------------------
\* Opening and closing.

\* G is F with one more use of h.
Puts(A, F, G, h) ==
  \E a \in A : F[a] = NoHandle /\ G[a] = h /\ \A b \in A \ {a} : G[b] = F[b]
OneUse(A, F, G, h) ==
  /\ Uses(A, G, h) = Uses(A, F, h) + 1
  /\ \A x \in Handle \ {h} : Uses(A, G, x) = Uses(A, F, x)

\* To put a handle where there was none is one more use of it.
LEMMA PutsLemma ==
  ASSUME NEW A, IsFiniteSet(A), NEW F, NEW G, NEW h \in Handle, Puts(A, F, G, h)
  PROVE  OneUse(A, F, G, h)
<1>1. PICK a \in A : F[a] = NoHandle /\ G[a] = h /\ \A b \in A \ {a} : G[b] = F[b]
  BY DEF Puts
<1>2. F[a] # h /\ \A x \in Handle : x # F[a]
  BY <1>1, NoHandleAssumption
<1> DEFINE S == {b \in A : F[b] = h}
<1>3. IsFiniteSet(S) /\ a \notin S
  BY <1>2, FS_Subset
<1>4. {b \in A : G[b] = h} = S \cup {a}
  BY <1>1
<1>5. ASSUME NEW x \in Handle \ {h}  PROVE Uses(A, G, x) = Uses(A, F, x)
  <2>1. {b \in A : G[b] = x} = {b \in A : F[b] = x}
    BY <1>1, <1>2
  <2> QED  BY <2>1 DEF Uses
<1>6. Uses(A, G, h) = Uses(A, F, h) + 1
  <2> HIDE DEF S
  <2>1. Cardinality(S \cup {a}) = Cardinality(S) + 1
    BY <1>3, FS_AddElement
  <2> QED  BY <2>1, <1>4 DEF Uses, S
<1> QED  BY <1>5, <1>6 DEF OneUse

\* One more use of the handle h.
LEMMA CountedUp ==
  ASSUME IInv, NEW h \in Handle,
         \/ dirs' = dirs /\ Puts(Fh, FileOf, FileOf', h)
         \/ FileOf' = FileOf /\ Puts(Dh, dirs, dirs', h)
  PROVE  Held' = [Held EXCEPT ![h] = @ + 1]
<1> DEFINE F == FileOf
           F1 == FileOf'
           G == dirs
           G1 == dirs'
<1>1. \A x : /\ Uses(Fh, F, x) \in Nat /\ Uses(Dh, G, x) \in Nat
             /\ Uses(Fh, F1, x) \in Nat /\ Uses(Dh, G1, x) \in Nat
  BY UsesLemma, HandleBound
<1>2. \/ G1 = G /\ OneUse(Fh, F, F1, h)
      \/ F1 = F /\ OneUse(Dh, G, G1, h)
  BY PutsLemma, HandleBound
<1>3. Held' = [x \in Handle |-> Uses(Fh, F1, x) + Uses(Dh, G1, x)]
  BY DEF Held
<1>4. Held = [x \in Handle |-> Uses(Fh, F, x) + Uses(Dh, G, x)]
  BY DEF Held
<1> HIDE DEF F, F1, G, G1
<1> DEFINE n(x) == Uses(Fh, F, x) + Uses(Dh, G, x)
           m(x) == Uses(Fh, F1, x) + Uses(Dh, G1, x)
<1>5. m(h) = n(h) + 1 /\ \A x \in Handle \ {h} : m(x) = n(x)
  BY <1>1, <1>2 DEF OneUse
<1>6. Held = [x \in Handle |-> n(x)] /\ Held' = [x \in Handle |-> m(x)]
  BY <1>3, <1>4
<1> HIDE DEF n, m
<1> QED  BY <1>5, <1>6

\* One use less of it.
LEMMA CountedDown ==
  ASSUME IInv, NEW h \in Handle,
         \/ dirs' = dirs /\ Puts(Fh, FileOf', FileOf, h)
         \/ FileOf' = FileOf /\ Puts(Dh, dirs', dirs, h)
  PROVE  Held' = [Held EXCEPT ![h] = @ - 1]
<1> DEFINE F == FileOf
           F1 == FileOf'
           G == dirs
           G1 == dirs'
<1>1. \A x : /\ Uses(Fh, F, x) \in Nat /\ Uses(Dh, G, x) \in Nat
             /\ Uses(Fh, F1, x) \in Nat /\ Uses(Dh, G1, x) \in Nat
  BY UsesLemma, HandleBound
<1>2. \/ G1 = G /\ OneUse(Fh, F1, F, h)
      \/ F1 = F /\ OneUse(Dh, G1, G, h)
  BY PutsLemma, HandleBound
<1>3. Held' = [x \in Handle |-> Uses(Fh, F1, x) + Uses(Dh, G1, x)]
  BY DEF Held
<1>4. Held = [x \in Handle |-> Uses(Fh, F, x) + Uses(Dh, G, x)]
  BY DEF Held
<1> HIDE DEF F, F1, G, G1
<1> DEFINE n(x) == Uses(Fh, F, x) + Uses(Dh, G, x)
           m(x) == Uses(Fh, F1, x) + Uses(Dh, G1, x)
<1>5. m(h) = n(h) - 1 /\ \A x \in Handle \ {h} : m(x) = n(x)
  BY <1>1, <1>2 DEF OneUse
<1>6. Held = [x \in Handle |-> n(x)] /\ Held' = [x \in Handle |-> m(x)]
  BY <1>3, <1>4
<1> HIDE DEF n, m
<1> QED  BY <1>5, <1>6

\* A handler that opens or closes and takes no name away.
LEMMA OpenedKeeps ==
  ASSUME IInv, Handled(store, Held, store', Held', TakenKeys, {}, Inode),
         DentryOK(dentry', store.db, TakenKeys), OpenOK',
         files' \in [Fh -> OpenFile], dirs' \in [Dh -> Handle \cup {NoHandle}],
         UNCHANGED <<maxIno, client, taken>>, NEW L, Within(L)
  PROVE  IInv' /\ Edits(L) /\ OpenHandles' = HeldIn(Held')
<1> DEFINE K == {}
           X == {}
<1>2. taken' = taken \cup Taken(K) /\ TakenKeys \cup K = TakenKeys
  BY DEF Taken
<1>3. Restored(store', K, OpenHandles) /\ DOMAIN dentry' \cap K = {} /\ RootKey \notin K
      /\ (K # {} => Held' = Held)
  BY DEF Restored
<1>4. Holds(store') \subseteq Holds(store)
  BY DEF Handled, Carries
<1>6. Handled(store, Held, store', Held', TakenKeys \cup K, X, Inode)
  BY <1>2
<1> HIDE DEF K, X
<1>5. OwnedOK(Holds(store'), TakenInos') /\ BoundOK(Holds(store'), maxIno')
  BY <1>2, <1>4, NumbersKept
<1>7. CacheInv' /\ NamesInv'
  BY <1>2, <1>3, <1>5, <1>6, NamesKept
<1>8. TypeOK'
  BY DEF IInv, TypeOK
<1>9. IInv'
  BY <1>7, <1>8 DEF IInv
<1>10. Leaves(L) /\ OpenHandles' = HeldIn(Held')
  BY <1>6, <1>9, LeavesLemma
<1>11. Carries(store, store', TakenKeys, {}, {})
  BY DEF Handled, Carries
<1> QED  BY <1>9, <1>10, <1>11 DEF Edits

\* What stays open is what it was, what is opened is as it must be.
LEMMA StillOpen ==
  ASSUME IInv, Handled(store, Held, store', Held', TakenKeys, {}, Inode),
         files' \in [Fh -> OpenFile], dirs' \in [Dh -> Handle \cup {NoHandle}],
         \A f \in Fh : files'[f] # NoFile =>
           \/ files[f] # NoFile /\ files'[f].h = files[f].h
           \/ files'[f].h \in Handle /\ ~ValueOf(store', files'[f].h).dir,
         \A d \in Dh : dirs'[d] # NoHandle =>
           \/ dirs'[d] = dirs[d]
           \/ dirs'[d] \in Handle /\ ValueOf(store', dirs'[d]).dir
  PROVE  OpenOK'
<1> DEFINE F == FileOf'
           G == dirs'
<1>1. \A x : /\ Uses(Fh, F, x) \in Nat /\ Uses(Dh, G, x) \in Nat
             /\ Uses(Fh, F, x) > 0 <=> \E f \in Fh : F[f] = x
             /\ Uses(Dh, G, x) > 0 <=> \E d \in Dh : G[d] = x
  BY UsesLemma, HandleBound
<1>2. \A x \in Handle : Held'[x] = Uses(Fh, F, x) + Uses(Dh, G, x)
  BY DEF Held
<1>3. \A f \in Fh : F[f] = files'[f].h
  BY DEF FileOf
<1> HIDE DEF F
<1>4. \A f \in Fh : files'[f].h \in Handle => Held'[files'[f].h] > 0
  <2> TAKE f \in Fh
  <2> DEFINE x == files'[f].h
  <2> HAVE x \in Handle
  <2>1. Uses(Fh, F, x) > 0
    BY <1>1, <1>3
  <2> HIDE DEF x, G
  <2> QED  BY <1>1, <1>2, <2>1 DEF x
<1>5. \A d \in Dh : dirs'[d] \in Handle => Held'[dirs'[d]] > 0
  <2> TAKE d \in Dh
  <2> DEFINE x == G[d]
  <2> HAVE x \in Handle
  <2>1. Uses(Dh, G, x) > 0
    BY <1>1
  <2> HIDE DEF x, G
  <2> QED  BY <1>1, <1>2, <2>1 DEF x, G
<1>6. HeldFacts
  BY HeldLemma
<1>7. \A h \in OpenHandles : Held'[h] > 0 => ValueOf(store', h).dir = ValueOf(store, h).dir
  <2> TAKE h \in OpenHandles
  <2> HAVE Held'[h] > 0
  <2>1. h \in HeldIn(Held) \cap HeldIn(Held')
    BY <1>6 DEF HeldFacts, HeldIn
  <2> QED  BY <2>1 DEF Handled, Carries
<1>8. ASSUME NEW f \in Fh, files'[f] # NoFile
      PROVE  files'[f].h \in Handle /\ ~ValueOf(store', files'[f].h).dir
  <2> SUFFICES ASSUME files[f] # NoFile, files'[f].h = files[f].h
               PROVE  files'[f].h \in Handle /\ ~ValueOf(store', files'[f].h).dir
    BY <1>8
  <2>1. files[f].h \in Handle /\ ~ValueOf(store, files[f].h).dir /\ files[f].h \in OpenHandles
    BY <1>6 DEF HeldFacts, IInv, OpenOK
  <2> QED  BY <2>1, <1>4, <1>7
<1>9. ASSUME NEW d \in Dh, dirs'[d] # NoHandle
      PROVE  dirs'[d] \in Handle /\ ValueOf(store', dirs'[d]).dir
  <2> SUFFICES ASSUME dirs'[d] = dirs[d]
               PROVE  dirs'[d] \in Handle /\ ValueOf(store', dirs'[d]).dir
    BY <1>9
  <2>1. dirs[d] \in Handle /\ ValueOf(store, dirs[d]).dir /\ dirs[d] \in OpenHandles
    BY <1>6, <1>9 DEF HeldFacts, IInv, OpenOK
  <2> QED  BY <2>1, <1>5, <1>7
<1> QED  BY <1>8, <1>9 DEF OpenOK

\* The client has opened k: its handle shows what a Get of k answered with.
Opened(k) ==
  \E h \in Handle : /\ OpenHandles' = OpenHandles \cup {h}
                    /\ KeyOf(store', h) = k /\ ValueOf(store', h) = Shown(store, k)

\* A Get whose handle is kept stays within the key.
LEMMA OpenedWithin ==
  ASSUME IInv, NEW h \in Handle, Held' = [Held EXCEPT ![h] = @ + 1],
         NEW k, KeyOf(store', h) = k, Steady(store, store', TakenKeys, HeldIn(Held))
  PROVE  Within(TakenKeys \cup {k}) /\ HeldIn(Held') = OpenHandles \cup {h}
<1> DEFINE L == TakenKeys \cup {k}
           Q == HeldIn(Held')
<1>1. Q = OpenHandles \cup {h}
  BY HeldThen
<1>2. HeldIn(Held) = OpenHandles
  BY HeldLemma DEF HeldFacts
<1> HIDE DEF Q
<1>3. Steady(store, store', L, Outside(L) \cap Q)
  BY <1>2 DEF Steady, Outside
<1>4. \A x \in OpenHandles \ Q : KeyOf(store, x) \in L
  BY <1>1
<1>5. \A x \in Q \ OpenHandles : KeyOf(store', x) \in L
  BY <1>1
<1> QED  BY <1>1, <1>3, <1>4, <1>5 DEF Within, Q

\* OpenDir gives the client the handle that it took.
LEMMA OpenDirKeeps ==
  ASSUME IInv, NEW p \in Seq(Name), IsDir(p), OpenDir(p), UNCHANGED client
  PROVE  LET k == PathLookup(dentry, p).key
         IN  IInv' /\ k \in Key /\ Edits(TakenKeys \cup {k}) /\ Opened(k)
<1> DEFINE r == PathLookup(dentry, p)
           k == r.key
           g == InodeCache_Get(store, k, INODE_READ)
           h == g.h
<1>1. Resolved(p, r)
  BY ResolvedLemma
<1>2. /\ k \in Key /\ DentryOK(r.dentry, store.db, TakenKeys)
      /\ Visible(p) = IF r.ok THEN Shown(store, k) ELSE NoRecord
  BY <1>1 DEF Resolved
<1>3. Shown(store, k).dir
  BY <1>2 DEF IsDir, Exists
<1>4. /\ h # NoHandle /\ store' = g.s /\ dirs' = [dirs EXCEPT ![FreeDh] = h]
      /\ dentry' = r.dentry /\ \E d \in Dh : dirs[d] = NoHandle
      /\ UNCHANGED <<files, maxIno, client, taken>>
  BY DEF OpenDir
<1>5. INODE_READ \in {INODE_READ, INODE_WRITE} /\ INODE_READ # INODE_WRITE
  BY DEF INODE_READ, INODE_WRITE
<1>6. HasRoom(store) /\ StoreOK(store, Held, Inode) /\ Sound(store, Held, TakenKeys, TakenKeys, {})
  BY RoomForHandles DEF IInv, CacheInv
<1>20. Took(store, Held, g.s, h, k, TakenKeys, Inode)
  BY <1>2, <1>4, <1>5, <1>6, GetAndKeep
<1>7. /\ h \in Handle /\ ValueOf(g.s, h) = Shown(store, k)
      /\ Handled(store, Held, g.s, [Held EXCEPT ![h] = @ + 1], TakenKeys, {}, Inode)
      /\ Steady(store, g.s, TakenKeys, HeldIn(Held)) /\ KeyOf(g.s, h) = k
  BY <1>20 DEF Took
<1>8. FreeDh \in Dh /\ dirs[FreeDh] = NoHandle
  BY <1>4 DEF FreeDh
<1> DEFINE d0 == FreeDh
<1> HIDE DEF g, h, r, k, d0
<1>9. dirs \in [Dh -> Handle \cup {NoHandle}] /\ files \in [Fh -> OpenFile]
  BY DEF IInv, TypeOK
<1>10. dirs'[d0] = h /\ \A d \in Dh \ {d0} : dirs'[d] = dirs[d]
  BY <1>4, <1>8, <1>9 DEF d0
<1>11. Puts(Dh, dirs, dirs', h) /\ FileOf' = FileOf
  BY <1>4, <1>8, <1>10 DEF Puts, FileOf, d0
<1>12. Held' = [Held EXCEPT ![h] = @ + 1]
  BY <1>7, <1>11, CountedUp
<1>13. Handled(store, Held, store', Held', TakenKeys, {}, Inode)
  BY <1>4, <1>7, <1>12
<1>14. dirs' \in [Dh -> Handle \cup {NoHandle}] /\ files' \in [Fh -> OpenFile]
  BY <1>4, <1>7, <1>9
<1>15. \A d \in Dh : dirs'[d] # NoHandle =>
         dirs'[d] = dirs[d] \/ (dirs'[d] \in Handle /\ ValueOf(store', dirs'[d]).dir)
  BY <1>3, <1>4, <1>7, <1>10
<1>16. OpenOK'
  BY <1>4, <1>13, <1>14, <1>15, StillOpen
<1> DEFINE L == TakenKeys \cup {k}
<1>17. Within(L) /\ HeldIn(Held') = OpenHandles \cup {h}
  BY <1>4, <1>7, <1>12, OpenedWithin
<1> HIDE DEF L
<1>18. IInv' /\ Edits(L) /\ OpenHandles' = HeldIn(Held')
  BY <1>2, <1>4, <1>13, <1>14, <1>16, <1>17, OpenedKeeps
<1>19. Opened(k)
  BY <1>4, <1>7, <1>17, <1>18 DEF Opened
<1> QED  BY <1>2, <1>18, <1>19 DEF L, k, r

\* The client has closed h; if that was the last time, and the cache had h for its
\* key, the table has what h showed.
Closed(h) ==
  /\ h \in OpenHandles /\ OpenHandles' \subseteq OpenHandles /\ OpenHandles \ OpenHandles' \subseteq {h}
  /\ h \in OpenHandles' => ValueOf(store', h) = ValueOf(store, h)
  /\ Mapped1(store, h) /\ KeyOf(store, h) \notin TakenKeys =>
       store'.db[KeyOf(store, h)] = ValueOf(store, h)

\* Giving a handle back stays within its key.
LEMMA ClosedWithin ==
  ASSUME IInv, NEW h \in OpenHandles, Held' = [Held EXCEPT ![h] = @ - 1],
         Steady(store, store', TakenKeys \cup {KeyOf(store, h)}, HeldIn(Held) \cap HeldIn(Held'))
  PROVE  /\ Within(TakenKeys \cup {KeyOf(store, h)})
         /\ HeldIn(Held') \subseteq OpenHandles /\ OpenHandles \ HeldIn(Held') \subseteq {h}
         /\ h \in HeldIn(Held') => ValueOf(store', h) = ValueOf(store, h)
<1> DEFINE L == TakenKeys \cup {KeyOf(store, h)}
           Q == HeldIn(Held')
<1>1. HeldIn(Held) = OpenHandles /\ h \in Handle
  BY HeldLemma DEF HeldFacts, HeldIn
<1>2. Q \subseteq OpenHandles /\ OpenHandles \ Q \subseteq {h}
  BY <1>1, HeldThen
<1> HIDE DEF Q
<1>3. Steady(store, store', L, Outside(L) \cap Q) /\ (h \in Q => ValueOf(store', h) = ValueOf(store, h))
  BY <1>1 DEF Steady, Outside, Q
<1> QED  BY <1>2, <1>3 DEF Within, Q

\* ReleaseDir gives the handle of a directory back.
LEMMA ReleaseDirKeeps ==
  ASSUME IInv, NEW d \in Dh, ReleaseDir(d), UNCHANGED client
  PROVE  LET h == dirs[d]
         IN  IInv' /\ Edits(TakenKeys \cup {KeyOf(store, h)}) /\ Closed(h)
<1> DEFINE h == dirs[d]
<1>1. /\ h # NoHandle /\ store' = InodeCache_Release(store, h)
      /\ dirs' = [dirs EXCEPT ![d] = NoHandle]
      /\ UNCHANGED <<dentry, files, maxIno, client, taken>>
  BY DEF ReleaseDir
<1>2. h \in Handle /\ ValueOf(store, h).dir /\ h \in OpenHandles /\ HeldFacts
  BY <1>1, HeldLemma DEF IInv, OpenOK, HeldFacts
<1>3. Held[h] > 0
  BY <1>2 DEF HeldFacts, HeldIn
<1> HIDE DEF h
<1>4. StoreOK(store, Held, Inode) /\ Sound(store, Held, TakenKeys, TakenKeys, {})
  BY DEF IInv, CacheInv
<1>5. Handled(store, Held, store', [Held EXCEPT ![h] = @ - 1], TakenKeys, {}, Inode)
      /\ Steady(store, store', TakenKeys, HeldIn([Held EXCEPT ![h] = @ - 1]))
  BY <1>1, <1>2, <1>3, <1>4, ReleaseClean
<1>6. dirs \in [Dh -> Handle \cup {NoHandle}] /\ files \in [Fh -> OpenFile]
  BY DEF IInv, TypeOK
<1>7. dirs'[d] = NoHandle /\ \A e \in Dh \ {d} : dirs'[e] = dirs[e]
  BY <1>1, <1>6
<1>8. Puts(Dh, dirs', dirs, h) /\ FileOf' = FileOf
  BY <1>1, <1>7 DEF Puts, FileOf, h
<1>9. Held' = [Held EXCEPT ![h] = @ - 1]
  BY <1>2, <1>8, CountedDown
<1>10. Handled(store, Held, store', Held', TakenKeys, {}, Inode)
  BY <1>5, <1>9
<1>11. dirs' \in [Dh -> Handle \cup {NoHandle}] /\ files' \in [Fh -> OpenFile]
  BY <1>1, <1>6
<1>12. OpenOK'
  BY <1>1, <1>7, <1>10, <1>11, StillOpen
<1>13. DentryOK(dentry', store.db, TakenKeys)
  BY <1>1 DEF IInv, NamesInv
<1> DEFINE k == KeyOf(store, h)
           L == TakenKeys \cup {k}
<1>14. Steady(store, store', L, HeldIn(Held) \cap HeldIn(Held'))
  BY <1>5, <1>9 DEF Steady
<1>15. /\ Within(L) /\ HeldIn(Held') \subseteq OpenHandles /\ OpenHandles \ HeldIn(Held') \subseteq {h}
       /\ h \in HeldIn(Held') => ValueOf(store', h) = ValueOf(store, h)
  BY <1>2, <1>9, <1>14, ClosedWithin
<1>16. Mapped1(store, h) /\ k \notin TakenKeys => store'.db[k] = ValueOf(store, h)
  <2> SUFFICES ASSUME Mapped1(store, h), k \notin TakenKeys  PROVE store'.db[k] = ValueOf(store, h)
    OBVIOUS
  <2>1. StoreFacts(store, Held, Inode) /\ h \in LiveIn(store)
    BY <1>2, <1>4, StoreLemma DEF HeldFacts
  <2>2. ModeOf(store, h) = INODE_READ
    BY <1>2, <1>4, <2>1 DEF Sound, NamedOK, DirsClean, StoreFacts, InodeAccessMode
  <2>3. ValueOf(store, h) = store.db[k] /\ k \in Key
    BY <1>4, <2>1, <2>2 DEF Sound, FreshOK, Mapped1, StoreFacts
  <2> QED  BY <1>5, <2>3 DEF Steady
<1> HIDE DEF L
<1>17. IInv' /\ Edits(L) /\ OpenHandles' = HeldIn(Held')
  BY <1>1, <1>10, <1>11, <1>12, <1>13, <1>15, OpenedKeeps
<1>18. Closed(h)
  BY <1>2, <1>15, <1>16, <1>17 DEF Closed
<1> QED  BY <1>17, <1>18 DEF L, h

\* CloseFile writes the handle of a file back and gives it back.
LEMMA CloseFileKeeps ==
  ASSUME IInv, NEW f \in Fh, CloseFile(f), UNCHANGED client
  PROVE  LET h == files[f].h
         IN  IInv' /\ Edits(TakenKeys \cup {KeyOf(store, h)}) /\ Closed(h)
<1> DEFINE h == files[f].h
<1>1. /\ files[f] # NoFile
      /\ store' = InodeCache_Evict(
                    InodeCache_Release(InodeCache_WriteBack(store, h), h), KeyOf(store, h))
      /\ files' = [files EXCEPT ![f] = NoFile]
      /\ UNCHANGED <<dentry, dirs, maxIno, client, taken>>
  BY DEF CloseFile
<1>2. h \in Handle /\ h \in OpenHandles /\ HeldFacts
  BY <1>1, HeldLemma DEF IInv, OpenOK, HeldFacts
<1>3. Held[h] > 0
  BY <1>2 DEF HeldFacts, HeldIn
<1> HIDE DEF h
<1>4. StoreOK(store, Held, Inode) /\ Sound(store, Held, TakenKeys, TakenKeys, {})
  BY DEF IInv, CacheInv
<1>5. /\ Handled(store, Held, store', [Held EXCEPT ![h] = @ - 1], TakenKeys, {}, Inode)
      /\ Steady(store, store', TakenKeys \cup {KeyOf(store, h)},
                HeldIn(Held) \cap HeldIn([Held EXCEPT ![h] = @ - 1]))
      /\ Mapped1(store, h) /\ KeyOf(store, h) \notin TakenKeys =>
           store'.db[KeyOf(store, h)] = ValueOf(store, h)
  BY <1>1, <1>2, <1>3, <1>4, CloseHandle
<1>6. dirs \in [Dh -> Handle \cup {NoHandle}] /\ files \in [Fh -> OpenFile]
  BY DEF IInv, TypeOK
<1>7. files'[f] = NoFile /\ \A e \in Fh \ {f} : files'[e] = files[e]
  BY <1>1, <1>6
<1>8. Puts(Fh, FileOf', FileOf, h)
  <2>1. FileOf'[f] = NoHandle /\ FileOf[f] = h
    BY <1>7 DEF FileOf, NoFile, h
  <2>2. \A e \in Fh \ {f} : FileOf[e] = FileOf'[e]
    BY <1>7 DEF FileOf
  <2> QED  BY <2>1, <2>2 DEF Puts
<1>9. Held' = [Held EXCEPT ![h] = @ - 1]
  BY <1>1, <1>2, <1>8, CountedDown
<1>10. Handled(store, Held, store', Held', TakenKeys, {}, Inode)
  BY <1>5, <1>9
<1>11. dirs' \in [Dh -> Handle \cup {NoHandle}] /\ files' \in [Fh -> OpenFile]
  BY <1>1, <1>6 DEF OpenFile, NoFile
<1>12. OpenOK'
  BY <1>1, <1>7, <1>10, <1>11, StillOpen
<1>13. DentryOK(dentry', store.db, TakenKeys)
  BY <1>1 DEF IInv, NamesInv
<1> DEFINE L == TakenKeys \cup {KeyOf(store, h)}
<1>14. Steady(store, store', L, HeldIn(Held) \cap HeldIn(Held'))
  BY <1>5, <1>9
<1>15. /\ Within(L) /\ HeldIn(Held') \subseteq OpenHandles /\ OpenHandles \ HeldIn(Held') \subseteq {h}
       /\ h \in HeldIn(Held') => ValueOf(store', h) = ValueOf(store, h)
  BY <1>2, <1>9, <1>14, ClosedWithin
<1> HIDE DEF L
<1>16. IInv' /\ Edits(L) /\ OpenHandles' = HeldIn(Held')
  BY <1>1, <1>10, <1>11, <1>12, <1>13, <1>15, OpenedKeeps
<1>17. Closed(h)
  BY <1>2, <1>5, <1>15, <1>16 DEF Closed
<1> QED  BY <1>16, <1>17 DEF L, h

\* A handler that leaves every open file and directory its handle.
LEMMA SameHandles ==
  ASSUME IInv, Handled(store, Held, store', Held, TakenKeys, {}, Inode),
         NEW f \in Fh, NEW b \in BOOLEAN, files[f] # NoFile, files' = [files EXCEPT ![f].fd = b],
         UNCHANGED <<dentry, dirs, maxIno, client, taken>>,
         NEW L, Steady(store, store', L, Outside(L))
  PROVE  IInv' /\ Edits(L) /\ OpenHandles' = OpenHandles
<1>1. dirs \in [Dh -> Handle \cup {NoHandle}] /\ files \in [Fh -> OpenFile]
  BY DEF IInv, TypeOK
<1>2. files[f] \in OpenFile
  BY <1>1
<1>3. [files[f] EXCEPT !.fd = b] \in OpenFile /\ [files[f] EXCEPT !.fd = b].h = files[f].h
  BY <1>2 DEF OpenFile
<1>4. files' = [files EXCEPT ![f] = [files[f] EXCEPT !.fd = b]]
  OBVIOUS
<1>5. files' \in [Fh -> OpenFile] /\ files'[f].h = files[f].h
      /\ \A e \in Fh \ {f} : files'[e] = files[e]
  BY <1>1, <1>3, <1>4
<1>6. Held' = Held
  <2>1. \A e \in Fh : files'[e].h = files[e].h
    BY <1>5
  <2>2. FileOf' = FileOf
    BY <2>1 DEF FileOf
  <2> QED  BY <2>2 DEF Held
<1>7. Handled(store, Held, store', Held', TakenKeys, {}, Inode)
  BY <1>6
<1>8. OpenOK'
  BY <1>1, <1>5, <1>7, StillOpen
<1>9. DentryOK(dentry', store.db, TakenKeys)
  BY DEF IInv, NamesInv
<1>10. HeldIn(Held) = OpenHandles
  BY HeldLemma DEF HeldFacts
<1>11. Within(L)
  BY <1>6, <1>10 DEF Within, Steady
<1>12. IInv' /\ Edits(L) /\ OpenHandles' = HeldIn(Held')
  BY <1>1, <1>5, <1>7, <1>8, <1>9, <1>11, OpenedKeeps
<1> QED  BY <1>6, <1>10, <1>12

\* Read opens the data file.
LEMMA ReadKeeps ==
  ASSUME IInv, NEW f \in Fh, Read(f), UNCHANGED client
  PROVE  IInv' /\ Edits(TakenKeys) /\ OpenHandles' = OpenHandles
<1>1. /\ files[f] # NoFile /\ files' = [files EXCEPT ![f].fd = TRUE]
      /\ UNCHANGED <<store, dentry, dirs, maxIno, client, taken>>
  BY DEF Read
<1>2. Handled(store, Held, store', Held, TakenKeys, {}, Inode)
      /\ Steady(store, store', TakenKeys, Outside(TakenKeys))
  BY <1>1, NothingDone, SteadyOutside
<1> QED  BY <1>1, <1>2, SameHandles

\* What Write makes of the inode that the client has open.
Wrote(h, fails, large, a) ==
  ValueOf(store', h) =
    IF fails THEN ValueOf(store, h)
    ELSE [ValueOf(store, h) EXCEPT !.blob = ValueOf(store, h).blob \/ large, !.attr = a]

\* Write makes the handle of an open file dirty and may change its value.
LEMMA WriteKeeps ==
  ASSUME IInv, NEW f \in Fh, NEW large \in BOOLEAN, NEW a \in Attr, NEW fails \in BOOLEAN,
         Write(f, large, a, fails), UNCHANGED client
  PROVE  LET h == files[f].h
         IN  /\ IInv' /\ Edits(TakenKeys \cup {KeyOf(store, h)}) /\ OpenHandles' = OpenHandles
             /\ Wrote(h, fails, large, a)
<1> DEFINE h == files[f].h
           inode == ValueOf(store, h)
           toDisk == inode.blob \/ large
           dirty == SetMode(store, h, INODE_WRITE)
           val == [inode EXCEPT !.blob = toDisk, !.attr = a]
           b == ~fails /\ (files[f].fd \/ toDisk)
<1>1. /\ files[f] # NoFile
      /\ store' = IF fails THEN dirty ELSE SetValue(dirty, h, val)
      /\ UNCHANGED <<dentry, dirs, maxIno, client, taken>>
  BY DEF Write
<1>2. files' = [files EXCEPT ![f].fd = ~fails /\ (@ \/ toDisk)]
  BY DEF Write
<1>3. h \in Handle /\ h \in OpenHandles /\ HeldFacts /\ ~inode.dir
  BY <1>1, HeldLemma DEF IInv, OpenOK, HeldFacts
<1>4. Held[h] > 0 /\ h \in LiveIn(store)
  BY <1>3 DEF HeldFacts, HeldIn
<1>5. StoreOK(store, Held, Inode) /\ Sound(store, Held, TakenKeys, TakenKeys, {})
  BY DEF IInv, CacheInv
<1>6. inode \in Inode
  <2>1. StoreFacts(store, Held, Inode)
    BY <1>5, StoreLemma
  <2> QED  BY <1>4, <2>1 DEF StoreFacts
<1>7. files[f] \in OpenFile
  BY DEF IInv, TypeOK
<1>8. b \in BOOLEAN /\ toDisk \in BOOLEAN
  BY <1>6, <1>7 DEF Inode, OpenFile
<1>9. files' = [files EXCEPT ![f].fd = b]
  BY <1>2
<1>10. val \in Inode /\ val.ino = inode.ino /\ val.dir = inode.dir
  <2> HIDE DEF inode, toDisk
  <2> QED  BY <1>6, <1>8 DEF Inode
<1> HIDE DEF val, toDisk, b, h
<1>11. /\ Handled(store, Held, dirty, Held, TakenKeys, {}, Inode)
       /\ Steady(store, dirty, {}, HeldIn(Held))
       /\ Handled(store, Held, SetValue(dirty, h, val), Held, TakenKeys, {}, Inode)
       /\ Steady(store, SetValue(dirty, h, val), {}, HeldIn(Held) \ {h})
       /\ ValueOf(SetValue(dirty, h, val), h) = val
  BY <1>3, <1>4, <1>5, <1>10, WriteHandle
<1>12. Handled(store, Held, store', Held, TakenKeys, {}, Inode)
  BY <1>1, <1>11
<1>13. /\ Steady(store, store', {}, HeldIn(Held) \ {h})
       /\ ValueOf(store', h) = IF fails THEN inode ELSE val
  BY <1>1, <1>3, <1>11 DEF Steady, HeldFacts
<1> DEFINE L == TakenKeys \cup {KeyOf(store, h)}
<1>14. Steady(store, store', L, Outside(L))
  BY <1>3, <1>13 DEF Steady, Outside, HeldFacts
<1> HIDE DEF L
<1>15. IInv' /\ Edits(L) /\ OpenHandles' = OpenHandles
  BY <1>1, <1>8, <1>9, <1>12, <1>14, SameHandles
<1>16. Wrote(h, fails, large, a)
  BY <1>13 DEF Wrote, val, toDisk
<1> QED  BY <1>15, <1>16 DEF L, h

\* Open gives the client the handle that it took, or gives it back.
LEMMA OpenKeeps ==
  ASSUME IInv, NEW p \in Seq(Name), IsFile(p), NEW w \in BOOLEAN, NEW fails,
         Open(p, w, fails), UNCHANGED client
  PROVE  LET k == PathLookup(dentry, p).key
         IN  /\ IInv' /\ k \in Key
             /\ \/ Edits(TakenKeys \cup {k}) /\ Opened(k)
                \/ Edits(TakenKeys) /\ OpenHandles' = OpenHandles /\ files' = files
<1> DEFINE r == PathLookup(dentry, p)
           k == r.key
           mode == IF w THEN INODE_WRITE ELSE INODE_READ
           g == InodeCache_Get(store, k, mode)
           h == g.h
           b == ValueOf(g.s, h).blob
<1>1. Resolved(p, r)
  BY ResolvedLemma
<1>2. /\ k \in Key /\ DentryOK(r.dentry, store.db, TakenKeys)
      /\ Visible(p) = IF r.ok THEN Shown(store, k) ELSE NoRecord
  BY <1>1 DEF Resolved
<1>3. ~Shown(store, k).dir
  BY <1>2 DEF IsFile, Exists
<1>4. /\ h # NoHandle /\ \E f \in client.fh : files[f] = NoFile
      /\ dentry' = r.dentry
      /\ UNCHANGED <<dirs, maxIno, client, taken>>
      /\ \/ store' = InodeCache_Release(g.s, h) /\ files' = files
         \/ store' = g.s /\ files' = [files EXCEPT ![FreeFh] = [h |-> h, fd |-> b, w |-> w]]
  BY DEF Open
<1>5. mode \in {INODE_READ, INODE_WRITE}
  OBVIOUS
<1>6. HasRoom(store) /\ StoreOK(store, Held, Inode) /\ Sound(store, Held, TakenKeys, TakenKeys, {})
  BY RoomForHandles DEF IInv, CacheInv
<1>7. FreeFh \in Fh /\ files[FreeFh] = NoFile
  <2>1. FreeFh \in client.fh /\ files[FreeFh] = NoFile
    BY <1>4 DEF FreeFh
  <2>2. client \in Client
    BY ClientAssumption DEF IInv, TypeOK
  <2> QED  BY <2>1, <2>2 DEF Client
<1> HIDE DEF mode, k, r
<1>14. InodeCache_Get(store, k, mode).h # NoHandle /\ (mode = INODE_WRITE => ~Shown(store, k).dir)
  BY <1>3, <1>4
<1>20. Took(store, Held, g.s, h, k, TakenKeys, Inode)
  BY <1>2, <1>5, <1>6, <1>14, GetAndKeep
<1>8. /\ h \in Handle /\ ValueOf(g.s, h) = Shown(store, k) /\ Shown(store, k) \in Inode
      /\ Handled(store, Held, g.s, [Held EXCEPT ![h] = @ + 1], TakenKeys, {}, Inode)
      /\ Steady(store, g.s, TakenKeys, HeldIn(Held)) /\ KeyOf(g.s, h) = k
  BY <1>20 DEF Took
<1>9. Handled(store, Held, InodeCache_Release(g.s, h), Held, TakenKeys, {}, Inode)
      /\ Steady(store, InodeCache_Release(g.s, h), TakenKeys, HeldIn(Held))
  BY <1>2, <1>5, <1>6, <1>14, GetAndRelease
<1>10. b \in BOOLEAN
  BY <1>8 DEF Inode
<1>11. DentryOK(dentry', store.db, TakenKeys)
  BY <1>2, <1>4
<1> DEFINE L == TakenKeys \cup {k}
<1>12. CASE store' = InodeCache_Release(g.s, h) /\ files' = files
  <2>1. Handled(store, Held, store', Held, TakenKeys, {}, Inode)
        /\ Steady(store, store', TakenKeys, Outside(TakenKeys))
    BY <1>9, <1>12, SteadyOutside
  <2>2. IInv' /\ Edits(TakenKeys) /\ OpenHandles' = OpenHandles
    BY <1>4, <1>11, <1>12, <2>1, QuietKeeps
  <2> QED  BY <1>2, <1>12, <2>2 DEF k, r
<1>13. CASE store' = g.s /\ files' = [files EXCEPT ![FreeFh] = [h |-> h, fd |-> b, w |-> w]]
  <2> DEFINE f0 == FreeFh
             e0 == [h |-> h, fd |-> b, w |-> w]
  <2>1. e0 \in OpenFile /\ e0.h = h
    BY <1>8, <1>10 DEF OpenFile
  <2> HIDE DEF g, h, b, f0, e0
  <2>2. files \in [Fh -> OpenFile] /\ dirs \in [Dh -> Handle \cup {NoHandle}]
    BY DEF IInv, TypeOK
  <2>3. files' = [files EXCEPT ![f0] = e0] /\ f0 \in Fh /\ files[f0] = NoFile
    BY <1>7, <1>13 DEF f0, e0
  <2>4. files' \in [Fh -> OpenFile] /\ files'[f0].h = h
        /\ \A f \in Fh \ {f0} : files'[f] = files[f]
    BY <2>1, <2>2, <2>3
  <2>5. Puts(Fh, FileOf, FileOf', h)
    <3>1. FileOf[f0] = NoHandle /\ FileOf'[f0] = h
      BY <2>3, <2>4 DEF FileOf, NoFile
    <3>2. \A f \in Fh \ {f0} : FileOf'[f] = FileOf[f]
      BY <2>4 DEF FileOf
    <3> QED  BY <2>3, <3>1, <3>2 DEF Puts
  <2>6. Held' = [Held EXCEPT ![h] = @ + 1]
    BY <1>4, <1>8, <2>5, CountedUp
  <2>7. Handled(store, Held, store', Held', TakenKeys, {}, Inode)
    BY <1>8, <1>13, <2>6
  <2>8. \A f \in Fh : files'[f] # NoFile =>
          \/ files[f] # NoFile /\ files'[f].h = files[f].h
          \/ files'[f].h \in Handle /\ ~ValueOf(store', files'[f].h).dir
    <3> TAKE f \in Fh
    <3>1. CASE f = f0
      BY <3>1, <2>4, <1>3, <1>8, <1>13
    <3>2. CASE f # f0
      BY <3>2, <2>4
    <3> QED  BY <3>1, <3>2
  <2>9. OpenOK'
    BY <1>4, <2>2, <2>4, <2>7, <2>8, StillOpen
  <2>10. Within(L) /\ HeldIn(Held') = OpenHandles \cup {h}
    BY <1>8, <1>13, <2>6, OpenedWithin
  <2> HIDE DEF L
  <2>11. IInv' /\ Edits(L) /\ OpenHandles' = HeldIn(Held')
    BY <1>4, <1>11, <2>2, <2>4, <2>7, <2>9, <2>10, OpenedKeeps
  <2>12. Opened(k)
    BY <1>8, <1>13, <2>10, <2>11 DEF Opened
  <2> QED  BY <1>2, <2>11, <2>12 DEF L, k, r
<1> QED  BY <1>4, <1>12, <1>13

--------------------------------------------------------------------------------
\* Making, removing and moving entries.

\* The record of k is made, with the next inode number.
Made(k) ==
  /\ Leaves({k}) /\ OpenHandles' = OpenHandles /\ maxIno' = maxIno + 1
  /\ store.db[k] = NoRecord /\ store'.db[k] \in Inode /\ store'.db[k].ino = maxIno'
  /\ ~store'.db[k].blob

\* A key that no entry has gets an inode number that none has.
LEMMA PutNewInodeKeeps ==
  ASSUME IInv, NEW p \in Seq(Name), ~Exists(p), NEW dir \in BOOLEAN,
         PutNewInode(p, dir), UNCHANGED client
  PROVE  LET k == PathLookup(dentry, p).key
         IN  /\ IInv' /\ k \in Key
             /\ \/ Edits(TakenKeys) /\ OpenHandles' = OpenHandles /\ maxIno' = maxIno
                \/ Made(k)
<1> DEFINE r == PathLookup(dentry, p)
           k == r.key
           i == maxIno + 1
           v == [ino |-> i, dir |-> dir, blob |-> FALSE, attr |-> InitAttr]
           T == TakenKeys
<1>1. Resolved(p, r)
  BY ResolvedLemma
<1>2. /\ r.ok \in BOOLEAN /\ k \in Key /\ DentryOK(r.dentry, store.db, T)
      /\ Visible(p) = IF r.ok THEN Shown(store, k) ELSE NoRecord
  BY <1>1 DEF Resolved
<1>3. /\ maxIno < client.inodes
      /\ IF r.ok THEN maxIno' = i /\ store' = [store EXCEPT !.db[k] = v]
         ELSE UNCHANGED <<maxIno, store>>
      /\ dentry' = r.dentry
      /\ UNCHANGED <<files, dirs, client, taken>>
  BY DEF PutNewInode
<1>4. CASE ~r.ok
  <2>1. Handled(store, Held, store', Held, TakenKeys, {}, Inode)
        /\ Steady(store, store', TakenKeys, Outside(TakenKeys))
    BY <1>3, <1>4, NothingDone, SteadyOutside
  <2>2. IInv' /\ Edits(TakenKeys) /\ OpenHandles' = OpenHandles
    BY <1>2, <1>3, <1>4, <2>1, QuietKeeps
  <2> QED  BY <1>2, <1>3, <1>4, <2>2
<1>5. CASE r.ok
  <2>1. StoreOK(store, Held, Inode) /\ StoreFacts(store, Held, Inode) /\ Sound(store, Held, T, T, {})
    BY StoreLemma DEF IInv, CacheInv
  <2>2. k \notin DOMAIN store.cache.table /\ store.db[k] = NoRecord
    <3>1. Shown(store, k) = NoRecord
      BY <1>2, <1>5 DEF Exists
    <3>2. k \in DOMAIN store.cache.table => ValueOf(store, store.cache.table[k]) \in Inode
      BY <2>1 DEF StoreFacts
    <3> QED  BY <3>1, <3>2, RecordAssumption DEF Shown
  <2>3. i \in Ino /\ maxIno \in Ino
    <3>1. client \in Client /\ maxIno \in Ino
      BY ClientAssumption DEF IInv, TypeOK
    <3>2. client.inodes \in Ino
      BY <3>1 DEF Client
    <3> QED  BY <1>3, <3>1, <3>2, RecordAssumption DEF Ino, ROOT_INODE_ID
  <2>4. v \in Inode /\ v.ino = i /\ v # NoRecord /\ ~v.blob
    <3>1. InitAttr \in Attr
      BY RecordAssumption DEF InitAttr
    <3>2. v \in Inode
      BY <2>3, <3>1 DEF Inode
    <3> QED  BY <3>2, RecordAssumption
  <2> HIDE DEF v, k, T
  <2>5. StoreOK(store', Held, Inode) /\ Recorded(store, store', k, v)
    BY <1>2, <1>3, <1>5, <2>1, <2>4, RecordEffect
  <2>6. /\ store'.cache = store.cache /\ store'.db[k] = v
        /\ \A j \in Key : j # k => store'.db[j] = store.db[j]
    BY <1>2, <2>1, <2>5 DEF Recorded, StoreOK
  <2>7. /\ LiveIn(store') = LiveIn(store)
        /\ \A h : /\ KeyOf(store', h) = KeyOf(store, h) /\ ValueOf(store', h) = ValueOf(store, h)
                  /\ ModeOf(store', h) = ModeOf(store, h)
    BY <2>6 DEF LiveIn, KeyOf, ValueOf, ModeOf
  <2>8. Sound(store', Held, T, T, {})
    <3>1. NamedOK(store', T)
      <4> SUFFICES ASSUME NEW h \in LiveIn(store), KeyOf(store, h) \notin T
                   PROVE  /\ store'.db[KeyOf(store, h)] = store.db[KeyOf(store, h)]
                          /\ store.db[KeyOf(store, h)] # NoRecord
                          /\ store.db[KeyOf(store, h)].ino = ValueOf(store, h).ino
                          /\ store.db[KeyOf(store, h)].dir = ValueOf(store, h).dir
                          /\ ModeOf(store, h) # INODE_DELETE
        BY <2>7 DEF NamedOK
      <4>1. KeyOf(store, h) \in Key
        BY <2>1 DEF StoreFacts
      <4>2. /\ store.db[KeyOf(store, h)] # NoRecord
            /\ store.db[KeyOf(store, h)].ino = ValueOf(store, h).ino
            /\ store.db[KeyOf(store, h)].dir = ValueOf(store, h).dir
            /\ ModeOf(store, h) # INODE_DELETE
        BY <2>1 DEF Sound, NamedOK
      <4> QED  BY <4>1, <4>2, <2>2, <2>6
    <3>2. FreshOK(store', Held, T)
      <4>1. \A j \in DOMAIN store.cache.table : j \in Key /\ j # k
        BY <2>1, <2>2 DEF StoreFacts
      <4>2. FreshOK(store, Held, T)
        BY <2>1 DEF Sound
      <4> QED  BY <4>1, <4>2, <2>6, <2>7 DEF FreshOK
    <3>3. DirsClean(store', {})
      BY <2>1, <2>7 DEF Sound, DirsClean
    <3> QED  BY <3>1, <3>2, <3>3 DEF Sound
  <2> DEFINE X == {<<k, i>>}
  <2>9. Holds(store') \subseteq Holds(store) \cup X
    <3>1. \A j \in Key : store'.db[j] # NoRecord =>
            <<j, store'.db[j].ino>> \in Holds(store) \cup X
      <4> TAKE j \in Key
      <4>1. CASE j = k
        BY <4>1, <2>4, <2>6
      <4>2. CASE j # k
        BY <4>2, <2>6 DEF Holds
      <4> QED  BY <4>1, <4>2
    <3>2. \A h \in LiveIn(store') : <<KeyOf(store', h), ValueOf(store', h).ino>> \in Holds(store)
      BY <2>7 DEF Holds
    <3> HIDE DEF X
    <3> QED  BY <3>1, <3>2 DEF Holds
  <2>10. \A j \in Key \ T : store.db[j] # NoRecord =>
           store'.db[j] # NoRecord /\ store'.db[j].ino = store.db[j].ino
             /\ store'.db[j].dir = store.db[j].dir
    BY <2>2, <2>6
  <2>11. Handled(store, Held, store', Held, T, X, Inode)
    <3> HIDE DEF X
    <3> QED  BY <2>5, <2>7, <2>8, <2>9, <2>10 DEF Handled, Carries
  <2>12. OwnedOK(Holds(store'), TakenInos') /\ BoundOK(Holds(store'), maxIno')
    <3>1. OwnedOK(Holds(store), TakenInos) /\ BoundOK(Holds(store), maxIno)
      BY DEF IInv, NamesInv
    <3>2. TakenInos' = TakenInos /\ maxIno' = i
      BY <1>3, <1>5 DEF TakenInos
    <3>3. \A a \in Holds(store') : a \in Holds(store) \/ (a[1] = k /\ a[2] = i)
      BY <2>9
    <3>4. \A a \in Holds(store) : a[2] \in Ino /\ a[2] <= maxIno
      BY <3>1 DEF BoundOK
    <3>5. i \in Int /\ maxIno \in Int /\ \A j \in Ino : j \in Int
      BY <2>3 DEF Ino, ROOT_INODE_ID
    <3>6. \A a \in Holds(store) : a[2] # i /\ a[2] <= i
      BY <3>4, <3>5
    <3>7. BoundOK(Holds(store'), i)
      BY <2>3, <3>3, <3>4, <3>5, <3>6 DEF BoundOK
    <3>8. OwnedOK(Holds(store'), TakenInos)
      <4> HIDE DEF i
      <4> QED  BY <3>1, <3>3, <3>6 DEF OwnedOK
    <3> QED  BY <3>2, <3>7, <3>8
  <2> DEFINE K == {}
  <2> HIDE DEF X
  <2>13. OpenOK' /\ Held' = Held
    BY <1>3, <2>11, NothingOpened
  <2>14. taken' = taken \cup Taken(K) /\ TakenKeys \cup K = T
    BY <1>3 DEF Taken, T
  <2>15. Restored(store', K, OpenHandles) /\ DOMAIN dentry' \cap K = {} /\ RootKey \notin K
    BY DEF Restored
  <2>16. Handled(store, Held, store', Held', TakenKeys \cup K, X, Inode)
    BY <2>11, <2>13, <2>14
  <2>17. DentryOK(dentry', store.db, TakenKeys)
    BY <1>2, <1>3 DEF T
  <2> HIDE DEF K
  <2>18. CacheInv' /\ NamesInv'
    BY <2>12, <2>13, <2>14, <2>15, <2>16, <2>17, NamesKept
  <2>19. TypeOK'
    BY <1>3, <1>5, <2>3 DEF IInv, TypeOK
  <2>20. IInv'
    BY <2>13, <2>18, <2>19 DEF IInv
  <2>21. HeldIn(Held) = OpenHandles
    BY HeldLemma DEF HeldFacts
  <2>22. Within({k})
    BY <2>6, <2>7, <2>13, <2>21 DEF Within, Steady
  <2>23. Leaves({k}) /\ OpenHandles' = OpenHandles
    <3> DEFINE L == {k}
    <3>1. Within(L)
      BY <2>22
    <3> HIDE DEF L
    <3>2. Leaves(L) /\ OpenHandles' = HeldIn(Held')
      BY <2>16, <2>20, <3>1, LeavesLemma
    <3> QED  BY <2>13, <2>21, <3>2 DEF L
  <2>24. Made(k)
    BY <1>3, <1>5, <2>2, <2>4, <2>6, <2>23 DEF Made
  <2> QED  BY <1>2, <2>20, <2>24 DEF k
<1> QED  BY <1>2, <1>4, <1>5

\* The dentry cache without a key.
LeavesOut(d, e, k) == DOMAIN e = DOMAIN d \ {k}

\* Less in the dentry cache is still right.
LEMMA EvictedOK ==
  ASSUME NEW d, NEW b, NEW T, DentryOK(d, b, T), NEW k
  PROVE  DentryOK(DentryEvict(d, k), b, T) /\ LeavesOut(d, DentryEvict(d, k), k)
<1> DEFINE e == DentryEvict(d, k)
<1>1. DOMAIN e = DOMAIN d \ {k} /\ \A x \in DOMAIN e : e[x] = d[x]
  BY DEF DentryEvict
<1> HIDE DEF e
<1>2. DentryOK(e, b, T)
  BY <1>1 DEF DentryOK
<1> QED  BY <1>1, <1>2 DEF e, LeavesOut

\* Less is said when more is taken.
LEMMA SoundForMore ==
  ASSUME NEW s, NEW r, NEW T, NEW K, Sound(s, r, T, T, {})
  PROVE  Sound(s, r, T \cup K, T \cup K, {})
BY DEF Sound, NamedOK, FreshOK

\* An entry that nobody has open is in the cache under its key.
LEMMA Unheld ==
  ASSUME NEW s, NEW r, StoreOK(s, r, Inode), NEW h \in LiveIn(s), h \notin HeldIn(r)
  PROVE  h \in Handle /\ r[h] = 0 /\ KeyOf(s, h) \in DOMAIN s.cache.table
<1>1. StoreFacts(s, r, Inode)
  BY StoreLemma
<1>2. h \in Handle /\ r[h] \in Nat /\ ~(r[h] > 0)
  BY <1>1 DEF StoreFacts, HeldIn
<1>3. r[h] = 0
  BY <1>2
<1> QED  BY <1>1, <1>2, <1>3 DEF StoreFacts

\* A path with a name in it does not resolve to the root.
LEMMA NotTheRoot ==
  ASSUME NEW d, NEW p \in Seq(Name), p # <<>>
  PROVE  PathLookup(d, p).key # RootKey
<1>1. p[Len(p)] \in Name
  OBVIOUS
<1>2. PathLookup(d, p).key = <<ParentPathLookup(d, p).ino, p[Len(p)]>>
  BY DEF PathLookup
<1>3. \A x, y : y # "" => <<x, y>> # <<ROOT_INODE_ID, "">>
  OBVIOUS
<1>4. p[Len(p)] # ""
  BY <1>1, NameAssumption
<1> QED  BY <1>2, <1>3, <1>4 DEF RootKey

\* The root is a directory for the clients too.
LEMMA RootIsDir ==
  ASSUME IInv
  PROVE  Visible(<<>>) = Shown(store, RootKey) /\ Shown(store, RootKey).dir
<1> DEFINE r == PathLookup(dentry, <<>>)
<1>1. <<>> \in Seq(Name)
  OBVIOUS
<1>2. Resolved(<<>>, r)
  BY <1>1, ResolvedLemma
<1>3. PICK f : Walk(f, dentry, <<>>, Len(<<>>)) /\ ParentPathLookup(dentry, <<>>) = f[0]
  BY <1>1, WalkLemma
<1>4. f[0].ok
  BY <1>3 DEF Walk
<1>5. r.key = RootKey /\ r.ok
  BY <1>3, <1>4 DEF PathLookup
<1>6. Visible(<<>>) = Shown(store, RootKey)
  BY <1>2, <1>5 DEF Resolved
<1>7. RootOK(store.db, TakenKeys) /\ StoreFacts(store, Held, Inode) /\ NamedOK(store, TakenKeys)
  BY StoreLemma DEF IInv, NamesInv, CacheInv, Sound
<1>8. Shown(store, RootKey).dir
  <2>1. CASE RootKey \in DOMAIN store.cache.table
    <3> DEFINE h == store.cache.table[RootKey]
    <3>1. h \in LiveIn(store) /\ KeyOf(store, h) = RootKey /\ Shown(store, RootKey) = ValueOf(store, h)
      BY <1>7, <2>1 DEF StoreFacts, Shown
    <3> HIDE DEF h
    <3>2. store.db[RootKey].dir = ValueOf(store, h).dir
      BY <1>7, <3>1 DEF NamedOK, RootOK
    <3> QED  BY <1>7, <3>1, <3>2 DEF RootOK
  <2>2. CASE RootKey \notin DOMAIN store.cache.table
    BY <1>7, <2>2 DEF RootOK, Shown
  <2> QED  BY <2>1, <2>2
<1> QED  BY <1>6, <1>8

\* Unlink and RemoveDir drop an entry that they found.
LEMMA RemoveKeeps ==
  ASSUME IInv, NEW p \in Seq(Name), p # <<>>, Exists(p), NEW r, r = PathLookup(dentry, p),
         dentry' = DentryEvict(r.dentry, r.key), WithHandle(r.key, INODE_DELETE, DropEntry),
         taken' = taken \cup Taken({r.key}), UNCHANGED <<files, dirs, maxIno, client>>
  PROVE  /\ IInv' /\ r.key \in Key /\ Leaves(TakenKeys \cup {r.key}) /\ OpenHandles' = OpenHandles
         /\ Shown(store, r.key) # NoRecord
         /\ r.key \notin OpenKeys => store'.db[r.key] = NoRecord
<1> DEFINE k == r.key
           K == {k}
           T == TakenKeys \cup K
           g == InodeCache_Get(store, k, INODE_DELETE)
<1>1. Resolved(p, r)
  BY ResolvedLemma
<1>2. /\ k \in Key /\ DentryOK(r.dentry, store.db, TakenKeys)
      /\ Visible(p) = IF r.ok THEN Shown(store, k) ELSE NoRecord
  BY <1>1 DEF Resolved
<1>3. Shown(store, k) # NoRecord
  BY <1>2 DEF Exists
<1>4. g.h # NoHandle
  BY <1>2, <1>3, GetAnswers DEF InodeAccessMode
<1>5. store' = InodeCache_Evict(InodeCache_Release(g.s, g.h), KeyOf(g.s, g.h))
  BY <1>4 DEF WithHandle, DropEntry
<1>6. HasRoom(store) /\ StoreOK(store, Held, Inode) /\ Sound(store, Held, TakenKeys, TakenKeys, {})
  BY RoomForHandles DEF IInv, CacheInv
<1>7. Sound(store, Held, T, T, {}) /\ k \in T
  BY <1>6, SoundForMore
<1> HIDE DEF T
<1>8. /\ Handled(store, Held, store', Held, T, {}, Inode) /\ k \notin DOMAIN store'.cache.table
      /\ Steady(store, store', T, HeldIn(Held))
      /\ (\A x \in HeldIn(Held) : KeyOf(store, x) # k) => store'.db[k] = NoRecord
  BY <1>2, <1>4, <1>5, <1>6, <1>7, GetAndDrop
<1>9. OpenOK' /\ Held' = Held
  BY <1>8, NothingOpened
<1>10. HeldIn(Held) = OpenHandles
  BY HeldLemma DEF HeldFacts
<1>11. Restored(store', K, OpenHandles)
  <2> SUFFICES ASSUME NEW h \in LiveIn(store'), KeyOf(store', h) = k, h \notin OpenHandles
               PROVE  FALSE
    BY DEF Restored
  <2>1. StoreOK(store', Held, Inode)
    BY <1>8 DEF Handled
  <2> QED  BY <1>8, <1>10, <2>1, Unheld
<1>12. DentryOK(dentry', store.db, TakenKeys) /\ DOMAIN dentry' \cap K = {}
  <2> DEFINE d == r.dentry
  <2> HIDE DEF d, k
  <2>1. DentryOK(d, store.db, TakenKeys) /\ dentry' = DentryEvict(d, k)
    BY <1>2 DEF d, k
  <2>2. DentryOK(dentry', store.db, TakenKeys) /\ LeavesOut(d, dentry', k)
    BY <2>1, EvictedOK
  <2> QED  BY <2>2 DEF LeavesOut
<1> DEFINE X == {}
<1>13. Handled(store, Held, store', Held', TakenKeys \cup K, X, Inode)
  BY <1>8, <1>9 DEF T
<1>14. Holds(store') \subseteq Holds(store)
  BY <1>8 DEF Handled, Carries
<1>15. taken' = taken \cup Taken(K) /\ RootKey \notin K
  BY NotTheRoot
<1> HIDE DEF K, X
<1>16. OwnedOK(Holds(store'), TakenInos') /\ BoundOK(Holds(store'), maxIno')
  BY <1>14, <1>15, NumbersKept
<1>17. CacheInv' /\ NamesInv'
  BY <1>9, <1>11, <1>12, <1>13, <1>15, <1>16, NamesKept
<1>18. TypeOK'
  BY DEF IInv, TypeOK
<1>19. IInv'
  BY <1>9, <1>17, <1>18 DEF IInv
<1>20. Within(T)
  BY <1>8, <1>9, <1>10 DEF Within, Steady
<1>21. Leaves(T) /\ OpenHandles' = OpenHandles
  <2>1. Leaves(T) /\ OpenHandles' = HeldIn(Held')
    BY <1>13, <1>19, <1>20, LeavesLemma
  <2> QED  BY <1>9, <1>10, <2>1
<1>22. k \notin OpenKeys => store'.db[k] = NoRecord
  BY <1>8, <1>10 DEF OpenKeys
<1> QED  BY <1>2, <1>3, <1>19, <1>21, <1>22 DEF T, K

\* What a Get answers with is held by its key.
LEMMA ShownHolds ==
  ASSUME IInv, NEW k \in Key, Shown(store, k) \in Inode
  PROVE  <<k, Shown(store, k).ino>> \in Holds(store)
<1>1. StoreFacts(store, Held, Inode)
  BY StoreLemma DEF IInv, CacheInv
<1>2. CASE k \in DOMAIN store.cache.table
  <2> DEFINE h == store.cache.table[k]
  <2>1. h \in LiveIn(store) /\ KeyOf(store, h) = k /\ Shown(store, k) = ValueOf(store, h)
    BY <1>1, <1>2 DEF StoreFacts, Shown
  <2> HIDE DEF h
  <2> QED  BY <2>1 DEF Holds
<1>3. CASE k \notin DOMAIN store.cache.table
  BY <1>3, RecordAssumption DEF Shown, Holds
<1> QED  BY <1>2, <1>3

\* An entry that is moved takes its number with it: where the old key still has
\* it, it is open.
LEMMA MovedNumbers ==
  ASSUME IInv, NEW old \in Key, NEW new \in Key, NEW T, NEW val \in Inode, val = Shown(store, old),
         Handled(store, Held, store', Held, T, {<<new, val.ino>>}, Inode),
         Moved(store', Held, old, new, val),
         taken' = taken \cup Taken({old, new}), maxIno' = maxIno
  PROVE  OwnedOK(Holds(store'), TakenInos') /\ BoundOK(Holds(store'), maxIno')
<1> DEFINE i == val.ino
           N == Holds(store)
           I == TakenInos
           J == TakenInos'
<1>1. OwnedOK(N, I) /\ BoundOK(N, maxIno)
  BY DEF IInv, NamesInv
<1>2. I \subseteq J
      /\ \A h \in OpenHandles : KeyOf(store, h) \in {old, new} => ValueOf(store, h).ino \in J
  <2> DEFINE K == {old, new}
  <2> HIDE DEF K
  <2>1. taken' = taken \cup Taken(K)
    BY DEF K
  <2> QED  BY <2>1, TakenGrows DEF K
<1>3. <<old, i>> \in N
  BY ShownHolds
<1>4. HeldIn(Held) = OpenHandles
  BY HeldLemma DEF HeldFacts
<1>5. /\ StoreOK(store', Held, Inode)
      /\ Holds(store') \subseteq N \cup {<<new, i>>}
      /\ \A x \in OpenHandles : /\ KeyOf(store', x) = KeyOf(store, x)
                                /\ ValueOf(store', x).ino = ValueOf(store, x).ino
  BY <1>4 DEF Handled, Carries
<1> HIDE DEF N, I, J, i
<1>6. \A a \in Holds(store') : a \in N \/ (a[1] = new /\ a[2] = i)
  BY <1>5
<1>7. ASSUME NEW b \in Holds(store'), b[1] = old, old # new  PROVE b[2] \in J
  <2>1. store'.db[old] = NoRecord /\ old \notin DOMAIN store'.cache.table
    BY <1>7 DEF Moved
  <2>2. PICK h \in LiveIn(store') : KeyOf(store', h) = old /\ ValueOf(store', h).ino = b[2]
    BY <1>7, <2>1 DEF Holds
  <2>3. h \in OpenHandles
    BY <1>4, <1>5, <2>1, <2>2, Unheld
  <2> QED  BY <1>2, <1>5, <2>2, <2>3
<1>8. \A b \in N : b[2] = i /\ i \notin J => b[1] = old
  <2> DEFINE a == <<old, i>>
  <2>1. a \in N /\ a[1] = old /\ a[2] = i
    BY <1>3
  <2> HIDE DEF a
  <2> QED  BY <1>1, <1>2, <2>1 DEF OwnedOK
<1>9. OwnedOK(Holds(store'), J)
  <2> SUFFICES ASSUME NEW a \in Holds(store'), NEW b \in Holds(store'), a[2] = b[2], a[2] \notin J
               PROVE  a[1] = b[1]
    BY DEF OwnedOK
  <2>1. CASE a \in N /\ b \in N
    BY <2>1, <1>1, <1>2 DEF OwnedOK
  <2>2. CASE a \notin N
    BY <2>2, <1>6, <1>7, <1>8
  <2>3. CASE b \notin N
    BY <2>3, <1>6, <1>7, <1>8
  <2> QED  BY <2>1, <2>2, <2>3
<1>10. BoundOK(Holds(store'), maxIno)
  <2> DEFINE a == <<old, i>>
  <2>1. a \in N /\ a[2] = i
    BY <1>3
  <2> HIDE DEF a
  <2>2. i \in Ino /\ i <= maxIno
    BY <1>1, <2>1 DEF BoundOK
  <2> QED  BY <1>1, <1>6, <2>2 DEF BoundOK
<1> QED  BY <1>9, <1>10 DEF J

\* The entry of old has come to new.
MovedTo(old, new) ==
  /\ Leaves(TakenKeys \cup {old, new}) /\ OpenHandles' = OpenHandles
  /\ Shown(store, old) \in Inode /\ Moved(store', Held, old, new, Shown(store, old))

\* Rename moves an entry in one batch.
LEMMA RenameKeeps ==
  ASSUME IInv, NEW p \in Seq(Name), NEW q \in Seq(Name), Rename(p, q), UNCHANGED client
  PROVE  LET a == PathLookup(dentry, p)
             b == PathLookup(a.dentry, q)
         IN  /\ IInv' /\ a.key \in Key /\ b.key \in Key
             /\ \/ Edits(TakenKeys) /\ OpenHandles' = OpenHandles
                \/ MovedTo(a.key, b.key)
<1> DEFINE a == PathLookup(dentry, p)
           b == PathLookup(a.dentry, q)
           old == a.key
           new == b.key
           g == InodeCache_Get(store, old, INODE_DELETE)
           i == InodeCache_Insert(g.s, new, ValueOf(g.s, g.h))
           c == InodeCache_BatchCommit(i.s, g.h, i.h)
           d == InodeCache_Release(InodeCache_Release(c, i.h), g.h)
           K == {old, new}
           T == TakenKeys \cup K
           val == Shown(store, old)
<1>1. store.db \in [Key -> Inode \cup {NoRecord}] /\ DentryOK(dentry, store.db, TakenKeys)
  BY DEF IInv, CacheInv, NamesInv, StoreOK
<1>2. old \in Key /\ DentryOK(a.dentry, store.db, TakenKeys)
  BY <1>1, PathFinds
<1>3. new \in Key /\ DentryOK(b.dentry, store.db, TakenKeys)
  <2> HIDE DEF a
  <2> QED  BY <1>1, <1>2, PathFinds
<1>4. /\ \/ /\ b.ok /\ g.h # NoHandle
            /\ store' = InodeCache_Evict(d, old)
            /\ dentry' = DentryEvict(DentryEvict(b.dentry, old), new)
            /\ taken' = taken \cup Taken({old, new})
         \/ dentry' = b.dentry /\ store' = store /\ taken' = taken
      /\ UNCHANGED <<files, dirs, maxIno, client>>
  BY DEF Rename
<1>7. old # RootKey /\ new # RootKey
  <2>1. ~IsPrefix(p, q) /\ ~IsPrefix(q, p)
    BY DEF Rename
  <2>2. \A u \in Seq(Name) : IsPrefix(<<>>, u)
    <3> TAKE u \in Seq(Name)
    <3>1. Len(<<>>) = 0 /\ Len(u) \in Nat /\ SubSeq(u, 1, 0) = <<>>
      OBVIOUS
    <3> QED  BY <3>1 DEF IsPrefix
  <2>3. p # <<>> /\ q # <<>>
    BY <2>1, <2>2
  <2>4. old # RootKey
    BY <2>3, NotTheRoot
  <2>5. new # RootKey
    <3> HIDE DEF a
    <3> QED  BY <2>3, NotTheRoot
  <2> QED  BY <2>4, <2>5
<1>5. CASE dentry' = b.dentry /\ store' = store /\ taken' = taken
  <2>1. Handled(store, Held, store', Held, TakenKeys, {}, Inode)
        /\ Steady(store, store', TakenKeys, Outside(TakenKeys))
    BY <1>5, NothingDone, SteadyOutside
  <2>2. IInv' /\ Edits(TakenKeys) /\ OpenHandles' = OpenHandles
    BY <1>3, <1>4, <1>5, <2>1, QuietKeeps
  <2> QED  BY <1>2, <1>3, <2>2
<1>6. CASE /\ g.h # NoHandle
           /\ store' = InodeCache_Evict(d, old)
           /\ dentry' = DentryEvict(DentryEvict(b.dentry, old), new)
           /\ taken' = taken \cup Taken({old, new})
  <2>1. HasRoom(store) /\ StoreOK(store, Held, Inode) /\ Sound(store, Held, TakenKeys, TakenKeys, {})
    BY RoomForHandles DEF IInv, CacheInv
  <2>2. Sound(store, Held, T, T, {}) /\ old \in T /\ new \in T
    BY <2>1, SoundForMore
  <2>3. HeldIn(Held) = OpenHandles /\ Held \in [Handle -> Nat]
    BY HeldLemma DEF HeldFacts
  <2> HIDE DEF T, old, new, a, b
  <2>4. HasRoom(g.s)
    <3> DEFINE q1 == [Held EXCEPT ![g.h] = @ + 1]
    <3>1. StoreOK(g.s, q1, Inode)
      BY <1>2, <1>6, <2>1, <2>2, GetSound DEF InodeAccessMode
    <3>2. g.h \in Handle
      BY <1>2, <1>6, <2>1, GetEffect DEF InodeAccessMode
    <3>3. HeldIn(q1) \subseteq OpenHandles \cup {g.h}
      <4> HIDE DEF g
      <4>1. \A x \in Handle : x # g.h => q1[x] = Held[x]
        BY <2>3
      <4> QED  BY <2>3, <4>1 DEF HeldIn
    <3> HIDE DEF g, q1
    <3> QED  BY <3>1, <3>2, <3>3, RoomForHandles
  <2>5. /\ Handled(store, Held, store', Held, T, {<<new, val.ino>>}, Inode)
        /\ Moved(store', Held, old, new, val) /\ val \in Inode
        /\ Steady(store, store', T, HeldIn(Held))
    BY <1>2, <1>3, <1>6, <2>1, <2>2, <2>4, MoveEntry
  <2> HIDE DEF g, i, c, d
  <2>6. OwnedOK(Holds(store'), TakenInos') /\ BoundOK(Holds(store'), maxIno')
    <3> HIDE DEF val
    <3>1. val = Shown(store, old)
      BY DEF val
    <3> QED  BY <1>2, <1>3, <1>4, <1>6, <2>5, <3>1, MovedNumbers
  <2> DEFINE X == {<<new, val.ino>>}
  <2>7. Handled(store, Held, store', Held, T, X, Inode)
    BY <2>5
  <2> HIDE DEF X
  <2>8. OpenOK' /\ Held' = Held
    BY <1>4, <2>7, NothingOpened
  <2>9. Restored(store', K, OpenHandles)
    <3> SUFFICES ASSUME NEW h \in LiveIn(store'), KeyOf(store', h) \in K, h \notin OpenHandles
                 PROVE  ValueOf(store', h) = store'.db[KeyOf(store', h)]
                        /\ ModeOf(store', h) = INODE_READ
      BY DEF Restored
    <3>1. StoreOK(store', Held, Inode)
      BY <2>7 DEF Handled
    <3>2. Held[h] = 0 /\ KeyOf(store', h) \in DOMAIN store'.cache.table
      BY <2>3, <3>1, Unheld
    <3>3. KeyOf(store', h) = new /\ old # new
      BY <2>5, <3>2 DEF Moved
    <3> QED  BY <2>5, <3>2, <3>3 DEF Moved
  <2>10. DentryOK(dentry', store.db, TakenKeys) /\ DOMAIN dentry' \cap K = {}
    <3> DEFINE d1 == b.dentry
               d2 == DentryEvict(d1, old)
    <3>1. DentryOK(d1, store.db, TakenKeys)
      BY <1>3
    <3> HIDE DEF d1
    <3>2. DentryOK(d2, store.db, TakenKeys) /\ LeavesOut(d1, d2, old)
      BY <3>1, EvictedOK
    <3>3. dentry' = DentryEvict(d2, new)
      BY <1>6 DEF d1
    <3> HIDE DEF d2
    <3>4. DentryOK(dentry', store.db, TakenKeys) /\ LeavesOut(d2, dentry', new)
      BY <3>2, <3>3, EvictedOK
    <3> QED  BY <3>2, <3>4 DEF LeavesOut
  <2>11. taken' = taken \cup Taken(K) /\ RootKey \notin K
    BY <1>6, <1>7 DEF old, new
  <2>12. Handled(store, Held, store', Held', TakenKeys \cup K, X, Inode)
    BY <2>7, <2>8 DEF T
  <2> HIDE DEF K
  <2>13. CacheInv' /\ NamesInv'
    BY <2>6, <2>8, <2>9, <2>10, <2>11, <2>12, NamesKept
  <2>14. TypeOK'
    BY <1>4 DEF IInv, TypeOK
  <2>15. IInv'
    BY <2>8, <2>13, <2>14 DEF IInv
  <2>16. Within(T)
    BY <2>3, <2>5, <2>8 DEF Within, Steady
  <2>17. Leaves(T) /\ OpenHandles' = OpenHandles
    <3>1. Leaves(T) /\ OpenHandles' = HeldIn(Held')
      BY <2>12, <2>15, <2>16, LeavesLemma
    <3> QED  BY <2>3, <2>8, <3>1
  <2>18. MovedTo(old, new)
    BY <2>5, <2>17 DEF MovedTo, T, K, val
  <2> QED  BY <1>2, <1>3, <2>15, <2>18 DEF new, b, old, a
<1> QED  BY <1>4, <1>5, <1>6

--------------------------------------------------------------------------------
\* The file system.

\* A new file system has the root, nothing cached and nothing open.
LEMMA InitLemma == Init => IInv
<1> SUFFICES ASSUME Init  PROVE IInv
  OBVIOUS
<1> DEFINE v == [ino |-> ROOT_INODE_ID, dir |-> TRUE, blob |-> FALSE, attr |-> InitAttr]
           b == [k \in Key |-> IF k = RootKey THEN v ELSE NoRecord]
           z == [h \in Handle |-> 0]
<1>1. /\ store = [cache |-> EmptyCache, db |-> b] /\ dentry = <<>>
      /\ files = [f \in Fh |-> NoFile] /\ dirs = [d \in Dh |-> NoHandle]
      /\ maxIno = ROOT_INODE_ID /\ client \in Clients /\ taken = {}
  BY DEF Init
<1>2. ROOT_INODE_ID \in Ino /\ ROOT_INODE_ID \in Nat
  BY RecordAssumption DEF Ino, ROOT_INODE_ID
<1>3. v \in Inode /\ v.ino = ROOT_INODE_ID /\ v.dir
  <2>1. InitAttr \in Attr
    BY RecordAssumption DEF InitAttr
  <2> QED  BY <1>2, <2>1 DEF Inode
<1> HIDE DEF v
<1>4. b \in [Key -> Inode \cup {NoRecord}]
  BY <1>3
<1>5. \A k \in Key : b[k] # NoRecord => k = RootKey /\ b[k].ino = ROOT_INODE_ID
  BY <1>3
<1> HIDE DEF b
<1>6. store.cache = EmptyCache /\ store.db = b /\ store = [cache |-> store.cache, db |-> store.db]
  BY <1>1
<1>7. NoFile \in OpenFile /\ NoFile.h = NoHandle
  BY DEF OpenFile, NoFile
<1>8. TypeOK
  BY <1>1, <1>2, <1>7 DEF TypeOK
<1>9. OpenOK
  BY <1>1 DEF OpenOK
<1>10. Held = z
  <2>1. \A f \in Fh : FileOf[f] = NoHandle
    BY <1>1, <1>7 DEF FileOf
  <2>2. \A h \in Handle : Uses(Fh, FileOf, h) = 0 /\ Uses(Dh, dirs, h) = 0
    <3> TAKE h \in Handle
    <3>1. {f \in Fh : FileOf[f] = h} = {} /\ {d \in Dh : dirs[d] = h} = {}
      BY <1>1, <2>1, NoHandleAssumption
    <3> QED  BY <3>1, FS_EmptySet DEF Uses
  <2> QED  BY <2>2 DEF Held
<1> DEFINE V == Cached(Inode)
<1> HIDE DEF V, z
<1>11. Good(EmptyCache, z, V) /\ Fits(EmptyCache)
       /\ Live(EmptyCache) = {} /\ DOMAIN EmptyCache.table = {}
  BY EmptyGood DEF z
<1>12. StoreOK(store, z, Inode)
  BY <1>4, <1>6, <1>11, RecordAssumption DEF StoreOK, V
<1>13. LiveIn(store) = {} /\ DOMAIN store.cache.table = {}
  BY <1>6, <1>11 DEF LiveIn
<1>14. CacheInv
  <2>1. Sound(store, z, TakenKeys, TakenKeys, {})
    BY <1>13 DEF Sound, NamedOK, FreshOK, DirsClean
  <2> QED  BY <1>10, <1>12, <2>1 DEF CacheInv
<1>15. \A a \in Holds(store) : a[1] = RootKey /\ a[2] = ROOT_INODE_ID
  BY <1>5, <1>6, <1>13 DEF Holds
<1>16. NamesInv
  <2>1. OwnedOK(Holds(store), TakenInos)
    BY <1>15 DEF OwnedOK
  <2>2. BoundOK(Holds(store), maxIno)
    BY <1>1, <1>2, <1>15 DEF BoundOK
  <2>3. DOMAIN dentry = {}
    BY <1>1
  <2>4. RootOK(store.db, TakenKeys)
    <3>1. RootKey \in Key /\ TakenKeys = {}
      BY <1>1, KeyAssumption DEF MetaKey, TakenKeys
    <3>2. b[RootKey] = v
      BY <3>1 DEF b
    <3>3. v # NoRecord
      BY <1>3, RecordAssumption
    <3> QED  BY <1>3, <1>6, <3>1, <3>2, <3>3 DEF RootOK
  <2> QED  BY <2>1, <2>2, <2>3, <2>4 DEF NamesInv, DentryOK
<1> QED  BY <1>8, <1>9, <1>14, <1>16 DEF IInv

\* Every handler preserves the inductive invariant.
LEMMA StepLemma == IInv /\ [Next]_vars => IInv'
<1> SUFFICES ASSUME IInv, [Next]_vars  PROVE IInv'
  OBVIOUS
<1>1. CASE UNCHANGED vars
  <2>1. Handled(store, Held, store', Held, TakenKeys, {}, Inode)
        /\ Steady(store, store', TakenKeys, Outside(TakenKeys))
    BY <1>1, NothingDone, SteadyOutside DEF vars
  <2>2. DentryOK(dentry', store.db, TakenKeys)
    BY <1>1 DEF vars, IInv, NamesInv
  <2> QED  BY <1>1, <2>1, <2>2, QuietKeeps DEF vars
<1>2. CASE Handlers /\ UNCHANGED client
  <2>1. client \in Client
    BY ClientAssumption DEF IInv, TypeOK
  <2>2. /\ client.path \subseteq Seq(Name) /\ client.fh \subseteq Fh /\ client.attr \subseteq Attr
        /\ client.large \subseteq BOOLEAN
    BY <2>1 DEF Client
  <2> DEFINE here == {p \in client.path : Reachable(p)}
             file == {p \in here : IsFile(p)}
             dir == {p \in here : IsDir(p)}
             none == here \ (file \cup dir)
  <2>3. /\ \A p \in here : p \in Seq(Name)
        /\ \A p \in file : p \in Seq(Name) /\ IsFile(p) /\ Exists(p)
        /\ \A p \in dir : p \in Seq(Name) /\ IsDir(p) /\ Exists(p)
        /\ \A p \in none : p \in Seq(Name) /\ ~Exists(p)
    BY <2>2 DEF IsFile, IsDir
  <2>4. \A handler : Outcomes(handler) \subseteq BOOLEAN
    BY DEF Outcomes
  <2>5. ASSUME NEW p \in here, GetAttr(p)  PROVE IInv'
    BY <1>2, <2>3, <2>5, GetAttrKeeps
  <2>6. ASSUME NEW p \in file, Readlink(p)  PROVE IInv'
    BY <1>2, <2>3, <2>6, ReadlinkKeeps
  <2>7. ASSUME NEW p \in file, Unlink(p)  PROVE IInv'
    <3>1. p \in Seq(Name) /\ Exists(p) /\ p # <<>>
      BY <2>3, RootIsDir DEF IsFile
    <3> DEFINE r == PathLookup(dentry, p)
    <3>2. /\ dentry' = DentryEvict(r.dentry, r.key)
          /\ WithHandle(r.key, INODE_DELETE, DropEntry)
          /\ taken' = taken \cup Taken({r.key}) /\ UNCHANGED <<files, dirs, maxIno>>
      BY <2>7 DEF Unlink
    <3>3. UNCHANGED client
      BY <1>2
    <3> QED  BY <3>1, <3>2, <3>3, RemoveKeeps
  <2>8. ASSUME NEW p \in file, NEW w \in BOOLEAN, NEW fails \in Outcomes("Open"), Open(p, w, fails)
        PROVE  IInv'
    BY <1>2, <2>3, <2>8, OpenKeeps
  <2>9. ASSUME NEW p \in file, NEW large \in client.large, NEW a \in client.attr,
               NEW fails \in Outcomes("Truncate"), Truncate(p, large, a, fails)
        PROVE  IInv'
    BY <1>2, <2>2, <2>3, <2>9, TruncateKeeps
  <2>10. ASSUME NEW p \in dir, RemoveDir(p)  PROVE IInv'
    <3>1. p \in Seq(Name) /\ Exists(p) /\ p # <<>>
      BY <2>3, <2>10 DEF RemoveDir
    <3> DEFINE r == PathLookup(dentry, p)
    <3>2. /\ dentry' = DentryEvict(r.dentry, r.key)
          /\ WithHandle(r.key, INODE_DELETE, DropEntry)
          /\ taken' = taken \cup Taken({r.key}) /\ UNCHANGED <<files, dirs, maxIno>>
      BY <2>10 DEF RemoveDir
    <3>3. UNCHANGED client
      BY <1>2
    <3> QED  BY <3>1, <3>2, <3>3, RemoveKeeps
  <2>11. ASSUME NEW p \in dir, OpenDir(p)  PROVE IInv'
    BY <1>2, <2>3, <2>11, OpenDirKeeps
  <2>12. ASSUME NEW p \in file \cup dir, NEW a \in client.attr, SetAttr(p, a)  PROVE IInv'
    BY <1>2, <2>2, <2>3, <2>12, SetAttrKeeps
  <2>13. ASSUME NEW p \in none, MakeNode(p) \/ Symlink(p) \/ MakeDir(p)  PROVE IInv'
    <3>1. PICK b \in BOOLEAN : PutNewInode(p, b)
      BY <2>13 DEF MakeNode, Symlink, MakeDir
    <3> QED  BY <1>2, <2>3, <3>1, PutNewInodeKeeps
  <2>14. ASSUME NEW p \in file \cup dir, NEW q \in here, Rename(p, q)  PROVE IInv'
    BY <1>2, <2>3, <2>14, RenameKeeps
  <2>15. ASSUME NEW f \in client.fh, Read(f)  PROVE IInv'
    BY <1>2, <2>2, <2>15, ReadKeeps
  <2>16. ASSUME NEW f \in client.fh, CloseFile(f)  PROVE IInv'
    BY <1>2, <2>2, <2>16, CloseFileKeeps
  <2>17. ASSUME NEW f \in client.fh, NEW large \in client.large, NEW a \in client.attr,
                NEW fails \in Outcomes("Write"), Write(f, large, a, fails)
         PROVE  IInv'
    <3>1. f \in Fh /\ large \in BOOLEAN /\ a \in Attr /\ fails \in BOOLEAN
      BY <2>2, <2>4
    <3> QED  BY <1>2, <2>17, <3>1, WriteKeeps
  <2>18. ASSUME NEW d \in Dh, ReleaseDir(d)  PROVE IInv'
    BY <1>2, <2>18, ReleaseDirKeeps
  <2>19. Handlers
    BY <1>2
  <2> QED
    BY <2>5, <2>6, <2>7, <2>8, <2>9, <2>10, <2>11, <2>12, <2>13, <2>14, <2>15, <2>16, <2>17,
       <2>18, <2>19 DEF Handlers
<1> QED  BY <1>1, <1>2 DEF Next

\* The inductive invariant holds of every execution.
THEOREM Consistent == Spec => []IInv
  BY InitLemma, StepLemma, PTL DEF Spec

\* No handler, on no path through it, leaks a handle of the inode cache or
\* gives one back twice, whatever the clients do.
THEOREM HandlesAreBalanced == Spec => []HandlesBalanced
<1>1. ASSUME IInv  PROVE HandlesBalanced
  <2>1. OpenHandles \subseteq Live(store.cache)
    BY <1>1, HeldLemma DEF HeldFacts, LiveIn
  <2>2. Counted(store.cache, Held, InList(store.cache)) /\ Live(store.cache) \subseteq Handle
    BY <1>1 DEF IInv, CacheInv, StoreOK, Good, WellTyped
  <2>3. ASSUME NEW h \in Live(store.cache)
        PROVE  store.cache.ent[h].refs =
                 (IF h \in InList(store.cache) THEN 1 ELSE 0)
                 + Cardinality({f \in Fh : files[f].h = h})
                 + Cardinality({d \in Dh : dirs[d] = h})
    <3>1. h \in Handle
      BY <2>2
    <3>2. store.cache.ent[h].refs = Held[h] + (IF h \in InList(store.cache) THEN 1 ELSE 0)
      BY <2>2 DEF Counted
    <3>3. {f \in Fh : FileOf[f] = h} = {f \in Fh : files[f].h = h}
      BY DEF FileOf
    <3>4. Held[h] = Cardinality({f \in Fh : files[f].h = h}) + Cardinality({d \in Dh : dirs[d] = h})
      BY <3>1, <3>3 DEF Held, Uses
    <3>5. Uses(Fh, FileOf, h) \in Nat /\ Uses(Dh, dirs, h) \in Nat
      BY UsesLemma, HandleBound
    <3>6. /\ Cardinality({f \in Fh : files[f].h = h}) \in Nat
          /\ Cardinality({d \in Dh : dirs[d] = h}) \in Nat
      BY <3>3, <3>5 DEF Uses
    <3> QED  BY <3>2, <3>4, <3>6
  <2> QED  BY <2>1, <2>3 DEF HandlesBalanced
<1> QED  BY <1>1, Consistent, PTL

\* An inode that nobody has open is clean, so it may be evicted at any time.
THEOREM UnpinnedAreClean == Spec => []UnpinnedIsClean
<1>1. ASSUME IInv  PROVE UnpinnedIsClean
  <2> SUFFICES ASSUME NEW k \in DOMAIN store.cache.table \ TakenKeys,
                      store.cache.table[k] \notin OpenHandles
               PROVE  /\ ValueOf(store, store.cache.table[k]) = store.db[k]
                      /\ ModeOf(store, store.cache.table[k]) # INODE_DELETE
    BY DEF UnpinnedIsClean
  <2>1. StoreOK(store, Held, Inode) /\ StoreFacts(store, Held, Inode)
        /\ Sound(store, Held, TakenKeys, TakenKeys, {})
    BY <1>1, StoreLemma DEF IInv, CacheInv
  <2> DEFINE h == store.cache.table[k]
  <2>2. h \in LiveIn(store) /\ KeyOf(store, h) = k
    BY <2>1 DEF StoreFacts
  <2>3. Held[h] = 0
    BY <1>1, <2>1, <2>2, HeldLemma, Unheld DEF HeldFacts
  <2> QED  BY <2>1, <2>2, <2>3 DEF Sound, NamedOK, FreshOK
<1> QED  BY <1>1, Consistent, PTL

\* A cached inode in mode INODE_READ, open or not, is the one in the table.
THEOREM CleanAreCurrent == Spec => []CleanIsCurrent
<1>1. ASSUME IInv  PROVE CleanIsCurrent
  BY <1>1 DEF IInv, CacheInv, Sound, FreshOK, CleanIsCurrent
<1> QED  BY <1>1, Consistent, PTL

\* Two entries never share an inode number, through any sequence of creations,
\* removals and renames.
THEOREM InodesAreUnique == Spec => []UniqueInodes
<1>1. ASSUME IInv  PROVE UniqueInodes
  <2> SUFFICES ASSUME NEW j \in Key, NEW k \in Key, j # k,
                      store.db[j] # NoRecord, store.db[k] # NoRecord
               PROVE  store.db[j].ino # store.db[k].ino \/ store.db[j].ino \in TakenInos
    BY DEF UniqueInodes
  <2> DEFINE a == <<j, store.db[j].ino>>
             b == <<k, store.db[k].ino>>
  <2>1. a \in Holds(store) /\ b \in Holds(store)
    BY DEF Holds
  <2>2. a[1] = j /\ b[1] = k /\ a[2] = store.db[j].ino /\ b[2] = store.db[k].ino
    OBVIOUS
  <2> HIDE DEF a, b
  <2>3. OwnedOK(Holds(store), TakenInos)
    BY <1>1 DEF IInv, NamesInv
  <2> QED  BY <2>1, <2>2, <2>3 DEF OwnedOK
<1> QED  BY <1>1, Consistent, PTL

\* The dentry cache, which no handler writes through, is never stale.
THEOREM DentriesAreFresh == Spec => []DentryFresh
<1>1. ASSUME IInv  PROVE DentryFresh
  BY <1>1 DEF IInv, NamesInv, DentryOK, DentryFresh
<1> QED  BY <1>1, Consistent, PTL

--------------------------------------------------------------------------------
\* What the clients see.  The inode cache may push out what is open; a Get then
\* makes a second copy of it.  As long as that does not happen:
OpenIsCached ==
  \A h \in OpenHandles : /\ KeyOf(store, h) \in DOMAIN store.cache.table
                         /\ store.cache.table[KeyOf(store, h)] = h

\* Clients that leave alone what is open take nothing away while it is open.
NothingTaken == taken = {}

\* The entries that a handler records in taken are open.
LEMMA FreeTakesNothing ==
  ASSUME NEW K, \A k \in K : k \notin OpenKeys
  PROVE  Taken(K) = {}
BY DEF Taken, OpenKeys

\* Only Unlink, RemoveDir and Rename take names away, and they are free.
LEMMA TakesNothing ==
  ASSUME Exclusive, NothingTaken, [Next]_vars
  PROVE  NothingTaken'
<1>1. ASSUME taken' = taken  PROVE NothingTaken'
  BY <1>1 DEF NothingTaken
<1>2. ASSUME NEW k, Free(k), taken' = taken \cup Taken({k})  PROVE NothingTaken'
  <2> DEFINE K == {k}
  <2>1. \A j \in K : j \notin OpenKeys
    BY <1>2 DEF Free
  <2> HIDE DEF K
  <2>2. Taken(K) = {}
    BY <2>1, FreeTakesNothing
  <2> QED  BY <1>2, <2>2 DEF NothingTaken, K
<1>3. ASSUME NEW j, NEW k, Free(j), Free(k), taken' = taken \cup Taken({j, k})
      PROVE  NothingTaken'
  <2> DEFINE K == {j, k}
  <2>1. \A i \in K : i \notin OpenKeys
    BY <1>3 DEF Free
  <2> HIDE DEF K
  <2>2. Taken(K) = {}
    BY <2>1, FreeTakesNothing
  <2> QED  BY <1>3, <2>2 DEF NothingTaken, K
<1>4. ASSUME NEW p, Unlink(p)  PROVE NothingTaken'
  BY <1>2, <1>4 DEF Unlink
<1>5. ASSUME NEW p, RemoveDir(p)  PROVE NothingTaken'
  BY <1>2, <1>5 DEF RemoveDir
<1>6. ASSUME NEW p, NEW q, Rename(p, q)  PROVE NothingTaken'
  BY <1>1, <1>3, <1>6 DEF Rename
<1>7. \A p : GetAttr(p) \/ Readlink(p) \/ OpenDir(p) \/ MakeNode(p) \/ Symlink(p) \/ MakeDir(p)
        => taken' = taken
  BY DEF GetAttr, Readlink, OpenDir, MakeNode, Symlink, MakeDir, PutNewInode
<1>8. /\ \A p, w, fails : Open(p, w, fails) => taken' = taken
      /\ \A p, large, a, fails : Truncate(p, large, a, fails) => taken' = taken
      /\ \A p, a : SetAttr(p, a) => taken' = taken
  BY DEF Open, Truncate, SetAttr
<1>9. /\ \A f : Read(f) \/ CloseFile(f) => taken' = taken
      /\ \A f, large, a, fails : Write(f, large, a, fails) => taken' = taken
      /\ \A d : ReleaseDir(d) => taken' = taken
  BY DEF Read, CloseFile, Write, ReleaseDir
<1>10. CASE Handlers
  BY <1>1, <1>4, <1>5, <1>6, <1>7, <1>8, <1>9, <1>10 DEF Handlers
<1>11. CASE UNCHANGED vars
  BY <1>1, <1>11 DEF vars
<1> QED  BY <1>10, <1>11 DEF Next

\* The inode that a client must see for a key is what a Get answers with.
LEMMA CurrentIsShown ==
  ASSUME IInv, NothingTaken, OpenIsCached, NEW k \in Key
  PROVE  Current(k) = Shown(store, k)
<1>1. StoreFacts(store, Held, Inode) /\ StoreOK(store, Held, Inode)
      /\ FreshOK(store, Held, TakenKeys) /\ TakenKeys = {}
  BY StoreLemma DEF IInv, CacheInv, Sound, NothingTaken, TakenKeys
<1>2. HeldIn(Held) = OpenHandles
  BY HeldLemma DEF HeldFacts
<1>3. CASE k \in OpenKeys
  <2> DEFINE h == CHOOSE x \in OpenHandles : KeyOf(store, x) = k
  <2>1. h \in OpenHandles /\ KeyOf(store, h) = k
    BY <1>3 DEF OpenKeys
  <2>2. Current(k) = ValueOf(store, h)
    BY <1>3 DEF Current
  <2> HIDE DEF h
  <2>3. k \in DOMAIN store.cache.table /\ store.cache.table[k] = h
    BY <2>1 DEF OpenIsCached
  <2> QED  BY <2>2, <2>3 DEF Shown
<1>4. CASE k \notin OpenKeys
  <2>1. Current(k) = store.db[k]
    BY <1>4 DEF Current
  <2>2. CASE k \in DOMAIN store.cache.table
    <3> DEFINE h == store.cache.table[k]
    <3>1. h \in LiveIn(store) /\ KeyOf(store, h) = k
      BY <1>1, <2>2 DEF StoreFacts
    <3>2. h \notin OpenHandles
      BY <1>4, <3>1 DEF OpenKeys
    <3>3. Held[h] = 0
      BY <1>1, <1>2, <3>1, <3>2, Unheld
    <3>4. ValueOf(store, h) = store.db[k]
      BY <1>1, <2>2, <3>3 DEF FreshOK
    <3> QED  BY <2>1, <2>2, <3>4 DEF Shown
  <2>3. CASE k \notin DOMAIN store.cache.table
    BY <2>1, <2>3 DEF Shown
  <2> QED  BY <2>2, <2>3
<1> QED  BY <1>3, <1>4

\* What a Get answers with, of entries that were not taken away, has the number
\* that path resolution finds in the table.
LEMMA ShownIsNamed ==
  ASSUME IInv, NothingTaken, NEW k \in Key
  PROVE  /\ Shown(store, k) = NoRecord <=> store.db[k] = NoRecord
         /\ store.db[k] # NoRecord => Shown(store, k).ino = store.db[k].ino
<1>1. StoreFacts(store, Held, Inode) /\ NamedOK(store, TakenKeys) /\ TakenKeys = {}
  BY StoreLemma DEF IInv, CacheInv, Sound, NothingTaken, TakenKeys
<1>2. CASE k \in DOMAIN store.cache.table
  <2> DEFINE h == store.cache.table[k]
  <2>1. h \in LiveIn(store) /\ KeyOf(store, h) = k /\ Shown(store, k) = ValueOf(store, h)
    BY <1>1, <1>2 DEF StoreFacts, Shown
  <2> HIDE DEF h
  <2>2. ValueOf(store, h) \in Inode /\ store.db[k] # NoRecord /\ store.db[k].ino = ValueOf(store, h).ino
    BY <1>1, <2>1 DEF StoreFacts, NamedOK
  <2> QED  BY <2>1, <2>2, RecordAssumption
<1>3. CASE k \notin DOMAIN store.cache.table
  BY <1>3 DEF Shown
<1> QED  BY <1>2, <1>3

\* The steps of CurrentInode.
Descent(f, p, n) ==
  f = [i \in 0..n |-> IF i = 0 THEN Current(RootKey)
                      ELSE IF f[i - 1] = NoRecord THEN NoRecord
                      ELSE Current(<<f[i - 1].ino, p[i]>>)]

\* The recursion of CurrentInode defines a function, for every path.
LEMMA DescentExists ==
  ASSUME NEW p, NEW n \in Nat
  PROVE  \E f : Descent(f, p, n)
<1> DEFINE base == Current(RootKey)
           Next1(x, i) == IF x = NoRecord THEN NoRecord ELSE Current(<<x.ino, p[i]>>)
           T == {m \in Nat : \E f : Descent(f, p, m)}
<1>0. \A f, m : Descent(f, p, m) <=>
        f = [i \in 0..m |-> IF i = 0 THEN base ELSE Next1(f[i - 1], i)]
  BY DEF Descent
<1> HIDE DEF base, Next1
<1>1. 0 \in T
  <2> DEFINE f == [i \in 0..0 |-> base]
  <2>1. f = [i \in 0..0 |-> IF i = 0 THEN base ELSE Next1(f[i - 1], i)]
    OBVIOUS
  <2> HIDE DEF f
  <2> QED  BY <1>0, <2>1
<1>2. ASSUME NEW m \in T  PROVE m + 1 \in T
  <2>1. PICK f : Descent(f, p, m)
    OBVIOUS
  <2> DEFINE g == [i \in 0..(m + 1) |-> IF i = m + 1 THEN Next1(f[m], m + 1) ELSE f[i]]
  <2>2. m \in Nat
    OBVIOUS
  <2>3. \A i \in 0..m : g[i] = f[i]
    BY <2>2
  <2>4. \A i \in 0..m : f[i] = IF i = 0 THEN base ELSE Next1(f[i - 1], i)
    <3>1. f = [i \in 0..m |-> IF i = 0 THEN base ELSE Next1(f[i - 1], i)]
      BY <1>0, <2>1
    <3> QED  BY <3>1
  <2>5. ASSUME NEW i \in 0..(m + 1)
        PROVE  g[i] = IF i = 0 THEN base ELSE Next1(g[i - 1], i)
    <3>1. CASE i = m + 1
      <4>1. g[i] = Next1(f[m], m + 1) /\ i - 1 = m /\ i # 0 /\ g[m] = f[m]
        BY <3>1, <2>2, <2>3
      <4> QED  BY <3>1, <4>1
    <3>2. CASE i # m + 1
      <4>1. i \in 0..m /\ (i # 0 => i - 1 \in 0..m)
        BY <3>2, <2>2
      <4> QED  BY <4>1, <2>3, <2>4
    <3> QED  BY <3>1, <3>2
  <2>6. g = [i \in 0..(m + 1) |-> IF i = 0 THEN base ELSE Next1(g[i - 1], i)]
    <3>1. g = [i \in 0..(m + 1) |-> g[i]]
      OBVIOUS
    <3> HIDE DEF g
    <3> QED  BY <3>1, <2>5
  <2> HIDE DEF g
  <2>7. Descent(g, p, m + 1)
    BY <1>0, <2>6
  <2> QED  BY <2>2, <2>7
<1>3. T = Nat
  <2> HIDE DEF T
  <2>1. T \subseteq Nat
    BY DEF T
  <2> QED  BY <1>1, <1>2, <2>1, Induction
<1> QED  BY <1>3

\* Path resolution through both caches finds what resolution through the current
\* inodes finds.
LEMMA AnswerIsCurrent ==
  ASSUME IInv, NothingTaken, OpenIsCached, NEW p \in Seq(Name)
  PROVE  Visible(p) = CurrentInode(p)
<1> DEFINE r == PathLookup(dentry, p)
           n == IF p = <<>> THEN 0 ELSE Len(p) - 1
           T == TakenKeys
<1>1. store.db \in [Key -> Inode \cup {NoRecord}] /\ DentryOK(dentry, store.db, T) /\ T = {}
      /\ RootOK(store.db, T)
  BY DEF IInv, CacheInv, NamesInv, StoreOK, NothingTaken, TakenKeys
<1>2. PICK f : Walk(f, dentry, p, Len(p)) /\ ParentPathLookup(dentry, p) = f[n]
  BY WalkLemma
<1>3. Len(p) \in Nat /\ n \in 0..Len(p) /\ (p # <<>> => n = Len(p) - 1 /\ Len(p) \in 1..Len(p))
      /\ (p = <<>> => Len(p) = 0) /\ \A i \in 1..Len(p) : p[i] \in Name
  OBVIOUS
<1> DEFINE g == CHOOSE u : Descent(u, p, Len(p))
<1>4. Descent(g, p, Len(p))
  BY <1>3, DescentExists
<1>5. CurrentInode(p) = g[Len(p)]
  BY DEF CurrentInode, Descent
<1> HIDE DEF g, T
<1> DEFINE e == [ok |-> TRUE, ino |-> ROOT_INODE_ID, dentry |-> dentry]
<1>6. f[0] = e /\ \A i \in 1..Len(p) : f[i] = LookupStep(f[i - 1], p[i])
  <2> HIDE DEF e
  <2>1. f = [i \in 0..Len(p) |-> IF i = 0 THEN e ELSE LookupStep(f[i - 1], p[i])]
    BY <1>2 DEF Walk, e
  <2> QED  BY <1>3, <2>1
<1>7. /\ g[0] = Shown(store, RootKey)
      /\ \A i \in 1..Len(p) : g[i - 1] = NoRecord => g[i] = NoRecord
      /\ \A i \in 1..Len(p) : g[i - 1] # NoRecord /\ <<g[i - 1].ino, p[i]>> \in Key =>
           g[i] = Shown(store, <<g[i - 1].ino, p[i]>>)
  <2>1. g = [i \in 0..Len(p) |-> IF i = 0 THEN Current(RootKey)
                                 ELSE IF g[i - 1] = NoRecord THEN NoRecord
                                 ELSE Current(<<g[i - 1].ino, p[i]>>)]
    BY <1>4 DEF Descent
  <2>2. g[0] = Current(RootKey)
    BY <1>3, <2>1
  <2>3. \A i \in 1..Len(p) : g[i] = IF g[i - 1] = NoRecord THEN NoRecord
                                    ELSE Current(<<g[i - 1].ino, p[i]>>)
    BY <1>3, <2>1
  <2>4. RootKey \in Key
    BY <1>1 DEF RootOK
  <2> QED  BY <2>2, <2>3, <2>4, CurrentIsShown
<1> DEFINE Match(i) == /\ FoundOK(f[i], store.db, T)
                       /\ f[i].ok => g[i] # NoRecord /\ g[i].ino = f[i].ino
                       /\ ~f[i].ok => g[i] = NoRecord
           G == {i \in Nat : i <= Len(p) => Match(i)}
<1>8. 0 \in G
  <2>1. FoundOK(e, store.db, T)
    <3>1. ROOT_INODE_ID \in Ino
      BY RecordAssumption DEF Ino, ROOT_INODE_ID
    <3> QED  BY <1>1, <3>1 DEF FoundOK
  <2>2. Shown(store, RootKey) # NoRecord /\ Shown(store, RootKey).ino = ROOT_INODE_ID
    BY <1>1, ShownIsNamed DEF RootOK
  <2> QED  BY <1>6, <1>7, <2>1, <2>2
<1>9. ASSUME NEW i \in G  PROVE i + 1 \in G
  <2> SUFFICES ASSUME i + 1 <= Len(p)  PROVE Match(i + 1)
    OBVIOUS
  <2>1. i \in Nat /\ i + 1 \in 1..Len(p) /\ i <= Len(p) /\ (i + 1) - 1 = i
    BY <1>3
  <2>2. f[i + 1] = LookupStep(f[i], p[i + 1]) /\ p[i + 1] \in Name /\ Match(i)
    BY <1>3, <1>6, <2>1
  <2>3. FoundOK(f[i + 1], store.db, T)
    BY <1>1, <2>2, StepFinds
  <2> DEFINE k == <<f[i].ino, p[i + 1]>>
             u == f[i]
  <2>4. k \in Key
    BY <2>2, KeyAssumption DEF MetaKey, FoundOK
  <2>5. /\ g[i] = NoRecord => g[i + 1] = NoRecord
        /\ g[i] # NoRecord /\ g[i].ino = f[i].ino => g[i + 1] = Shown(store, k)
    BY <1>7, <2>1, <2>4
  <2>6. CASE ~u.ok
    <3>1. f[i + 1] = u
      BY <2>2, <2>6 DEF LookupStep
    <3> QED  BY <2>2, <2>3, <2>5, <2>6, <3>1
  <2>7. CASE u.ok
    <3>1. /\ Shown(store, k) = NoRecord <=> store.db[k] = NoRecord
          /\ store.db[k] # NoRecord => Shown(store, k).ino = store.db[k].ino
      BY <2>4, ShownIsNamed
    <3>2. g[i + 1] = Shown(store, k)
      BY <2>2, <2>5, <2>7
    <3>3. u = [ok |-> u.ok, ino |-> u.ino, dentry |-> u.dentry]
      BY <2>2 DEF FoundOK
    <3>4. CASE k \in DOMAIN u.dentry
      <4>1. store.db[k] # NoRecord /\ store.db[k].ino = u.dentry[k]
        BY <1>1, <2>2, <3>4 DEF FoundOK, DentryOK
      <4>2. f[i + 1] = [u EXCEPT !.ino = u.dentry[k]]
        BY <2>2, <2>7, <3>4 DEF LookupStep
      <4> HIDE DEF k, u
      <4>3. f[i + 1].ok = u.ok /\ f[i + 1].ino = u.dentry[k]
        BY <3>3, <4>2
      <4> QED  BY <2>3, <2>7, <3>1, <3>2, <4>1, <4>3
    <3>5. CASE k \notin DOMAIN u.dentry /\ store.db[k] # NoRecord
      <4> DEFINE d == DentryInsert(u.dentry, k, store.db[k].ino)
      <4>1. f[i + 1] = [u EXCEPT !.ino = store.db[k].ino, !.dentry = d]
        BY <2>2, <2>7, <3>5 DEF LookupStep
      <4> HIDE DEF k, u, d
      <4>2. f[i + 1].ok = u.ok /\ f[i + 1].ino = store.db[k].ino
        BY <3>3, <4>1
      <4> QED  BY <2>3, <2>7, <3>1, <3>2, <3>5, <4>2
    <3>6. CASE k \notin DOMAIN u.dentry /\ store.db[k] = NoRecord
      <4>1. f[i + 1] = [u EXCEPT !.ok = FALSE]
        BY <2>2, <2>7, <3>6 DEF LookupStep
      <4> HIDE DEF k, u
      <4>2. ~f[i + 1].ok
        BY <3>3, <4>1
      <4> QED  BY <2>3, <3>1, <3>2, <3>6, <4>2
    <3> QED  BY <3>4, <3>5, <3>6
  <2>8. u.ok \in BOOLEAN
    BY <2>2 DEF FoundOK
  <2> QED  BY <2>6, <2>7, <2>8
<1>10. G = Nat
  <2>1. G \in SUBSET Nat
    OBVIOUS
  <2> HIDE DEF G
  <2> QED  BY <2>1, <1>8, <1>9, Induction
<1>11. Match(n)
  <2>1. n \in Nat /\ n <= Len(p)
    BY <1>3
  <2> HIDE DEF n, Match
  <2> QED  BY <2>1, <1>10
<1>12. Resolved(p, r)
  BY ResolvedLemma
<1>13. Visible(p) = IF f[n].ok THEN Shown(store, r.key) ELSE NoRecord
  BY <1>2, <1>12 DEF Resolved, PathLookup
<1>14. CASE p = <<>>
  <2>1. n = 0 /\ Len(p) = 0 /\ r.key = RootKey
    BY <1>14 DEF PathLookup
  <2>2. f[n].ok
    BY <1>6, <2>1
  <2> QED  BY <1>5, <1>7, <1>13, <2>1, <2>2
<1>15. CASE p # <<>>
  <2> DEFINE k == <<f[n].ino, p[Len(p)]>>
  <2>1. n = Len(p) - 1 /\ Len(p) \in 1..Len(p) /\ r.key = k /\ p[Len(p)] \in Name
    BY <1>2, <1>3, <1>15 DEF PathLookup
  <2>2. k \in Key
    BY <1>11, <2>1, KeyAssumption DEF MetaKey, FoundOK
  <2>3. /\ g[n] = NoRecord => g[Len(p)] = NoRecord
        /\ g[n] # NoRecord /\ g[n].ino = f[n].ino => g[Len(p)] = Shown(store, k)
    BY <1>7, <2>1, <2>2
  <2> HIDE DEF n, k, r
  <2> QED  BY <1>5, <1>11, <1>13, <2>1, <2>3
<1> QED  BY <1>14, <1>15

\* If the clients leave alone what is open, GetAttr answers with the latest inode
\* for every path, through both caches, in every state in which the inode cache
\* has not pushed out what is open.
THEOREM AnswersStayCurrent ==
  ASSUME Exclusive
  PROVE  Spec => [](OpenIsCached => AnswersAreCurrent)
<1>1. Init => NothingTaken
  BY DEF Init, NothingTaken
<1>2. NothingTaken /\ [Next]_vars => NothingTaken'
  BY TakesNothing
<1>3. IInv /\ NothingTaken => (OpenIsCached => AnswersAreCurrent)
  <2> SUFFICES ASSUME IInv, NothingTaken, OpenIsCached, NEW p \in client.path
               PROVE  Visible(p) = CurrentInode(p)
    BY DEF AnswersAreCurrent
  <2>1. client \in Client
    BY ClientAssumption DEF IInv, TypeOK
  <2>2. p \in Seq(Name)
    BY <2>1 DEF Client
  <2> QED  BY <2>2, AnswerIsCurrent
<1> QED  BY <1>1, <1>2, <1>3, Consistent, PTL DEF Spec

--------------------------------------------------------------------------------
\* What the clients see changes one entry at a time.

View == [k \in Key |-> Current(k)]

\* No key is open through two handles.
OneHandle == \A h, j \in OpenHandles : KeyOf(store, h) = KeyOf(store, j) => h = j

\* What the clients must see for a key has the number and the kind of the record;
\* it is what the open handle shows or else the record.
Seen ==
  /\ \A h \in OpenHandles : /\ KeyOf(store, h) \in Key /\ store.db[KeyOf(store, h)] # NoRecord
                            /\ View[KeyOf(store, h)] = ValueOf(store, h)
  /\ \A k \in Key :
       /\ k \notin OpenKeys => View[k] = store.db[k]
       /\ store.db[k] = NoRecord => View[k] = NoRecord
       /\ store.db[k] # NoRecord => /\ View[k] \in Inode /\ View[k] # NoRecord
                                    /\ View[k].ino = store.db[k].ino
                                    /\ View[k].dir = store.db[k].dir

\* It follows from the inductive invariant.
LEMMA SeenLemma ==
  ASSUME IInv, NothingTaken, OneHandle
  PROVE  Seen
<1>1. StoreOK(store, Held, Inode) /\ StoreFacts(store, Held, Inode)
      /\ NamedOK(store, TakenKeys) /\ TakenKeys = {}
  BY StoreLemma DEF IInv, CacheInv, Sound, NothingTaken, TakenKeys
<1>2. OpenHandles \subseteq LiveIn(store)
  BY HeldLemma DEF HeldFacts
<1>3. \A h \in OpenHandles : /\ KeyOf(store, h) \in Key /\ ValueOf(store, h) \in Inode
                             /\ store.db[KeyOf(store, h)] # NoRecord
                             /\ store.db[KeyOf(store, h)].ino = ValueOf(store, h).ino
                             /\ store.db[KeyOf(store, h)].dir = ValueOf(store, h).dir
  BY <1>1, <1>2 DEF StoreFacts, NamedOK
<1>4. ASSUME NEW h \in OpenHandles  PROVE View[KeyOf(store, h)] = ValueOf(store, h)
  <2> DEFINE k == KeyOf(store, h)
             j == CHOOSE x \in OpenHandles : KeyOf(store, x) = k
  <2>1. j \in OpenHandles /\ KeyOf(store, j) = k
    OBVIOUS
  <2>2. k \in OpenKeys /\ k \in Key
    BY <1>3 DEF OpenKeys
  <2>3. View[k] = ValueOf(store, j)
    BY <2>2 DEF View, Current
  <2> HIDE DEF j
  <2> QED  BY <2>1, <2>3 DEF OneHandle
<1>5. ASSUME NEW k \in Key, k \notin OpenKeys  PROVE View[k] = store.db[k]
  BY <1>5 DEF View, Current
<1>6. store.db \in [Key -> Inode \cup {NoRecord}]
  BY <1>1 DEF StoreOK
<1>7. ASSUME NEW k \in Key, store.db[k] = NoRecord  PROVE View[k] = NoRecord
  <2>1. k \notin OpenKeys
    BY <1>3, <1>7 DEF OpenKeys
  <2> QED  BY <1>5, <1>7, <2>1
<1>8. ASSUME NEW k \in Key, store.db[k] # NoRecord
      PROVE  /\ View[k] \in Inode /\ View[k] # NoRecord
             /\ View[k].ino = store.db[k].ino /\ View[k].dir = store.db[k].dir
  <2>1. CASE k \in OpenKeys
    <3>1. PICK h \in OpenHandles : KeyOf(store, h) = k
      BY <2>1 DEF OpenKeys
    <3> QED  BY <1>3, <1>4, <3>1, RecordAssumption
  <2>2. CASE k \notin OpenKeys
    BY <1>5, <1>6, <1>8, <2>2
  <2> QED  BY <2>1, <2>2
<1> QED  BY <1>3, <1>4, <1>5, <1>7, <1>8 DEF Seen

\* The same of the state after a step.
LEMMA SeenLater == IInv' /\ NothingTaken' /\ OneHandle' => Seen'
<1>1. IInv /\ NothingTaken /\ OneHandle => Seen
  BY SeenLemma
<1> QED  BY <1>1, PTL

\* Nothing is seen to change but the keys K.
LEMMA SeenElsewhere ==
  ASSUME Seen, Seen', NEW K, Leaves(K)
  PROVE  \A k \in Key \ K : View'[k] = View[k]
<1> DEFINE V == View
           W == View'
           P == OpenHandles
           Q == OpenHandles'
<1>1. /\ \A h \in P : V[KeyOf(store, h)] = ValueOf(store, h)
      /\ \A h \in Q : W[KeyOf(store', h)] = ValueOf(store', h)
  BY DEF Seen
<1>2. /\ \A k \in Key : k \notin OpenKeys => V[k] = store.db[k]
      /\ \A k \in Key : k \notin OpenKeys' => W[k] = store'.db[k]
  BY DEF Seen
<1>3. OpenKeys = {KeyOf(store, h) : h \in P} /\ OpenKeys' = {KeyOf(store', h) : h \in Q}
  BY DEF OpenKeys
<1>4. /\ \A k \in Key \ K : store'.db[k] = store.db[k]
      /\ \A h \in P \cap Q : /\ KeyOf(store', h) = KeyOf(store, h)
                             /\ KeyOf(store, h) \notin K => ValueOf(store', h) = ValueOf(store, h)
      /\ \A h \in P \ Q : KeyOf(store, h) \in K
      /\ \A h \in Q \ P : KeyOf(store', h) \in K
  BY DEF Leaves
<1> HIDE DEF V, W, P, Q
<1>5. ASSUME NEW k \in Key \ K  PROVE W[k] = V[k]
  <2>1. CASE k \in OpenKeys
    <3>1. PICK h \in P : KeyOf(store, h) = k
      BY <1>3, <2>1
    <3> QED  BY <1>1, <1>4, <3>1
  <2>2. CASE k \notin OpenKeys
    <3>1. k \notin OpenKeys'
      <4> SUFFICES ASSUME NEW h \in Q, KeyOf(store', h) = k  PROVE FALSE
        BY <1>3
      <4> QED  BY <1>3, <1>4, <2>2
    <3> QED  BY <1>2, <1>4, <2>2, <3>1
  <2> QED  BY <2>1, <2>2
<1> QED  BY <1>5 DEF V, W

\* The records of k change but not their names; k may be opened, if it was not
\* open, or closed.
Edited(k) ==
  /\ Edits({k}) /\ maxIno' = maxIno
  /\ OpenHandles' \subseteq OpenHandles \/ (k \notin OpenKeys /\ Opened(k))

\* The record of k is deleted.
Removed(k) ==
  /\ Leaves({k}) /\ OpenHandles' = OpenHandles /\ maxIno' = maxIno
  /\ k \notin OpenKeys /\ store.db[k] # NoRecord /\ store'.db[k] = NoRecord

\* It comes to another key.
Renamed(old, new) ==
  /\ MovedTo(old, new) /\ maxIno' = maxIno /\ old \notin OpenKeys /\ new \notin OpenKeys

\* What a step does to the tree.
OneEntry ==
  \E k \in Key : \/ Edited(k) \/ Made(k) \/ Removed(k)
                 \/ \E j \in Key : Renamed(j, k)

\* A handler that only looks, edits no key in particular.
LEMMA EditsNothing ==
  ASSUME IInv, NothingTaken, Edits(TakenKeys), OpenHandles' = OpenHandles, maxIno' = maxIno
  PROVE  OneEntry
<1>1. RootKey \in Key /\ TakenKeys = {}
  BY DEF IInv, NamesInv, RootOK, NothingTaken, TakenKeys
<1>2. Edited(RootKey)
  BY <1>1 DEF Edited, Edits, Leaves
<1> QED  BY <1>1, <1>2 DEF OneEntry

\* A handler that edits k.
LEMMA EditsOne ==
  ASSUME NothingTaken, NEW k \in Key, Edits(TakenKeys \cup {k}), maxIno' = maxIno,
         OpenHandles' \subseteq OpenHandles \/ (k \notin OpenKeys /\ Opened(k))
  PROVE  OneEntry
<1>1. TakenKeys \cup {k} = {k}
  BY DEF NothingTaken, TakenKeys
<1> QED  BY <1>1 DEF OneEntry, Edited

\* An entry that nobody has open is in the cache what it is in the table.
LEMMA ShownIsThere ==
  ASSUME IInv, NothingTaken, NEW k \in Key
  PROVE  /\ Shown(store, k) # NoRecord => store.db[k] # NoRecord
         /\ k \notin OpenKeys => Shown(store, k) = store.db[k]
<1>1. StoreFacts(store, Held, Inode) /\ StoreOK(store, Held, Inode)
      /\ FreshOK(store, Held, TakenKeys) /\ TakenKeys = {}
  BY StoreLemma DEF IInv, CacheInv, Sound, NothingTaken, TakenKeys
<1>2. HeldIn(Held) = OpenHandles
  BY HeldLemma DEF HeldFacts
<1>3. ASSUME k \in DOMAIN store.cache.table, k \notin OpenKeys  PROVE Shown(store, k) = store.db[k]
  <2> DEFINE h == store.cache.table[k]
  <2>1. h \in LiveIn(store) /\ KeyOf(store, h) = k
    BY <1>1, <1>3 DEF StoreFacts
  <2>2. h \notin OpenHandles
    BY <1>3, <2>1 DEF OpenKeys
  <2>3. Held[h] = 0
    BY <1>1, <1>2, <2>1, <2>2, Unheld
  <2> QED  BY <1>1, <1>3, <2>3 DEF FreshOK, Shown
<1>4. k \notin DOMAIN store.cache.table => Shown(store, k) = store.db[k]
  BY DEF Shown
<1> QED  BY <1>3, <1>4, ShownIsNamed

\* When the clients leave alone what is open, a step changes one entry, or moves one.
LEMMA StepChangesOneEntry ==
  ASSUME Exclusive, IInv, NothingTaken, [Next]_vars
  PROVE  OneEntry
<1>0. TakenKeys = {}
  BY DEF NothingTaken, TakenKeys
<1>1. CASE UNCHANGED vars
  <2>1. store' = store /\ OpenHandles' = OpenHandles /\ maxIno' = maxIno
    BY <1>1 DEF vars, OpenHandles, FileHandles, DirHandles
  <2>2. Carries(store, store', TakenKeys, {}, {})
    BY <2>1, NothingDone DEF Handled, Carries
  <2>3. Leaves(TakenKeys)
    BY <2>1 DEF Leaves
  <2> QED  BY <2>1, <2>2, <2>3, EditsNothing DEF Edits
<1>2. CASE Handlers /\ UNCHANGED client
  <2>1. client \in Client
    BY ClientAssumption DEF IInv, TypeOK
  <2>2. /\ client.path \subseteq Seq(Name) /\ client.fh \subseteq Fh /\ client.attr \subseteq Attr
        /\ client.large \subseteq BOOLEAN
    BY <2>1 DEF Client
  <2> DEFINE here == {p \in client.path : Reachable(p)}
             file == {p \in here : IsFile(p)}
             dir == {p \in here : IsDir(p)}
             none == here \ (file \cup dir)
  <2>3. /\ \A p \in here : p \in Seq(Name)
        /\ \A p \in file : p \in Seq(Name) /\ IsFile(p) /\ Exists(p)
        /\ \A p \in dir : p \in Seq(Name) /\ IsDir(p) /\ Exists(p)
        /\ \A p \in none : p \in Seq(Name) /\ ~Exists(p)
    BY <2>2 DEF IsFile, IsDir
  <2>4. \A handler : Outcomes(handler) \subseteq BOOLEAN
    BY DEF Outcomes
  <2>5. ASSUME NEW p \in here, GetAttr(p)  PROVE OneEntry
    <3>1. maxIno' = maxIno /\ Edits(TakenKeys) /\ OpenHandles' = OpenHandles
      BY <1>2, <2>3, <2>5, GetAttrKeeps DEF GetAttr
    <3> QED  BY <3>1, EditsNothing
  <2>6. ASSUME NEW p \in file, Readlink(p)  PROVE OneEntry
    <3>1. maxIno' = maxIno /\ Edits(TakenKeys) /\ OpenHandles' = OpenHandles
      BY <1>2, <2>3, <2>6, ReadlinkKeeps DEF Readlink
    <3> QED  BY <3>1, EditsNothing
  <2>7. ASSUME NEW p \in Seq(Name), Exists(p), p # <<>>,
               NEW r, r = PathLookup(dentry, p), Free(r.key),
               dentry' = DentryEvict(r.dentry, r.key), WithHandle(r.key, INODE_DELETE, DropEntry),
               taken' = taken \cup Taken({r.key}), UNCHANGED <<files, dirs, maxIno>>
        PROVE  OneEntry
    <3>1. /\ r.key \in Key /\ Leaves(TakenKeys \cup {r.key}) /\ OpenHandles' = OpenHandles
          /\ Shown(store, r.key) # NoRecord
          /\ r.key \notin OpenKeys => store'.db[r.key] = NoRecord
      BY <1>2, <2>7, RemoveKeeps
    <3>2. r.key \notin OpenKeys
      BY <2>7 DEF Free
    <3>3. store.db[r.key] # NoRecord
      BY <3>1, ShownIsThere
    <3>4. TakenKeys \cup {r.key} = {r.key}
      BY <1>0
    <3>5. Removed(r.key)
      BY <2>7, <3>1, <3>2, <3>3, <3>4 DEF Removed
    <3> QED  BY <3>1, <3>5 DEF OneEntry
  <2>8. ASSUME NEW p \in file, Unlink(p)  PROVE OneEntry
    <3>1. p \in Seq(Name) /\ Exists(p) /\ p # <<>>
      BY <2>3, RootIsDir DEF IsFile
    <3> DEFINE r == PathLookup(dentry, p)
    <3>2. /\ Free(r.key) /\ dentry' = DentryEvict(r.dentry, r.key)
          /\ WithHandle(r.key, INODE_DELETE, DropEntry)
          /\ taken' = taken \cup Taken({r.key}) /\ UNCHANGED <<files, dirs, maxIno>>
      BY <2>8 DEF Unlink
    <3> QED  BY <2>7, <3>1, <3>2
  <2>9. ASSUME NEW p \in dir, RemoveDir(p)  PROVE OneEntry
    <3>1. p \in Seq(Name) /\ Exists(p) /\ p # <<>>
      BY <2>3, <2>9 DEF RemoveDir
    <3> DEFINE r == PathLookup(dentry, p)
    <3>2. /\ Free(r.key) /\ dentry' = DentryEvict(r.dentry, r.key)
          /\ WithHandle(r.key, INODE_DELETE, DropEntry)
          /\ taken' = taken \cup Taken({r.key}) /\ UNCHANGED <<files, dirs, maxIno>>
      BY <2>9 DEF RemoveDir
    <3> QED  BY <2>7, <3>1, <3>2
  <2>10. ASSUME NEW p \in file, NEW w \in BOOLEAN, NEW fails \in Outcomes("Open"), Open(p, w, fails)
         PROVE  OneEntry
    <3> DEFINE k == PathLookup(dentry, p).key
    <3>1. /\ k \in Key
          /\ \/ Edits(TakenKeys \cup {k}) /\ Opened(k)
             \/ Edits(TakenKeys) /\ OpenHandles' = OpenHandles
      BY <1>2, <2>3, <2>10, OpenKeeps
    <3>2. k \notin OpenKeys /\ maxIno' = maxIno
      BY <2>10 DEF Open, Free
    <3> HIDE DEF k
    <3> QED  BY <3>1, <3>2, EditsOne, EditsNothing
  <2>11. ASSUME NEW p \in dir, OpenDir(p)  PROVE OneEntry
    <3> DEFINE k == PathLookup(dentry, p).key
    <3>1. k \in Key /\ Edits(TakenKeys \cup {k}) /\ Opened(k)
      BY <1>2, <2>3, <2>11, OpenDirKeeps
    <3>2. k \notin OpenKeys /\ maxIno' = maxIno
      BY <2>11 DEF OpenDir, Free
    <3> HIDE DEF k
    <3> QED  BY <3>1, <3>2, EditsOne
  <2>12. ASSUME NEW p \in file, NEW large \in client.large, NEW a \in client.attr,
                NEW fails \in Outcomes("Truncate"), Truncate(p, large, a, fails)
         PROVE  OneEntry
    <3> DEFINE k == PathLookup(dentry, p).key
    <3>1. k \in Key /\ Edits(TakenKeys \cup {k}) /\ OpenHandles' = OpenHandles
      BY <1>2, <2>2, <2>3, <2>12, TruncateKeeps
    <3>2. maxIno' = maxIno
      BY <2>12 DEF Truncate
    <3> HIDE DEF k
    <3> QED  BY <3>1, <3>2, EditsOne
  <2>13. ASSUME NEW p \in file \cup dir, NEW a \in client.attr, SetAttr(p, a)  PROVE OneEntry
    <3> DEFINE k == PathLookup(dentry, p).key
    <3>1. k \in Key /\ Edits(TakenKeys \cup {k}) /\ OpenHandles' = OpenHandles
      BY <1>2, <2>2, <2>3, <2>13, SetAttrKeeps
    <3>2. maxIno' = maxIno
      BY <2>13 DEF SetAttr
    <3> HIDE DEF k
    <3> QED  BY <3>1, <3>2, EditsOne
  <2>14. ASSUME NEW p \in none, MakeNode(p) \/ Symlink(p) \/ MakeDir(p)  PROVE OneEntry
    <3>1. PICK b \in BOOLEAN : PutNewInode(p, b)
      BY <2>14 DEF MakeNode, Symlink, MakeDir
    <3> DEFINE k == PathLookup(dentry, p).key
    <3>2. /\ k \in Key
          /\ \/ Edits(TakenKeys) /\ OpenHandles' = OpenHandles /\ maxIno' = maxIno
             \/ Made(k)
      BY <1>2, <2>3, <3>1, PutNewInodeKeeps
    <3> HIDE DEF k
    <3> QED  BY <3>2, EditsNothing DEF OneEntry
  <2>15. ASSUME NEW p \in file \cup dir, NEW q \in here, Rename(p, q)  PROVE OneEntry
    <3> DEFINE u == PathLookup(dentry, p)
               v == PathLookup(u.dentry, q)
    <3>1. /\ u.key \in Key /\ v.key \in Key
          /\ \/ Edits(TakenKeys) /\ OpenHandles' = OpenHandles
             \/ MovedTo(u.key, v.key)
      BY <1>2, <2>3, <2>15, RenameKeeps
    <3>2. u.key \notin OpenKeys /\ v.key \notin OpenKeys /\ maxIno' = maxIno
      BY <2>15 DEF Rename, Free
    <3> HIDE DEF u, v
    <3>3. CASE Edits(TakenKeys) /\ OpenHandles' = OpenHandles
      BY <3>2, <3>3, EditsNothing
    <3>4. CASE MovedTo(u.key, v.key)
      BY <3>1, <3>2, <3>4 DEF OneEntry, Renamed
    <3> QED  BY <3>1, <3>3, <3>4
  <2>16. ASSUME NEW f \in client.fh, Read(f)  PROVE OneEntry
    <3>1. maxIno' = maxIno /\ Edits(TakenKeys) /\ OpenHandles' = OpenHandles
      BY <1>2, <2>2, <2>16, ReadKeeps DEF Read
    <3> QED  BY <3>1, EditsNothing
  <2>17. \A h \in OpenHandles : KeyOf(store, h) \in Key
    <3>1. StoreFacts(store, Held, Inode) /\ OpenHandles \subseteq LiveIn(store)
      BY StoreLemma, HeldLemma DEF IInv, CacheInv, HeldFacts
    <3> QED  BY <3>1 DEF StoreFacts
  <2>18. ASSUME NEW f \in client.fh, CloseFile(f)  PROVE OneEntry
    <3> DEFINE h == files[f].h
               k == KeyOf(store, h)
    <3>1. Edits(TakenKeys \cup {k}) /\ Closed(h)
      BY <1>2, <2>2, <2>18, CloseFileKeeps
    <3>2. k \in Key /\ OpenHandles' \subseteq OpenHandles /\ maxIno' = maxIno
      BY <2>17, <2>18, <3>1 DEF Closed, CloseFile
    <3> HIDE DEF k
    <3> QED  BY <3>1, <3>2, EditsOne
  <2>19. ASSUME NEW f \in client.fh, NEW large \in client.large, NEW a \in client.attr,
                NEW fails \in Outcomes("Write"), Write(f, large, a, fails)
         PROVE  OneEntry
    <3> DEFINE h == files[f].h
               k == KeyOf(store, h)
    <3>1. f \in Fh /\ large \in BOOLEAN /\ a \in Attr /\ fails \in BOOLEAN
      BY <2>2, <2>4
    <3>2. Edits(TakenKeys \cup {k}) /\ OpenHandles' = OpenHandles
      BY <1>2, <2>19, <3>1, WriteKeeps
    <3>3. k \in Key /\ maxIno' = maxIno
      <4>1. files[f] # NoFile /\ maxIno' = maxIno
        BY <2>19 DEF Write
      <4> QED  BY <2>17, <3>1, <4>1, HeldLemma DEF HeldFacts
    <3> HIDE DEF k
    <3> QED  BY <3>2, <3>3, EditsOne
  <2>20. ASSUME NEW d \in Dh, ReleaseDir(d)  PROVE OneEntry
    <3> DEFINE h == dirs[d]
               k == KeyOf(store, h)
    <3>1. Edits(TakenKeys \cup {k}) /\ Closed(h)
      BY <1>2, <2>20, ReleaseDirKeeps
    <3>2. k \in Key /\ OpenHandles' \subseteq OpenHandles /\ maxIno' = maxIno
      BY <2>17, <2>20, <3>1 DEF Closed, ReleaseDir
    <3> HIDE DEF k
    <3> QED  BY <3>1, <3>2, EditsOne
  <2>21. Handlers
    BY <1>2
  <2> QED
    BY <2>5, <2>6, <2>8, <2>9, <2>10, <2>11, <2>12, <2>13, <2>14, <2>15, <2>16, <2>18, <2>19,
       <2>20, <2>21 DEF Handlers
<1> QED  BY <1>1, <1>2 DEF Next

\* No handler opens a second handle of a key.
LEMMA OneHandleStays ==
  ASSUME OneHandle, OneEntry
  PROVE  OneHandle'
<1> DEFINE P == OpenHandles
           Q == OpenHandles'
<1>1. PICK K : Leaves(K)
  BY DEF OneEntry, Edited, Edits, Made, Removed, Renamed, MovedTo
<1>2. \A h \in P \cap Q : KeyOf(store', h) = KeyOf(store, h)
  BY <1>1 DEF Leaves
<1>3. \A h, j \in P : KeyOf(store, h) = KeyOf(store, j) => h = j
  BY DEF OneHandle
<1>4. \/ Q \subseteq P
      \/ \E k \in Key : k \notin OpenKeys /\ Opened(k)
  BY DEF OneEntry, Edited, Made, Removed, Renamed, MovedTo
<1>5. OneHandle' <=> \A h, j \in Q : KeyOf(store', h) = KeyOf(store', j) => h = j
  BY DEF OneHandle
<1>6. CASE Q \subseteq P
  <2> HIDE DEF P, Q
  <2> QED  BY <1>2, <1>3, <1>5, <1>6
<1>7. ASSUME NEW k \in Key, k \notin OpenKeys, Opened(k)  PROVE OneHandle'
  <2>1. PICK h : Q = P \cup {h} /\ KeyOf(store', h) = k
    BY <1>7 DEF Opened
  <2>2. \A x \in P : KeyOf(store, x) # k
    BY <1>7 DEF OpenKeys
  <2> HIDE DEF P, Q
  <2> QED  BY <1>2, <1>3, <1>5, <2>1, <2>2
<1> QED  BY <1>4, <1>6, <1>7

\* A key that no entry has gets none.
LEMMA StaysAbsent ==
  ASSUME IInv, NothingTaken, Carries(store, store', TakenKeys, {}, {}),
         NEW k \in Key, store.db[k] = NoRecord
  PROVE  store'.db[k] = NoRecord
<1>1. NamedOK(store, TakenKeys) /\ TakenKeys = {}
  BY DEF IInv, CacheInv, Sound, NothingTaken, TakenKeys
<1> SUFFICES ASSUME store'.db[k] # NoRecord  PROVE FALSE
  OBVIOUS
<1> DEFINE i == store'.db[k].ino
           a == <<k, i>>
<1>2. a \in Holds(store) /\ a[1] = k
  BY DEF Holds, Carries
<1> HIDE DEF a
<1>3. \/ \E j \in Key : store.db[j] # NoRecord /\ a = <<j, store.db[j].ino>>
      \/ \E h \in LiveIn(store) : a = <<KeyOf(store, h), ValueOf(store, h).ino>>
  BY <1>2 DEF Holds
<1>4. \E h \in LiveIn(store) : KeyOf(store, h) = k
  BY <1>2, <1>3
<1> QED  BY <1>1, <1>4 DEF NamedOK

\* A function that differs in one place.
LEMMA OneChange ==
  ASSUME NEW V, NEW W, V = [j \in Key |-> V[j]], W = [j \in Key |-> W[j]],
         NEW k \in Key, \A j \in Key \ {k} : W[j] = V[j]
  PROVE  W = [V EXCEPT ![k] = W[k]]
OBVIOUS

\* The step of the tree that a step of the handlers is.
LEMMA TreeStep ==
  ASSUME IInv, NothingTaken, Seen, Seen', OneEntry
  PROVE  [Tree!Next]_(Tree!vars)
<1> DEFINE V == View
           W == View'
<1>1. V = [j \in Key |-> V[j]] /\ W = [j \in Key |-> W[j]]
  BY DEF View
<1>2. \A k \in Key :
        /\ k \notin OpenKeys => V[k] = store.db[k]
        /\ store.db[k] = NoRecord => V[k] = NoRecord
        /\ store.db[k] # NoRecord => /\ V[k] \in Inode /\ V[k] # NoRecord
                                     /\ V[k].ino = store.db[k].ino /\ V[k].dir = store.db[k].dir
  BY DEF Seen
<1>3. \A k \in Key :
        /\ k \notin OpenKeys' => W[k] = store'.db[k]
        /\ store'.db[k] = NoRecord => W[k] = NoRecord
        /\ store'.db[k] # NoRecord => /\ W[k] \in Inode /\ W[k] # NoRecord
                                      /\ W[k].ino = store'.db[k].ino /\ W[k].dir = store'.db[k].dir
  BY DEF Seen
<1>4. TakenKeys = {}
  BY DEF NothingTaken, TakenKeys
<1>5. \A K : Leaves(K) => \A k \in Key \ K : W[k] = V[k]
  BY SeenElsewhere
<1> HIDE DEF V, W
<1> DEFINE Step == \/ \E k \in Key :
                        \/ V[k] = NoRecord /\ W[k] \in Inode /\ maxIno' = maxIno + 1
                             /\ W[k].ino = maxIno' /\ W = [V EXCEPT ![k] = W[k]]
                        \/ V[k] # NoRecord /\ W[k] \in Inode /\ W[k].ino = V[k].ino
                             /\ W[k].dir = V[k].dir /\ W = [V EXCEPT ![k] = W[k]] /\ maxIno' = maxIno
                        \/ V[k] # NoRecord /\ W = [V EXCEPT ![k] = NoRecord] /\ maxIno' = maxIno
                        \/ \E j \in Key : /\ j # k /\ V[j] # NoRecord /\ maxIno' = maxIno
                                          /\ W = [V EXCEPT ![j] = NoRecord, ![k] = V[j]]
                   \/ W = V /\ maxIno' = maxIno
<1>6. ASSUME NEW k \in Key, Edited(k)  PROVE Step
  <2>1. W = [V EXCEPT ![k] = W[k]] /\ maxIno' = maxIno /\ Carries(store, store', TakenKeys, {}, {})
    <3> DEFINE K == {k}
    <3>1. Leaves(K) /\ maxIno' = maxIno /\ Carries(store, store', TakenKeys, {}, {})
      BY <1>6 DEF Edited, Edits
    <3>2. \A j \in Key \ K : W[j] = V[j]
      BY <1>5, <3>1
    <3> QED  BY <1>1, <3>1, <3>2, OneChange
  <2>2. CASE store.db[k] = NoRecord
    <3>1. store'.db[k] = NoRecord
      BY <2>1, <2>2, StaysAbsent
    <3>2. W[k] = V[k]
      BY <1>2, <1>3, <2>2, <3>1
    <3>3. W = V
      BY <1>1, <2>1, <3>2
    <3> QED  BY <2>1, <3>3
  <2>3. CASE store.db[k] # NoRecord
    <3>1. /\ store'.db[k] # NoRecord /\ store'.db[k].ino = store.db[k].ino
          /\ store'.db[k].dir = store.db[k].dir
      BY <1>4, <2>1, <2>3 DEF Carries
    <3>2. V[k] # NoRecord /\ W[k] \in Inode /\ W[k].ino = V[k].ino /\ W[k].dir = V[k].dir
      BY <1>2, <1>3, <2>3, <3>1
    <3> QED  BY <2>1, <3>2
  <2> QED  BY <2>2, <2>3
<1>7. ASSUME NEW k \in Key, Made(k)  PROVE Step
  <2> DEFINE K == {k}
  <2>1. /\ Leaves(K) /\ maxIno' = maxIno + 1 /\ store.db[k] = NoRecord
        /\ store'.db[k] # NoRecord /\ store'.db[k].ino = maxIno'
    BY <1>7, RecordAssumption DEF Made
  <2>2. \A j \in Key \ K : W[j] = V[j]
    BY <1>5, <2>1
  <2>3. W = [V EXCEPT ![k] = W[k]]
    BY <1>1, <2>2, OneChange
  <2>4. V[k] = NoRecord /\ W[k] \in Inode /\ W[k].ino = maxIno'
    BY <1>2, <1>3, <2>1
  <2> QED  BY <2>1, <2>3, <2>4
<1>8. ASSUME NEW k \in Key, Removed(k)  PROVE Step
  <2> DEFINE K == {k}
  <2>1. Leaves(K) /\ maxIno' = maxIno /\ store.db[k] # NoRecord /\ store'.db[k] = NoRecord
    BY <1>8 DEF Removed
  <2>2. \A j \in Key \ K : W[j] = V[j]
    BY <1>5, <2>1
  <2>3. W = [V EXCEPT ![k] = W[k]]
    BY <1>1, <2>2, OneChange
  <2>4. V[k] # NoRecord /\ W[k] = NoRecord
    BY <1>2, <1>3, <2>1
  <2> QED  BY <2>1, <2>3, <2>4
<1>9. ASSUME NEW k \in Key, NEW j \in Key, Renamed(j, k)  PROVE Step
  <2> DEFINE K == {j, k}
             val == Shown(store, j)
  <2>1. /\ Leaves(K) /\ maxIno' = maxIno /\ OpenHandles' = OpenHandles
        /\ val \in Inode /\ Moved(store', Held, j, k, val) /\ j \notin OpenKeys /\ k \notin OpenKeys
    <3>1. TakenKeys \cup {j, k} = {j, k}
      BY <1>4
    <3> QED  BY <1>9, <3>1 DEF Renamed, MovedTo
  <2>2. j \notin OpenKeys' /\ k \notin OpenKeys'
    <3>1. \A h \in OpenHandles : KeyOf(store', h) = KeyOf(store, h)
      BY <2>1 DEF Leaves
    <3>2. OpenKeys' = {KeyOf(store', h) : h \in OpenHandles'}
      BY DEF OpenKeys
    <3> QED  BY <2>1, <3>1, <3>2 DEF OpenKeys
  <2>3. V[j] = val /\ V[j] # NoRecord
    BY <1>2, <2>1, ShownIsThere, RecordAssumption
  <2>4. \A x \in Key \ K : W[x] = V[x]
    BY <1>5, <2>1
  <2>5. CASE j # k
    <3>1. W[j] = NoRecord /\ W[k] = V[j]
      BY <1>3, <2>1, <2>2, <2>3, <2>5 DEF Moved
    <3>2. \A x \in Key : W[x] = IF x = k THEN V[j] ELSE IF x = j THEN NoRecord ELSE V[x]
      BY <2>4, <3>1
    <3>3. W = [V EXCEPT ![j] = NoRecord, ![k] = V[j]]
      BY <1>1, <3>2
    <3> QED  BY <2>1, <2>3, <2>5, <3>3
  <2>6. CASE j = k
    <3>1. W[j] = NoRecord \/ W[j] = V[j]
      BY <1>3, <2>1, <2>2, <2>3, <2>6 DEF Moved
    <3>2. W = [V EXCEPT ![j] = W[j]]
      BY <1>1, <2>4, <2>6, OneChange
    <3>3. CASE W[j] = NoRecord
      BY <2>1, <2>3, <3>2, <3>3
    <3>4. CASE W[j] = V[j]
      <4>1. W = V
        BY <1>1, <3>2, <3>4
      <4> QED  BY <2>1, <4>1
    <3> QED  BY <3>1, <3>3, <3>4
  <2> QED  BY <2>5, <2>6
<1>10. Step
  BY <1>6, <1>7, <1>8, <1>9 DEF OneEntry
<1> QED
  BY <1>10 DEF V, W, View, Tree!Next, Tree!vars, Tree!Create, Tree!Update, Tree!Remove, Tree!Move

\* The clients leave alone what is open, so the handlers implement the name
\* space, each in one step, whatever the inode cache pushes out.
THEOREM HandlersImplementNameSpace ==
  ASSUME Exclusive
  PROVE  Spec => ImplementsNameSpace
<1>1. Init => NothingTaken /\ OneHandle /\ Tree!Init
  <2> SUFFICES ASSUME Init  PROVE NothingTaken /\ OneHandle /\ Tree!Init
    OBVIOUS
  <2> DEFINE v == [ino |-> ROOT_INODE_ID, dir |-> TRUE, blob |-> FALSE, attr |-> InitAttr]
  <2>1. OpenHandles = {}
    BY DEF Init, OpenHandles, FileHandles, DirHandles
  <2>2. NothingTaken /\ OneHandle /\ OpenKeys = {}
    BY <2>1 DEF Init, NothingTaken, OneHandle, OpenKeys
  <2>3. v \in Inode /\ RootKey \in Key
    BY RecordAssumption, KeyAssumption DEF Inode, Ino, ROOT_INODE_ID, InitAttr, MetaKey
  <2> DEFINE b == [k \in Key |-> IF k = RootKey THEN v ELSE NoRecord]
  <2>4. store.db = b /\ maxIno = 0
    BY DEF Init, ROOT_INODE_ID
  <2>5. \A k \in Key : Current(k) = store.db[k]
    BY <2>2 DEF Current
  <2> HIDE DEF v
  <2>6. [k \in Key |-> Current(k)] = b
    BY <2>4, <2>5
  <2> QED  BY <2>2, <2>3, <2>4, <2>6 DEF Tree!Init
<1>2. IInv /\ IInv' /\ NothingTaken /\ OneHandle /\ [Next]_vars =>
        NothingTaken' /\ OneHandle' /\ [Tree!Next]_(Tree!vars)
  <2> SUFFICES ASSUME IInv, IInv', NothingTaken, OneHandle, [Next]_vars
               PROVE  NothingTaken' /\ OneHandle' /\ [Tree!Next]_(Tree!vars)
    OBVIOUS
  <2>1. OneEntry
    BY StepChangesOneEntry
  <2>2. NothingTaken' /\ OneHandle'
    BY <2>1, TakesNothing, OneHandleStays
  <2>3. Seen /\ Seen'
    BY <2>2, SeenLemma, SeenLater
  <2>4. [Tree!Next]_(Tree!vars)
    BY <2>1, <2>3, TreeStep
  <2> QED  BY <2>2, <2>4
<1> QED  BY <1>1, <1>2, Consistent, PTL DEF Spec, ImplementsNameSpace, Tree!Spec

--------------------------------------------------------------------------------
\* Opening and closing.

\* Opening what was not open shows what was there.
LEMMA OpenedIsSame ==
  ASSUME IInv, NothingTaken, Seen, Seen', NEW k \in Key, k \notin OpenKeys,
         Edits(TakenKeys \cup {k}), Opened(k)
  PROVE  View' = View
<1> DEFINE V == View
           W == View'
           K == TakenKeys \cup {k}
<1>1. TakenKeys = {}
  BY DEF NothingTaken, TakenKeys
<1>2. \A j \in Key \ K : W[j] = V[j]
  <2>1. Leaves(K)
    BY DEF Edits
  <2> HIDE DEF K
  <2> QED  BY <2>1, SeenElsewhere
<1>3. PICK h \in Handle : /\ OpenHandles' = OpenHandles \cup {h}
                          /\ KeyOf(store', h) = k /\ ValueOf(store', h) = Shown(store, k)
  BY DEF Opened
<1>4. W[k] = ValueOf(store', h)
  BY <1>3 DEF Seen
<1>5. V[k] = Shown(store, k)
  BY ShownIsThere DEF Seen
<1>6. \A j \in Key : W[j] = V[j]
  BY <1>1, <1>2, <1>3, <1>4, <1>5
<1>7. V = [j \in Key |-> V[j]] /\ W = [j \in Key |-> W[j]]
  BY DEF View
<1> HIDE DEF V, W
<1> QED  BY <1>6, <1>7 DEF V, W

\* Closing leaves in the table what was shown.
LEMMA ClosedIsSame ==
  ASSUME NothingTaken, OneHandle, OpenIsCached, Seen, Seen', NEW h,
         Edits(TakenKeys \cup {KeyOf(store, h)}), Closed(h)
  PROVE  View' = View
<1> DEFINE V == View
           W == View'
           k == KeyOf(store, h)
           K == TakenKeys \cup {k}
<1>1. TakenKeys = {}
  BY DEF NothingTaken, TakenKeys
<1>2. Leaves(K)
  BY DEF Edits
<1>3. \A j \in Key \ K : W[j] = V[j]
  <2> HIDE DEF K
  <2> QED  BY <1>2, SeenElsewhere
<1>4. h \in OpenHandles /\ k \in Key /\ V[k] = ValueOf(store, h)
  BY DEF Closed, Seen
<1> DEFINE old == ValueOf(store, h)
<1> HIDE DEF V, W, k, old
<1>5. ASSUME h \in OpenHandles'  PROVE W[k] = V[k]
  <2>1. KeyOf(store', h) = k /\ ValueOf(store', h) = old
    BY <1>2, <1>4, <1>5 DEF Leaves, Closed, k, old
  <2>2. W[KeyOf(store', h)] = ValueOf(store', h)
    BY <1>5 DEF Seen, W
  <2>3. W[k] = old
    BY <2>1, <2>2
  <2> QED  BY <1>4, <2>3 DEF old
<1>6. ASSUME h \notin OpenHandles'  PROVE W[k] = V[k]
  <2>1. \A x \in OpenHandles' : x \in OpenHandles /\ KeyOf(store', x) = KeyOf(store, x)
    BY <1>2 DEF Leaves, Closed
  <2>2. \A x \in OpenHandles' : KeyOf(store', x) # k
    BY <1>4, <1>6, <2>1 DEF OneHandle, k
  <2>3. k \notin OpenKeys'
    <3>1. OpenKeys' = {KeyOf(store', x) : x \in OpenHandles'}
      BY DEF OpenKeys
    <3> QED  BY <2>2, <3>1
  <2>4. W[k] = store'.db[k]
    BY <1>4, <2>3 DEF Seen, W
  <2>5. Mapped1(store, h)
    BY <1>4 DEF OpenIsCached, Mapped1
  <2>6. store'.db[k] = old
    BY <1>1, <2>5 DEF Closed, k, old
  <2> QED  BY <1>4, <2>4, <2>6 DEF old
<1>7. W[k] = V[k]
  BY <1>5, <1>6
<1>8. \A j \in Key : W[j] = V[j]
  BY <1>1, <1>3, <1>7
<1>9. V = [j \in Key |-> V[j]] /\ W = [j \in Key |-> W[j]]
  BY DEF View, V, W
<1> QED  BY <1>8, <1>9 DEF V, W

\* The files that are not open.
Unopened == {f \in Fh : files[f] = NoFile}

\* Read and Write open and close nothing.
LEMMA StillUnopened ==
  ASSUME IInv, NEW f \in Fh, files[f] # NoFile, NEW b, files' = [files EXCEPT ![f].fd = b]
  PROVE  Unopened' = Unopened
<1>1. files \in [Fh -> OpenFile] /\ files[f].h \in Handle
  BY DEF IInv, TypeOK, OpenOK
<1>2. files'[f].h = files[f].h /\ \A e \in Fh \ {f} : files'[e] = files[e]
  BY <1>1 DEF OpenFile
<1>3. NoFile.h = NoHandle
  BY DEF NoFile
<1>4. files'[f] # NoFile
  BY <1>1, <1>2, <1>3, NoHandleAssumption
<1>5. \A e \in Fh : files'[e] = NoFile <=> files[e] = NoFile
  BY <1>2, <1>4
<1> QED  BY <1>5 DEF Unopened

\* Only these open or close.
LEMMA OpenCloseStep ==
  ASSUME Exclusive, IInv, NothingTaken, OneHandle, OpenIsCached, Seen, Seen', [Next]_vars,
         <<Unopened, dirs>>' # <<Unopened, dirs>>
  PROVE  View' = View
<1>1. ~(files' = files /\ dirs' = dirs)
  BY DEF Unopened
<1>2. Handlers /\ UNCHANGED client
  BY <1>1 DEF Next, vars
<1>3. client \in Client
  BY ClientAssumption DEF IInv, TypeOK
<1>4. client.path \subseteq Seq(Name) /\ client.fh \subseteq Fh
  BY <1>3 DEF Client
<1>5. \A p : ~( GetAttr(p) \/ Readlink(p) \/ Unlink(p) \/ RemoveDir(p) \/ MakeNode(p) \/ Symlink(p)
              \/ MakeDir(p) )
  BY <1>1 DEF GetAttr, Readlink, Unlink, RemoveDir, MakeNode, Symlink, MakeDir, PutNewInode
<1>6. /\ \A p, large, a, fails : ~Truncate(p, large, a, fails)
      /\ \A p, a : ~SetAttr(p, a)
      /\ \A p, q : ~Rename(p, q)
  BY <1>1 DEF Truncate, SetAttr, Rename
<1>7. ASSUME NEW f \in Fh, Read(f)  PROVE FALSE
  BY <1>7, StillUnopened DEF Read
<1>8. ASSUME NEW f \in Fh, NEW large, NEW a, NEW fails, Write(f, large, a, fails)  PROVE FALSE
  <2> DEFINE inode == ValueOf(store, files[f].h)
             b == ~fails /\ (files[f].fd \/ inode.blob \/ large)
  <2>1. files[f] # NoFile /\ dirs' = dirs
    BY <1>8 DEF Write
  <2>2. files' = [files EXCEPT ![f].fd = b]
    BY <1>8 DEF Write
  <2> HIDE DEF b
  <2> QED  BY <2>1, <2>2, StillUnopened
<1>9. ASSUME NEW p \in client.path, IsFile(p), NEW w \in BOOLEAN, NEW fails, Open(p, w, fails)
      PROVE  View' = View
  <2> DEFINE k == PathLookup(dentry, p).key
  <2>1. /\ k \in Key
        /\ \/ Edits(TakenKeys \cup {k}) /\ Opened(k)
           \/ Edits(TakenKeys) /\ OpenHandles' = OpenHandles /\ files' = files
    BY <1>2, <1>4, <1>9, OpenKeeps
  <2>2. k \notin OpenKeys /\ dirs' = dirs
    BY <1>9 DEF Open, Free
  <2> HIDE DEF k
  <2> QED  BY <1>1, <2>1, <2>2, OpenedIsSame
<1>10. ASSUME NEW p \in client.path, IsDir(p), OpenDir(p)  PROVE View' = View
  <2> DEFINE k == PathLookup(dentry, p).key
  <2>1. k \in Key /\ Edits(TakenKeys \cup {k}) /\ Opened(k)
    BY <1>2, <1>4, <1>10, OpenDirKeeps
  <2>2. k \notin OpenKeys
    BY <1>10 DEF OpenDir, Free
  <2> HIDE DEF k
  <2> QED  BY <2>1, <2>2, OpenedIsSame
<1>11. ASSUME NEW f \in Fh, CloseFile(f)  PROVE View' = View
  BY <1>2, <1>11, CloseFileKeeps, ClosedIsSame
<1>12. ASSUME NEW d \in Dh, ReleaseDir(d)  PROVE View' = View
  BY <1>2, <1>12, ReleaseDirKeeps, ClosedIsSame
<1> QED
  BY <1>2, <1>4, <1>5, <1>6, <1>7, <1>8, <1>9, <1>10, <1>11, <1>12 DEF Handlers

\* If the clients leave alone what is open and the inode cache does not push it
\* out, opening and closing change nothing that a client can see, and a close
\* loses nothing that was written.
THEOREM OpeningKeepsTree ==
  ASSUME Exclusive
  PROVE  Spec /\ []OpenIsCached => OpenCloseKeepTree
<1>1. Init => NothingTaken /\ OneHandle
  <2>1. Init => OpenHandles = {}
    BY DEF Init, OpenHandles, FileHandles, DirHandles
  <2> QED  BY <2>1 DEF Init, NothingTaken, OneHandle
<1>2. IInv /\ NothingTaken /\ OneHandle /\ [Next]_vars => NothingTaken' /\ OneHandle'
  BY StepChangesOneEntry, TakesNothing, OneHandleStays
<1>3. IInv /\ IInv' /\ NothingTaken /\ NothingTaken' /\ OneHandle /\ OneHandle' /\ OpenIsCached
        /\ [Next]_vars
        => [<<{f \in Fh : files[f] = NoFile}, dirs>>' # <<{f \in Fh : files[f] = NoFile}, dirs>>
              => \A k \in Key : Current(k)' = Current(k)]_vars
  <2> SUFFICES ASSUME IInv, IInv', NothingTaken, NothingTaken', OneHandle, OneHandle', OpenIsCached,
                      [Next]_vars, <<Unopened, dirs>>' # <<Unopened, dirs>>
               PROVE  \A k \in Key : Current(k)' = Current(k)
    BY DEF Unopened
  <2>1. Seen /\ Seen'
    BY SeenLemma, SeenLater
  <2>2. View' = View
    BY <2>1, OpenCloseStep
  <2> QED  BY <2>2 DEF View
<1> QED  BY <1>1, <1>2, <1>3, Consistent, PTL DEF Spec, OpenCloseKeepTree

--------------------------------------------------------------------------------
\* The data files.

\* No two keys show inodes of the same number.
LEMMA ShownApart ==
  ASSUME IInv, NothingTaken, Seen, NEW j \in Key, NEW k \in Key,
         View[j] # NoRecord, View[k] # NoRecord, View[j].ino = View[k].ino
  PROVE  j = k
<1>1. /\ store.db[j] # NoRecord /\ View[j].ino = store.db[j].ino
      /\ store.db[k] # NoRecord /\ View[k].ino = store.db[k].ino
  BY DEF Seen
<1> DEFINE a == <<j, store.db[j].ino>>
           b == <<k, store.db[k].ino>>
<1>2. a \in Holds(store) /\ b \in Holds(store)
  BY <1>1 DEF Holds
<1>3. a[1] = j /\ b[1] = k /\ a[2] = b[2]
  BY <1>1
<1>4. OwnedOK(Holds(store), TakenInos) /\ TakenInos = {}
  BY DEF IInv, NamesInv, NothingTaken, TakenInos
<1> HIDE DEF a, b
<1> QED  BY <1>2, <1>3, <1>4 DEF OwnedOK

\* What BlobBacked says of the inodes V and the data files D.
Backs(V, D) == \A k \in Key : V[k] # NoRecord /\ V[k].blob => V[k].ino \in D

\* It is what a client can see.
LEMMA BacksLemma == (BlobBacked <=> Backs(View, disk))
BY DEF BlobBacked, Backs, View

\* A step that changes one inode, and removes no data file but its own.
LEMMA BackedStays ==
  ASSUME IInv, NothingTaken, Seen, Backs(View, disk), NEW k \in Key,
         \A j \in Key \ {k} : View'[j] = View[j],
         disk \subseteq disk' \/ (View[k] # NoRecord /\ disk \ {View[k].ino} \subseteq disk'),
         View'[k] # NoRecord /\ View'[k].blob => View'[k].ino \in disk'
  PROVE  Backs(View, disk)'
<1> DEFINE V == View
           W == View'
<1>1. \A j \in Key \ {k} : V[j] # NoRecord /\ V[k] # NoRecord => V[j].ino # V[k].ino
  BY ShownApart
<1>2. \A j \in Key : V[j] # NoRecord /\ V[j].blob => V[j].ino \in disk
  BY DEF Backs
<1>3. /\ \A j \in Key \ {k} : W[j] = V[j]
      /\ disk \subseteq disk' \/ (V[k] # NoRecord /\ disk \ {V[k].ino} \subseteq disk')
      /\ W[k] # NoRecord /\ W[k].blob => W[k].ino \in disk'
  OBVIOUS
<1> HIDE DEF V, W
<1>4. \A j \in Key : W[j] # NoRecord /\ W[j].blob => W[j].ino \in disk'
  BY <1>1, <1>2, <1>3
<1> QED  BY <1>4 DEF Backs, W

\* A step that changes no inode, and removes no data file.
LEMMA BackedSame ==
  ASSUME Backs(View, disk), View' = View, disk \subseteq disk'
  PROVE  Backs(View, disk)'
BY DEF Backs

\* A handler that only looks changes nothing that a client can see.
LEMMA LookedIsSame ==
  ASSUME NothingTaken, Seen, Seen', Edits(TakenKeys)
  PROVE  View' = View
<1> DEFINE V == View
           W == View'
<1>1. TakenKeys = {}
  BY DEF NothingTaken, TakenKeys
<1>2. \A j \in Key \ TakenKeys : W[j] = V[j]
  BY SeenElsewhere DEF Edits
<1>3. V = [j \in Key |-> V[j]] /\ W = [j \in Key |-> W[j]]
  BY DEF View
<1> HIDE DEF V, W
<1>4. \A j \in Key : W[j] = V[j]
  BY <1>1, <1>2
<1> QED  BY <1>3, <1>4 DEF V, W

\* What a handler stays within is all that it changes of what a client can see.
LEMMA EditsKeepOthers ==
  ASSUME NothingTaken, Seen, Seen', NEW k, Edits(TakenKeys \cup {k})
  PROVE  \A j \in Key \ {k} : View'[j] = View[j]
<1> DEFINE K == TakenKeys \cup {k}
<1>1. K = {k}
  BY DEF NothingTaken, TakenKeys
<1>2. Leaves(K)
  BY DEF Edits
<1> HIDE DEF K
<1>3. \A j \in Key \ K : View'[j] = View[j]
  BY <1>2, SeenElsewhere
<1> QED  BY <1>1, <1>3

\* A client sees what SetAttr and Truncate write, in the table or in the cache.
LEMMA WrittenIsSeen ==
  ASSUME NothingTaken, OpenIsCached, Seen, Seen', NEW k \in Key, NEW val,
         Edits(TakenKeys \cup {k}), OpenHandles' = OpenHandles, Writes(k, val)
  PROVE  View'[k] = val
<1> DEFINE W == View'
           Q == OpenHandles'
<1>1. \A h \in Q : W[KeyOf(store', h)] = ValueOf(store', h)
  BY DEF Seen
<1>2. k \notin OpenKeys' => W[k] = store'.db[k]
  BY DEF Seen
<1>3. \A h \in OpenHandles : h \in Q /\ KeyOf(store', h) = KeyOf(store, h)
  BY DEF Edits, Leaves
<1>4. OpenKeys = {KeyOf(store, h) : h \in OpenHandles} /\ OpenKeys' = {KeyOf(store', h) : h \in Q}
  BY DEF OpenKeys
<1>5. Q = OpenHandles
  OBVIOUS
<1> HIDE DEF W, Q
<1>6. ASSUME NEW h \in OpenHandles, KeyOf(store, h) = k  PROVE W[k] = val
  <2>1. k \in DOMAIN store.cache.table /\ store.cache.table[k] = h
    BY <1>6 DEF OpenIsCached
  <2>2. ValueOf(store', h) = val
    BY <1>6, <2>1 DEF Writes
  <2> QED  BY <1>1, <1>3, <1>6, <2>2
<1>7. ASSUME k \notin OpenKeys  PROVE W[k] = val
  <2>1. k \notin OpenKeys'
    BY <1>3, <1>4, <1>5, <1>7
  <2>2. store'.db[k] = val
    BY DEF Writes, NothingTaken, TakenKeys
  <2> QED  BY <1>2, <2>1, <2>2
<1>8. W[k] = val
  BY <1>4, <1>6, <1>7
<1> QED  BY <1>8 DEF W

\* Where an entry goes it shows what it showed, and data files stay where they are.
LEMMA BackedMove ==
  ASSUME IInv, NothingTaken, Seen, Seen', Backs(View, disk), disk' = disk,
         NEW j \in Key, NEW k \in Key, Renamed(j, k)
  PROVE  Backs(View, disk)'
<1> DEFINE V == View
           W == View'
           K == {j, k}
           val == Shown(store, j)
<1>1. /\ Leaves(K) /\ OpenHandles' = OpenHandles
      /\ val \in Inode /\ Moved(store', Held, j, k, val) /\ j \notin OpenKeys /\ k \notin OpenKeys
  <2>1. TakenKeys \cup {j, k} = {j, k}
    BY DEF NothingTaken, TakenKeys
  <2> QED  BY <2>1 DEF Renamed, MovedTo
<1>2. j \notin OpenKeys' /\ k \notin OpenKeys'
  <2>1. \A h \in OpenHandles : KeyOf(store', h) = KeyOf(store, h)
    BY <1>1 DEF Leaves
  <2>2. OpenKeys' = {KeyOf(store', h) : h \in OpenHandles'}
    BY DEF OpenKeys
  <2> QED  BY <1>1, <2>1, <2>2 DEF OpenKeys
<1>3. W[j] = store'.db[j] /\ W[k] = store'.db[k]
  BY <1>2 DEF Seen
<1>4. V[j] = val
  BY <1>1, ShownIsThere DEF Seen
<1>5. \A x \in Key \ K : W[x] = V[x]
  <2> HIDE DEF K
  <2> QED  BY <1>1, SeenElsewhere
<1>6. \A x \in K : W[x] = NoRecord \/ W[x] = V[j]
  BY <1>1, <1>3, <1>4 DEF Moved
<1>7. \A x \in Key : V[x] # NoRecord /\ V[x].blob => V[x].ino \in disk
  BY DEF Backs
<1> HIDE DEF V, W, K
<1>8. \A x \in Key : W[x] # NoRecord /\ W[x].blob => W[x].ino \in disk'
  BY <1>5, <1>6, <1>7
<1> QED  BY <1>8 DEF Backs, W

\* Every step keeps the data files that the inodes need.
LEMMA BackedStep ==
  ASSUME Exclusive, "Truncate" \notin Failing, IInv, NothingTaken, OneHandle, OpenIsCached,
         Seen, Seen', [Next]_vars, Backs(View, disk)
  PROVE  Backs(View, disk)'
<1>1. CASE UNCHANGED vars
  <2>1. store' = store /\ OpenHandles' = OpenHandles /\ disk' = disk
    BY <1>1 DEF vars, OpenHandles, FileHandles, DirHandles
  <2>2. View' = View
    BY <2>1 DEF View, Current, OpenKeys
  <2> QED  BY <2>1, <2>2, BackedSame
<1>2. CASE Handlers /\ UNCHANGED client
  <2>1. client \in Client
    BY ClientAssumption DEF IInv, TypeOK
  <2>2. /\ client.path \subseteq Seq(Name) /\ client.fh \subseteq Fh /\ client.attr \subseteq Attr
        /\ client.large \subseteq BOOLEAN
    BY <2>1 DEF Client
  <2> DEFINE here == {p \in client.path : Reachable(p)}
             file == {p \in here : IsFile(p)}
             dir == {p \in here : IsDir(p)}
             none == here \ (file \cup dir)
  <2>3. /\ \A p \in here : p \in Seq(Name)
        /\ \A p \in file : p \in Seq(Name) /\ IsFile(p) /\ Exists(p)
        /\ \A p \in dir : p \in Seq(Name) /\ IsDir(p) /\ Exists(p)
        /\ \A p \in none : p \in Seq(Name) /\ ~Exists(p)
    BY <2>2 DEF IsFile, IsDir
  <2>4. Outcomes("Write") \subseteq BOOLEAN /\ Outcomes("Truncate") = {FALSE}
    BY DEF Outcomes
  <2>5. ASSUME Edits(TakenKeys), disk \subseteq disk'  PROVE Backs(View, disk)'
    BY <2>5, LookedIsSame, BackedSame
  <2>6. ASSUME NEW p \in Seq(Name), Exists(p)
        PROVE  LET k == PathLookup(dentry, p).key
               IN  /\ k \in Key /\ Visible(p) = View[k] /\ View[k] = Shown(store, k)
                   /\ View[k] # NoRecord /\ View[k] \in Inode
    <3> DEFINE r == PathLookup(dentry, p)
               k == r.key
    <3>1. k \in Key /\ Visible(p) = Shown(store, k) /\ Shown(store, k) # NoRecord
      BY <2>6, ResolvedLemma DEF Resolved, Exists
    <3> HIDE DEF r
    <3>2. View[k] = Shown(store, k)
      BY <3>1, CurrentIsShown DEF View
    <3>3. View[k] \in Inode
      BY <3>1, <3>2 DEF Seen
    <3> QED  BY <3>1, <3>2, <3>3 DEF r
  <2>7. ASSUME NEW p \in here, GetAttr(p)  PROVE Backs(View, disk)'
    BY <1>2, <2>3, <2>5, <2>7, GetAttrKeeps DEF GetAttr
  <2>8. ASSUME NEW p \in file, Readlink(p)  PROVE Backs(View, disk)'
    BY <1>2, <2>3, <2>5, <2>8, ReadlinkKeeps DEF Readlink
  <2>9. ASSUME NEW f \in client.fh, Read(f)  PROVE Backs(View, disk)'
    BY <1>2, <2>2, <2>5, <2>9, ReadKeeps DEF Read
  <2>10. ASSUME NEW p \in Seq(Name), Exists(p), p # <<>>,
                NEW r, r = PathLookup(dentry, p), Free(r.key),
                dentry' = DentryEvict(r.dentry, r.key), WithHandle(r.key, INODE_DELETE, DropEntry),
                taken' = taken \cup Taken({r.key}), UNCHANGED <<files, dirs, maxIno>>,
                disk \subseteq disk' \/ disk \ {Visible(p).ino} \subseteq disk'
         PROVE  Backs(View, disk)'
    <3> DEFINE k == r.key
    <3>1. /\ k \in Key /\ Leaves(TakenKeys \cup {k})
          /\ k \notin OpenKeys => store'.db[k] = NoRecord
      BY <1>2, <2>10, RemoveKeeps
    <3>2. k \notin OpenKeys
      BY <2>10 DEF Free
    <3>3. View'[k] = NoRecord
      BY <3>1, <3>2 DEF Seen
    <3>4. View[k] # NoRecord /\ Visible(p) = View[k]
      BY <2>6, <2>10
    <3> DEFINE K == TakenKeys \cup {k}
    <3>5. K = {k}
      BY DEF NothingTaken, TakenKeys
    <3> HIDE DEF K
    <3>6. \A j \in Key \ K : View'[j] = View[j]
      BY <3>1, SeenElsewhere DEF K
    <3>7. \A j \in Key \ {k} : View'[j] = View[j]
      BY <3>5, <3>6
    <3> HIDE DEF k
    <3> QED  BY <2>10, <3>1, <3>3, <3>4, <3>7, BackedStays
  <2>11. ASSUME NEW p \in file, Unlink(p)  PROVE Backs(View, disk)'
    <3>1. p \in Seq(Name) /\ Exists(p) /\ p # <<>>
      BY <2>3, RootIsDir DEF IsFile
    <3> DEFINE r == PathLookup(dentry, p)
    <3>2. /\ Free(r.key) /\ dentry' = DentryEvict(r.dentry, r.key)
          /\ WithHandle(r.key, INODE_DELETE, DropEntry)
          /\ taken' = taken \cup Taken({r.key}) /\ UNCHANGED <<files, dirs, maxIno>>
          /\ disk \subseteq disk' \/ disk \ {Visible(p).ino} \subseteq disk'
      BY <2>11 DEF Unlink
    <3> QED  BY <2>10, <3>1, <3>2
  <2>12. ASSUME NEW p \in dir, RemoveDir(p)  PROVE Backs(View, disk)'
    <3>1. p \in Seq(Name) /\ Exists(p) /\ p # <<>>
      BY <2>3, <2>12 DEF RemoveDir
    <3> DEFINE r == PathLookup(dentry, p)
    <3>2. /\ Free(r.key) /\ dentry' = DentryEvict(r.dentry, r.key)
          /\ WithHandle(r.key, INODE_DELETE, DropEntry)
          /\ taken' = taken \cup Taken({r.key}) /\ UNCHANGED <<files, dirs, maxIno>>
          /\ disk \subseteq disk'
      BY <2>12 DEF RemoveDir
    <3> QED  BY <2>10, <3>1, <3>2
  <2>13. ASSUME NEW p \in file, NEW w \in BOOLEAN, NEW fails \in Outcomes("Open"), Open(p, w, fails)
         PROVE  Backs(View, disk)'
    <3> DEFINE k == PathLookup(dentry, p).key
    <3>1. /\ k \in Key
          /\ \/ Edits(TakenKeys \cup {k}) /\ Opened(k)
             \/ Edits(TakenKeys)
      BY <1>2, <2>3, <2>13, OpenKeeps
    <3>2. k \notin OpenKeys /\ disk \subseteq disk'
      BY <2>13 DEF Open, Free
    <3> HIDE DEF k
    <3> QED  BY <2>5, <3>1, <3>2, OpenedIsSame, BackedSame
  <2>14. ASSUME NEW p \in dir, OpenDir(p)  PROVE Backs(View, disk)'
    <3> DEFINE k == PathLookup(dentry, p).key
    <3>1. k \in Key /\ Edits(TakenKeys \cup {k}) /\ Opened(k)
      BY <1>2, <2>3, <2>14, OpenDirKeeps
    <3>2. k \notin OpenKeys /\ disk' = disk
      BY <2>14 DEF OpenDir, Free
    <3> HIDE DEF k
    <3> QED  BY <3>1, <3>2, OpenedIsSame, BackedSame
  <2>15. ASSUME NEW p \in file, NEW large \in client.large, NEW a \in client.attr,
                NEW fails \in Outcomes("Truncate"), Truncate(p, large, a, fails)
         PROVE  Backs(View, disk)'
    <3> DEFINE k == PathLookup(dentry, p).key
               val == [View[k] EXCEPT !.blob = large, !.attr = a]
    <3>1. /\ k \in Key /\ Visible(p) = View[k] /\ View[k] = Shown(store, k)
          /\ View[k] # NoRecord /\ View[k] \in Inode
      BY <2>3, <2>6
    <3>2. /\ Edits(TakenKeys \cup {k}) /\ OpenHandles' = OpenHandles
          /\ Shown(store, k) # NoRecord => Writes(k, [Shown(store, k) EXCEPT !.blob = large, !.attr = a])
      BY <1>2, <2>2, <2>3, <2>15, TruncateKeeps
    <3>3. fails = FALSE /\ large \in BOOLEAN
      BY <2>2, <2>4
    <3>4. disk' = CASE Visible(p).blob /\ ~large -> disk \ {Visible(p).ino}
                    [] ~Visible(p).blob /\ large /\ ~fails -> disk \cup {Visible(p).ino}
                    [] OTHER -> disk
      BY <2>15 DEF Truncate
    <3> HIDE DEF k
    <3>5. Writes(k, val)
      BY <3>1, <3>2
    <3>6. val.blob = large /\ val.ino = View[k].ino
      BY <3>1 DEF Inode
    <3> HIDE DEF val
    <3>7. View'[k] = val
      BY <3>1, <3>2, <3>5, WrittenIsSeen
    <3>8. \A j \in Key \ {k} : View'[j] = View[j]
      BY <3>2, EditsKeepOthers
    <3>9. View[k].blob => View[k].ino \in disk
      BY <3>1 DEF Backs
    <3> DEFINE v == View[k]
    <3>10. disk \subseteq disk' \/ disk \ {v.ino} \subseteq disk'
      BY <3>1, <3>4
    <3>11. large => v.ino \in disk'
      <4>1. v.blob \in BOOLEAN
        BY <3>1 DEF Inode
      <4>2. ASSUME large, v.blob  PROVE v.ino \in disk'
        BY <3>1, <3>4, <3>9, <4>2
      <4>3. ASSUME large, ~v.blob  PROVE v.ino \in disk'
        BY <3>1, <3>3, <3>4, <4>3
      <4> QED  BY <4>2, <4>3
    <3> QED  BY <3>1, <3>6, <3>7, <3>8, <3>10, <3>11, BackedStays
  <2>16. ASSUME NEW p \in file \cup dir, NEW a \in client.attr, SetAttr(p, a)  PROVE Backs(View, disk)'
    <3> DEFINE k == PathLookup(dentry, p).key
               val == [View[k] EXCEPT !.attr = a]
    <3>1. k \in Key /\ View[k] = Shown(store, k) /\ View[k] # NoRecord /\ View[k] \in Inode
      BY <2>3, <2>6
    <3>2. /\ Edits(TakenKeys \cup {k}) /\ OpenHandles' = OpenHandles
          /\ Shown(store, k) # NoRecord => Writes(k, [Shown(store, k) EXCEPT !.attr = a])
      BY <1>2, <2>2, <2>3, <2>16, SetAttrKeeps
    <3>3. disk' = disk
      BY <2>16 DEF SetAttr
    <3> HIDE DEF k
    <3>4. Writes(k, val)
      BY <3>1, <3>2
    <3>5. val.blob = View[k].blob /\ val.ino = View[k].ino
      BY <3>1 DEF Inode
    <3> HIDE DEF val
    <3>6. View'[k] = val
      BY <3>1, <3>2, <3>4, WrittenIsSeen
    <3>7. \A j \in Key \ {k} : View'[j] = View[j]
      BY <3>2, EditsKeepOthers
    <3>8. View[k].blob => View[k].ino \in disk
      BY <3>1 DEF Backs
    <3> QED  BY <3>1, <3>3, <3>5, <3>6, <3>7, <3>8, BackedStays
  <2>17. ASSUME NEW p \in none, MakeNode(p) \/ Symlink(p) \/ MakeDir(p)  PROVE Backs(View, disk)'
    <3>1. PICK b \in BOOLEAN : PutNewInode(p, b)
      BY <2>17 DEF MakeNode, Symlink, MakeDir
    <3> DEFINE k == PathLookup(dentry, p).key
    <3>2. k \in Key /\ (Edits(TakenKeys) \/ Made(k)) /\ disk' = disk
      BY <1>2, <2>3, <3>1, PutNewInodeKeeps DEF PutNewInode
    <3> HIDE DEF k
    <3>3. ASSUME Made(k)  PROVE Backs(View, disk)'
      <4>1. /\ Leaves({k}) /\ OpenHandles' = OpenHandles /\ store.db[k] = NoRecord
            /\ ~store'.db[k].blob
        BY <3>3 DEF Made
      <4>2. k \notin OpenKeys
        BY <4>1 DEF Seen, OpenKeys
      <4>3. k \notin OpenKeys'
        <5>1. \A h \in OpenHandles : KeyOf(store', h) = KeyOf(store, h)
          BY <4>1 DEF Leaves
        <5>2. OpenKeys' = {KeyOf(store', h) : h \in OpenHandles'}
          BY DEF OpenKeys
        <5> QED  BY <4>1, <4>2, <5>1, <5>2 DEF OpenKeys
      <4>4. ~View'[k].blob
        BY <3>2, <4>1, <4>3 DEF Seen
      <4> DEFINE K == {k}
      <4>5. Leaves(K)
        BY <4>1
      <4> HIDE DEF K
      <4>6. \A j \in Key \ K : View'[j] = View[j]
        BY <4>5, SeenElsewhere
      <4>7. \A j \in Key \ {k} : View'[j] = View[j]
        BY <4>6 DEF K
      <4> QED  BY <3>2, <4>4, <4>7, BackedStays
    <3> QED  BY <2>5, <3>2, <3>3
  <2>18. ASSUME NEW p \in file \cup dir, NEW q \in here, Rename(p, q)  PROVE Backs(View, disk)'
    <3> DEFINE u == PathLookup(dentry, p)
               v == PathLookup(u.dentry, q)
    <3>1. u.key \in Key /\ v.key \in Key /\ (Edits(TakenKeys) \/ MovedTo(u.key, v.key))
      BY <1>2, <2>3, <2>18, RenameKeeps
    <3>2. u.key \notin OpenKeys /\ v.key \notin OpenKeys /\ maxIno' = maxIno /\ disk' = disk
      BY <2>18 DEF Rename, Free
    <3> HIDE DEF u, v
    <3>3. MovedTo(u.key, v.key) => Renamed(u.key, v.key)
      BY <3>2 DEF Renamed
    <3> QED  BY <2>5, <3>1, <3>2, <3>3, BackedMove
  <2>19. ASSUME NEW f \in client.fh, CloseFile(f)  PROVE Backs(View, disk)'
    <3>1. disk' = disk
      BY <2>19 DEF CloseFile
    <3>2. View' = View
      BY <1>2, <2>2, <2>19, CloseFileKeeps, ClosedIsSame
    <3> QED  BY <3>1, <3>2, BackedSame
  <2>20. ASSUME NEW d \in Dh, ReleaseDir(d)  PROVE Backs(View, disk)'
    <3>1. disk' = disk
      BY <2>20 DEF ReleaseDir
    <3>2. View' = View
      BY <1>2, <2>20, ReleaseDirKeeps, ClosedIsSame
    <3> QED  BY <3>1, <3>2, BackedSame
  <2>21. ASSUME NEW f \in client.fh, NEW large \in client.large, NEW a \in client.attr,
                NEW fails \in Outcomes("Write"), Write(f, large, a, fails)
         PROVE  Backs(View, disk)'
    <3> DEFINE h == files[f].h
               k == KeyOf(store, h)
               val == IF fails THEN View[k] ELSE [View[k] EXCEPT !.blob = View[k].blob \/ large, !.attr = a]
    <3>1. f \in Fh /\ large \in BOOLEAN /\ a \in Attr /\ fails \in BOOLEAN
      BY <2>2, <2>4
    <3>2. /\ Edits(TakenKeys \cup {k}) /\ OpenHandles' = OpenHandles
          /\ Wrote(h, fails, large, a)
      BY <1>2, <2>21, <3>1, WriteKeeps
    <3>3. h \in OpenHandles
      <4>1. files[f] # NoFile
        BY <2>21 DEF Write
      <4> QED  BY <3>1, <4>1, HeldLemma DEF HeldFacts
    <3>4. k \in Key /\ View[k] = ValueOf(store, h) /\ View[k] # NoRecord /\ View[k] \in Inode
      BY <3>3 DEF Seen
    <3> DEFINE opens == (View[k].blob \/ large) /\ ~(View[k].blob /\ files[f].fd)
    <3>5. disk' = IF opens /\ ~fails THEN disk \cup {View[k].ino} ELSE disk
      BY <2>21, <3>4 DEF Write
    <3>6. View'[k] = val
      <4>1. KeyOf(store', h) = k /\ h \in OpenHandles'
        BY <3>2, <3>3 DEF Edits, Leaves
      <4>2. View'[KeyOf(store', h)] = ValueOf(store', h)
        BY <4>1 DEF Seen
      <4> QED  BY <3>2, <3>4, <4>1, <4>2 DEF Wrote
    <3> HIDE DEF h, k
    <3>7. \A j \in Key \ {k} : View'[j] = View[j]
      BY <3>2, EditsKeepOthers
    <3>8. View[k].blob => View[k].ino \in disk
      BY <3>4 DEF Backs
    <3>9. /\ val.ino = View[k].ino
          /\ val.blob => View[k].blob \/ (large /\ ~fails)
      BY <3>1, <3>4 DEF Inode
    <3> HIDE DEF val
    <3>10. val.blob => val.ino \in disk'
      BY <3>5, <3>8, <3>9
    <3> QED  BY <3>4, <3>5, <3>6, <3>7, <3>10, BackedStays
  <2>22. Handlers
    BY <1>2
  <2> QED
    BY <2>7, <2>8, <2>9, <2>11, <2>12, <2>13, <2>14, <2>15, <2>16, <2>17, <2>18, <2>19, <2>20,
       <2>21, <2>22 DEF Handlers
<1> QED  BY <1>1, <1>2 DEF Next

\* If the clients leave alone what is open, the inode cache does not push it out
\* and Truncate can always make its data file, an inode that says its data is in
\* a data file has that file, whether or not Open and Write find theirs.
THEOREM DataFilesStay ==
  ASSUME Exclusive, "Truncate" \notin Failing
  PROVE  Spec /\ []OpenIsCached => []BlobBacked
<1>1. Init => NothingTaken /\ OneHandle /\ Backs(View, disk)
  <2> SUFFICES ASSUME Init  PROVE NothingTaken /\ OneHandle /\ Backs(View, disk)
    OBVIOUS
  <2>1. OpenHandles = {}
    BY DEF Init, OpenHandles, FileHandles, DirHandles
  <2>2. NothingTaken /\ OneHandle /\ OpenKeys = {}
    BY <2>1 DEF Init, NothingTaken, OneHandle, OpenKeys
  <2>3. \A k \in Key : View[k] = store.db[k]
    BY <2>2 DEF View, Current
  <2>4. \A k \in Key : store.db[k] # NoRecord => ~store.db[k].blob
    BY DEF Init
  <2>5. Backs(View, disk)
    BY <2>3, <2>4 DEF Backs
  <2> QED  BY <2>2, <2>5
<1>2. IInv /\ IInv' /\ NothingTaken /\ OneHandle /\ Backs(View, disk) /\ OpenIsCached /\ [Next]_vars
        => NothingTaken' /\ OneHandle' /\ Backs(View, disk)'
  <2> SUFFICES ASSUME IInv, IInv', NothingTaken, OneHandle, Backs(View, disk), OpenIsCached, [Next]_vars
               PROVE  NothingTaken' /\ OneHandle' /\ Backs(View, disk)'
    OBVIOUS
  <2>1. NothingTaken' /\ OneHandle'
    BY StepChangesOneEntry, TakesNothing, OneHandleStays
  <2>2. Seen /\ Seen'
    BY <2>1, SeenLemma, SeenLater
  <2> QED  BY <2>1, <2>2, BackedStep
<1> QED  BY <1>1, <1>2, BacksLemma, Consistent, PTL DEF Spec
================================================================================
