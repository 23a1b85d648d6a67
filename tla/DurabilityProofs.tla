-------------------------- MODULE DurabilityProofs --------------------------
(***************************************************************************)
(* What is proved of Durability.tla, for any bounds on the writes, the     *)
(* files and the crashes: acknowledged writes survive (Durable), a         *)
(* database can be opened again (Recoverable), no table is deleted that is *)
(* still needed (TablesExist), and the counters never hand out a number    *)
(* twice (FreshNumbers).                                                   *)
(*                                                                         *)
(* The argument is about the directory first.  A crash may cut a MANIFEST  *)
(* back to any prefix that holds its synced records, or leave a torn       *)
(* record that Open does not get past, so the invariant speaks of every    *)
(* version that some such prefix describes (Versions): each of them, with  *)
(* the logs that it does not declare to be old, must hold all the writes   *)
(* that were promised (VersionOK, ManifestOK, DiskOK).                     *)
(* A step of the code that touches a file then keeps the invariant for one *)
(* of three reasons: what the versions rely on stays (DiskStays), a new    *)
(* version relies on what is there already (ManifestGrows, DiskSynced), or *)
(* what goes away is named by no version (DiskShrinks).  The other parts   *)
(* say what the process knows of the directory in each phase of opening,   *)
(* repairing and running a database (RepairOK ... OpenOK).  That the       *)
(* MANIFEST is then found whole needs one more fact, that what CURRENT     *)
(* names has been synced (Settles).                                        *)
(***************************************************************************)
EXTENDS Durability, FiniteSetTheorems, NaturalsInduction, WellFoundedInduction, TLAPS

--------------------------------------------------------------------------------
(* Numbers and finite sets. *)

\* A set of natural numbers has a least element.
LEMMA LeastElement ==
  ASSUME NEW T \in SUBSET Nat, T # {}
  PROVE  \E x \in T : \A y \in T : x <= y
<1> DEFINE L == OpToRel(<, Nat)
<1>1. IsWellFoundedOn(L, Nat)
  BY NatLessThanWellFounded
<1>2. \A a, b \in Nat : a < b => <<a, b>> \in L
  BY DEF OpToRel
<1> HIDE DEF L
<1>3. PICK x \in T : \A y \in T : ~ (<<y, x>> \in L)
  BY <1>1, WFMin
<1>4. \A y \in T : ~ (y < x)
  BY <1>2, <1>3
<1> QED  BY <1>4

\* A set that holds 0 and, with each n, also n + 1, is all of Nat.
LEMMA Induction ==
  ASSUME NEW T \in SUBSET Nat, 0 \in T, \A n \in T : n + 1 \in T
  PROVE  T = Nat
<1> DEFINE U == Nat \ T
<1> SUFFICES ASSUME U # {}  PROVE FALSE
  OBVIOUS
<1>1. PICK x \in U : \A y \in U : x <= y
  <2> HIDE DEF U
  <2>1. U \in SUBSET Nat
    BY DEF U
  <2> QED  BY <2>1, LeastElement
<1>2. x # 0 /\ x - 1 \in Nat
  BY <1>1
<1>3. x - 1 \in T
  BY <1>1, <1>2
<1> QED  BY <1>1, <1>2, <1>3

\* The minimum of a nonempty set of numbers is in the set and below all of it.
LEMMA MinLemma ==
  ASSUME NEW S \in SUBSET Nat, S # {}
  PROVE  Min(S) \in S /\ \A y \in S : Min(S) <= y
<1>1. \E x \in S : \A y \in S : x <= y
  BY LeastElement
<1> QED  BY <1>1 DEF Min

\* A finite set of numbers is bounded.
LEMMA FiniteBounded ==
  ASSUME NEW S \in SUBSET Nat, IsFiniteSet(S)
  PROVE  \E b \in Nat : \A s \in S : s <= b
<1>1. PICK n \in Nat : ExistsSurjection(1..n, S)
  BY FS_NatSurjection
<1>2. PICK f \in [1..n -> S] : \A s \in S : \E i \in 1..n : f[i] = s
  BY <1>1 DEF ExistsSurjection, Surjection
<1> DEFINE T == {m \in Nat : \E b \in Nat : \A i \in 1..n : i <= m => f[i] <= b}
<1>3. 0 \in T
  OBVIOUS
<1>4. ASSUME NEW m \in T  PROVE m + 1 \in T
  <2>1. m \in Nat /\ \E b \in Nat : \A i \in 1..n : i <= m => f[i] <= b
    OBVIOUS
  <2>2. PICK b \in Nat : \A i \in 1..n : i <= m => f[i] <= b
    BY <2>1
  <2>3. \A i \in 1..n : f[i] \in Nat
    BY <1>2
  <2> HIDE DEF T
  <2>4. \E c \in Nat : \A i \in 1..n : i <= m + 1 => f[i] <= c
    <3>1. CASE m + 1 \in 1..n /\ f[m + 1] > b
      <4>1. \A i \in 1..n : i <= m + 1 => f[i] <= f[m + 1]
        BY <2>1, <2>2, <2>3, <3>1
      <4> QED  BY <2>3, <3>1, <4>1
    <3>2. CASE ~ (m + 1 \in 1..n /\ f[m + 1] > b)
      <4>1. \A i \in 1..n : i <= m + 1 => f[i] <= b
        BY <2>1, <2>2, <2>3, <3>2
      <4> QED  BY <4>1
    <3> QED  BY <3>1, <3>2
  <2> QED  BY <2>1, <2>4 DEF T
<1>5. T = Nat
  <2>1. T \in SUBSET Nat
    OBVIOUS
  <2> HIDE DEF T
  <2> QED  BY <1>3, <1>4, <2>1, Induction
<1>6. n \in T
  <2> HIDE DEF T
  <2> QED  BY <1>5
<1>7. PICK b \in Nat : \A i \in 1..n : i <= n => f[i] <= b
  BY <1>6
<1>8. \A i \in 1..n : f[i] <= b
  BY <1>7
<1> QED  BY <1>2, <1>8

\* The maximum of a nonempty finite set of numbers is in the set and above all of
\* it.
LEMMA MaxLemma ==
  ASSUME NEW S \in SUBSET Nat, IsFiniteSet(S), S # {}
  PROVE  Max(S) \in S /\ \A y \in S : y <= Max(S)
<1> DEFINE B == {b \in Nat : \A s \in S : s <= b}
<1>1. B # {} /\ B \in SUBSET Nat
  BY FiniteBounded
<1>2. PICK x \in B : \A y \in B : x <= y
  <2> HIDE DEF B
  <2> QED  BY <1>1, LeastElement
<1>3. x \in S
  <2> SUFFICES ASSUME x \notin S  PROVE FALSE
    OBVIOUS
  <2>1. \A s \in S : s <= x /\ s # x
    BY <1>2
  <2>2. x # 0
    <3>1. PICK s \in S : TRUE
      OBVIOUS
    <3> QED  BY <2>1, <3>1
  <2>3. x - 1 \in B
    BY <2>1, <2>2, <1>2
  <2> QED  BY <2>3, <1>2
<1>4. \E z \in S : \A y \in S : z >= y
  BY <1>2, <1>3
<1> QED  BY <1>4 DEF Max

\* The elements of a sequence are finitely many.
LEMMA ToSetFinite ==
  ASSUME NEW S, NEW s \in Seq(S)
  PROVE  IsFiniteSet(ToSet(s)) /\ ToSet(s) \subseteq S
<1>1. s \in Surjection(1..Len(s), ToSet(s))
  BY DEF Surjection, ToSet
<1>2. IsFiniteSet(1..Len(s))
  BY FS_Interval
<1>3. ToSet(s) \subseteq S
  BY DEF ToSet
<1> QED  BY <1>1, <1>2, <1>3, FS_Surjection

\* What a MANIFEST says.

--------------------------------------------------------------------------------
(* Encoding and decoding an edit. *)

Finite(S) == S \in SUBSET Nat /\ IsFiniteSet(S)
Tag == {"log", "next", "last", "del", "add"}
FieldType == [tag : Tag, n : Nat]
Edit == [log : Nat, next : Nat, last : Nat, add : SUBSET Nat, del : SUBSET Nat]
EditType(e) == e \in Edit /\ Finite(e.add) /\ Finite(e.del)

\* The elements of two sequences put together are those of the one and of the
\* other.
LEMMA ToSetConcat ==
  ASSUME NEW S, NEW s \in Seq(S), NEW t \in Seq(S)
  PROVE  s \o t \in Seq(S) /\ ToSet(s \o t) = ToSet(s) \cup ToSet(t)
<1>1. s \o t \in Seq(S) /\ Len(s \o t) = Len(s) + Len(t)
  OBVIOUS
<1>2. \A i \in 1..Len(s) : (s \o t)[i] = s[i]
  OBVIOUS
<1>3. \A i \in 1..Len(t) : i + Len(s) \in 1..Len(s \o t) /\ (s \o t)[i + Len(s)] = t[i]
  OBVIOUS
<1>4. \A i \in 1..Len(s \o t) : i \in 1..Len(s) \/ (i - Len(s) \in 1..Len(t) /\ (s \o t)[i] = t[i - Len(s)])
  OBVIOUS
<1>5. ToSet(s \o t) = {(s \o t)[i] : i \in 1..Len(s \o t)} /\ ToSet(s) = {s[i] : i \in 1..Len(s)}
      /\ ToSet(t) = {t[i] : i \in 1..Len(t)}
  BY DEF ToSet
<1>6. \A i \in 1..Len(s) : i \in 1..Len(s \o t)
  BY <1>1
<1>7. ASSUME NEW x \in ToSet(s \o t)  PROVE x \in ToSet(s) \cup ToSet(t)
  <2>1. PICK i \in 1..Len(s \o t) : x = (s \o t)[i]
    BY <1>5
  <2> QED  BY <2>1, <1>2, <1>4, <1>5
<1>8. ASSUME NEW x \in ToSet(s) \cup ToSet(t)  PROVE x \in ToSet(s \o t)
  <2>1. CASE x \in ToSet(s)
    BY <2>1, <1>2, <1>5, <1>6
  <2>2. CASE x \in ToSet(t)
    <3>1. PICK i \in 1..Len(t) : x = t[i]
      BY <2>2, <1>5
    <3> QED  BY <3>1, <1>3, <1>5
  <2> QED  BY <2>1, <2>2
<1> QED  BY <1>1, <1>7, <1>8

\* EncodeTo writes a counter as at most one field, and leaves it out when it is
\* 0.
LEMMA FieldLemma ==
  ASSUME NEW tag \in Tag, NEW n \in Nat
  PROVE  /\ Field(tag, n) \in Seq(FieldType)
         /\ ToSet(Field(tag, n)) = IF n = 0 THEN {} ELSE {[tag |-> tag, n |-> n]}
<1>1. [tag |-> tag, n |-> n] \in FieldType
  BY DEF FieldType
<1>2. CASE n = 0
  BY <1>2 DEF Field, ToSet
<1>3. CASE n # 0
  <2> DEFINE f == [tag |-> tag, n |-> n]
  <2> HIDE DEF f
  <2>1. Field(tag, n) = <<f>>
    BY <1>3 DEF Field, f
  <2>2. <<f>> \in Seq(FieldType) /\ ToSet(<<f>>) = {f}
    BY <1>1 DEF ToSet, f
  <2> QED  BY <2>1, <2>2, <1>3 DEF f
<1> QED  BY <1>2, <1>3

\* EncodeTo writes one field for every table of a set, and no other.
LEMMA FieldsLemma ==
  ASSUME NEW tag \in Tag, NEW S, Finite(S)
  PROVE  /\ Fields(tag, S) \in Seq(FieldType)
         /\ ToSet(Fields(tag, S)) = {[tag |-> tag, n |-> x] : x \in S}
<1> DEFINE s == SetToSeq(S)
           c == Cardinality(S)
<1>1. c \in Nat /\ ExistsBijection(1..c, S) /\ S \subseteq Nat
  BY FS_CardinalityType DEF Finite
<1>2. PICK f \in [1..c -> S] : IsInjective(f)
  BY <1>1 DEF ExistsBijection, Bijection, Injection, IsInjective
<1>3. s \in [1..c -> S] /\ IsInjective(s)
  BY <1>2 DEF SetToSeq
<1>4. s \in Injection(1..c, S)
  BY <1>3 DEF Injection, IsInjective
<1>5. IsFiniteSet(1..c) /\ Cardinality(1..c) = c
  BY <1>1, FS_Interval
<1>6. s \in Surjection(1..c, S)
  BY <1>4, <1>5, FS_Injection DEF Finite
<1>7. \A x \in S : \E i \in 1..c : s[i] = x
  BY <1>6 DEF Surjection
<1>8. Fields(tag, S) = [i \in 1..c |-> [tag |-> tag, n |-> s[i]]]
  BY <1>3 DEF Fields
<1> HIDE DEF s, c
<1>9. \A i \in 1..c : s[i] \in Nat /\ [tag |-> tag, n |-> s[i]] \in FieldType
  BY <1>1, <1>3 DEF FieldType
<1>10. Fields(tag, S) \in Seq(FieldType)
  BY <1>1, <1>8, <1>9
<1>11. ToSet(Fields(tag, S)) = {[tag |-> tag, n |-> s[i]] : i \in 1..c}
  BY <1>8 DEF ToSet
<1> QED  BY <1>10, <1>11, <1>7, <1>3

\* A decoded counter is what its field says, if no two fields of that tag differ.
LEMMA CounterLemma ==
  ASSUME NEW fields \in Seq(FieldType), NEW tag, NEW n \in Nat,
         \A f \in ToSet(fields) : f.tag = tag => f.n = n,
         n # 0 => \E f \in ToSet(fields) : f.tag = tag
  PROVE  Counter(fields, tag) = n
<1> DEFINE at == {i \in DOMAIN fields : fields[i].tag = tag}
<1>1. at \subseteq 1..Len(fields) /\ at \in SUBSET Nat
  OBVIOUS
<1>2. IsFiniteSet(at)
  BY <1>1, FS_Interval, FS_Subset
<1>3. Counter(fields, tag) = IF at = {} THEN 0 ELSE fields[Max(at)].n
  BY DEF Counter
<1>4. CASE at = {}
  <2>1. n = 0
    BY <1>4 DEF ToSet
  <2> QED  BY <1>3, <1>4, <2>1
<1>5. CASE at # {}
  <2>1. Max(at) \in at
    <3> HIDE DEF at
    <3> QED  BY <1>1, <1>2, <1>5, MaxLemma
  <2>2. fields[Max(at)] \in ToSet(fields) /\ fields[Max(at)].tag = tag
    BY <2>1 DEF ToSet
  <2> HIDE DEF at
  <2> QED  BY <1>3, <1>5, <2>2
<1> QED  BY <1>4, <1>5

\* DecodeFrom reads what EncodeTo wrote.
LEMMA DecodeEncode ==
  ASSUME NEW e, EditType(e)
  PROVE  EncodeTo(e) \in Seq(FieldType) /\ DecodeFrom(EncodeTo(e)) = e
<1> DEFINE a == Field("log", e.log)
           b == Field("next", e.next)
           c == Field("last", e.last)
           d == Fields("del", e.del)
           g == Fields("add", e.add)
           E == EncodeTo(e)
           One(tag, n) == IF n = 0 THEN {} ELSE {[tag |-> tag, n |-> n]}
<1>0. e.log \in Nat /\ e.next \in Nat /\ e.last \in Nat /\ Finite(e.add) /\ Finite(e.del)
      /\ e = [log |-> e.log, next |-> e.next, last |-> e.last, add |-> e.add, del |-> e.del]
  BY DEF EditType, Edit
<1>s. "log" \in Tag /\ "next" \in Tag /\ "last" \in Tag /\ "del" \in Tag /\ "add" \in Tag
  BY DEF Tag
<1>1. a \in Seq(FieldType) /\ ToSet(a) = One("log", e.log)
  BY <1>0, <1>s, FieldLemma, Zenon
<1>2. b \in Seq(FieldType) /\ ToSet(b) = One("next", e.next)
  BY <1>0, <1>s, FieldLemma, Zenon
<1>3. c \in Seq(FieldType) /\ ToSet(c) = One("last", e.last)
  BY <1>0, <1>s, FieldLemma, Zenon
<1>4. d \in Seq(FieldType) /\ ToSet(d) = {[tag |-> "del", n |-> x] : x \in e.del}
  BY <1>0, <1>s, FieldsLemma, Zenon
<1>5. g \in Seq(FieldType) /\ ToSet(g) = {[tag |-> "add", n |-> x] : x \in e.add}
  BY <1>0, <1>s, FieldsLemma, Zenon
<1> DEFINE ab == a \o b
           abc == ab \o c
           abcd == abc \o d
<1>6. E = abcd \o g
  BY DEF EncodeTo
<1> HIDE DEF a, b, c, d, g, E
<1>7. ab \in Seq(FieldType) /\ ToSet(ab) = ToSet(a) \cup ToSet(b)
  BY <1>1, <1>2, ToSetConcat
<1> HIDE DEF ab
<1>8. abc \in Seq(FieldType) /\ ToSet(abc) = ToSet(ab) \cup ToSet(c)
  BY <1>7, <1>3, ToSetConcat
<1> HIDE DEF abc
<1>9. abcd \in Seq(FieldType) /\ ToSet(abcd) = ToSet(abc) \cup ToSet(d)
  BY <1>8, <1>4, ToSetConcat
<1> HIDE DEF abcd
<1>10. E \in Seq(FieldType) /\ ToSet(E) = ToSet(abcd) \cup ToSet(g)
  BY <1>9, <1>5, <1>6, ToSetConcat
<1>11. ToSet(E) = One("log", e.log) \cup One("next", e.next) \cup One("last", e.last)
                    \cup {[tag |-> "del", n |-> x] : x \in e.del}
                    \cup {[tag |-> "add", n |-> x] : x \in e.add}
  BY <1>1, <1>2, <1>3, <1>4, <1>5, <1>7, <1>8, <1>9, <1>10
<1>12. ASSUME NEW f \in ToSet(E)
       PROVE  \/ e.log # 0 /\ f = [tag |-> "log", n |-> e.log]
              \/ e.next # 0 /\ f = [tag |-> "next", n |-> e.next]
              \/ e.last # 0 /\ f = [tag |-> "last", n |-> e.last]
              \/ \E x \in e.del : f = [tag |-> "del", n |-> x]
              \/ \E x \in e.add : f = [tag |-> "add", n |-> x]
  BY <1>11
<1>13. /\ e.log # 0 => [tag |-> "log", n |-> e.log] \in ToSet(E)
       /\ e.next # 0 => [tag |-> "next", n |-> e.next] \in ToSet(E)
       /\ e.last # 0 => [tag |-> "last", n |-> e.last] \in ToSet(E)
       /\ \A x \in e.del : [tag |-> "del", n |-> x] \in ToSet(E)
       /\ \A x \in e.add : [tag |-> "add", n |-> x] \in ToSet(E)
  BY <1>11
<1>14. \A f \in ToSet(E) : f.tag = "log" => f.n = e.log
  BY <1>12
<1>15. \A f \in ToSet(E) : f.tag = "next" => f.n = e.next
  BY <1>12
<1>16. \A f \in ToSet(E) : f.tag = "last" => f.n = e.last
  BY <1>12
<1>17. Counter(E, "log") = e.log
  <2>1. e.log # 0 => \E f \in ToSet(E) : f.tag = "log"
    BY <1>13
  <2> QED  BY <2>1, <1>0, <1>10, <1>14, CounterLemma
<1>18. Counter(E, "next") = e.next
  <2>1. e.next # 0 => \E f \in ToSet(E) : f.tag = "next"
    BY <1>13
  <2> QED  BY <2>1, <1>0, <1>10, <1>15, CounterLemma
<1>19. Counter(E, "last") = e.last
  <2>1. e.last # 0 => \E f \in ToSet(E) : f.tag = "last"
    BY <1>13
  <2> QED  BY <2>1, <1>0, <1>10, <1>16, CounterLemma
<1>20. Tables(E, "add") = e.add
  <2>1. ASSUME NEW x \in e.add  PROVE x \in Tables(E, "add")
    <3>1. [tag |-> "add", n |-> x] \in {h \in ToSet(E) : h.tag = "add"}
      BY <1>13
    <3> QED  BY <3>1 DEF Tables
  <2>2. ASSUME NEW x \in Tables(E, "add")  PROVE x \in e.add
    <3>1. PICK f \in ToSet(E) : f.tag = "add" /\ x = f.n
      BY DEF Tables
    <3> QED  BY <3>1, <1>12
  <2> QED  BY <2>1, <2>2
<1>21. Tables(E, "del") = e.del
  <2>1. ASSUME NEW x \in e.del  PROVE x \in Tables(E, "del")
    <3>1. [tag |-> "del", n |-> x] \in {h \in ToSet(E) : h.tag = "del"}
      BY <1>13
    <3> QED  BY <3>1 DEF Tables
  <2>2. ASSUME NEW x \in Tables(E, "del")  PROVE x \in e.del
    <3>1. PICK f \in ToSet(E) : f.tag = "del" /\ x = f.n
      BY DEF Tables
    <3> QED  BY <3>1, <1>12
  <2> QED  BY <2>1, <2>2
<1>22. DecodeFrom(E) = e
  BY <1>0, <1>17, <1>18, <1>19, <1>20, <1>21 DEF DecodeFrom
<1> QED  BY <1>10, <1>22 DEF E

--------------------------------------------------------------------------------
(* The versions that a MANIFEST goes through. *)

\* The steps of Replay.
Replaying(v, recs, n) ==
  v = [i \in 0..n |-> IF i = 0 THEN NoVersion ELSE Applied(v[i - 1], DecodeFrom(recs[i]))]

\* The recursion of Replay defines a function, for every MANIFEST.
LEMMA ReplayingExists ==
  ASSUME NEW recs, NEW n \in Nat
  PROVE  \E v : Replaying(v, recs, n)
<1> DEFINE Step(x, i) == Applied(x, DecodeFrom(recs[i]))
           T == {m \in Nat : \E v : Replaying(v, recs, m)}
<1>0. \A f, m : Replaying(f, recs, m) <=>
        f = [i \in 0..m |-> IF i = 0 THEN NoVersion ELSE Step(f[i - 1], i)]
  BY DEF Replaying
<1> HIDE DEF Step
<1>1. 0 \in T
  <2> DEFINE f == [i \in 0..0 |-> NoVersion]
  <2>1. f = [i \in 0..0 |-> IF i = 0 THEN NoVersion ELSE Step(f[i - 1], i)]
    OBVIOUS
  <2> HIDE DEF f
  <2> QED  BY <1>0, <2>1
<1>2. ASSUME NEW m \in T  PROVE m + 1 \in T
  <2>1. PICK f : Replaying(f, recs, m)
    OBVIOUS
  <2> DEFINE g == [i \in 0..(m + 1) |-> IF i = m + 1 THEN Step(f[m], m + 1) ELSE f[i]]
  <2>2. m \in Nat
    OBVIOUS
  <2>3. \A i \in 0..m : g[i] = f[i]
    BY <2>2
  <2>4. \A i \in 0..m : f[i] = IF i = 0 THEN NoVersion ELSE Step(f[i - 1], i)
    <3>1. f = [i \in 0..m |-> IF i = 0 THEN NoVersion ELSE Step(f[i - 1], i)]
      BY <1>0, <2>1
    <3> QED  BY <3>1
  <2>5. ASSUME NEW i \in 0..(m + 1)
        PROVE  g[i] = IF i = 0 THEN NoVersion ELSE Step(g[i - 1], i)
    <3>1. CASE i = m + 1
      <4>1. g[i] = Step(f[m], m + 1) /\ i - 1 = m /\ i # 0 /\ g[m] = f[m]
        BY <3>1, <2>2, <2>3
      <4> QED  BY <3>1, <4>1
    <3>2. CASE i # m + 1
      <4>1. i \in 0..m /\ (i # 0 => i - 1 \in 0..m)
        BY <3>2, <2>2
      <4> QED  BY <4>1, <2>3, <2>4
    <3> QED  BY <3>1, <3>2
  <2>6. g = [i \in 0..(m + 1) |-> IF i = 0 THEN NoVersion ELSE Step(g[i - 1], i)]
    <3>1. g = [i \in 0..(m + 1) |-> g[i]]
      OBVIOUS
    <3> HIDE DEF g
    <3> QED  BY <3>1, <2>5
  <2> HIDE DEF g
  <2>7. Replaying(g, recs, m + 1)
    BY <1>0, <2>6
  <2> QED  BY <2>2, <2>7
<1>3. T = Nat
  <2> HIDE DEF T
  <2>1. T \subseteq Nat
    BY DEF T
  <2> QED  BY <1>1, <1>2, <2>1, Induction
<1> QED  BY <1>3

\* VersionSet::Recover goes through one version per record, each made from the
\* one before.
LEMMA ReplayLemma ==
  ASSUME NEW S, NEW recs \in Seq(S)
  PROVE  \E v : /\ Replay(recs) = v[Len(recs)] /\ v[0] = NoVersion
                /\ \A i \in 1..Len(recs) : v[i] = Applied(v[i - 1], DecodeFrom(recs[i]))
<1> DEFINE v == CHOOSE f : Replaying(f, recs, Len(recs))
<1>1. Len(recs) \in Nat
  OBVIOUS
<1>2. Replaying(v, recs, Len(recs))
  BY <1>1, ReplayingExists
<1>3. Replay(recs) = v[Len(recs)]
  BY DEF Replay, Replaying
<1> HIDE DEF v
<1>4. v = [i \in 0..Len(recs) |-> IF i = 0 THEN NoVersion ELSE Applied(v[i - 1], DecodeFrom(recs[i]))]
  BY <1>2 DEF Replaying
<1>5. v[0] = NoVersion
  BY <1>1, <1>4
<1>6. ASSUME NEW i \in 1..Len(recs)  PROVE v[i] = Applied(v[i - 1], DecodeFrom(recs[i]))
  <2>1. i \in 0..Len(recs) /\ i # 0
    OBVIOUS
  <2> QED  BY <1>4, <2>1
<1> QED  BY <1>3, <1>5, <1>6

\* An empty MANIFEST describes the version of an empty database.
LEMMA ReplayEmpty == Replay(<<>>) = NoVersion
<1>1. <<>> \in Seq({}) /\ Len(<<>>) = 0
  OBVIOUS
<1>2. PICK v : Replay(<<>>) = v[Len(<<>>)] /\ v[0] = NoVersion
  BY <1>1, ReplayLemma
<1> QED  BY <1>1, <1>2

\* One more record at the end of a MANIFEST changes the version by that one edit.
LEMMA ReplayAppend ==
  ASSUME NEW S, NEW recs \in Seq(S), NEW r \in S
  PROVE  Replay(Append(recs, r)) = Applied(Replay(recs), DecodeFrom(r))
<1> DEFINE more == Append(recs, r)
           n == Len(recs)
<1>1. more \in Seq(S) /\ Len(more) = n + 1 /\ n \in Nat /\ more[n + 1] = r
      /\ \A i \in 1..n : more[i] = recs[i]
  OBVIOUS
<1> HIDE DEF more
<1>2. PICK v : /\ Replay(recs) = v[n] /\ v[0] = NoVersion
               /\ \A i \in 1..n : v[i] = Applied(v[i - 1], DecodeFrom(recs[i]))
  BY ReplayLemma
<1> HIDE DEF n
<1>3. PICK w : /\ Replay(more) = w[Len(more)] /\ w[0] = NoVersion
               /\ \A i \in 1..Len(more) : w[i] = Applied(w[i - 1], DecodeFrom(more[i]))
  BY <1>1, ReplayLemma
<1> DEFINE T == {m \in Nat : m <= n => w[m] = v[m]}
<1>4. 0 \in T
  BY <1>2, <1>3
<1>5. ASSUME NEW m \in T  PROVE m + 1 \in T
  <2>1. m \in Nat /\ (m <= n => w[m] = v[m])
    OBVIOUS
  <2> HIDE DEF T
  <2>2. ASSUME m + 1 <= n  PROVE w[m + 1] = v[m + 1]
    <3>1. m + 1 \in 1..n /\ m + 1 \in 1..Len(more) /\ m <= n /\ (m + 1) - 1 = m
      BY <1>1, <2>1, <2>2
    <3>2. w[m + 1] = Applied(w[m], DecodeFrom(more[m + 1]))
      BY <1>3, <3>1
    <3>3. v[m + 1] = Applied(v[m], DecodeFrom(recs[m + 1]))
      BY <1>2, <3>1
    <3> QED  BY <3>1, <3>2, <3>3, <2>1, <1>1
  <2> QED  BY <2>1, <2>2 DEF T
<1>6. n \in T
  <2>1. T \in SUBSET Nat
    OBVIOUS
  <2> HIDE DEF T
  <2> QED  BY <1>1, <1>4, <1>5, <2>1, Induction
<1>7. w[n] = v[n]
  BY <1>1, <1>6
<1>8. n + 1 \in 1..Len(more) /\ (n + 1) - 1 = n
  BY <1>1
<1>9. w[n + 1] = Applied(w[n], DecodeFrom(more[n + 1]))
  BY <1>3, <1>8
<1> QED  BY <1>1, <1>2, <1>3, <1>7, <1>9 DEF more

Record == Seq(FieldType)
FileType(f, S) == f \in [recs : Seq(S), synced : Nat] /\ f.synced <= Len(f.recs)

\* A MANIFEST is made of whole records, unless a crash has torn its last one.
Marked == Record \cup {Torn}
Broken(f) == FileType(f, Marked) /\ ~Whole(f) /\ f.synced = Len(f.recs)
ManifestType(f) == FileType(f, Record) \/ Broken(f)

\* What a crash may leave of a MANIFEST, as versions.
Upto(file, n) == Replay(SubSeq(file.recs, 1, n))
Versions(file) == {Upto(file, n) : n \in file.synced..Len(file.recs)}

\* A file is made of records and of the number of them that are synced.
LEMMA FileFields ==
  ASSUME NEW S, NEW f \in [recs : Seq(S), synced : Nat]
  PROVE  /\ \A x : Add(f, x) = [recs |-> Append(f.recs, x), synced |-> f.synced]
         /\ Synced(f) = [recs |-> f.recs, synced |-> Len(f.recs)]
         /\ \A x : [f EXCEPT !.recs = x] = [recs |-> x, synced |-> f.synced]
BY DEF Add, Synced

\* The prefixes of the records of a file are files' records too.
LEMMA PrefixLemma ==
  ASSUME NEW S, NEW s \in Seq(S)
  PROVE  /\ SubSeq(s, 1, Len(s)) = s
         /\ \A n \in 0..Len(s) : SubSeq(s, 1, n) \in Seq(S) /\ Len(SubSeq(s, 1, n)) = n
         /\ \A n \in 0..Len(s) : \A m \in 0..n : SubSeq(SubSeq(s, 1, n), 1, m) = SubSeq(s, 1, m)
         /\ \A r \in S : \A n \in 0..Len(s) : SubSeq(Append(s, r), 1, n) = SubSeq(s, 1, n)
<1>1. SubSeq(s, 1, Len(s)) = s
  OBVIOUS
<1>2. ASSUME NEW n \in 0..Len(s)
      PROVE  SubSeq(s, 1, n) \in Seq(S) /\ Len(SubSeq(s, 1, n)) = n
             /\ SubSeq(s, 1, n) = [i \in 1..n |-> s[i]]
  OBVIOUS
<1>3. ASSUME NEW n \in 0..Len(s), NEW m \in 0..n
      PROVE  SubSeq(SubSeq(s, 1, n), 1, m) = SubSeq(s, 1, m)
  <2>1. m \in 0..Len(s) /\ m \in 0..Len(SubSeq(s, 1, n))
    BY <1>2
  <2> DEFINE t == SubSeq(s, 1, n)
  <2>2. t \in Seq(S) /\ Len(t) = n /\ \A i \in 1..n : t[i] = s[i]
    BY <1>2
  <2> HIDE DEF t
  <2>3. SubSeq(t, 1, m) = [i \in 1..m |-> t[i]]
    BY <2>1, <2>2
  <2>4. SubSeq(s, 1, m) = [i \in 1..m |-> s[i]]
    BY <2>1, <1>2
  <2>5. \A i \in 1..m : t[i] = s[i]
    BY <2>2
  <2> QED  BY <2>3, <2>4, <2>5 DEF t
<1>4. ASSUME NEW r \in S, NEW n \in 0..Len(s)
      PROVE  SubSeq(Append(s, r), 1, n) = SubSeq(s, 1, n)
  <2> DEFINE t == Append(s, r)
  <2>1. t \in Seq(S) /\ Len(t) = Len(s) + 1 /\ \A i \in 1..Len(s) : t[i] = s[i]
    OBVIOUS
  <2> HIDE DEF t
  <2>2. SubSeq(t, 1, n) = [i \in 1..n |-> t[i]]
    BY <2>1
  <2>3. \A i \in 1..n : t[i] = s[i]
    BY <2>1
  <2> QED  BY <2>2, <2>3, <1>2 DEF t
<1> QED  BY <1>1, <1>2, <1>3, <1>4

\* The last of the versions is the one that Recover finds.
LEMMA ReplayIsVersion ==
  ASSUME NEW f, FileType(f, Record)
  PROVE  /\ Replay(f.recs) \in Versions(f)
         /\ f.synced = Len(f.recs) => Versions(f) = {Replay(f.recs)}
<1>1. f.recs \in Seq(Record) /\ f.synced \in Nat /\ f.synced <= Len(f.recs) /\ Len(f.recs) \in Nat
  BY DEF FileType
<1>2. Upto(f, Len(f.recs)) = Replay(f.recs)
  BY <1>1, PrefixLemma DEF Upto
<1>3. Len(f.recs) \in f.synced..Len(f.recs)
  BY <1>1
<1>4. f.synced = Len(f.recs) => f.synced..Len(f.recs) = {Len(f.recs)}
  BY <1>1
<1> QED  BY <1>2, <1>3, <1>4 DEF Versions

\* A record added to a MANIFEST makes one more version possible.
LEMMA VersionsAdd ==
  ASSUME NEW f, FileType(f, Record), NEW e, EditType(e)
  PROVE  LET g == Add(f, EncodeTo(e))
         IN  /\ FileType(g, Record) /\ g.synced = f.synced /\ Len(g.recs) = Len(f.recs) + 1
             /\ Replay(g.recs) = Applied(Replay(f.recs), e)
             /\ Versions(g) = Versions(f) \cup {Applied(Replay(f.recs), e)}
<1> DEFINE r == EncodeTo(e)
           g == Add(f, r)
           n == Len(f.recs)
<1>1. f.recs \in Seq(Record) /\ f.synced \in Nat /\ f.synced <= n /\ n \in Nat
      /\ f \in [recs : Seq(Record), synced : Nat]
  BY DEF FileType
<1>2. r \in Record /\ DecodeFrom(r) = e
  BY DecodeEncode, Zenon DEF Record
<1> HIDE DEF r
<1>3. g = [recs |-> Append(f.recs, r), synced |-> f.synced]
  BY <1>1, FileFields
<1>4. Append(f.recs, r) \in Seq(Record) /\ Len(Append(f.recs, r)) = n + 1
  BY <1>1, <1>2
<1> HIDE DEF g
<1>5. /\ FileType(g, Record) /\ Len(g.recs) = n + 1
      /\ g.recs = Append(f.recs, r) /\ g.synced = f.synced
  BY <1>1, <1>3, <1>4 DEF FileType
<1>6. Replay(g.recs) = Applied(Replay(f.recs), e)
  BY <1>1, <1>2, <1>5, ReplayAppend
<1>7. ASSUME NEW i \in 0..n  PROVE Upto(g, i) = Upto(f, i)
  <2>1. SubSeq(Append(f.recs, r), 1, i) = SubSeq(f.recs, 1, i)
    BY <1>1, <1>2, PrefixLemma
  <2> QED  BY <1>5, <2>1 DEF Upto
<1>8. Upto(g, n + 1) = Replay(g.recs)
  <2>1. g.recs \in Seq(Record)
    BY <1>5 DEF FileType
  <2> QED  BY <1>5, <2>1, PrefixLemma DEF Upto
<1>9. g.synced..Len(g.recs) = (f.synced..n) \cup {n + 1} /\ f.synced..n \subseteq 0..n
  BY <1>1, <1>5
<1>10. Versions(g) = {Upto(g, i) : i \in f.synced..n} \cup {Upto(g, n + 1)}
  BY <1>9 DEF Versions
<1>11. {Upto(g, i) : i \in f.synced..n} = {Upto(f, i) : i \in f.synced..n}
  BY <1>7, <1>9
<1>12. Versions(g) = Versions(f) \cup {Applied(Replay(f.recs), e)}
  BY <1>6, <1>8, <1>10, <1>11 DEF Versions
<1> QED  BY <1>5, <1>6, <1>12 DEF g, r

\* A synced MANIFEST has only one version.
LEMMA VersionsSynced ==
  ASSUME NEW f, FileType(f, Record)
  PROVE  /\ FileType(Synced(f), Record) /\ Synced(f).recs = f.recs
         /\ Synced(f).synced = Len(f.recs) /\ Versions(Synced(f)) = {Replay(f.recs)}
<1>1. f.recs \in Seq(Record) /\ Len(f.recs) \in Nat /\ f \in [recs : Seq(Record), synced : Nat]
  BY DEF FileType
<1>2. Synced(f) = [recs |-> f.recs, synced |-> Len(f.recs)]
  BY <1>1, FileFields
<1>3. FileType(Synced(f), Record)
  BY <1>1, <1>2 DEF FileType
<1> QED  BY <1>2, <1>3, ReplayIsVersion

\* A MANIFEST of records has no torn one.
LEMMA WholeLemma ==
  ASSUME NEW f, FileType(f, Record)
  PROVE  Whole(f)
<1>1. Torn \notin Record
  <2> SUFFICES ASSUME Torn \in Record  PROVE FALSE
    OBVIOUS
  <2>1. Torn[1] \in FieldType /\ Torn[1].tag = "torn"
    BY DEF Record, Torn
  <2> QED  BY <2>1 DEF FieldType, Tag
<1>2. f.recs \in Seq(Record)
  BY DEF FileType
<1>3. ToSet(f.recs) \subseteq Record
  BY <1>2, ToSetFinite
<1> QED  BY <1>1, <1>3 DEF Whole

\* What is on disk after a crash stays in the next one.
LEMMA SyncedCopy ==
  ASSUME NEW f, NEW S, FileType(f, S), NEW r, NEW T, r \in Seq(T)
  PROVE  LET g == Synced([f EXCEPT !.recs = r])
         IN  g = [recs |-> r, synced |-> Len(r)] /\ FileType(g, T)
<1> DEFINE h == [f EXCEPT !.recs = r]
           g == Synced(h)
<1>1. h = [recs |-> r, synced |-> f.synced]
  BY DEF FileType
<1>2. g = [recs |-> r, synced |-> Len(r)]
  <2> HIDE DEF h
  <2> QED  BY <1>1 DEF Synced
<1> HIDE DEF g
<1>3. FileType(g, T)
  BY <1>2 DEF FileType
<1> QED  BY <1>2, <1>3 DEF g

\* What a crash leaves of a MANIFEST is one of its versions, for good, or cannot
\* be read.
LEMMA CutoffLemma ==
  ASSUME NEW f, FileType(f, Record)
  PROVE  /\ \A g \in Cutoffs(f) :
              Broken(g) \/ (FileType(g, Record) /\ Replay(g.recs) \in Versions(f)
                              /\ Versions(g) = {Replay(g.recs)})
         /\ UNION {Replay(g.recs).files : g \in {h \in Cutoffs(f) : Whole(h)}}
              = UNION {v.files : v \in Versions(f)}
<1> DEFINE Cut(n) == Synced([f EXCEPT !.recs = SubSeq(f.recs, 1, n)])
           Tear(n) == Synced([f EXCEPT !.recs = Append(SubSeq(f.recs, 1, n), Torn)])
           N == f.synced..Len(f.recs)
           M == f.synced..(Len(f.recs) - 1)
<1>1. f.recs \in Seq(Record) /\ Len(f.recs) \in Nat /\ f.synced \in Nat /\ f.synced <= Len(f.recs)
  BY DEF FileType
<1>2. ASSUME NEW n \in N
      PROVE  /\ FileType(Cut(n), Record) /\ Cut(n).synced = Len(Cut(n).recs)
             /\ Replay(Cut(n).recs) = Upto(f, n)
  <2> DEFINE s == SubSeq(f.recs, 1, n)
  <2>1. s \in Seq(Record)
    BY <1>1, PrefixLemma
  <2>2. Upto(f, n) = Replay(s)
    BY DEF Upto
  <2> HIDE DEF s
  <2>3. LET g == Synced([f EXCEPT !.recs = s])
        IN  g = [recs |-> s, synced |-> Len(s)] /\ FileType(g, Record)
    BY <2>1, SyncedCopy
  <2>4. Cut(n) = [recs |-> s, synced |-> Len(s)] /\ FileType(Cut(n), Record)
    BY <2>3 DEF s
  <2> HIDE DEF Cut
  <2> QED  BY <2>2, <2>4
<1>3. ASSUME NEW n \in M  PROVE Broken(Tear(n))
  <2> DEFINE s == SubSeq(f.recs, 1, n)
             r == Append(s, Torn)
  <2>1. s \in Seq(Record)
    BY <1>1, PrefixLemma
  <2>2. Record \subseteq Marked /\ Torn \in Marked
    BY DEF Marked
  <2> HIDE DEF s
  <2>3. s \in Seq(Marked)
    BY <2>1, <2>2
  <2>4. r \in Seq(Marked) /\ Len(r) \in 1..Len(r) /\ r[Len(r)] = Torn
    BY <2>2, <2>3
  <2> HIDE DEF r
  <2>5. LET g == Synced([f EXCEPT !.recs = r])
        IN  g = [recs |-> r, synced |-> Len(r)] /\ FileType(g, Marked)
    BY <2>4, SyncedCopy
  <2>6. Tear(n) = [recs |-> r, synced |-> Len(r)] /\ FileType(Tear(n), Marked)
    BY <2>5 DEF r, s
  <2> HIDE DEF Tear
  <2>7. Torn \in ToSet(r)
    BY <2>4 DEF ToSet
  <2> QED  BY <2>6, <2>7 DEF Broken, Whole
<1>4. Cutoffs(f) = {Cut(n) : n \in N} \cup {Tear(n) : n \in M}
  BY DEF Cutoffs
<1>5. Versions(f) = {Upto(f, n) : n \in N}
  BY DEF Versions
<1> HIDE DEF Cut, Tear, N, M
<1>6. ASSUME NEW g \in Cutoffs(f)
      PROVE  Broken(g) \/ (FileType(g, Record) /\ Replay(g.recs) \in Versions(f)
                             /\ Versions(g) = {Replay(g.recs)})
  <2>1. CASE g \in {Tear(n) : n \in M}
    BY <2>1, <1>3
  <2>2. CASE g \in {Cut(n) : n \in N}
    <3>1. PICK n \in N : g = Cut(n)
      BY <2>2
    <3> QED  BY <3>1, <1>2, <1>5, ReplayIsVersion
  <2> QED  BY <2>1, <2>2, <1>4
<1>7. ASSUME NEW v \in Versions(f)  PROVE \E g \in Cutoffs(f) : Whole(g) /\ Replay(g.recs) = v
  <2>1. PICK n \in N : v = Upto(f, n)
    BY <1>5
  <2> QED  BY <2>1, <1>2, <1>4, WholeLemma
<1>8. \A g \in Cutoffs(f) : Whole(g) => Replay(g.recs) \in Versions(f)
  BY <1>6 DEF Broken
<1> QED  BY <1>6, <1>7, <1>8

\* A MANIFEST all of which is synced stays as it is.
LEMMA SyncedStays ==
  ASSUME NEW f, NEW S, FileType(f, S), f.synced = Len(f.recs)
  PROVE  Cutoffs(f) = {f} /\ Synced(f) = f
<1> DEFINE L == Len(f.recs)
<1>1. f.recs \in Seq(S) /\ L \in Nat /\ f.synced = L /\ f = [recs |-> f.recs, synced |-> L]
      /\ f.synced..L = {L} /\ f.synced..(L - 1) = {}
  BY DEF FileType
<1>3. SubSeq(f.recs, 1, L) = f.recs
  BY <1>1, PrefixLemma
<1>4. Synced(f) = f
  BY <1>1 DEF Synced
<1>5. [f EXCEPT !.recs = f.recs] = f
  BY <1>1
<1>6. \A n \in {L} : Synced([f EXCEPT !.recs = SubSeq(f.recs, 1, n)]) = f
  BY <1>3, <1>4, <1>5
<1>7. Cutoffs(f) = {Synced([f EXCEPT !.recs = SubSeq(f.recs, 1, n)]) : n \in {L}}
  BY <1>1 DEF Cutoffs
<1> QED  BY <1>4, <1>6, <1>7

\* The larger of two numbers.
LEMMA MaxOfTwo ==
  ASSUME NEW a \in Int, NEW b \in Int
  PROVE  Max({a, b}) = IF a >= b THEN a ELSE b
<1> DEFINE c == IF a >= b THEN a ELSE b
<1>1. c \in {a, b} /\ \A y \in {a, b} : c >= y
  OBVIOUS
<1>2. \A x \in {a, b} : (\A y \in {a, b} : x >= y) => x = c
  OBVIOUS
<1> HIDE DEF c
<1> QED  BY <1>1, <1>2 DEF Max, c

\* A file with more of its records synced.
LEMMA SettledFields ==
  ASSUME NEW f, NEW S, FileType(f, S)
  PROVE  /\ Settled(f) = [recs |-> f.recs, synced |-> Settled(f).synced]
         /\ Settled(f).synced \in f.synced..Len(f.recs)
         /\ Appending = 0 => Settled(f).synced = Len(f.recs)
         /\ f.synced = Len(f.recs) => Settled(f) = f
<1> DEFINE L == Len(f.recs)
           k == Max({f.synced, L - Appending})
<1>1. L \in Nat /\ f.synced \in Nat /\ f.synced <= L /\ f = [recs |-> f.recs, synced |-> f.synced]
  BY DEF FileType
<1>2. Appending \in {0, 1, 2}
  BY DEF Appending
<1>3. k = IF f.synced >= L - Appending THEN f.synced ELSE L - Appending
  BY <1>1, <1>2, MaxOfTwo
<1>4. Settled(f) = [recs |-> f.recs, synced |-> k]
  BY <1>1 DEF Settled
<1> HIDE DEF k, L
<1>5. k \in f.synced..L /\ (Appending = 0 => k = L) /\ (f.synced = L => k = L)
  BY <1>1, <1>2, <1>3
<1> QED  BY <1>1, <1>4, <1>5 DEF L

\* A crash of the process leaves of a MANIFEST nothing that one of the machine
\* cannot leave.
LEMMA SettledLemma ==
  ASSUME NEW f, NEW S, FileType(f, S)
  PROVE  Cutoffs(Settled(f)) \subseteq Cutoffs(f)
<1> DEFINE k == Settled(f).synced
           h == Settled(f)
           L == Len(f.recs)
<1>1. h = [recs |-> f.recs, synced |-> k] /\ k \in f.synced..L
  BY SettledFields
<1>2. f = [recs |-> f.recs, synced |-> f.synced] /\ L \in Nat /\ f.synced \in Nat
  BY DEF FileType
<1> HIDE DEF k, h
<1>3. k..L \subseteq f.synced..L /\ k..(L - 1) \subseteq f.synced..(L - 1)
  BY <1>1, <1>2
<1> HIDE DEF L
<1>4. \A r : Synced([h EXCEPT !.recs = r]) = Synced([f EXCEPT !.recs = r])
  <2> TAKE r
  <2>1. [h EXCEPT !.recs = r] = [recs |-> r, synced |-> k] /\ [f EXCEPT !.recs = r] = [recs |-> r, synced |-> f.synced]
    BY <1>1, <1>2
  <2> QED  BY <2>1 DEF Synced
<1>5. h.recs = f.recs /\ h.synced = k
  BY <1>1
<1> QED  BY <1>3, <1>4, <1>5 DEF Cutoffs, h, L

--------------------------------------------------------------------------------
(* What recovery reads from a log, and what a crash leaves of the files. *)

\* The memtable that a record of a log goes to.
LEMMA DivLemma ==
  ASSUME NEW n \in Nat, NEW w \in Nat, NEW k \in 1..n
  PROVE  ((k - 1) \div (w + 1)) + 1 \in 1..((n + w) \div (w + 1))
BY SMT

\* Recovery puts every record of a log in one of the memtables.
LEMMA MemtablesLemma ==
  ASSUME NEW recs \in Seq(Nat)
  PROVE  /\ Memtables(recs) \in Seq(SUBSET Nat)
         /\ \A i \in 1..Len(Memtables(recs)) : Memtables(recs)[i] \subseteq ToSet(recs)
         /\ \A s \in ToSet(recs) : \E i \in 1..Len(Memtables(recs)) : s \in Memtables(recs)[i]
<1> DEFINE w == WriteBufferSize
           k == (Len(recs) + w) \div (w + 1)
           part(i) == {recs[j] : j \in {m \in DOMAIN recs : (m - 1) \div (w + 1) = i - 1}}
<1>1. w \in Nat /\ Len(recs) \in Nat /\ DOMAIN recs = 1..Len(recs)
  BY FaultAssumption
<1>2. k \in Nat
  <2> HIDE DEF w
  <2> QED  BY <1>1
<1>3. Memtables(recs) = [i \in 1..k |-> part(i)]
  BY DEF Memtables
<1>4. ASSUME NEW m \in 1..Len(recs)
      PROVE  (m - 1) \div (w + 1) + 1 \in 1..k
  BY <1>1, DivLemma
<1> HIDE DEF k
<1>5. \A i : part(i) \subseteq ToSet(recs)
  BY DEF ToSet
<1>6. ToSet(recs) \subseteq Nat
  BY ToSetFinite
<1>7. ASSUME NEW s \in ToSet(recs)  PROVE \E i \in 1..k : s \in part(i)
  <2>1. PICK m \in 1..Len(recs) : s = recs[m]
    BY DEF ToSet
  <2> DEFINE i == (m - 1) \div (w + 1) + 1
  <2>2. i \in 1..k
    BY <1>4
  <2>3. (m - 1) \div (w + 1) \in Int
    <3> HIDE DEF w
    <3> QED  BY <1>1
  <2>4. (m - 1) \div (w + 1) = i - 1
    <3> DEFINE q == (m - 1) \div (w + 1)
    <3> HIDE DEF q
    <3>1. q \in Int => q = (q + 1) - 1
      OBVIOUS
    <3> QED  BY <2>3, <3>1 DEF q
  <2> HIDE DEF i
  <2>5. s \in part(i)
    BY <1>1, <2>1, <2>4
  <2> QED  BY <2>2, <2>5
<1> HIDE DEF part
<1>8. Memtables(recs) \in Seq(SUBSET Nat) /\ Len(Memtables(recs)) = k
  BY <1>2, <1>3, <1>5, <1>6
<1> QED  BY <1>3, <1>5, <1>7, <1>8

\* What a crash of the machine leaves of a log.
LEMMA LeftoverLemma ==
  ASSUME NEW f, FileType(f, Nat), NEW g \in Leftovers(f)
  PROVE  /\ FileType(g, Nat) /\ g.synced = Len(g.recs)
         /\ {f.recs[i] : i \in 1..f.synced} \subseteq ToSet(g.recs)
<1> DEFINE Places(n) == {at \in [1..n -> DOMAIN f.recs] :
                           /\ \A i \in 1..f.synced : at[i] = i
                           /\ \A i, j \in 1..n : i < j => at[i] < at[j]}
<1>1. f.recs \in Seq(Nat) /\ f.synced \in Nat /\ f.synced <= Len(f.recs) /\ Len(f.recs) \in Nat
  BY DEF FileType
<1>2. PICK n \in f.synced..Len(f.recs) : \E at \in Places(n) :
        g = [recs |-> [i \in 1..n |-> f.recs[at[i]]], synced |-> n]
  BY DEF Leftovers
<1>3. PICK at \in Places(n) : g = [recs |-> [i \in 1..n |-> f.recs[at[i]]], synced |-> n]
  BY <1>2
<1>4. n \in Nat /\ f.synced <= n /\ at \in [1..n -> DOMAIN f.recs] /\ \A i \in 1..f.synced : at[i] = i
  BY <1>1
<1> HIDE DEF Places
<1> DEFINE s == [i \in 1..n |-> f.recs[at[i]]]
<1>5. \A i \in 1..n : f.recs[at[i]] \in Nat
  BY <1>1, <1>4
<1>6. s \in Seq(Nat) /\ Len(s) = n /\ DOMAIN s = 1..n
  BY <1>4, <1>5
<1>7. g = [recs |-> s, synced |-> n]
  BY <1>3
<1>8. \A i \in 1..f.synced : i \in 1..n /\ s[i] = f.recs[i]
  BY <1>1, <1>4
<1> HIDE DEF s
<1>9. FileType(g, Nat) /\ g.synced = Len(g.recs) /\ g.recs = s
  BY <1>4, <1>6, <1>7 DEF FileType
<1> QED  BY <1>6, <1>8, <1>9 DEF ToSet

\* The inductive invariant.  d is a directory, m whether a crash loses what was
\* not synced, P the writes that must survive, s whether a recovery has failed.

--------------------------------------------------------------------------------
(* The inductive invariant. *)

IsFcn(f) == f = [x \in DOMAIN f |-> f[x]]
DirType(d) ==
  /\ DOMAIN d = {"logs", "tables", "manifests", "current"}
  /\ Finite(DOMAIN d.logs) /\ IsFcn(d.logs) /\ \A n \in DOMAIN d.logs : FileType(d.logs[n], Nat)
  /\ Finite(DOMAIN d.tables) /\ 0 \notin DOMAIN d.tables
  /\ \A n \in DOMAIN d.tables : Finite(d.tables[n])
  /\ DOMAIN d.manifests \subseteq Nat
  /\ \A n \in DOMAIN d.manifests : ManifestType(d.manifests[n])
  /\ d.current \in Nat

Phase == {"closed", "new", "logs", "manifest", "current", "install", "open",
          "corrupt", "repair", "scanned", "archived"}
DbType ==
  /\ DOMAIN db = {"at", "mem", "imm", "log", "last", "next", "manifest", "ver", "edit",
                  "todo", "ok", "bg", "work", "reader"}
  /\ db.at \in Phase /\ db.bg \in {"idle", "logged", "delete"}
  /\ Finite(db.mem) /\ 0 \notin db.mem /\ Finite(db.imm)
  /\ db.log \in Nat /\ db.last \in Nat /\ db.next \in Nat /\ db.manifest \in Nat
  /\ db.ver \in [files : SUBSET Nat, log : Nat] /\ Finite(db.ver.files)
  /\ EditType(db.edit)
  /\ db.todo \subseteq Nat /\ db.ok \in BOOLEAN
  /\ db.work \in [inputs : SUBSET Nat, out : Nat] /\ Finite(db.work.inputs)
  /\ db.reader \subseteq Nat
HistoryType == left \in Fault /\ promised \subseteq Nat /\ spoilt \in BOOLEAN
Typed == DirType(disk) /\ DbType /\ HistoryType

AtMost(d, F, x) == \A n \in F \cap DOMAIN d.tables : \A q \in d.tables[n] : q <= x
Below(F, x) == \A n \in F : 0 < n /\ n < x
Held(d, F) == UNION {d.tables[n] : n \in F \cap DOMAIN d.tables}
Kept(f, m) == IF m THEN {f.recs[i] : i \in 1..f.synced} ELSE ToSet(f.recs)
LogsKept(d, m, min) == UNION {Kept(d.logs[n], m) : n \in {k \in DOMAIN d.logs : k >= min}}

\* The tables F and the logs from min on hold all that was promised.
Safe(d, m, P, F, min) == P \subseteq Held(d, F) \cup LogsKept(d, m, min)

VersionType(v) == Finite(v.files) /\ v.log \in Nat /\ v.next \in Nat /\ v.last \in Nat
VersionOK(v, d, m, P, s) ==
  /\ VersionType(v)
  /\ v.next = 0 => v.files = {}
  /\ v.next # 0 => Below(v.files, v.next) /\ v.log < v.next
  /\ AtMost(d, v.files, v.last)
  /\ ~s => /\ v.files \subseteq DOMAIN d.tables
           /\ v.next = 0 => Safe(d, m, P, DOMAIN d.tables, 0)
           /\ v.next # 0 => Safe(d, m, P, v.files, v.log)

Final(d, n) == Replay(d.manifests[n].recs)
ManifestOK(n, d, m, P, s) ==
  \A v \in Versions(d.manifests[n]) : VersionOK(v, d, m, P, s) /\ v.next <= Final(d, n).next

\* The MANIFEST with number n does not name itself for a new file.
Opens(n, d) == n = 1 \/ \A v \in Versions(d.manifests[n]) : n < v.next

\* The MANIFEST that CURRENT names is there, and no record of it is torn.
Reads(d) == d.current \in DOMAIN d.manifests /\ FileType(d.manifests[d.current], Record)
Usable(d) == Reads(d) /\ Final(d, d.current).next # 0

DiskOK(d, m, P, s) ==
  /\ Reads(d) => ManifestOK(d.current, d, m, P, s) /\ (d.current # 0 => Opens(d.current, d))
  /\ d.current = 0 => P = {}
  /\ ~Reads(d) /\ ~s => Safe(d, m, P, DOMAIN d.tables, 0)

\* The process, when it is not open.
QuietOK == db.at # "open" =>
  db.mem = {} /\ db.imm = NoTable /\ db.reader = {} /\ db.work = NoWork /\ db.bg = "idle"

RepairOK ==
  /\ db.at \in {"corrupt", "repair", "scanned", "archived"} => ~Usable(disk)
  /\ db.at \in {"repair", "scanned", "archived"} => 0 < db.next /\ Below(DOMAIN disk.tables, db.next)
  /\ db.at = "repair" => \A n \in DOMAIN disk.logs : n < db.next
  /\ db.at \in {"scanned", "archived"} => DOMAIN disk.logs = {}
  /\ db.at = "archived" => DOMAIN disk.manifests = {}
NewOK == db.at = "new" =>
  /\ 1 \in DOMAIN disk.manifests /\ FileType(disk.manifests[1], Record)
  /\ ManifestOK(1, disk, left.machine, promised, spoilt)

\* From Recover on.
NumbersOK == db.at \in {"logs", "manifest", "current", "install", "open"} =>
  /\ Usable(disk)
  /\ 0 < db.manifest /\ db.manifest < db.next
  /\ \A n \in Named : n < db.next
  /\ \A n \in DOMAIN disk.logs : n < db.next \/ (db.at = "logs" /\ n \in db.todo)

\* The tables of the version that is being recovered.
Found == db.ver.files \cup db.edit.add
RecoveryOK == db.at \in {"logs", "manifest", "current", "install"} =>
  /\ db.edit.del = {}
  /\ Below(Found, db.next) /\ AtMost(disk, Found, db.last)
  /\ ~spoilt => Found \subseteq DOMAIN disk.tables /\ db.ok
  /\ db.at # "install" =>
       \/ disk.current < db.manifest
       \/ disk.current = 1 /\ db.manifest = 1 /\ db.ver.files = {}

LogsOK == db.at = "logs" =>
  /\ db.todo \subseteq DOMAIN disk.logs
  /\ ~spoilt => promised \subseteq
       Held(disk, Found) \cup UNION {ToSet(disk.logs[n].recs) : n \in db.todo}

NewManifestOK == db.at \in {"manifest", "current", "install"} =>
  /\ db.edit.log = db.log /\ db.edit.next = db.next /\ db.edit.last = db.last
  /\ db.log \in DOMAIN disk.logs /\ disk.logs[db.log] = EmptyFile
  /\ db.log < db.next /\ db.manifest < db.log
  /\ db.manifest \in DOMAIN disk.manifests /\ FileType(disk.manifests[db.manifest], Record)
  /\ disk.manifests[db.manifest].recs = SnapshotAndEdit(db.edit).recs
  /\ db.at \in {"current", "install"} => disk.manifests[db.manifest].synced = 2
  /\ ~spoilt => promised \subseteq Held(disk, Found)
  /\ db.at = "install" => disk.current = db.manifest

\* The open database.
Manifest == disk.manifests[db.manifest]
Imm == IF db.imm = NoTable THEN {} ELSE db.imm
OpenNumbers ==
  /\ disk.current = db.manifest
  /\ \A v \in Versions(Manifest) : db.manifest < v.next
  /\ Replay(Manifest.recs).next <= db.next /\ Replay(Manifest.recs).last <= db.last
  /\ db.log < db.next /\ 0 < db.ver.log /\ db.ver.log <= db.log
  /\ Below(db.ver.files \cup db.reader, db.next) /\ AtMost(disk, db.ver.files, db.last)
  /\ \A q \in db.mem \cup db.imm : q <= db.last

Compacting == db.bg = "logged" /\ db.edit.del # {}
WorkOK == db.work # NoWork =>
  /\ db.work.inputs # {} /\ db.work.inputs \subseteq db.ver.files
  /\ 0 < db.work.out /\ db.work.out < db.next /\ db.work.out \notin db.ver.files
  /\ ~Compacting => db.work.out \notin Named
  /\ db.bg = "logged" /\ db.edit.del = {} => db.work.out \notin db.edit.add
EditOK == db.bg = "logged" =>
  \E x \in DOMAIN disk.tables \ db.ver.files :
    /\ db.edit.add = {x} /\ x < db.next /\ \A q \in disk.tables[x] : q <= db.last
    /\ IF db.edit.del = {}
       THEN db.edit.log = db.log /\ db.imm # NoTable /\ disk.tables[x] = db.imm
       ELSE /\ db.work # NoWork /\ x = db.work.out /\ db.edit.del = db.work.inputs
            /\ db.edit.log = db.ver.log
            /\ ~spoilt => disk.tables[x] = Held(disk, db.work.inputs)
OpenTables == ~spoilt =>
  /\ db.ver.files \cup db.reader \subseteq DOMAIN disk.tables
  /\ db.work # NoWork => db.work.out \in DOMAIN disk.tables

\* The version v is the one with the tables of w, and its log.
Same(v, w) == v.files = w.files /\ v.log = w.log
OpenVersions == ~spoilt =>
  /\ \A v \in Versions(Manifest) :
       Same(v, db.ver) \/ (db.bg = "logged" /\ Same(v, AppendVersion))
  /\ Same(Replay(Manifest.recs), IF db.bg = "logged" THEN AppendVersion ELSE db.ver)
OpenPromise == ~spoilt =>
  /\ db.log \in DOMAIN disk.logs /\ ToSet(disk.logs[db.log].recs) \subseteq db.mem
  /\ promised \subseteq Held(disk, db.ver.files) \cup Imm \cup Kept(disk.logs[db.log], left.machine)
OpenOK == db.at = "open" =>
  OpenNumbers /\ WorkOK /\ EditOK /\ OpenTables /\ OpenVersions /\ OpenPromise

Consistent ==
  /\ Typed /\ DiskOK(disk, left.machine, promised, spoilt)
  /\ QuietOK /\ RepairOK /\ NewOK /\ NumbersOK /\ RecoveryOK /\ LogsOK /\ NewManifestOK /\ OpenOK

--------------------------------------------------------------------------------
(* A directory that stays good. *)

\* What a version of the MANIFEST relies on is still there in the directory e.
LogsStay(d, e, m, min) ==
  \A n \in DOMAIN d.logs : n >= min => n \in DOMAIN e.logs /\ Kept(d.logs[n], m) \subseteq Kept(e.logs[n], m)
TablesSame(d, e, F) ==
  \A n \in F \cap DOMAIN e.tables : n \in DOMAIN d.tables /\ e.tables[n] = d.tables[n]
Stays(v, d, e, m, P, Q, r) ==
  /\ TablesSame(d, e, v.files)
  /\ ~r => /\ v.files \cap DOMAIN d.tables \subseteq DOMAIN e.tables
           /\ v.next # 0 => LogsStay(d, e, m, v.log) /\ Q \subseteq P \cup LogsKept(e, m, v.log)

\* Tables and logs that stay hold what they held.
LEMMA HeldStays ==
  ASSUME NEW d, NEW e, NEW F, NEW m, NEW min, TablesSame(d, e, F)
  PROVE  /\ F \cap DOMAIN d.tables \subseteq DOMAIN e.tables => Held(d, F) = Held(e, F)
         /\ \A x : AtMost(d, F, x) => AtMost(e, F, x)
<1>1. ASSUME F \cap DOMAIN d.tables \subseteq DOMAIN e.tables  PROVE Held(d, F) = Held(e, F)
  <2>1. F \cap DOMAIN d.tables = F \cap DOMAIN e.tables
    BY <1>1 DEF TablesSame
  <2>2. \A n \in F \cap DOMAIN e.tables : e.tables[n] = d.tables[n]
    BY DEF TablesSame
  <2> QED  BY <2>1, <2>2 DEF Held
<1>2. \A x : AtMost(d, F, x) => AtMost(e, F, x)
  BY DEF AtMost, TablesSame
<1> QED  BY <1>1, <1>2

\* What the logs kept is kept as long as the logs stay.
LEMMA LogsKeptStays ==
  ASSUME NEW d, NEW e, NEW m, NEW min, LogsStay(d, e, m, min)
  PROVE  LogsKept(d, m, min) \subseteq LogsKept(e, m, min)
BY DEF LogsKept, LogsStay

\* More tables and more logs hold more.
LEMMA HeldMore ==
  ASSUME NEW d, NEW F, NEW G, F \cap DOMAIN d.tables \subseteq G, NEW m, NEW a \in Nat, NEW b \in Nat, b <= a,
         DOMAIN d.logs \subseteq Nat
  PROVE  Held(d, F) \subseteq Held(d, G) /\ LogsKept(d, m, a) \subseteq LogsKept(d, m, b)
<1>1. Held(d, F) \subseteq Held(d, G)
  BY DEF Held
<1>2. \A n \in DOMAIN d.logs : n >= a => n >= b
  OBVIOUS
<1>3. LogsKept(d, m, a) \subseteq LogsKept(d, m, b)
  BY <1>2 DEF LogsKept
<1> QED  BY <1>1, <1>3

\* A version stays good as long as what it relies on stays.
LEMMA VersionStays ==
  ASSUME NEW v, NEW d, NEW e, NEW m, NEW P, NEW Q, NEW s \in BOOLEAN, NEW r \in BOOLEAN,
         VersionOK(v, d, m, P, s), Stays(v, d, e, m, P, Q, r), ~r => ~s,
         ~r /\ v.next = 0 => Safe(e, m, Q, DOMAIN e.tables, 0)
  PROVE  VersionOK(v, e, m, Q, r)
<1>1. AtMost(e, v.files, v.last)
  BY HeldStays DEF VersionOK, Stays
<1>2. ASSUME ~r  PROVE v.files \subseteq DOMAIN e.tables
  BY <1>2 DEF VersionOK, Stays
<1>3. ASSUME ~r, v.next # 0  PROVE Safe(e, m, Q, v.files, v.log)
  <2>1. Held(d, v.files) = Held(e, v.files)
    BY <1>3, HeldStays DEF Stays
  <2>2. LogsKept(d, m, v.log) \subseteq LogsKept(e, m, v.log)
    BY <1>3, LogsKeptStays DEF Stays
  <2>3. P \subseteq Held(d, v.files) \cup LogsKept(d, m, v.log)
    BY <1>3 DEF VersionOK, Safe
  <2>4. Q \subseteq P \cup LogsKept(e, m, v.log)
    BY <1>3 DEF Stays
  <2> QED  BY <2>1, <2>2, <2>3, <2>4 DEF Safe
<1> QED  BY <1>1, <1>2, <1>3 DEF VersionOK

\* What CURRENT and its MANIFEST say does not change, and all that it names stays.
Continues(d, e, m, P, Q, r) ==
  /\ e.current = d.current /\ d.current \in DOMAIN e.manifests
  /\ e.manifests[d.current] = d.manifests[d.current]
  /\ \A v \in Versions(d.manifests[d.current]) : Stays(v, d, e, m, P, Q, r)
  /\ d.current = 0 => Q = {}

\* A directory stays good when the MANIFEST that CURRENT names can be opened,
\* is not changed, and all that it names stays.
LEMMA DiskStays ==
  ASSUME NEW d, NEW e, NEW m, NEW P, NEW Q, NEW s \in BOOLEAN, NEW r \in BOOLEAN,
         DirType(d), DirType(e), DiskOK(d, m, P, s), Usable(d), ~r => ~s,
         Continues(d, e, m, P, Q, r)
  PROVE  DiskOK(e, m, Q, r) /\ Usable(e)
<1> DEFINE c == d.current
           w == Final(d, c)
<1>1. c \in DOMAIN d.manifests /\ w.next # 0 /\ FileType(d.manifests[c], Record)
  BY DEF Usable, Reads
<1>0. /\ e.current = c /\ c \in DOMAIN e.manifests /\ e.manifests[c] = d.manifests[c]
      /\ \A v \in Versions(d.manifests[c]) : Stays(v, d, e, m, P, Q, r)
      /\ c = 0 => Q = {}
  BY DEF Continues
<1>2. w \in Versions(d.manifests[c])
  BY <1>1, ReplayIsVersion DEF Final
<1>3. \A v \in Versions(d.manifests[c]) : VersionOK(v, d, m, P, s) /\ v.next <= w.next
  BY DEF DiskOK, ManifestOK, Usable
<1>4. Final(e, c) = w /\ Usable(e) /\ Reads(e)
  BY <1>0, <1>1 DEF Final, Usable, Reads
<1> HIDE DEF w
<1>5. VersionOK(w, e, m, Q, r)
  BY <1>0, <1>1, <1>2, <1>3, VersionStays
<1>6. ASSUME ~r  PROVE Safe(e, m, Q, DOMAIN e.tables, 0)
  <2>1. Safe(e, m, Q, w.files, w.log) /\ w.files \subseteq DOMAIN e.tables /\ w.log \in Nat
    BY <1>1, <1>5, <1>6 DEF VersionOK, VersionType
  <2>2. DOMAIN e.logs \subseteq Nat
    BY DEF DirType, Finite
  <2>3. 0 \in Nat /\ 0 <= w.log
    BY <2>1
  <2>4. Held(e, w.files) \subseteq Held(e, DOMAIN e.tables) /\ LogsKept(e, m, w.log) \subseteq LogsKept(e, m, 0)
    BY <2>1, <2>2, <2>3, HeldMore
  <2> QED  BY <2>1, <2>4 DEF Safe
<1>7. \A v \in Versions(e.manifests[c]) : VersionOK(v, e, m, Q, r) /\ v.next <= w.next
  BY <1>0, <1>3, <1>6, VersionStays
<1>8. ManifestOK(c, e, m, Q, r)
  BY <1>4, <1>7 DEF ManifestOK
<1>9. c # 0 => Opens(c, e)
  BY <1>0 DEF DiskOK, Opens, Usable
<1> QED  BY <1>0, <1>4, <1>8, <1>9 DEF DiskOK

\* The tables that some version of the MANIFEST names.
Names(d) == UNION {v.files : v \in Versions(d.manifests[d.current])}

\* What one possible version of the current MANIFEST names is in Names.
LEMMA NamedLemma ==
  ASSUME NEW d, Reads(d)
  PROVE  UNION {Replay(f.recs).files : f \in {g \in Cutoffs(d.manifests[d.current]) : Whole(g)}} = Names(d)
BY CutoffLemma DEF Names, Reads

\* The tables that the MANIFEST names have numbers below the next one it knows
\* of.
LEMMA NamesBelow ==
  ASSUME NEW d, NEW m, NEW P, NEW s, DirType(d), DiskOK(d, m, P, s), Usable(d)
  PROVE  Below(Names(d), Final(d, d.current).next) /\ Final(d, d.current).next \in Nat
<1> DEFINE w == Final(d, d.current)
<1>1. \A v \in Versions(d.manifests[d.current]) : VersionOK(v, d, m, P, s) /\ v.next <= w.next
  BY DEF DiskOK, ManifestOK, Usable
<1>2. w \in Versions(d.manifests[d.current])
  BY ReplayIsVersion DEF Final, Usable, Reads
<1>3. w.next \in Nat
  BY <1>1, <1>2 DEF VersionOK, VersionType
<1> HIDE DEF w
<1>4. ASSUME NEW v \in Versions(d.manifests[d.current]), NEW n \in v.files  PROVE 0 < n /\ n < w.next
  <2>1. v.next # 0 /\ Below(v.files, v.next) /\ v.next <= w.next /\ v.next \in Nat /\ n \in Nat
    BY <1>1, <1>4 DEF VersionOK, VersionType, Finite
  <2> QED  BY <2>1, <1>3 DEF Below
<1>5. Below(Names(d), w.next)
  BY <1>4 DEF Names, Below
<1> QED  BY <1>3, <1>5 DEF w

\* Recover reads the MANIFEST if it is there, has no torn record and has counters.
LEMMA ReadableLemma ==
  ASSUME NEW d, DirType(d)
  PROVE  d.current \notin DOMAIN d.manifests \/ ~Readable(d.manifests[d.current]) <=> ~Usable(d)
BY WholeLemma DEF DirType, ManifestType, Broken, Readable, Usable, Reads, Final

\* A directory without a database, of which nothing is promised, is in order.
LEMMA NothingOK ==
  ASSUME NEW m, NEW s
  PROVE  DirType(NoDatabase) /\ DiskOK(NoDatabase, m, {}, s)
<1>1. /\ NoDatabase.logs = Empty /\ NoDatabase.tables = Empty /\ NoDatabase.manifests = Empty
      /\ NoDatabase.current = 0 /\ DOMAIN NoDatabase = {"logs", "tables", "manifests", "current"}
  BY DEF NoDatabase
<1>2. DOMAIN Empty = {} /\ IsFcn(Empty) /\ Finite({})
  BY FS_EmptySet DEF Empty, IsFcn, Finite
<1>3. DirType(NoDatabase)
  BY <1>1, <1>2 DEF DirType
<1> QED  BY <1>1, <1>2, <1>3 DEF DiskOK, Safe, Reads

--------------------------------------------------------------------------------
(* Processes that start, and a database that is made or destroyed. *)

\* Sets with one number, and unions, parts and differences of finite sets, are
\* finite.
LEMMA FiniteFacts ==
  /\ Finite({}) /\ \A n \in Nat : Finite({n})
  /\ \A S, T : Finite(S) /\ Finite(T) => Finite(S \cup T)
  /\ \A S, T : Finite(S) /\ T \subseteq S => Finite(T)
<1>1. IsFiniteSet({})
  BY FS_EmptySet
<1>2. \A n \in Nat : IsFiniteSet({n})
  BY FS_Singleton
<1>3. \A S, T : IsFiniteSet(S) /\ IsFiniteSet(T) => IsFiniteSet(S \cup T)
  BY FS_Union
<1>4. \A S, T : IsFiniteSet(S) /\ T \subseteq S => IsFiniteSet(T)
  BY FS_Subset
<1> QED  BY <1>1, <1>2, <1>3, <1>4 DEF Finite

\* A process that has just been started knows nothing: only the directory
\* matters.
LEMMA ClosedOK ==
  ASSUME db = Closed
  PROVE  /\ DbType /\ QuietOK /\ RepairOK /\ NewOK /\ NumbersOK /\ RecoveryOK /\ LogsOK
         /\ NewManifestOK /\ OpenOK
<1>1. Finite({}) /\ Finite({0})
  BY FiniteFacts
<1>2. EditType(NoEdit)
  BY <1>1 DEF EditType, Edit, NoEdit
<1>3. db.at = "closed"
  BY DEF Closed
<1>4. DbType
  <2>1. /\ db.mem = {} /\ db.imm = {0} /\ db.log = 0 /\ db.last = 0 /\ db.next = 2
        /\ db.manifest = 0 /\ db.ver = [files |-> {}, log |-> 0] /\ db.edit = NoEdit
        /\ db.todo = {} /\ db.bg = "idle" /\ db.reader = {}
        /\ db.work = [inputs |-> {}, out |-> 0]
    BY DEF Closed, NoTable, NoWork
  <2>2. DOMAIN db = {"at", "mem", "imm", "log", "last", "next", "manifest", "ver", "edit",
                  "todo", "ok", "bg", "work", "reader"}
    BY DEF Closed
  <2>3. db.ver \in [files : SUBSET Nat, log : Nat] /\ Finite(db.ver.files)
    BY <1>1, <2>1
  <2>4. db.work \in [inputs : SUBSET Nat, out : Nat] /\ Finite(db.work.inputs)
    BY <1>1, <2>1
  <2>5. db.ok \in BOOLEAN
    <3>1. db.ok = TRUE
      BY DEF Closed
    <3> QED  BY <3>1, Zenon
  <2> QED  BY <1>1, <1>2, <1>3, <2>1, <2>2, <2>3, <2>4, <2>5 DEF DbType, Phase
<1>5. QuietOK
  BY DEF Closed, QuietOK
<1> QED  BY <1>3, <1>4, <1>5 DEF RepairOK, NewOK, NumbersOK, RecoveryOK, LogsOK, NewManifestOK, OpenOK

\* The same of a process that a step starts.
LEMMA ClosedNextOK ==
  ASSUME db' = Closed
  PROVE  /\ DbType' /\ QuietOK' /\ RepairOK' /\ NewOK' /\ NumbersOK' /\ RecoveryOK' /\ LogsOK'
         /\ NewManifestOK' /\ OpenOK'
<1>1. Finite({}) /\ Finite({0})
  BY FiniteFacts
<1>2. EditType(NoEdit)
  BY <1>1 DEF EditType, Edit, NoEdit
<1>3. db'.at = "closed"
  BY DEF Closed
<1>4. DbType'
  <2>1. /\ db'.mem = {} /\ db'.imm = {0} /\ db'.log = 0 /\ db'.last = 0 /\ db'.next = 2
        /\ db'.manifest = 0 /\ db'.ver = [files |-> {}, log |-> 0] /\ db'.edit = NoEdit
        /\ db'.todo = {} /\ db'.bg = "idle" /\ db'.reader = {}
        /\ db'.work = [inputs |-> {}, out |-> 0]
    BY DEF Closed, NoTable, NoWork
  <2>2. DOMAIN db' = {"at", "mem", "imm", "log", "last", "next", "manifest", "ver", "edit",
                  "todo", "ok", "bg", "work", "reader"}
    BY DEF Closed
  <2>3. db'.ver \in [files : SUBSET Nat, log : Nat] /\ Finite(db'.ver.files)
    BY <1>1, <2>1
  <2>4. db'.work \in [inputs : SUBSET Nat, out : Nat] /\ Finite(db'.work.inputs)
    BY <1>1, <2>1
  <2>5. db'.ok \in BOOLEAN
    <3>1. db'.ok = TRUE
      BY DEF Closed
    <3> QED  BY <3>1, Zenon
  <2> QED  BY <1>1, <1>2, <1>3, <2>1, <2>2, <2>3, <2>4, <2>5 DEF DbType, Phase
<1>5. QuietOK'
  BY DEF Closed, QuietOK
<1> QED  BY <1>3, <1>4, <1>5 DEF RepairOK, NewOK, NumbersOK, RecoveryOK, LogsOK, NewManifestOK, OpenOK

\* Initially no process runs and there is no database.
LEMMA InitConsistent == Init => Consistent
<1> SUFFICES ASSUME Init  PROVE Consistent
  OBVIOUS
<1> USE DEF Init
<1>1. HistoryType
  BY FaultAssumption DEF HistoryType
<1> QED  BY <1>1, NothingOK, ClosedOK DEF Consistent, Typed

\* A step that changes nothing keeps the invariant.
LEMMA StutterKeeps == Consistent /\ UNCHANGED vars => Consistent'
<1> SUFFICES ASSUME Consistent, UNCHANGED vars  PROVE Consistent'
  OBVIOUS
<1>1. db' = db /\ disk' = disk /\ left' = left /\ promised' = promised /\ spoilt' = spoilt
  BY DEF vars
<1>2. Typed' /\ DiskOK(disk, left.machine, promised, spoilt)' /\ QuietOK' /\ RepairOK' /\ NewOK'
  BY <1>1 DEF Consistent, Typed, DbType, HistoryType, QuietOK, RepairOK, NewOK
<1>3. NumbersOK' /\ RecoveryOK' /\ LogsOK' /\ NewManifestOK'
  BY <1>1 DEF Consistent, NumbersOK, RecoveryOK, LogsOK, NewManifestOK, Named, Found, SnapshotAndEdit
<1>4. OpenNumbers' = OpenNumbers /\ OpenTables' = OpenTables /\ OpenPromise' = OpenPromise
  BY <1>1 DEF OpenNumbers, OpenTables, OpenPromise, Manifest, Imm
<1>5. WorkOK' = WorkOK /\ EditOK' = EditOK
  BY <1>1 DEF WorkOK, EditOK, Compacting, Named
<1>6. OpenVersions' = OpenVersions
  BY <1>1 DEF OpenVersions, Manifest, AppendVersion
<1>7. OpenOK'
  BY <1>1, <1>4, <1>5, <1>6 DEF Consistent, OpenOK
<1> QED  BY <1>2, <1>3, <1>7 DEF Consistent

\* Open fails and leaves the directory as it is.
LEMMA OpenFailsKeeps == Consistent /\ OpenFails => Consistent'
<1> SUFFICES ASSUME Consistent, OpenFails  PROVE Consistent'
  OBVIOUS
<1>1. db' = Closed /\ UNCHANGED <<disk, left, promised, spoilt>>
  BY DEF OpenFails
<1>2. DirType(disk)' /\ HistoryType' /\ DiskOK(disk, left.machine, promised, spoilt)'
  BY <1>1 DEF Consistent, Typed, HistoryType
<1> QED  BY <1>1, <1>2, ClosedNextOK DEF Consistent, Typed

\* DestroyDB leaves nothing, and promises nothing.
LEMMA DestroyKeeps == Consistent /\ DestroyDB => Consistent'
<1> SUFFICES ASSUME Consistent, DestroyDB  PROVE Consistent'
  OBVIOUS
<1>1. disk' = NoDatabase /\ promised' = {} /\ UNCHANGED <<db, left, spoilt>> /\ db.at = "closed"
  BY DEF DestroyDB
<1>2. HistoryType' /\ DbType' /\ QuietOK'
  BY <1>1 DEF Consistent, Typed, HistoryType, DbType, QuietOK
<1>3. DirType(disk)' /\ DiskOK(disk, left.machine, promised, spoilt)'
  BY <1>1, NothingOK
<1>4. db'.at = "closed"
  BY <1>1
<1> QED  BY <1>2, <1>3, <1>4 DEF Consistent, Typed, RepairOK, NewOK, NumbersOK, RecoveryOK, LogsOK, NewManifestOK, OpenOK

\* What a MANIFEST with one record says.
LEMMA FirstRecord ==
  ASSUME NEW e, EditType(e)
  PROVE  LET f == Add(EmptyFile, EncodeTo(e))
         IN  /\ FileType(f, Record) /\ f.synced = 0 /\ Len(f.recs) = 1
             /\ Replay(f.recs) = Applied(NoVersion, e)
             /\ Versions(f) = {NoVersion, Applied(NoVersion, e)}
<1>1. FileType(EmptyFile, Record) /\ EmptyFile.synced = 0 /\ Len(EmptyFile.recs) = 0 /\ EmptyFile.recs = <<>>
  BY DEF FileType, EmptyFile
<1>2. Versions(EmptyFile) = {NoVersion} /\ Replay(EmptyFile.recs) = NoVersion
  BY <1>1, ReplayIsVersion, ReplayEmpty
<1> HIDE DEF EmptyFile
<1> DEFINE f == Add(EmptyFile, EncodeTo(e))
<1>3. /\ FileType(f, Record) /\ f.synced = EmptyFile.synced /\ Len(f.recs) = Len(EmptyFile.recs) + 1
      /\ Replay(f.recs) = Applied(Replay(EmptyFile.recs), e)
      /\ Versions(f) = Versions(EmptyFile) \cup {Applied(Replay(EmptyFile.recs), e)}
  BY <1>1, VersionsAdd
<1> HIDE DEF f
<1>4. /\ FileType(f, Record) /\ f.synced = 0 /\ Len(f.recs) = 1
      /\ Replay(f.recs) = Applied(NoVersion, e)
      /\ Versions(f) = {NoVersion, Applied(NoVersion, e)}
  BY <1>1, <1>2, <1>3
<1> QED  BY <1>4 DEF f

\* The version that an edit of an empty database makes.
LEMMA AppliedFirst ==
  ASSUME NEW e, EditType(e)
  PROVE  /\ Applied(NoVersion, e).files = e.add /\ Applied(NoVersion, e).log = e.log
         /\ Applied(NoVersion, e).next = e.next /\ Applied(NoVersion, e).last = e.last
BY DEF Applied, NoVersion, Known, EditType, Edit

\* The first MANIFEST: without its record nothing is known of the database, and
\* with it what the record says.
LEMMA FirstManifest ==
  ASSUME NEW d, NEW m, NEW P, NEW s \in BOOLEAN, DirType(d), NEW e, EditType(e),
         d.manifests[1] = Add(EmptyFile, EncodeTo(e)), 1 \in DOMAIN d.manifests,
         ~s => Safe(d, m, P, DOMAIN d.tables, 0),
         VersionOK(Applied(NoVersion, e), d, m, P, s)
  PROVE  ManifestOK(1, d, m, P, s)
<1> DEFINE f == Add(EmptyFile, EncodeTo(e))
           w == Applied(NoVersion, e)
<1>1. Versions(f) = {NoVersion, w} /\ Replay(f.recs) = w
  BY FirstRecord
<1>2. Final(d, 1) = w /\ Versions(d.manifests[1]) = {NoVersion, w}
  BY <1>1 DEF Final
<1> HIDE DEF f, w
<1>3. NoVersion.files = {} /\ NoVersion.log = 0 /\ NoVersion.next = 0 /\ NoVersion.last = 0
  BY DEF NoVersion
<1>4. VersionOK(NoVersion, d, m, P, s)
  BY <1>3, FiniteFacts DEF VersionOK, VersionType, AtMost
<1>5. w.next \in Nat /\ VersionOK(w, d, m, P, s)
  BY DEF VersionOK, VersionType, w
<1> QED  BY <1>2, <1>3, <1>4, <1>5 DEF ManifestOK

\* NewDB makes the first MANIFEST of an empty database.
LEMMA NewDBKeeps == Consistent /\ NewDB => Consistent'
<1> SUFFICES ASSUME Consistent, NewDB  PROVE Consistent'
  OBVIOUS
<1> DEFINE e == [NoEdit EXCEPT !.next = 2]
           f == Add(EmptyFile, EncodeTo(e))
           m == left.machine
<1>0. EditType(e) /\ e.add = {} /\ e.log = 0 /\ e.next = 2 /\ e.last = 0
  BY FiniteFacts DEF EditType, Edit, NoEdit
<1>1. FileType(f, Record) /\ Replay(f.recs) = Applied(NoVersion, e)
  BY <1>0, FirstRecord
<1>2. /\ db.at = "closed" /\ disk.current = 0 /\ disk' = [disk EXCEPT !.manifests = With(@, 1, f)]
      /\ db' = [db EXCEPT !.at = "new"] /\ UNCHANGED <<left, promised, spoilt>>
  BY DEF NewDB
<1> HIDE DEF e, f
<1>3. DirType(disk) /\ DbType /\ HistoryType /\ QuietOK
  BY DEF Consistent, Typed
<1>4. /\ DOMAIN disk' = DOMAIN disk /\ disk'.logs = disk.logs /\ disk'.tables = disk.tables
      /\ disk'.manifests = With(disk.manifests, 1, f) /\ disk'.current = 0
  BY <1>2, <1>3 DEF DirType
<1>5. DOMAIN disk'.manifests = DOMAIN disk.manifests \cup {1} /\ disk'.manifests[1] = f
      /\ \A n \in DOMAIN disk.manifests : n # 1 => disk'.manifests[n] = disk.manifests[n]
  BY <1>4 DEF With
<1>6. DirType(disk')
  BY <1>1, <1>3, <1>4, <1>5 DEF DirType, ManifestType
<1>7. promised' = {} /\ left' = left /\ spoilt' = spoilt
  BY <1>2 DEF Consistent, DiskOK
<1>8. VersionOK(Applied(NoVersion, e), disk', m, {}, spoilt)
  BY <1>0, AppliedFirst, FiniteFacts DEF VersionOK, VersionType, Below, AtMost, Safe
<1>9. ManifestOK(1, disk', m, {}, spoilt)
  <2>1. Safe(disk', m, {}, DOMAIN disk'.tables, 0)
    BY DEF Safe
  <2>2. disk'.manifests[1] = Add(EmptyFile, EncodeTo(e)) /\ 1 \in DOMAIN disk'.manifests
    BY <1>5 DEF f
  <2>3. spoilt \in BOOLEAN
    BY <1>3 DEF HistoryType
  <2> QED  BY <1>0, <1>6, <1>8, <2>1, <2>2, <2>3, FirstManifest
<1>11. DiskOK(disk', m, {}, spoilt)
  <2>1. Reads(disk') => ManifestOK(0, disk', m, {}, spoilt)
    <3> SUFFICES ASSUME Reads(disk')  PROVE ManifestOK(0, disk', m, {}, spoilt)
      OBVIOUS
    <3>1. 0 \in DOMAIN disk.manifests /\ disk'.manifests[0] = disk.manifests[0]
      BY <1>4, <1>5 DEF Reads
    <3>2. ManifestOK(0, disk, m, {}, spoilt)
      BY <1>2, <1>4, <1>7, <3>1 DEF Consistent, DiskOK, Reads
    <3>3. \A v : VersionOK(v, disk, m, {}, spoilt) => VersionOK(v, disk', m, {}, spoilt)
      BY <1>4 DEF VersionOK, AtMost, Safe
    <3> QED  BY <3>1, <3>2, <3>3 DEF ManifestOK, Final
  <2> QED  BY <1>4, <2>1 DEF DiskOK, Safe
<1>12. DbType' /\ QuietOK' /\ db'.at = "new"
  BY <1>2, <1>3 DEF DbType, QuietOK, Phase
<1>13. HistoryType'
  BY <1>2, <1>3 DEF HistoryType
<1>14. NewOK'
  BY <1>1, <1>4, <1>5, <1>7, <1>9 DEF NewOK
<1> QED  BY <1>6, <1>7, <1>11, <1>12, <1>13, <1>14
         DEF Consistent, Typed, RepairOK, NumbersOK, RecoveryOK, LogsOK, NewManifestOK, OpenOK

\* CURRENT names the first MANIFEST.
LEMMA SetCurrentNewKeeps == Consistent /\ SetCurrentNew => Consistent'
<1> SUFFICES ASSUME Consistent, SetCurrentNew  PROVE Consistent'
  OBVIOUS
<1>2. /\ db.at = "new" /\ disk' = [disk EXCEPT !.current = 1]
      /\ db' = [db EXCEPT !.at = "closed"] /\ UNCHANGED <<left, promised, spoilt>>
  BY DEF SetCurrentNew
<1>3. DirType(disk) /\ DbType /\ HistoryType /\ QuietOK /\ NewOK
  BY DEF Consistent, Typed
<1>4. /\ DOMAIN disk' = DOMAIN disk /\ disk'.logs = disk.logs /\ disk'.tables = disk.tables
      /\ disk'.manifests = disk.manifests /\ disk'.current = 1
  BY <1>2, <1>3 DEF DirType
<1>5. DirType(disk')
  BY <1>3, <1>4 DEF DirType
<1>6. DbType' /\ QuietOK' /\ db'.at = "closed" /\ HistoryType'
  BY <1>2, <1>3 DEF DbType, QuietOK, Phase, HistoryType
<1>7. DiskOK(disk', left.machine, promised, spoilt)
  <2>1. \A v, m, P, s : VersionOK(v, disk, m, P, s) => VersionOK(v, disk', m, P, s)
    BY <1>4 DEF VersionOK, AtMost, Safe, Held, LogsKept
  <2>2. ManifestOK(1, disk', left.machine, promised, spoilt) /\ Opens(1, disk') /\ Reads(disk')
    BY <1>2, <1>3, <1>4, <2>1 DEF NewOK, ManifestOK, Opens, Final, Reads
  <2> QED  BY <1>4, <2>2 DEF DiskOK
<1> QED  BY <1>2, <1>5, <1>6, <1>7
         DEF Consistent, Typed, RepairOK, NewOK, NumbersOK, RecoveryOK, LogsOK, NewManifestOK, OpenOK

--------------------------------------------------------------------------------
(* Recovery. *)

\* Every record that is kept of a log is in the log.
LEMMA KeptLemma ==
  ASSUME NEW f, FileType(f, Nat), NEW m
  PROVE  Kept(f, m) \subseteq ToSet(f.recs) /\ ToSet(f.recs) \subseteq Nat /\ IsFiniteSet(ToSet(f.recs))
<1>1. f.recs \in Seq(Nat) /\ f.synced \in Nat /\ f.synced <= Len(f.recs) /\ Len(f.recs) \in Nat
  BY DEF FileType
<1>2. \A i \in 1..f.synced : i \in DOMAIN f.recs
  BY <1>1
<1>3. Kept(f, m) \subseteq ToSet(f.recs)
  BY <1>2 DEF Kept, ToSet
<1> QED  BY <1>1, <1>3, ToSetFinite

\* Recover reads what CURRENT and the MANIFEST say, or reports a corruption.
LEMMA RecoverKeeps == Consistent /\ Recover => Consistent'
<1> SUFFICES ASSUME Consistent, Recover  PROVE Consistent'
  OBVIOUS
<1> DEFINE c == disk.current
           v == Final(disk, c)
           m == left.machine
<1>1. DirType(disk) /\ DbType /\ HistoryType /\ QuietOK /\ DiskOK(disk, m, promised, spoilt)
  BY DEF Consistent, Typed
<1>2. /\ db.at = "closed" /\ c # 0 /\ UNCHANGED <<disk, left, promised, spoilt>>
      /\ ~Usable(disk) => db' = [db EXCEPT !.at = "corrupt"]
      /\ Usable(disk) => db' = [Closed EXCEPT !.at = "logs", !.ver = [files |-> v.files, log |-> v.log],
                                   !.manifest = v.next, !.next = v.next + 1, !.last = v.last,
                                   !.todo = LogsToRecover(v.log)]
  <2>1. disk.current \notin DOMAIN disk.manifests \/ ~Readable(disk.manifests[disk.current])
          <=> ~Usable(disk)
    BY <1>1, ReadableLemma
  <2> QED  BY <2>1 DEF Recover, Final
<1> HIDE DEF v
<1>3. HistoryType' /\ DirType(disk') /\ DiskOK(disk', left'.machine, promised', spoilt')
  BY <1>1, <1>2 DEF HistoryType
<1>4. CASE ~Usable(disk)
  <2>1. db' = [db EXCEPT !.at = "corrupt"]
    BY <1>2, <1>4
  <2>3. DbType' /\ QuietOK' /\ db'.at = "corrupt"
    BY <1>1, <1>2, <2>1 DEF DbType, QuietOK, Phase
  <2>4. RepairOK'
    BY <1>2, <1>4, <2>3 DEF RepairOK, Usable, Reads, Final
  <2> QED  BY <1>3, <2>3, <2>4 DEF Consistent, Typed, NewOK, NumbersOK, RecoveryOK, LogsOK, NewManifestOK, OpenOK
<1>5. CASE Usable(disk)
  <2>1. /\ db'.at = "logs" /\ db'.mem = {} /\ db'.imm = NoTable /\ db'.log = 0 /\ db'.last = v.last
        /\ db'.next = v.next + 1 /\ db'.manifest = v.next /\ db'.edit = NoEdit
        /\ db'.ver = [files |-> v.files, log |-> v.log]
        /\ db'.todo = LogsToRecover(v.log) /\ db'.bg = "idle" /\ db'.work = NoWork /\ db'.reader = {}
    <3>1. db' = [Closed EXCEPT !.at = "logs", !.ver = [files |-> v.files, log |-> v.log],
                               !.manifest = v.next, !.next = v.next + 1, !.last = v.last,
                               !.todo = LogsToRecover(v.log)]
      BY <1>2, <1>5
    <3>2. DOMAIN Closed = {"at", "mem", "imm", "log", "last", "next", "manifest", "ver", "edit",
                           "todo", "ok", "bg", "work", "reader"}
          /\ Closed.mem = {} /\ Closed.imm = NoTable /\ Closed.log = 0 /\ Closed.edit = NoEdit
          /\ Closed.bg = "idle" /\ Closed.work = NoWork /\ Closed.reader = {}
      BY DEF Closed
    <3> HIDE DEF Closed
    <3> QED  BY <3>1, <3>2
  <2>2. db'.ok = TRUE
    BY <1>2, <1>5 DEF Closed
  <2>3. DOMAIN db' = {"at", "mem", "imm", "log", "last", "next", "manifest", "ver", "edit",
                  "todo", "ok", "bg", "work", "reader"}
    BY <1>2, <1>5 DEF Closed
  <2>4. v \in Versions(disk.manifests[c]) /\ c \in DOMAIN disk.manifests /\ v.next # 0
    BY <1>5, ReplayIsVersion DEF Usable, Reads, Final, v
  <2>5. VersionOK(v, disk, m, promised, spoilt)
    BY <1>1, <1>5, <2>4 DEF DiskOK, ManifestOK, Usable
  <2>6. VersionType(v) /\ Below(v.files, v.next) /\ v.log < v.next /\ AtMost(disk, v.files, v.last)
    BY <2>4, <2>5 DEF VersionOK
  <2>7. db'.ver.files = v.files /\ db'.ver.log = v.log /\ NoEdit.add = {} /\ NoEdit.del = {} /\ Found' = v.files
    BY <2>1 DEF NoEdit, Found
  <2>8. LogsToRecover(v.log) = {n \in DOMAIN disk.logs : n >= v.log} /\ DOMAIN disk.logs \subseteq Nat
    BY <1>1 DEF LogsToRecover, DirType, Finite
  <2>9. DbType'
    <3>1. EditType(NoEdit) /\ Finite({}) /\ Finite({0})
      BY FiniteFacts DEF EditType, Edit, NoEdit
    <3>2. db'.ok \in BOOLEAN
      BY <2>2, Zenon
    <3>3. db'.ver \in [files : SUBSET Nat, log : Nat] /\ Finite(db'.ver.files)
      BY <2>1, <2>6, <2>7 DEF VersionType, Finite
    <3>4. db'.work \in [inputs : SUBSET Nat, out : Nat] /\ Finite(db'.work.inputs)
      BY <2>1, <3>1 DEF NoWork
    <3>5. db'.log \in Nat /\ db'.last \in Nat /\ db'.next \in Nat /\ db'.manifest \in Nat
      BY <2>1, <2>6 DEF VersionType
    <3> QED  BY <2>1, <2>3, <2>8, <3>1, <3>2, <3>3, <3>4, <3>5 DEF DbType, NoTable, Phase
  <2>10. QuietOK'
    BY <2>1 DEF QuietOK
  <2>11. NumbersOK'
    <3>1. Below(Names(disk), v.next) /\ v.next \in Nat /\ Named = Names(disk)
      BY <1>1, <1>5, <2>4, NamesBelow, NamedLemma DEF Named, Usable, v
    <3>2. Named' = Named /\ disk' = disk
      BY <1>2 DEF Named
    <3>3. \A n \in Named : n < v.next
      BY <3>1 DEF Below
    <3>4. Named \subseteq Nat
      <4>1. \A x \in Versions(disk.manifests[c]) : x.files \subseteq Nat
        BY <1>1, <1>5 DEF Usable, DiskOK, ManifestOK, VersionOK, VersionType, Finite
      <4> QED  BY <3>1, <4>1 DEF Names
    <3>5. \A n \in Named : n < v.next + 1
      BY <3>1, <3>3, <3>4
    <3>6. \A n \in DOMAIN disk.logs : n < v.next + 1 \/ n \in db'.todo
      BY <2>1, <2>6, <2>8 DEF VersionType
    <3>7. 0 < v.next /\ v.next < v.next + 1
      BY <2>4, <3>1
    <3> QED  BY <1>5, <2>1, <3>2, <3>5, <3>6, <3>7 DEF NumbersOK
  <2>12. RecoveryOK'
    <3>1. Below(v.files, v.next + 1)
      BY <2>6 DEF Below, VersionType, Finite
    <3>2. ~spoilt => v.files \subseteq DOMAIN disk.tables
      BY <2>5 DEF VersionOK
    <3>3. c < v.next \/ (c = 1 /\ v.next = 1 /\ v.files = {})
      <4>1. CASE c < v.next
        BY <4>1
      <4>2. CASE ~(c < v.next)
        <5>1. c = 1
          BY <1>1, <1>2, <1>5, <2>4, <4>2 DEF DiskOK, Opens, Usable
        <5>2. v.next = 1
          BY <4>2, <5>1, <2>4, <2>6 DEF VersionType
        <5>3. v.files = {}
          BY <5>2, <2>6 DEF Below, VersionType, Finite
        <5> QED  BY <5>1, <5>2, <5>3
      <4> QED  BY <4>1, <4>2
    <3>4. db'.ok
      BY <2>2, Zenon
    <3> QED  BY <1>2, <2>1, <2>6, <2>7, <3>1, <3>2, <3>3, <3>4 DEF RecoveryOK
  <2>13. LogsOK'
    <3>1. ASSUME ~spoilt
          PROVE  promised \subseteq Held(disk, v.files) \cup UNION {ToSet(disk.logs[n].recs) : n \in LogsToRecover(v.log)}
      <4>1. promised \subseteq Held(disk, v.files) \cup LogsKept(disk, m, v.log)
        BY <2>4, <2>5, <3>1 DEF VersionOK, Safe
      <4>2. \A n \in DOMAIN disk.logs : Kept(disk.logs[n], m) \subseteq ToSet(disk.logs[n].recs)
        BY <1>1, KeptLemma DEF DirType
      <4> QED  BY <4>1, <4>2, <2>8 DEF LogsKept
    <3> QED  BY <1>2, <2>1, <2>7, <2>8, <3>1 DEF LogsOK
  <2> QED  BY <1>3, <2>1, <2>9, <2>10, <2>11, <2>12, <2>13
           DEF Consistent, Typed, RepairOK, NewOK, NewManifestOK, OpenOK
<1> QED  BY <1>4, <1>5

\* max_sequence is at least the number of every write that was read.
LEMMA MaxSequenceLemma ==
  ASSUME NEW T, Finite(T), NEW parts \in Seq(SUBSET Nat), db.last \in Nat,
         \A j \in 1..Len(parts) : parts[j] \subseteq T
  PROVE  /\ MaxSequence(parts) \in Nat /\ db.last <= MaxSequence(parts)
         /\ \A j \in 1..Len(parts) : \A q \in parts[j] : q <= MaxSequence(parts)
<1> DEFINE S == {db.last} \cup UNION ToSet(parts)
<1>1. UNION ToSet(parts) \subseteq T
  BY DEF ToSet
<1>2. Finite(S)
  <2>1. Finite({db.last})
    BY FiniteFacts
  <2> QED  BY <1>1, <2>1, FiniteFacts
<1>3. db.last \in S /\ \A j \in 1..Len(parts) : parts[j] \subseteq S
  BY DEF ToSet
<1> HIDE DEF S
<1>4. Max(S) \in S /\ \A y \in S : y <= Max(S)
  BY <1>2, <1>3, MaxLemma DEF Finite
<1>5. MaxSequence(parts) = Max(S)
  BY DEF MaxSequence, S
<1> QED  BY <1>2, <1>3, <1>4, <1>5 DEF Finite

\* MarkFileNumberUsed never lowers the counter.
LEMMA MarkLemma ==
  ASSUME NEW a \in Nat, NEW n \in Nat
  PROVE  /\ MarkFileNumberUsed(a, n) \in Nat /\ a <= MarkFileNumberUsed(a, n)
         /\ n < MarkFileNumberUsed(a, n)
<1> DEFINE S == {a, n + 1}
<1>1. S \in SUBSET Nat /\ IsFiniteSet(S) /\ S # {} /\ a \in S /\ n + 1 \in S
  <2>1. Finite({a}) /\ Finite({n + 1}) /\ S = {a} \cup {n + 1}
    BY FiniteFacts
  <2>2. Finite(S)
    BY <2>1, FiniteFacts
  <2> QED  BY <2>2 DEF Finite
<1> HIDE DEF S
<1>2. Max(S) \in S /\ \A y \in S : y <= Max(S)
  BY <1>1, MaxLemma
<1>3. MarkFileNumberUsed(a, n) = Max(S)
  BY DEF MarkFileNumberUsed, S
<1>4. Max(S) \in Nat /\ a <= Max(S) /\ n + 1 <= Max(S)
  BY <1>1, <1>2
<1> QED  BY <1>3, <1>4

\* The tables that the MANIFEST names.
LEMMA VersionNamed ==
  ASSUME Consistent, Usable(disk)
  PROVE  /\ disk.current \in DOMAIN disk.manifests /\ FileType(disk.manifests[disk.current], Record)
         /\ Named = Names(disk) /\ Named \subseteq Nat
         /\ \A v \in Versions(disk.manifests[disk.current]) :
              VersionOK(v, disk, left.machine, promised, spoilt) /\ v.files \subseteq Named
              /\ v.next <= Final(disk, disk.current).next
         /\ Final(disk, disk.current) \in Versions(disk.manifests[disk.current])
<1>1. DirType(disk) /\ Reads(disk) /\ disk.current \in DOMAIN disk.manifests
  BY DEF Consistent, Typed, Usable, Reads
<1>2. Named = Names(disk)
  BY <1>1, NamedLemma DEF Named
<1>3. \A v \in Versions(disk.manifests[disk.current]) :
        VersionOK(v, disk, left.machine, promised, spoilt) /\ v.next <= Final(disk, disk.current).next
  BY <1>1 DEF Consistent, DiskOK, ManifestOK
<1>4. \A v \in Versions(disk.manifests[disk.current]) : v.files \subseteq Nat
  BY <1>3 DEF VersionOK, VersionType, Finite
<1>5. Named \subseteq Nat /\ \A v \in Versions(disk.manifests[disk.current]) : v.files \subseteq Named
  BY <1>2, <1>4 DEF Names
<1>6. FileType(disk.manifests[disk.current], Record)
  BY <1>1 DEF Reads
<1>7. Final(disk, disk.current) \in Versions(disk.manifests[disk.current])
  BY <1>6, ReplayIsVersion DEF Final
<1> QED  BY <1>1, <1>2, <1>3, <1>5, <1>6, <1>7

\* RecoverLogFile turns a log into tables.
LEMMA RecoverLogKeeps == Consistent /\ RecoverLogFile => Consistent'
<1> SUFFICES ASSUME Consistent, RecoverLogFile  PROVE Consistent'
  OBVIOUS
<1> DEFINE n == Min(db.todo)
           recs == disk.logs[n].recs
           parts == Memtables(recs)
           m == left.machine
<1>1. DirType(disk) /\ DbType /\ HistoryType /\ QuietOK /\ DiskOK(disk, m, promised, spoilt)
      /\ NumbersOK /\ RecoveryOK /\ LogsOK
  BY DEF Consistent, Typed
<1> DEFINE nums(i) == {db.next + j - 1 : j \in 1..i}
           fails(i) == i < Len(parts)
           used(i) == IF fails(i) THEN i + 1 ELSE i
<1>2. PICK i \in {Len(parts)} \cup IF left.recover > 0 THEN 0..(Len(parts) - 1) ELSE {} :
        /\ disk' = [disk EXCEPT !.tables =
                             [k \in DOMAIN @ \cup nums(i) |->
                                IF k \in nums(i) THEN parts[k - db.next + 1] ELSE @[k]]]
        /\ db' = [db EXCEPT !.edit.add = @ \cup nums(i), !.ok = ~fails(i), !.todo = @ \ {n},
                            !.last = MaxSequence(SubSeq(parts, 1, used(i))),
                            !.next = MarkFileNumberUsed(@ + used(i), n)]
        /\ left' = IF fails(i) THEN [left EXCEPT !.recover = @ - 1] ELSE left
        /\ spoilt' = (spoilt \/ fails(i))
  BY DEF RecoverLogFile
<1>3. db.at = "logs" /\ db.todo # {} /\ promised' = promised
  BY DEF RecoverLogFile
<1>4. n \in db.todo /\ n \in DOMAIN disk.logs /\ n \in Nat
  <2>1. db.todo \in SUBSET Nat
    BY <1>1 DEF DbType
  <2> QED  BY <2>1, <1>1, <1>3, MinLemma DEF LogsOK
<1> HIDE DEF n
<1>5. recs \in Seq(Nat) /\ Finite(ToSet(recs))
  <2>1. FileType(disk.logs[n], Nat)
    BY <1>1, <1>4 DEF DirType
  <2> QED  BY <2>1, ToSetFinite DEF FileType, Finite
<1> HIDE DEF recs
<1>6. /\ parts \in Seq(SUBSET Nat) /\ \A j \in 1..Len(parts) : parts[j] \subseteq ToSet(recs)
      /\ \A q \in ToSet(recs) : \E j \in 1..Len(parts) : q \in parts[j]
  BY <1>5, MemtablesLemma
<1> HIDE DEF parts
<1>7. Len(parts) \in Nat /\ i \in 0..Len(parts) /\ i \in Nat /\ used(i) \in 0..Len(parts) /\ i <= used(i)
      /\ used(i) \in Nat /\ (fails(i) => left.recover > 0)
  BY <1>6
<1> DEFINE N == nums(i)
           u == used(i)
           last == MaxSequence(SubSeq(parts, 1, u))
           next == MarkFileNumberUsed(db.next + u, n)
           B == fails(i)
<1>8. B \in BOOLEAN /\ (~B => i = Len(parts)) /\ u \in Nat /\ i <= u
  BY <1>7
<1>9. db.next \in Nat
  BY <1>1 DEF DbType
<1>10. \A k \in N : k \in Nat /\ db.next <= k /\ k < db.next + i /\ k - db.next + 1 \in 1..i /\ k - db.next + 1 \in 1..Len(parts)
  BY <1>7, <1>9
<1>11. \A j \in 1..i : db.next + j - 1 \in N /\ (db.next + j - 1) - db.next + 1 = j
  BY <1>7, <1>9
<1>12. Finite(N)
  <2> DEFINE b == db.next + i
  <2>1. b \in Int
    BY <1>7, <1>9
  <2>2. N \subseteq 0..b /\ N \subseteq Nat
    BY <1>7, <1>9, <1>10
  <2> HIDE DEF b, N
  <2>3. IsFiniteSet(0..b)
    BY <2>1, FS_Interval
  <2>4. IsFiniteSet(N)
    BY <2>2, <2>3, FS_Subset
  <2> QED  BY <2>2, <2>4 DEF Finite
<1>13. last \in Nat /\ db.last <= last /\ \A j \in 1..u : \A q \in parts[j] : q <= last
  <2> DEFINE t == SubSeq(parts, 1, u)
  <2>1. t \in Seq(SUBSET Nat) /\ Len(t) = u /\ \A j \in 1..u : t[j] = parts[j] /\ j \in 1..Len(parts)
    BY <1>6, <1>7
  <2>2. db.last \in Nat
    BY <1>1 DEF DbType
  <2>3. last = MaxSequence(t)
    OBVIOUS
  <2> HIDE DEF t, u, last
  <2>4. \A j \in 1..Len(t) : t[j] \subseteq ToSet(recs)
    BY <1>6, <2>1
  <2>5. MaxSequence(t) \in Nat /\ db.last <= MaxSequence(t)
        /\ \A j \in 1..Len(t) : \A q \in t[j] : q <= MaxSequence(t)
    BY <1>5, <2>1, <2>2, <2>4, MaxSequenceLemma
  <2> QED  BY <2>1, <2>3, <2>5
<1>14. next \in Nat /\ db.next + u <= next /\ n < next
  <2>1. db.next + u \in Nat
    BY <1>7, <1>9
  <2> QED  BY <2>1, <1>4, MarkLemma
<1> HIDE DEF used, u, last, next
<1>15. /\ DOMAIN disk' = DOMAIN disk /\ disk'.logs = disk.logs /\ disk'.manifests = disk.manifests
       /\ disk'.current = disk.current /\ DOMAIN disk'.tables = DOMAIN disk.tables \cup N
       /\ \A k \in N : disk'.tables[k] = parts[k - db.next + 1]
       /\ \A k \in DOMAIN disk.tables \ N : disk'.tables[k] = disk.tables[k]
  <2> HIDE DEF nums, fails
  <2> QED  BY <1>1, <1>2 DEF DirType
<1>16. DOMAIN db' = DOMAIN db /\ db'.at = "logs" /\ db'.mem = db.mem /\ db'.imm = db.imm /\ db'.log = db.log
       /\ db'.last = last /\ db'.next = next /\ db'.manifest = db.manifest /\ db'.ver = db.ver
       /\ db'.edit = [db.edit EXCEPT !.add = @ \cup N] /\ db'.todo = db.todo \ {n}
       /\ db'.bg = db.bg /\ db'.work = db.work /\ db'.reader = db.reader
  <2> HIDE DEF nums, fails
  <2> QED  BY <1>1, <1>2, <1>3 DEF DbType, u, last, next
<1>17. db'.ok = ~B
  <2> HIDE DEF nums, fails
  <2>1. "ok" \in DOMAIN db
    BY <1>1 DEF DbType
  <2> QED  BY <1>2, <2>1
<1>18. spoilt' = (spoilt \/ B) /\ left'.machine = m /\ HistoryType'
  <2> HIDE DEF nums, fails
  <2>1. left \in Fault /\ promised \subseteq Nat /\ spoilt \in BOOLEAN
    BY <1>1 DEF HistoryType
  <2>2. CASE B
    <3>1. left' = [left EXCEPT !.recover = @ - 1] /\ left.recover > 0
      BY <2>2, <1>2, <1>7
    <3>2. left' \in Fault /\ left'.machine = left.machine
      BY <2>1, <3>1 DEF Fault
    <3>3. spoilt' \in BOOLEAN /\ spoilt' = (spoilt \/ B)
      BY <1>2
    <3> QED  BY <1>3, <2>1, <3>2, <3>3 DEF HistoryType
  <2>3. CASE ~B
    <3>1. left' = left
      BY <2>3, <1>2
    <3>2. spoilt' \in BOOLEAN /\ spoilt' = (spoilt \/ B)
      BY <1>2
    <3> QED  BY <1>3, <2>1, <3>1, <3>2 DEF HistoryType
  <2> QED  BY <2>2, <2>3
<1> HIDE DEF nums, fails, N, B
<1>19. DirType(disk')
  <2>1. Finite(DOMAIN disk'.tables)
    BY <1>1, <1>12, <1>15, FiniteFacts DEF DirType
  <2>2. ASSUME NEW k \in DOMAIN disk'.tables  PROVE Finite(disk'.tables[k])
    <3>1. CASE k \in N
      <4>1. parts[k - db.next + 1] \subseteq ToSet(recs)
        BY <1>6, <1>10, <3>1
      <4> QED  BY <4>1, <1>5, <1>15, <3>1, FiniteFacts
    <3>2. CASE k \notin N
      BY <1>1, <1>15, <3>2 DEF DirType
    <3> QED  BY <3>1, <3>2
  <2>3. 0 \notin N
    BY <1>1, <1>3, <1>9, <1>10 DEF NumbersOK, DbType
  <2>4. 0 \notin DOMAIN disk'.tables
    BY <1>1, <1>15, <2>3 DEF DirType
  <2> QED  BY <1>1, <1>15, <2>1, <2>2, <2>4 DEF DirType
<1>20. db'.edit \in Edit /\ db'.edit.add = db.edit.add \cup N /\ db'.edit.del = db.edit.del /\ EditType(db'.edit)
       /\ Found' = Found \cup N
  <2>1. db.edit \in Edit /\ Finite(db.edit.add) /\ Finite(db.edit.del)
    BY <1>1 DEF DbType, EditType
  <2>2. db'.edit.add = db.edit.add \cup N /\ db'.edit.del = db.edit.del /\ db'.edit \in Edit
    BY <2>1, <1>12, <1>16 DEF Edit, Finite
  <2>3. Finite(db'.edit.add) /\ Finite(db'.edit.del)
    BY <2>1, <2>2, <1>12, FiniteFacts
  <2> QED  BY <2>2, <2>3, <1>16 DEF EditType, Found
<1>21. DbType'
  <2>1. db'.ok \in BOOLEAN
    BY <1>8, <1>17, Zenon
  <2>2. DbType
    BY <1>1
  <2>3. /\ DOMAIN db' = DOMAIN db /\ db'.at = "logs" /\ db'.mem = db.mem /\ db'.imm = db.imm /\ db'.log = db.log
        /\ db'.manifest = db.manifest /\ db'.ver = db.ver /\ db'.todo = db.todo \ {n}
        /\ db'.bg = db.bg /\ db'.work = db.work /\ db'.reader = db.reader
    BY <1>16
  <2>4. db'.last \in Nat /\ db'.next \in Nat /\ EditType(db'.edit)
    BY <1>13, <1>14, <1>16, <1>20
  <2> QED  BY <2>1, <2>2, <2>3, <2>4 DEF DbType, Phase
<1>22. QuietOK'
  BY <1>1, <1>3, <1>16 DEF QuietOK
<1>23. \A k \in N : k \notin Named /\ k \notin Found
  <2>1. Named \subseteq Nat /\ \A k \in Named : k < db.next
    BY <1>1, <1>3, VersionNamed DEF NumbersOK
  <2>2. Below(Found, db.next) /\ Found \subseteq Nat
    BY <1>1, <1>3 DEF RecoveryOK, Found, DbType, Finite, EditType
  <2> QED  BY <1>9, <1>10, <2>1, <2>2 DEF Below
<1>24. DiskOK(disk', m, promised, spoilt') /\ Usable(disk')
  <2>1. Usable(disk) /\ disk.current \in DOMAIN disk.manifests
    BY <1>1, <1>3 DEF NumbersOK, Usable, Reads
  <2>2. ASSUME NEW v \in Versions(disk.manifests[disk.current])
        PROVE  Stays(v, disk, disk', m, promised, promised, spoilt')
    <3>1. v.files \subseteq Named
      BY <2>1, VersionNamed
    <3>2. TablesSame(disk, disk', v.files)
      BY <3>1, <1>15, <1>23 DEF TablesSame
    <3>3. LogsStay(disk, disk', m, v.log)
      BY <1>15 DEF LogsStay
    <3> QED  BY <1>15, <3>2, <3>3 DEF Stays
  <2>3. spoilt \in BOOLEAN /\ spoilt' \in BOOLEAN /\ (~spoilt' => ~spoilt)
    BY <1>1, <1>18 DEF HistoryType
  <2>4. disk.current \in DOMAIN disk'.manifests /\ disk'.manifests[disk.current] = disk.manifests[disk.current]
        /\ disk'.current = disk.current /\ (disk.current = 0 => promised = {})
    BY <1>1, <1>15, <2>1 DEF DiskOK
  <2>5. Continues(disk, disk', m, promised, promised, spoilt')
    BY <2>2, <2>4 DEF Continues
  <2>6. DirType(disk) /\ DirType(disk') /\ DiskOK(disk, m, promised, spoilt)
    BY <1>1, <1>19
  <2> QED  BY <2>1, <2>3, <2>5, <2>6, DiskStays
<1>25. Named' = Named
  BY <1>15 DEF Named
<1>26. db.next <= next
  BY <1>8, <1>9, <1>14
<1>27. NumbersOK'
  <2>1. db.manifest < next /\ 0 < db.manifest
    BY <1>1, <1>3, <1>9, <1>14, <1>26 DEF NumbersOK, DbType
  <2>2. \A k \in Named : k < next
    BY <1>1, <1>3, <1>9, <1>14, <1>26, VersionNamed DEF NumbersOK
  <2>3. \A k \in DOMAIN disk.logs : k < next \/ k \in db.todo \ {n}
    BY <1>1, <1>3, <1>9, <1>14, <1>26 DEF NumbersOK, DirType, Finite
  <2> QED  BY <1>15, <1>16, <1>24, <1>25, <2>1, <2>2, <2>3 DEF NumbersOK
<1>28. RecoveryOK'
  <2>1. Below(Found, db.next) /\ Found \subseteq Nat /\ AtMost(disk, Found, db.last)
    BY <1>1, <1>3 DEF RecoveryOK, Found, DbType, Finite, EditType
  <2>2. ASSUME NEW k \in Found \cup N  PROVE 0 < k /\ k < next
    <3>1. CASE k \in Found
      BY <2>1, <3>1, <1>9, <1>14, <1>26 DEF Below
    <3>2. CASE k \in N
      <4>1. 0 < db.next
        BY <1>1, <1>3, <1>9 DEF NumbersOK, DbType
      <4>2. k \in Nat /\ db.next <= k /\ k < db.next + i
        BY <1>10, <3>2
      <4> QED  BY <4>1, <4>2, <1>7, <1>8, <1>9, <1>14
    <3> QED  BY <3>1, <3>2
  <2>3. ASSUME NEW k \in (Found \cup N) \cap DOMAIN disk'.tables, NEW q \in disk'.tables[k]  PROVE q <= last
    <3>1. CASE k \in N
      <4>1. k - db.next + 1 \in 1..u
        BY <1>7, <1>8, <1>9, <1>10, <3>1
      <4>2. q \in parts[k - db.next + 1]
        BY <1>15, <3>1
      <4> QED  BY <1>13, <4>1, <4>2
    <3>2. CASE k \notin N
      <4>1. k \in DOMAIN disk.tables /\ q \in disk.tables[k] /\ k \in Found
        BY <1>15, <3>2
      <4>2. q <= db.last /\ q \in Nat /\ db.last \in Nat
        BY <4>1, <2>1, <1>1 DEF AtMost, DirType, DbType, Finite
      <4> QED  BY <4>2, <1>13
    <3> QED  BY <3>1, <3>2
  <2>4. ~spoilt' => Found \cup N \subseteq DOMAIN disk'.tables
    BY <1>1, <1>3, <1>15, <1>18 DEF RecoveryOK
  <2>5. ~spoilt' => db'.ok
    BY <1>17, <1>18
  <2>6. db'.edit.del = {}
    BY <1>1, <1>3, <1>20 DEF RecoveryOK
  <2>7. Below(Found', db'.next)
    BY <2>2, <1>16, <1>20 DEF Below
  <2>8. AtMost(disk', Found', db'.last)
    BY <2>3, <1>16, <1>20 DEF AtMost
  <2>9. \/ disk'.current < db'.manifest
        \/ disk'.current = 1 /\ db'.manifest = 1 /\ db'.ver.files = {}
    BY <1>1, <1>3, <1>15, <1>16, <1>18 DEF RecoveryOK
  <2> QED  BY <1>20, <2>4, <2>5, <2>6, <2>7, <2>8, <2>9 DEF RecoveryOK
<1>29. LogsOK'
  <2>1. db'.todo \subseteq DOMAIN disk'.logs
    BY <1>1, <1>3, <1>15, <1>16 DEF LogsOK
  <2>2. ASSUME ~spoilt'
        PROVE  promised \subseteq Held(disk', Found \cup N) \cup UNION {ToSet(disk.logs[k].recs) : k \in db.todo \ {n}}
    <3>1. promised \subseteq Held(disk, Found) \cup UNION {ToSet(disk.logs[k].recs) : k \in db.todo}
      BY <1>1, <1>3, <1>18, <2>2 DEF LogsOK
    <3>2. Held(disk, Found) \subseteq Held(disk', Found \cup N)
      BY <1>15, <1>23 DEF Held
    <3>3. ToSet(recs) \subseteq Held(disk', Found \cup N)
      <4> SUFFICES ASSUME NEW q \in ToSet(recs)  PROVE q \in Held(disk', Found \cup N)
        OBVIOUS
      <4>1. PICK j \in 1..Len(parts) : q \in parts[j]
        BY <1>6
      <4>2. j \in 1..i
        BY <1>8, <1>18, <2>2
      <4> DEFINE k == db.next + j - 1
      <4>3. k \in N /\ k - db.next + 1 = j
        BY <1>11, <4>2
      <4> HIDE DEF k
      <4>4. k \in DOMAIN disk'.tables /\ disk'.tables[k] = parts[j]
        BY <1>15, <4>3
      <4> QED  BY <4>1, <4>3, <4>4 DEF Held
    <3>4. recs = disk.logs[n].recs
      BY DEF recs
    <3> QED  BY <3>1, <3>2, <3>3, <3>4
  <2>3. disk'.logs = disk.logs /\ Found' = Found \cup N /\ db'.todo = db.todo \ {n} /\ promised' = promised
    BY <1>3, <1>15, <1>16, <1>20
  <2> HIDE DEF Found
  <2> QED  BY <2>1, <2>2, <2>3 DEF LogsOK
<1> QED  BY <1>3, <1>16, <1>18, <1>19, <1>21, <1>22, <1>24, <1>27, <1>28, <1>29
         DEF Consistent, Typed, RepairOK, NewOK, NewManifestOK, OpenOK

--------------------------------------------------------------------------------
(* The new MANIFEST. *)

\* The counters of an edit.
Numbered(r, a, b, c) == [r EXCEPT !.log = a, !.next = b, !.last = c]

\* Setting the counters of an edit leaves its tables alone.
LEMMA EditFields ==
  ASSUME NEW r, EditType(r), NEW a \in Nat, NEW b \in Nat, NEW c \in Nat
  PROVE  /\ EditType(Numbered(r, a, b, c))
         /\ Numbered(r, a, b, c).log = a /\ Numbered(r, a, b, c).next = b /\ Numbered(r, a, b, c).last = c
         /\ Numbered(r, a, b, c).add = r.add /\ Numbered(r, a, b, c).del = r.del
<1> DEFINE e == [r EXCEPT !.log = a, !.next = b, !.last = c]
<1>0. e = Numbered(r, a, b, c)
  BY DEF Numbered
<1>1. r \in [log : Nat, next : Nat, last : Nat, add : SUBSET Nat, del : SUBSET Nat]
  BY DEF EditType, Edit
<1>2. DOMAIN e = DOMAIN r /\ DOMAIN r = {"log", "next", "last", "add", "del"}
  BY <1>1
<1>3. e.log = a /\ e.next = b /\ e.last = c
  BY <1>1
<1>4. e.add = r.add /\ e.del = r.del
  BY <1>1
<1>5. e \in Edit
  BY <1>1 DEF Edit
<1> HIDE DEF e
<1>6. EditType(e)
  BY <1>4, <1>5 DEF EditType
<1> QED  BY <1>0, <1>3, <1>4, <1>6

\* A MANIFEST that begins with a snapshot of the tables F, then has the edit e.
Snapshot(F, e) == Add(Add(EmptyFile, EncodeTo([NoEdit EXCEPT !.add = F])), EncodeTo(e))

\* Recovery reads from a snapshot and an edit the tables of both, and the
\* counters of the edit.
LEMMA SnapshotLemma ==
  ASSUME NEW F, Finite(F), NEW e, EditType(e)
  PROVE  /\ FileType(Snapshot(F, e), Record) /\ Snapshot(F, e).synced = 0 /\ Len(Snapshot(F, e).recs) = 2
         /\ Replay(Snapshot(F, e).recs).files = (F \ e.del) \cup e.add
         /\ Replay(Snapshot(F, e).recs).log = e.log /\ Replay(Snapshot(F, e).recs).next = e.next
         /\ Replay(Snapshot(F, e).recs).last = e.last
         /\ \A v \in Versions(Snapshot(F, e)) :
              \/ v = Replay(Snapshot(F, e).recs)
              \/ v.files \in {{}, F} /\ v.log = 0 /\ v.next = 0 /\ v.last = 0
<1> DEFINE a == [NoEdit EXCEPT !.add = F]
           g == Add(EmptyFile, EncodeTo(a))
           f == Add(g, EncodeTo(e))
           u == Applied(NoVersion, a)
           w == Applied(u, e)
<1>1. EditType(a) /\ a.add = F /\ a.log = 0 /\ a.next = 0 /\ a.last = 0
  BY FiniteFacts DEF EditType, Edit, NoEdit, Finite
<1> HIDE DEF a
<1>2. /\ FileType(g, Record) /\ g.synced = 0 /\ Len(g.recs) = 1
      /\ Replay(g.recs) = u /\ Versions(g) = {NoVersion, u}
  BY <1>1, FirstRecord
<1>3. u.files = F /\ u.log = 0 /\ u.next = 0 /\ u.last = 0
  BY <1>1, AppliedFirst
<1> HIDE DEF g, u
<1>4. /\ FileType(f, Record) /\ f.synced = g.synced /\ Len(f.recs) = Len(g.recs) + 1
      /\ Replay(f.recs) = Applied(Replay(g.recs), e)
      /\ Versions(f) = Versions(g) \cup {Applied(Replay(g.recs), e)}
  BY <1>2, VersionsAdd
<1>5. w.files = (F \ e.del) \cup e.add /\ w.log = e.log /\ w.next = e.next /\ w.last = e.last
  BY <1>3 DEF Applied, Known, EditType, Edit
<1>6. NoVersion.files = {} /\ NoVersion.log = 0 /\ NoVersion.next = 0 /\ NoVersion.last = 0
  BY DEF NoVersion
<1>7. f = Snapshot(F, e)
  BY DEF f, g, a, Snapshot
<1> HIDE DEF f, w
<1>8. Versions(f) = {NoVersion, u, w} /\ Replay(f.recs) = w /\ Len(f.recs) = 2 /\ f.synced = 0
  BY <1>2, <1>4 DEF w
<1> QED  BY <1>3, <1>4, <1>5, <1>6, <1>7, <1>8

\* The sync of a MANIFEST only makes it certain.
Syncs(d, e, n) == n \in DOMAIN d.manifests /\ e = [d EXCEPT !.manifests[n] = Synced(@)]
SyncedOK(d, e, m, P, s, n) ==
  /\ DirType(e) /\ DiskOK(e, m, P, s) /\ Usable(e)
  /\ e.logs = d.logs /\ e.tables = d.tables /\ e.current = d.current
  /\ DOMAIN e.manifests = DOMAIN d.manifests
  /\ e.manifests[n] = Synced(d.manifests[n])
  /\ Names(e) \subseteq Names(d)

\* Syncing the MANIFEST that CURRENT names, or another one, leaves a good
\* directory good.
LEMMA DiskSynced ==
  ASSUME NEW d, NEW e, NEW m, NEW P, NEW s \in BOOLEAN, NEW n,
         DirType(d), DiskOK(d, m, P, s), Usable(d), Syncs(d, e, n)
  PROVE  SyncedOK(d, e, m, P, s, n)
<1>1. /\ DOMAIN e = DOMAIN d /\ e.logs = d.logs /\ e.tables = d.tables /\ e.current = d.current
      /\ DOMAIN e.manifests = DOMAIN d.manifests /\ e.manifests[n] = Synced(d.manifests[n])
      /\ \A k \in DOMAIN d.manifests : k # n => e.manifests[k] = d.manifests[k]
  BY DEF DirType, Syncs
<1>2. ASSUME NEW k \in DOMAIN d.manifests  PROVE ManifestType(e.manifests[k])
  <2> DEFINE f == d.manifests[k]
  <2>1. ManifestType(f)
    BY DEF DirType
  <2>2. e.manifests[k] = f \/ e.manifests[k] = Synced(f)
    BY <1>1
  <2> HIDE DEF f
  <2>3. CASE FileType(f, Record)
    BY <2>2, <2>3, VersionsSynced DEF ManifestType
  <2>4. CASE Broken(f)
    BY <2>2, <2>4, SyncedStays DEF ManifestType, Broken
  <2> QED  BY <2>1, <2>3, <2>4 DEF ManifestType
<1>3. DirType(e)
  BY <1>1, <1>2 DEF DirType
<1>4. \A v : VersionOK(v, d, m, P, s) => VersionOK(v, e, m, P, s)
  BY <1>1 DEF VersionOK, AtMost, Safe, Held, LogsKept
<1> DEFINE c == d.current
<1>5. /\ c \in DOMAIN d.manifests /\ FileType(e.manifests[c], Record) /\ Final(e, c) = Final(d, c)
      /\ Versions(e.manifests[c]) \subseteq Versions(d.manifests[c])
  <2> DEFINE f == d.manifests[c]
  <2>1. c \in DOMAIN d.manifests /\ FileType(f, Record)
    BY DEF Usable, Reads
  <2>2. e.manifests[c] = f \/ e.manifests[c] = Synced(f)
    BY <1>1, <2>1
  <2>3. /\ FileType(Synced(f), Record) /\ Synced(f).recs = f.recs
        /\ Versions(Synced(f)) = {Replay(f.recs)} /\ Replay(f.recs) \in Versions(f)
    BY <2>1, VersionsSynced, ReplayIsVersion
  <2>4. f = d.manifests[c]
    OBVIOUS
  <2> HIDE DEF f
  <2> QED  BY <2>1, <2>2, <2>3, <2>4 DEF Final
<1>6. Reads(e) /\ Usable(e)
  BY <1>1, <1>5 DEF Usable, Reads
<1>7. ManifestOK(c, e, m, P, s)
  BY <1>4, <1>5 DEF DiskOK, ManifestOK, Usable
<1>8. c # 0 => Opens(c, e)
  BY <1>5 DEF DiskOK, Opens, Usable
<1>9. DiskOK(e, m, P, s)
  BY <1>1, <1>6, <1>7, <1>8 DEF DiskOK
<1>10. Names(e) \subseteq Names(d)
  BY <1>1, <1>5 DEF Names
<1> QED  BY <1>1, <1>3, <1>6, <1>9, <1>10 DEF SyncedOK

\* Open takes a new log and writes a new MANIFEST, which is not the one that
\* CURRENT names, except after a crash that has cut off all of it.
LEMMA NewManifestKeeps == Consistent /\ NewManifest => Consistent'
<1> SUFFICES ASSUME Consistent, NewManifest  PROVE Consistent'
  OBVIOUS
<1> DEFINE e == [db.edit EXCEPT !.log = db.next, !.next = db.next + 1, !.last = db.last]
           f == Snapshot(db.ver.files, e)
           w == Replay(f.recs)
           m == left.machine
           c == disk.current
<1>1. DirType(disk) /\ DbType /\ HistoryType /\ QuietOK /\ DiskOK(disk, m, promised, spoilt)
      /\ NumbersOK /\ RecoveryOK /\ LogsOK
  BY DEF Consistent, Typed
<1>2. /\ db.at = "logs" /\ db.todo = {} /\ UNCHANGED <<left, promised, spoilt>>
      /\ disk' = [disk EXCEPT !.logs = With(@, db.next, EmptyFile), !.manifests = With(@, db.manifest, f)]
      /\ db' = [db EXCEPT !.at = "manifest", !.log = db.next, !.next = @ + 1, !.edit = e]
  BY DEF NewManifest, SnapshotAndEdit, Snapshot
<1>3. /\ db.next \in Nat /\ db.last \in Nat /\ db.manifest \in Nat /\ Finite(db.ver.files)
      /\ EditType(db.edit) /\ db.edit.del = {} /\ 0 < db.manifest /\ db.manifest < db.next
  BY <1>1, <1>2 DEF DbType, NumbersOK, RecoveryOK
<1>4. /\ EditType(e) /\ e.log = db.next /\ e.next = db.next + 1 /\ e.last = db.last
      /\ e.add = db.edit.add /\ e.del = {}
  <2>1. PICK a \in Nat : a = db.next
    BY <1>3
  <2>2. PICK b \in Nat : b = db.next + 1
    BY <1>3
  <2>3. PICK z \in Nat : z = db.last
    BY <1>3
  <2> DEFINE r == db.edit
  <2>4. EditType(r) /\ e = Numbered(r, a, b, z) /\ r.add = db.edit.add /\ r.del = {}
    BY <1>3, <2>1, <2>2, <2>3 DEF Numbered
  <2> HIDE DEF e, r
  <2>5. /\ EditType(Numbered(r, a, b, z))
        /\ Numbered(r, a, b, z).log = a /\ Numbered(r, a, b, z).next = b
        /\ Numbered(r, a, b, z).last = z
        /\ Numbered(r, a, b, z).add = r.add /\ Numbered(r, a, b, z).del = r.del
    <3>1. EditType(r)
      BY <2>4
    <3> QED  BY <3>1, EditFields
  <2> QED  BY <2>1, <2>2, <2>3, <2>4, <2>5
<1> HIDE DEF e
<1>5. /\ FileType(f, Record) /\ f.synced = 0 /\ Len(f.recs) = 2
      /\ w.files = Found /\ w.log = db.next /\ w.next = db.next + 1 /\ w.last = db.last
      /\ \A v \in Versions(f) : v = w \/ (v.files \in {{}, db.ver.files} /\ v.log = 0 /\ v.next = 0 /\ v.last = 0)
  BY <1>3, <1>4, SnapshotLemma DEF Found
<1> HIDE DEF f, w
<1>6. /\ DOMAIN disk' = DOMAIN disk /\ disk'.tables = disk.tables /\ disk'.current = c
      /\ disk'.logs = With(disk.logs, db.next, EmptyFile)
      /\ disk'.manifests = With(disk.manifests, db.manifest, f)
  BY <1>1, <1>2 DEF DirType
<1>7. /\ DOMAIN disk'.logs = DOMAIN disk.logs \cup {db.next} /\ disk'.logs[db.next] = EmptyFile
      /\ \A n \in DOMAIN disk.logs : n # db.next => disk'.logs[n] = disk.logs[n]
      /\ IsFcn(disk'.logs)
  BY <1>6 DEF With, IsFcn
<1>8. /\ DOMAIN disk'.manifests = DOMAIN disk.manifests \cup {db.manifest} /\ disk'.manifests[db.manifest] = f
      /\ \A n \in DOMAIN disk.manifests : n # db.manifest => disk'.manifests[n] = disk.manifests[n]
  BY <1>6 DEF With
<1>9. db.next \notin DOMAIN disk.logs
  BY <1>1, <1>2, <1>3 DEF NumbersOK
<1>10. /\ DOMAIN db' = DOMAIN db /\ db'.at = "manifest" /\ db'.mem = db.mem /\ db'.imm = db.imm
       /\ db'.log = db.next /\ db'.last = db.last /\ db'.next = db.next + 1 /\ db'.manifest = db.manifest
       /\ db'.ver = db.ver /\ db'.edit = e /\ db'.todo = db.todo /\ db'.ok = db.ok /\ db'.bg = db.bg
       /\ db'.work = db.work /\ db'.reader = db.reader
  BY <1>1, <1>2 DEF DbType
<1>11. DirType(disk')
  <2>1. Finite(DOMAIN disk'.logs)
    <3>1. Finite({db.next}) /\ Finite(DOMAIN disk.logs)
      BY <1>1, <1>3, FiniteFacts DEF DirType
    <3> QED  BY <1>7, <3>1, FiniteFacts
  <2>2. FileType(EmptyFile, Nat)
    BY DEF FileType, EmptyFile
  <2> QED  BY <1>1, <1>3, <1>5, <1>6, <1>7, <1>8, <2>1, <2>2 DEF DirType, ManifestType
<1>12. DbType'
  BY <1>1, <1>3, <1>4, <1>10 DEF DbType, Phase
<1>13. QuietOK' /\ HistoryType'
  BY <1>1, <1>2, <1>10 DEF QuietOK, HistoryType
<1>14. Found \subseteq Nat /\ Below(Found, db.next) /\ AtMost(disk, Found, db.last)
  BY <1>1, <1>2, <1>3 DEF RecoveryOK, Found, EditType, Finite
<1>15. Found' = Found
  BY <1>4, <1>10 DEF Found
<1>16. ASSUME ~spoilt  PROVE Found \subseteq DOMAIN disk.tables /\ promised \subseteq Held(disk, Found)
  BY <1>1, <1>2, <1>16 DEF RecoveryOK, LogsOK
<1>17. Held(disk', Found) = Held(disk, Found) /\ (\A F, x : AtMost(disk', F, x) <=> AtMost(disk, F, x))
  BY <1>6 DEF Held, AtMost
<1>18. Usable(disk) /\ c \in DOMAIN disk.manifests
  BY <1>1, <1>2 DEF NumbersOK, Usable, Reads
<1> DEFINE A == DiskOK(disk', m, promised, spoilt) /\ Usable(disk') /\ \A n \in Named' : n < db.next + 1
<1>19. ASSUME c < db.manifest  PROVE A
  <2>1. c \in Nat /\ c # db.manifest
    BY <1>1, <1>3, <1>19 DEF DirType
  <2>2. disk'.manifests[c] = disk.manifests[c] /\ c \in DOMAIN disk'.manifests
    BY <1>8, <1>18, <2>1
  <2>3. ASSUME NEW v \in Versions(disk.manifests[c])
        PROVE  Stays(v, disk, disk', m, promised, promised, spoilt)
    <3>1. TablesSame(disk, disk', v.files) /\ v.files \cap DOMAIN disk.tables \subseteq DOMAIN disk'.tables
      BY <1>6 DEF TablesSame
    <3>2. LogsStay(disk, disk', m, v.log)
      BY <1>7, <1>9 DEF LogsStay
    <3> QED  BY <3>1, <3>2 DEF Stays
  <2>4. Continues(disk, disk', m, promised, promised, spoilt)
    BY <1>1, <1>6, <2>2, <2>3 DEF Continues, DiskOK
  <2>5. spoilt \in BOOLEAN /\ DirType(disk) /\ DiskOK(disk, m, promised, spoilt)
    BY <1>1 DEF HistoryType
  <2>6. DiskOK(disk', m, promised, spoilt) /\ Usable(disk')
    BY <1>11, <1>18, <2>4, <2>5, DiskStays
  <2>7. Named' = Named
    BY <1>6, <1>18, <2>2 DEF Named
  <2>8. \A n \in Named : n < db.next + 1
    BY <1>1, <1>2, <1>3, <1>18, VersionNamed DEF NumbersOK
  <2> QED  BY <2>6, <2>7, <2>8
<1>20. ASSUME ~(c < db.manifest)  PROVE A
  <2>1. c = 1 /\ db.manifest = 1 /\ db.ver.files = {}
    BY <1>1, <1>2, <1>20 DEF RecoveryOK
  <2>2. 1 \in DOMAIN disk'.manifests /\ disk'.manifests[1] = f /\ Final(disk', 1) = w
    BY <1>8, <2>1 DEF Final, w
  <2>3. VersionOK(w, disk', m, promised, spoilt)
    <3>1. VersionType(w)
      BY <1>1, <1>3, <1>5, FiniteFacts DEF VersionType, Found, EditType
    <3>2. Below(w.files, w.next) /\ w.log < w.next /\ w.next # 0
      <4>1. Below(Found, db.next + 1) /\ db.next < db.next + 1 /\ db.next + 1 # 0
        BY <1>3, <1>14 DEF Below
      <4> QED  BY <1>5, <4>1
    <3>3. AtMost(disk', w.files, w.last)
      BY <1>5, <1>14, <1>17
    <3>4. ~spoilt => w.files \subseteq DOMAIN disk'.tables /\ Safe(disk', m, promised, w.files, w.log)
      BY <1>5, <1>6, <1>16, <1>17 DEF Safe
    <3> QED  BY <3>1, <3>2, <3>3, <3>4 DEF VersionOK
  <2>4. ASSUME NEW v, v.files = {}, v.log = 0, v.next = 0, v.last = 0
        PROVE  VersionOK(v, disk', m, promised, spoilt)
    <3>1. ~spoilt => Safe(disk', m, promised, DOMAIN disk'.tables, 0)
      <4>1. Held(disk, Found) \subseteq Held(disk', DOMAIN disk'.tables)
        BY <1>6 DEF Held
      <4> QED  BY <4>1, <1>16 DEF Safe
    <3>2. VersionType(v)
      BY <2>4, FiniteFacts DEF VersionType
    <3> QED  BY <2>4, <3>1, <3>2 DEF VersionOK, AtMost
  <2>5. ManifestOK(1, disk', m, promised, spoilt)
    <3> SUFFICES ASSUME NEW v \in Versions(f)
                 PROVE  VersionOK(v, disk', m, promised, spoilt) /\ v.next <= w.next
      BY <2>2 DEF ManifestOK
    <3>1. CASE v = w
      BY <3>1, <1>3, <1>5, <2>3
    <3>2. CASE v # w
      <4>1. v.files = {} /\ v.log = 0 /\ v.next = 0 /\ v.last = 0
        BY <3>2, <1>5, <2>1
      <4> QED  BY <4>1, <2>4, <1>3, <1>5
    <3> QED  BY <3>1, <3>2
  <2>6. DiskOK(disk', m, promised, spoilt)
    <3>1. disk'.current = 1 /\ 1 # 0
      BY <1>6, <2>1
    <3>2. Opens(1, disk') /\ Reads(disk')
      BY <1>5, <2>2, <3>1 DEF Opens, Reads
    <3> HIDE DEF m
    <3> QED  BY <2>5, <3>1, <3>2 DEF DiskOK
  <2>7. Usable(disk')
    BY <1>3, <1>5, <1>6, <2>1, <2>2 DEF Usable, Reads
  <2>8. Named' = Names(disk')
    BY <1>6, <2>1, <2>2, <2>7, NamedLemma DEF Named, Usable
  <2>9. \A v \in Versions(f) : v.files \subseteq Found
    BY <1>5, <2>1
  <2>10. Names(disk') \subseteq Found
    BY <1>6, <2>1, <2>2, <2>9 DEF Names
  <2>11. \A n \in Found : n < db.next + 1
    BY <1>3, <1>14 DEF Below
  <2> QED  BY <2>6, <2>7, <2>8, <2>10, <2>11
<1>21. A
  BY <1>19, <1>20
<1>22. NumbersOK'
  BY <1>1, <1>2, <1>3, <1>7, <1>10, <1>21 DEF NumbersOK, DirType, Finite
<1>23. RecoveryOK'
  <2>1. Below(Found, db.next + 1)
    BY <1>3, <1>14 DEF Below
  <2>2. ~spoilt => db.ok
    BY <1>1, <1>2 DEF RecoveryOK
  <2>3. \/ c < db.manifest
        \/ c = 1 /\ db.manifest = 1 /\ db.ver.files = {}
    BY <1>1, <1>2 DEF RecoveryOK
  <2> QED  BY <1>2, <1>4, <1>6, <1>10, <1>14, <1>15, <1>16, <1>17, <2>1, <2>2, <2>3 DEF RecoveryOK
<1>24. NewManifestOK'
  <2>1. SnapshotAndEdit(db.edit)' = f
    BY <1>10 DEF SnapshotAndEdit, Snapshot, f
  <2>2. ~spoilt => promised \subseteq Held(disk', Found)
    BY <1>16, <1>17
  <2> QED  BY <1>2, <1>3, <1>4, <1>5, <1>7, <1>8, <1>10, <1>15, <2>1, <2>2 DEF NewManifestOK
<1> QED  BY <1>2, <1>10, <1>11, <1>12, <1>13, <1>21, <1>22, <1>23, <1>24
         DEF Consistent, Typed, RepairOK, NewOK, LogsOK, OpenOK

\* The version that the new MANIFEST holds once it is synced.
LEMMA NewVersion ==
  ASSUME Consistent, db.at \in {"manifest", "current", "install"}
  PROVE  LET w == Final(disk, db.manifest)
         IN  /\ w.files = Found /\ w.log = db.log /\ w.next = db.next /\ w.last = db.last
             /\ db.at # "manifest" => Versions(disk.manifests[db.manifest]) = {w}
             /\ VersionOK(w, disk, left.machine, promised, spoilt) /\ w.next # 0
             /\ db.manifest < w.next
<1> DEFINE f == disk.manifests[db.manifest]
           w == Replay(f.recs)
           g == Snapshot(db.ver.files, db.edit)
<1>1. DirType(disk) /\ DbType /\ NumbersOK /\ RecoveryOK /\ NewManifestOK
  BY DEF Consistent, Typed
<1>2. /\ db.edit.log = db.log /\ db.edit.next = db.next /\ db.edit.last = db.last /\ db.edit.del = {}
      /\ EditType(db.edit) /\ Finite(db.ver.files) /\ db.manifest \in DOMAIN disk.manifests
      /\ db.log < db.next /\ db.next \in Nat /\ db.log \in Nat /\ db.last \in Nat /\ 0 < db.manifest
      /\ db.manifest < db.next /\ db.manifest \in Nat
  BY <1>1 DEF NewManifestOK, RecoveryOK, DbType, NumbersOK
<1>3. f.recs = g.recs
  BY <1>1 DEF NewManifestOK, SnapshotAndEdit, Snapshot
<1>4. FileType(f, Record)
  BY <1>1 DEF NewManifestOK
<1> HIDE DEF f, g
<1>5. w.files = Found /\ w.log = db.log /\ w.next = db.next /\ w.last = db.last /\ Len(f.recs) = 2
  BY <1>2, <1>3, SnapshotLemma DEF Found, g
<1>6. w = Final(disk, db.manifest)
  BY DEF Final, f
<1>7. ASSUME db.at # "manifest"  PROVE Versions(f) = {w}
  <2>1. f.synced = 2
    BY <1>1, <1>7 DEF NewManifestOK, f
  <2> QED  BY <2>1, <1>4, <1>5, ReplayIsVersion
<1> HIDE DEF w
<1>8. VersionOK(w, disk, left.machine, promised, spoilt)
  <2>1. VersionType(w)
    BY <1>2, <1>5, FiniteFacts DEF VersionType, Found, EditType
  <2>2. Below(Found, db.next) /\ AtMost(disk, Found, db.last) /\ (~spoilt => Found \subseteq DOMAIN disk.tables)
    BY <1>1 DEF RecoveryOK
  <2>3. ~spoilt => promised \subseteq Held(disk, Found)
    BY <1>1 DEF NewManifestOK
  <2>4. w.next # 0
    BY <1>2, <1>5
  <2> QED  BY <1>2, <1>5, <2>1, <2>2, <2>3, <2>4 DEF VersionOK, Safe
<1>9. w.next # 0 /\ db.manifest < w.next
  BY <1>2, <1>5
<1> QED  BY <1>5, <1>6, <1>7, <1>8, <1>9 DEF f

\* LogAndApply syncs the new MANIFEST.
LEMMA SyncKeeps == Consistent /\ SyncManifest => Consistent'
<1> SUFFICES ASSUME Consistent, SyncManifest  PROVE Consistent'
  OBVIOUS
<1> DEFINE mm == left.machine
<1>1. DirType(disk) /\ DbType /\ HistoryType /\ QuietOK /\ DiskOK(disk, mm, promised, spoilt)
      /\ NumbersOK /\ RecoveryOK /\ NewManifestOK
  BY DEF Consistent, Typed
<1>2. /\ db.at = "manifest" /\ UNCHANGED <<left, promised, spoilt>>
      /\ disk' = [disk EXCEPT !.manifests[db.manifest] = Synced(@)]
      /\ db' = [db EXCEPT !.at = "current"]
  BY DEF SyncManifest
<1>3. db.manifest \in DOMAIN disk.manifests /\ Usable(disk) /\ disk.current \in DOMAIN disk.manifests
  BY <1>1, <1>2 DEF NewManifestOK, NumbersOK, Usable, Reads
<1>4. /\ DirType(disk') /\ DiskOK(disk', mm, promised, spoilt) /\ Usable(disk')
      /\ disk'.logs = disk.logs /\ disk'.tables = disk.tables /\ disk'.current = disk.current
      /\ DOMAIN disk'.manifests = DOMAIN disk.manifests
      /\ disk'.manifests[db.manifest] = Synced(disk.manifests[db.manifest])
      /\ Names(disk') \subseteq Names(disk)
  <2>1. spoilt \in BOOLEAN
    BY <1>1 DEF HistoryType
  <2>2. Syncs(disk, disk', db.manifest)
    BY <1>2, <1>3 DEF Syncs
  <2> HIDE DEF mm
  <2>3. DirType(disk) /\ DiskOK(disk, mm, promised, spoilt)
    BY <1>1
  <2>4. SyncedOK(disk, disk', mm, promised, spoilt, db.manifest)
    BY <1>3, <2>1, <2>2, <2>3, DiskSynced
  <2> QED  BY <2>4 DEF SyncedOK
<1>5. DbType' /\ QuietOK' /\ HistoryType' /\ db'.at = "current"
  BY <1>1, <1>2 DEF DbType, QuietOK, HistoryType, Phase
<1>6. /\ db'.next = db.next /\ db'.manifest = db.manifest /\ db'.todo = db.todo /\ db'.log = db.log
      /\ db'.ver = db.ver /\ db'.edit = db.edit /\ db'.last = db.last /\ db'.ok = db.ok
  BY <1>1, <1>2 DEF DbType
<1>7. Named' \subseteq Named
  <2>1. Named' = Names(disk') /\ Named = Names(disk)
    BY <1>3, <1>4, NamedLemma DEF Named, Usable
  <2> QED  BY <1>4, <2>1
<1>8. NumbersOK'
  BY <1>1, <1>2, <1>4, <1>5, <1>6, <1>7 DEF NumbersOK
<1>9. Found' = Found /\ Held(disk', Found) = Held(disk, Found)
      /\ (\A F, x : AtMost(disk', F, x) <=> AtMost(disk, F, x))
  BY <1>4, <1>6 DEF Found, Held, AtMost
<1>10. RecoveryOK'
  <2>1. ~spoilt => db.ok
    BY <1>1, <1>2 DEF RecoveryOK
  <2> QED  BY <1>1, <1>2, <1>4, <1>5, <1>6, <1>9, <2>1 DEF RecoveryOK
<1>11. NewManifestOK'
  <2>1. FileType(disk.manifests[db.manifest], Record)
    BY <1>1, <1>2 DEF NewManifestOK
  <2>2. /\ disk'.manifests[db.manifest].recs = disk.manifests[db.manifest].recs
        /\ FileType(disk'.manifests[db.manifest], Record)
        /\ disk'.manifests[db.manifest].synced = Len(disk.manifests[db.manifest].recs)
    BY <1>4, <2>1, VersionsSynced
  <2>3. SnapshotAndEdit(db.edit)' = SnapshotAndEdit(db.edit)
    BY <1>6 DEF SnapshotAndEdit
  <2>4. Len(disk.manifests[db.manifest].recs) = 2
    <3>1. disk.manifests[db.manifest].recs = Snapshot(db.ver.files, db.edit).recs
      BY <1>1, <1>2 DEF NewManifestOK, SnapshotAndEdit, Snapshot
    <3>2. EditType(db.edit) /\ Finite(db.ver.files)
      BY <1>1 DEF DbType
    <3> QED  BY <3>1, <3>2, SnapshotLemma
  <2> QED  BY <1>1, <1>2, <1>4, <1>5, <1>6, <1>9, <2>2, <2>3, <2>4 DEF NewManifestOK
<1> QED  BY <1>2, <1>4, <1>5, <1>8, <1>10, <1>11
         DEF Consistent, Typed, RepairOK, NewOK, LogsOK, OpenOK

\* CURRENT is moved to the new, synced MANIFEST, so that it never names one that
\* a crash can take back.
LEMMA SetCurrentKeeps == Consistent /\ SetCurrent => Consistent'
<1> SUFFICES ASSUME Consistent, SetCurrent  PROVE Consistent'
  OBVIOUS
<1> DEFINE mm == left.machine
           w == Final(disk, db.manifest)
<1>1. DirType(disk) /\ DbType /\ HistoryType /\ QuietOK /\ NumbersOK /\ RecoveryOK /\ NewManifestOK
  BY DEF Consistent, Typed
<1>2. /\ db.at = "current" /\ UNCHANGED <<left, promised, spoilt>>
      /\ disk' = [disk EXCEPT !.current = db.manifest]
      /\ db' = [db EXCEPT !.at = "install"]
  BY DEF SetCurrent
<1>3. db.manifest \in DOMAIN disk.manifests /\ db.manifest \in Nat /\ 0 < db.manifest
  BY <1>1, <1>2 DEF NewManifestOK, NumbersOK, DbType
<1>4. /\ w.files = Found /\ w.log = db.log /\ w.next = db.next /\ w.last = db.last
      /\ Versions(disk.manifests[db.manifest]) = {w}
      /\ VersionOK(w, disk, mm, promised, spoilt) /\ w.next # 0 /\ db.manifest < w.next
  BY <1>2, NewVersion
<1>5. /\ disk'.logs = disk.logs /\ disk'.tables = disk.tables /\ disk'.current = db.manifest
      /\ disk'.manifests = disk.manifests /\ DOMAIN disk' = DOMAIN disk
  BY <1>1, <1>2 DEF DirType
<1>6. DirType(disk')
  BY <1>1, <1>3, <1>5 DEF DirType
<1>7. Final(disk', db.manifest) = w
  BY <1>5 DEF Final
<1> HIDE DEF w, mm
<1>8. VersionOK(w, disk', mm, promised, spoilt)
  BY <1>4, <1>5 DEF VersionOK, AtMost, Safe, Held, LogsKept
<1>9. ManifestOK(db.manifest, disk', mm, promised, spoilt)
  <2>1. w.next \in Nat
    BY <1>4 DEF VersionOK, VersionType
  <2> QED  BY <1>4, <1>5, <1>7, <1>8, <2>1 DEF ManifestOK
<1>10. Opens(db.manifest, disk') /\ Reads(disk')
  BY <1>1, <1>2, <1>3, <1>4, <1>5 DEF Opens, Reads, NewManifestOK
<1>11. DiskOK(disk', mm, promised, spoilt) /\ Usable(disk')
  BY <1>3, <1>4, <1>5, <1>7, <1>9, <1>10 DEF DiskOK, Usable
<1>12. DbType' /\ QuietOK' /\ HistoryType' /\ db'.at = "install"
  BY <1>1, <1>2 DEF DbType, QuietOK, HistoryType, Phase
<1>13. /\ db'.next = db.next /\ db'.manifest = db.manifest /\ db'.todo = db.todo /\ db'.log = db.log
       /\ db'.ver = db.ver /\ db'.edit = db.edit /\ db'.last = db.last /\ db'.ok = db.ok
  BY <1>1, <1>2 DEF DbType
<1>14. Named' = Found
  <2>1. Named' = Names(disk')
    BY <1>3, <1>5, <1>10, NamedLemma DEF Named
  <2>2. Names(disk') = w.files
    BY <1>4, <1>5 DEF Names
  <2> QED  BY <1>4, <2>1, <2>2
<1>15. Found' = Found /\ Held(disk', Found) = Held(disk, Found)
      /\ (\A F, x : AtMost(disk', F, x) <=> AtMost(disk, F, x))
  BY <1>5, <1>13 DEF Found, Held, AtMost
<1>16. NumbersOK'
  <2>1. \A n \in Found : n < db.next
    BY <1>1, <1>2 DEF RecoveryOK, Below
  <2> QED  BY <1>1, <1>2, <1>5, <1>11, <1>12, <1>13, <1>14, <2>1 DEF NumbersOK
<1>17. RecoveryOK'
  <2>1. ~spoilt => db.ok
    BY <1>1, <1>2 DEF RecoveryOK
  <2> QED  BY <1>1, <1>2, <1>5, <1>12, <1>13, <1>15, <2>1 DEF RecoveryOK
<1>18. NewManifestOK'
  <2>1. SnapshotAndEdit(db.edit)' = SnapshotAndEdit(db.edit)
    BY <1>13 DEF SnapshotAndEdit
  <2> QED  BY <1>1, <1>2, <1>5, <1>12, <1>13, <1>15, <2>1 DEF NewManifestOK
<1> QED  BY <1>2, <1>6, <1>11, <1>12, <1>16, <1>17, <1>18
         DEF Consistent, Typed, RepairOK, NewOK, LogsOK, OpenOK, mm

--------------------------------------------------------------------------------
(* Deletion of files. *)

\* Files are deleted, and nothing else happens to the directory.
Fewer(f, g) == IsFcn(g) /\ DOMAIN g \subseteq DOMAIN f /\ \A n \in DOMAIN g : g[n] = f[n]
Shrinks(d, e) ==
  /\ DOMAIN e = DOMAIN d /\ e.current = d.current
  /\ Fewer(d.logs, e.logs) /\ Fewer(d.tables, e.tables) /\ Fewer(d.manifests, e.manifests)

\* What is no longer needed may be deleted.
LEMMA DiskShrinks ==
  ASSUME NEW d, NEW e, NEW m, NEW P, NEW s \in BOOLEAN, DirType(d), DiskOK(d, m, P, s), Usable(d),
         Shrinks(d, e), d.current \in DOMAIN e.manifests,
         ~s => \A v \in Versions(d.manifests[d.current]) :
                 /\ v.files \cap DOMAIN d.tables \subseteq DOMAIN e.tables
                 /\ \A n \in DOMAIN d.logs : n >= v.log => n \in DOMAIN e.logs
  PROVE  /\ DirType(e) /\ DiskOK(e, m, P, s) /\ Usable(e)
         /\ e.manifests[d.current] = d.manifests[d.current]
<1>1. DirType(e)
  <2>1. Finite(DOMAIN e.logs) /\ Finite(DOMAIN e.tables)
    BY FiniteFacts DEF DirType, Shrinks, Fewer
  <2>2. \A n \in DOMAIN e.logs : FileType(e.logs[n], Nat)
    BY DEF DirType, Shrinks, Fewer
  <2>3. 0 \notin DOMAIN e.tables /\ \A n \in DOMAIN e.tables : Finite(e.tables[n])
    BY DEF DirType, Shrinks, Fewer
  <2>4. DOMAIN e.manifests \subseteq Nat /\ \A n \in DOMAIN e.manifests : ManifestType(e.manifests[n])
    BY DEF DirType, Shrinks, Fewer
  <2> QED  BY <2>1, <2>2, <2>3, <2>4 DEF DirType, Shrinks, Fewer
<1>2. ASSUME NEW v \in Versions(d.manifests[d.current])
      PROVE  Stays(v, d, e, m, P, P, s)
  <2>1. TablesSame(d, e, v.files)
    BY DEF TablesSame, Shrinks, Fewer
  <2>2. ~s => v.files \cap DOMAIN d.tables \subseteq DOMAIN e.tables
    OBVIOUS
  <2>3. ~s => LogsStay(d, e, m, v.log)
    BY DEF LogsStay, Shrinks, Fewer
  <2> QED  BY <2>1, <2>2, <2>3 DEF Stays
<1>3. e.current = d.current /\ e.manifests[d.current] = d.manifests[d.current]
  BY DEF Shrinks, Fewer
<1>4. d.current = 0 => P = {}
  BY DEF DiskOK
<1>5. Continues(d, e, m, P, P, s)
  BY <1>2, <1>3, <1>4 DEF Continues
<1>6. DiskOK(e, m, P, s) /\ Usable(e)
  BY <1>1, <1>5, DiskStays
<1> QED  BY <1>1, <1>3, <1>6

\* The directory after DeleteObsoleteFiles.
LEMMA Deleted ==
  ASSUME DirType(disk), NEW v, NEW live, DeleteObsoleteFiles(v, live)
  PROVE  /\ Shrinks(disk, disk')
         /\ DOMAIN disk'.logs = {n \in DOMAIN disk.logs : n >= v.log}
         /\ DOMAIN disk'.tables = DOMAIN disk.tables \cap live
         /\ DOMAIN disk'.manifests = {n \in DOMAIN disk.manifests : n >= db.manifest}
<1> DEFINE L == {n \in DOMAIN disk.logs : n >= v.log}
           M == {n \in DOMAIN disk.manifests : n >= db.manifest}
<1>1. disk' = [disk EXCEPT !.logs = Only(@, L), !.tables = Only(@, live), !.manifests = Only(@, M)]
  BY DEF DeleteObsoleteFiles
<1> HIDE DEF L, M
<1>2. /\ DOMAIN disk' = DOMAIN disk /\ disk'.current = disk.current
      /\ disk'.logs = Only(disk.logs, L) /\ disk'.tables = Only(disk.tables, live)
      /\ disk'.manifests = Only(disk.manifests, M)
  BY <1>1 DEF DirType
<1>3. /\ DOMAIN disk'.logs = DOMAIN disk.logs \cap L /\ DOMAIN disk'.tables = DOMAIN disk.tables \cap live
      /\ DOMAIN disk'.manifests = DOMAIN disk.manifests \cap M
      /\ Fewer(disk.logs, disk'.logs) /\ Fewer(disk.tables, disk'.tables)
      /\ Fewer(disk.manifests, disk'.manifests)
  <2>1. DOMAIN disk'.logs = DOMAIN disk.logs \cap L /\ Fewer(disk.logs, disk'.logs)
    BY <1>2 DEF Only, Fewer, IsFcn
  <2>2. DOMAIN disk'.tables = DOMAIN disk.tables \cap live /\ Fewer(disk.tables, disk'.tables)
    BY <1>2 DEF Only, Fewer, IsFcn
  <2>3. DOMAIN disk'.manifests = DOMAIN disk.manifests \cap M /\ Fewer(disk.manifests, disk'.manifests)
    BY <1>2 DEF Only, Fewer, IsFcn
  <2> QED  BY <2>1, <2>2, <2>3
<1>4. DOMAIN disk.logs \cap L = L /\ DOMAIN disk.manifests \cap M = M
  BY DEF L, M
<1> QED  BY <1>2, <1>3, <1>4 DEF Shrinks, L, M

\* Open deletes what it no longer needs and is done.
LEMMA OpenedKeeps == Consistent /\ Opened => Consistent'
<1> SUFFICES ASSUME Consistent, Opened  PROVE Consistent'
  OBVIOUS
<1> DEFINE mm == left.machine
           w == Final(disk, db.manifest)
           nv == AppendVersion
<1>1. DirType(disk) /\ DbType /\ HistoryType /\ QuietOK /\ NumbersOK /\ RecoveryOK /\ NewManifestOK
      /\ DiskOK(disk, mm, promised, spoilt)
  BY DEF Consistent, Typed
<1>2. /\ db.at = "install" /\ UNCHANGED <<left, promised, spoilt>>
      /\ DeleteObsoleteFiles(nv, nv.files)
      /\ db' = [db EXCEPT !.at = "open", !.ver = nv, !.edit = NoEdit]
  BY DEF Opened
<1>3. nv.files = Found /\ nv.log = db.log /\ nv = [files |-> Found, log |-> db.log]
  BY <1>1, <1>2 DEF AppendVersion, Found, RecoveryOK, NewManifestOK
<1>4. /\ w.files = Found /\ w.log = db.log /\ w.next = db.next /\ w.last = db.last
      /\ Versions(disk.manifests[db.manifest]) = {w} /\ db.manifest < w.next
  BY <1>2, NewVersion
<1>5. /\ db.manifest \in DOMAIN disk.manifests /\ db.manifest \in Nat /\ disk.current = db.manifest
      /\ Usable(disk) /\ db.log \in DOMAIN disk.logs /\ db.log \in Nat /\ disk.logs[db.log] = EmptyFile
      /\ db.log < db.next /\ db.next \in Nat /\ db.last \in Nat /\ 0 < db.log /\ 0 < db.manifest
  BY <1>1, <1>2 DEF NewManifestOK, NumbersOK, DbType
<1> HIDE DEF w, mm, nv
<1>6. /\ Shrinks(disk, disk')
      /\ DOMAIN disk'.logs = {n \in DOMAIN disk.logs : n >= db.log}
      /\ DOMAIN disk'.tables = DOMAIN disk.tables \cap Found
      /\ DOMAIN disk'.manifests = {n \in DOMAIN disk.manifests : n >= db.manifest}
  <2> DEFINE live == nv.files
  <2>1. DeleteObsoleteFiles(nv, live)
    BY <1>2
  <2> HIDE DEF live
  <2>2. /\ Shrinks(disk, disk')
        /\ DOMAIN disk'.logs = {n \in DOMAIN disk.logs : n >= nv.log}
        /\ DOMAIN disk'.tables = DOMAIN disk.tables \cap live
        /\ DOMAIN disk'.manifests = {n \in DOMAIN disk.manifests : n >= db.manifest}
    BY <1>1, <2>1, Deleted
  <2> QED  BY <1>3, <2>2 DEF live
<1>7. db.manifest \in DOMAIN disk'.manifests /\ db.log \in DOMAIN disk'.logs
  BY <1>5, <1>6
<1>8. /\ DirType(disk') /\ DiskOK(disk', mm, promised, spoilt) /\ Usable(disk')
      /\ disk'.manifests[db.manifest] = disk.manifests[db.manifest]
  <2>1. \A v \in Versions(disk.manifests[disk.current]) :
           /\ v.files \cap DOMAIN disk.tables \subseteq DOMAIN disk'.tables
           /\ \A n \in DOMAIN disk.logs : n >= v.log => n \in DOMAIN disk'.logs
    BY <1>4, <1>5, <1>6
  <2>2. spoilt \in BOOLEAN
    BY <1>1 DEF HistoryType
  <2>3. disk.current \in DOMAIN disk'.manifests /\ DirType(disk) /\ DiskOK(disk, mm, promised, spoilt)
        /\ Usable(disk)
    BY <1>1, <1>5, <1>7
  <2>4. /\ DirType(disk') /\ DiskOK(disk', mm, promised, spoilt) /\ Usable(disk')
        /\ disk'.manifests[disk.current] = disk.manifests[disk.current]
    BY <1>6, <2>1, <2>2, <2>3, DiskShrinks
  <2> QED  BY <1>5, <2>4
<1>9. /\ DOMAIN db' = DOMAIN db /\ db'.at = "open" /\ db'.mem = db.mem /\ db'.imm = db.imm
      /\ db'.log = db.log /\ db'.last = db.last /\ db'.next = db.next /\ db'.manifest = db.manifest
      /\ db'.ver = nv /\ db'.edit = NoEdit /\ db'.todo = db.todo /\ db'.ok = db.ok /\ db'.bg = db.bg
      /\ db'.work = db.work /\ db'.reader = db.reader
  BY <1>1, <1>2 DEF DbType
<1>10. db.mem = {} /\ db.imm = {0} /\ db.imm = NoTable /\ db.reader = {} /\ db.work = NoWork /\ db.bg = "idle"
  BY <1>1, <1>2 DEF QuietOK, NoTable
<1>11. Found \subseteq Nat /\ Finite(Found) /\ Below(Found, db.next) /\ AtMost(disk, Found, db.last)
       /\ (~spoilt => Found \subseteq DOMAIN disk.tables /\ promised \subseteq Held(disk, Found))
  BY <1>1, <1>2, FiniteFacts DEF RecoveryOK, NewManifestOK, Found, DbType, EditType, Finite
<1>12. DbType'
  <2>1. nv \in [files : SUBSET Nat, log : Nat] /\ Finite(nv.files)
    BY <1>3, <1>5, <1>11
  <2>2. EditType(NoEdit)
    BY FiniteFacts DEF EditType, Edit, NoEdit
  <2> QED  BY <1>1, <1>9, <2>1, <2>2 DEF DbType, Phase
<1>13. HistoryType' /\ QuietOK'
  BY <1>1, <1>2, <1>9 DEF HistoryType, QuietOK
<1>14. disk'.current = db.manifest /\ Fewer(disk.logs, disk'.logs) /\ Fewer(disk.tables, disk'.tables)
  BY <1>5, <1>6 DEF Shrinks
<1>15. Named' = Found
  <2>1. Named' = Names(disk')
    BY <1>7, <1>8, <1>14, NamedLemma DEF Named, Usable
  <2>2. Names(disk') = w.files
    BY <1>4, <1>8, <1>14 DEF Names
  <2> QED  BY <1>4, <2>1, <2>2
<1>16. NumbersOK'
  <2>1. \A n \in Found : n < db.next
    BY <1>11 DEF Below
  <2>2. \A n \in DOMAIN disk'.logs : n < db.next
    BY <1>1, <1>2, <1>6 DEF NumbersOK
  <2>3. 0 < db.manifest /\ db.manifest < db.next
    BY <1>4, <1>5
  <2> QED  BY <1>8, <1>9, <1>15, <2>1, <2>2, <2>3 DEF NumbersOK
<1>17. Final(disk', db.manifest) = w /\ Versions(disk'.manifests[db.manifest]) = {w}
  BY <1>4, <1>8 DEF Final, w
<1>18. OpenNumbers'
  <2>1. AtMost(disk', Found, db.last)
    BY <1>11, <1>14 DEF AtMost, Fewer
  <2>2. \A q \in {} \cup {0} : q <= db.last
    BY <1>5
  <2>3. Replay(Manifest.recs)' = w /\ Versions(Manifest)' = {w}
    BY <1>9, <1>17 DEF Manifest, Final
  <2>4. w.next <= db.next /\ w.last <= db.last /\ db.log <= db.log
    BY <1>4, <1>5
  <2>5. Below(Found \cup {}, db.next)
    BY <1>11
  <2> QED  BY <1>3, <1>4, <1>5, <1>9, <1>10, <1>14, <2>1, <2>2, <2>3, <2>4, <2>5 DEF OpenNumbers
<1>19. WorkOK' /\ EditOK'
  BY <1>9, <1>10 DEF WorkOK, EditOK
<1>20. OpenTables'
  BY <1>2, <1>3, <1>6, <1>9, <1>10, <1>11 DEF OpenTables
<1>21. OpenVersions'
  <2>1. Replay(Manifest.recs)' = w /\ Versions(Manifest)' = {w}
    BY <1>9, <1>17 DEF Manifest, Final
  <2>2. Same(w, nv)
    BY <1>3, <1>4 DEF Same
  <2>3. db'.ver = nv /\ db'.bg # "logged"
    BY <1>9, <1>10
  <2> QED  BY <2>1, <2>2, <2>3 DEF OpenVersions
<1>22. OpenPromise'
  <2>1. disk'.logs[db.log] = EmptyFile
    BY <1>5, <1>7, <1>14 DEF Fewer
  <2>2. ToSet(EmptyFile.recs) = {}
    BY DEF EmptyFile, ToSet
  <2>3. ~spoilt => promised \subseteq Held(disk', Found)
    BY <1>6, <1>11, <1>14 DEF Held, Fewer
  <2> QED  BY <1>2, <1>3, <1>7, <1>9, <2>1, <2>2, <2>3 DEF OpenPromise
<1> QED  BY <1>2, <1>8, <1>9, <1>12, <1>13, <1>16, <1>18, <1>19, <1>20, <1>21, <1>22
         DEF Consistent, Typed, RepairOK, NewOK, RecoveryOK, LogsOK, NewManifestOK, OpenOK, mm

--------------------------------------------------------------------------------
(* Writes, memtables and readers of an open database. *)

\* A log with one more record keeps what it kept.
LEMMA AppendFile ==
  ASSUME NEW f, FileType(f, Nat), NEW q \in Nat, NEW m
  PROVE  LET g == Add(f, q)
         IN  /\ FileType(g, Nat) /\ FileType(Synced(g), Nat)
             /\ ToSet(g.recs) = ToSet(f.recs) \cup {q} /\ ToSet(Synced(g).recs) = ToSet(f.recs) \cup {q}
             /\ Kept(f, m) \subseteq Kept(g, m) /\ Kept(f, m) \subseteq Kept(Synced(g), m)
             /\ q \in Kept(Synced(g), m) /\ (~m => q \in Kept(g, m))
<1> DEFINE g == Add(f, q)
           h == Synced(g)
           n == Len(f.recs)
           r == Append(f.recs, q)
<1>1. f.recs \in Seq(Nat) /\ n \in Nat /\ f.synced \in Nat /\ f.synced <= n
      /\ f \in [recs : Seq(Nat), synced : Nat]
  BY DEF FileType
<1>2. r \in Seq(Nat) /\ Len(r) = n + 1 /\ r[n + 1] = q /\ \A i \in 1..n : r[i] = f.recs[i]
  BY <1>1
<1> HIDE DEF r
<1>3. g = [recs |-> r, synced |-> f.synced]
  BY <1>1, FileFields DEF r
<1>4. g \in [recs : Seq(Nat), synced : Nat] /\ g.recs = r /\ g.synced = f.synced
  BY <1>1, <1>2, <1>3
<1>5. h = [recs |-> r, synced |-> Len(r)]
  <2> HIDE DEF g
  <2>1. Synced(g) = [recs |-> g.recs, synced |-> Len(g.recs)]
    BY <1>4, FileFields
  <2> QED  BY <1>4, <2>1
<1> HIDE DEF g, h
<1>6. h.recs = r /\ h.synced = n + 1 /\ FileType(h, Nat)
  BY <1>1, <1>2, <1>5 DEF FileType
<1>7. FileType(g, Nat)
  BY <1>1, <1>2, <1>4 DEF FileType
<1>8. ToSet(r) = ToSet(f.recs) \cup {q}
  <2>1. DOMAIN r = 1..(n + 1) /\ DOMAIN f.recs = 1..n
    BY <1>1, <1>2
  <2>2. \A i \in 1..(n + 1) : i \in 1..n \/ i = n + 1
    BY <1>1
  <2>3. \A i \in 1..n : i \in 1..(n + 1)
    BY <1>1
  <2>4. n + 1 \in 1..(n + 1)
    BY <1>1
  <2> QED  BY <1>2, <2>1, <2>2, <2>3, <2>4 DEF ToSet
<1>9. \A i \in 1..f.synced : i \in 1..n /\ i \in 1..(n + 1) /\ r[i] = f.recs[i]
  BY <1>1, <1>2
<1>10. Kept(f, TRUE) = {f.recs[i] : i \in 1..f.synced} /\ Kept(f, FALSE) = ToSet(f.recs)
  BY DEF Kept
<1>11. CASE m
  <2>1. Kept(f, m) = {f.recs[i] : i \in 1..f.synced} /\ Kept(g, m) = {r[i] : i \in 1..f.synced}
        /\ Kept(h, m) = {r[i] : i \in 1..(n + 1)}
    BY <1>4, <1>6, <1>11 DEF Kept
  <2>2. n + 1 \in 1..(n + 1)
    BY <1>1
  <2>3. Kept(f, m) \subseteq Kept(g, m) /\ Kept(f, m) \subseteq Kept(h, m) /\ q \in Kept(h, m)
    BY <1>2, <1>9, <2>1, <2>2
  <2> QED  BY <1>4, <1>6, <1>7, <1>8, <1>11, <2>3 DEF g, h
<1>12. CASE ~m
  <2>1. Kept(f, m) = ToSet(f.recs) /\ Kept(g, m) = ToSet(r) /\ Kept(h, m) = ToSet(r)
    BY <1>4, <1>6, <1>12 DEF Kept
  <2> QED  BY <1>4, <1>6, <1>7, <1>8, <2>1 DEF g, h
<1> QED  BY <1>11, <1>12

\* What the invariant says of an open database and its MANIFEST.
LEMMA OpenFacts ==
  ASSUME Consistent, db.at = "open"
  PROVE  /\ DirType(disk) /\ DbType /\ HistoryType /\ DiskOK(disk, left.machine, promised, spoilt) /\ NumbersOK
         /\ OpenNumbers /\ WorkOK /\ EditOK /\ OpenTables /\ OpenVersions /\ OpenPromise
         /\ disk.current = db.manifest /\ db.manifest \in DOMAIN disk.manifests /\ Usable(disk)
         /\ 0 < db.manifest /\ db.manifest \in Nat
         /\ FileType(Manifest, Record) /\ Final(disk, db.manifest) = Replay(Manifest.recs)
         /\ Replay(Manifest.recs) \in Versions(Manifest)
         /\ ~spoilt => \A v \in Versions(Manifest) : v.log <= db.log
         /\ db.bg # "logged" /\ ~spoilt => \A v \in Versions(Manifest) : Same(v, db.ver)
<1>1. /\ DirType(disk) /\ DbType /\ HistoryType /\ DiskOK(disk, left.machine, promised, spoilt) /\ NumbersOK
      /\ OpenNumbers /\ WorkOK /\ EditOK /\ OpenTables /\ OpenVersions /\ OpenPromise
  BY DEF Consistent, Typed, OpenOK
<1>2. /\ disk.current = db.manifest /\ db.manifest \in DOMAIN disk.manifests /\ Usable(disk)
      /\ 0 < db.manifest /\ db.manifest \in Nat
  BY <1>1 DEF NumbersOK, Usable, Reads, OpenNumbers, DbType
<1>3. FileType(Manifest, Record) /\ Final(disk, db.manifest) = Replay(Manifest.recs)
  BY <1>2 DEF Usable, Reads, Manifest, Final
<1>4. Replay(Manifest.recs) \in Versions(Manifest)
  BY <1>3, ReplayIsVersion
<1>5. ASSUME ~spoilt, NEW v \in Versions(Manifest)  PROVE v.log <= db.log
  <2>1. db.ver.log \in Nat /\ db.log \in Nat /\ db.ver.log <= db.log
    BY <1>1 DEF DbType, OpenNumbers
  <2>2. CASE Same(v, db.ver)
    BY <2>1, <2>2 DEF Same
  <2>3. CASE db.bg = "logged" /\ Same(v, AppendVersion)
    <3>1. v.log = db.edit.log
      BY <2>3 DEF Same, AppendVersion
    <3>2. db.edit.log = db.log \/ db.edit.log = db.ver.log
      BY <1>1, <2>3 DEF EditOK
    <3> QED  BY <2>1, <3>1, <3>2
  <2> QED  BY <1>1, <1>5, <2>2, <2>3 DEF OpenVersions
<1>6. db.bg # "logged" /\ ~spoilt => \A v \in Versions(Manifest) : Same(v, db.ver)
  BY <1>1 DEF OpenVersions
<1> QED  BY <1>1, <1>2, <1>3, <1>4, <1>5, <1>6

\* A write goes to the log, is synced if it asks for it, and goes to the
\* memtable.
LEMMA WriteKeeps == ASSUME NEW sync \in BOOLEAN  PROVE Consistent /\ Write(sync) => Consistent'
<1> SUFFICES ASSUME Consistent, Write(sync)  PROVE Consistent'
  OBVIOUS
<1> DEFINE mm == left.machine
           q == db.last + 1
           f == disk.logs[db.log]
           g == Logged(f, sync)
           new == IF sync \/ ~mm THEN {q} ELSE {}
<1>1. /\ db.at = "open" /\ UNCHANGED <<left, spoilt>>
      /\ disk' = [disk EXCEPT !.logs[db.log] = g]
      /\ db' = [db EXCEPT !.last = @ + 1, !.mem = @ \cup {q}]
      /\ promised' = IF sync \/ ~mm THEN promised \cup {q} ELSE promised
  BY DEF Write
<1>2. /\ DirType(disk) /\ DbType /\ HistoryType /\ DiskOK(disk, mm, promised, spoilt) /\ NumbersOK
      /\ OpenNumbers /\ WorkOK /\ EditOK /\ OpenTables /\ OpenVersions /\ OpenPromise
      /\ disk.current = db.manifest /\ db.manifest \in DOMAIN disk.manifests /\ Usable(disk)
      /\ 0 < db.manifest
  BY <1>1, OpenFacts
<1>3. promised' = promised \cup new
  BY <1>1
<1>4. db.last \in Nat /\ q \in Nat /\ db.last <= q
  BY <1>2 DEF DbType
<1>5. ASSUME db.log \in DOMAIN disk.logs
      PROVE  /\ FileType(g, Nat) /\ ToSet(g.recs) = ToSet(f.recs) \cup {q}
             /\ Kept(f, mm) \subseteq Kept(g, mm) /\ new \subseteq Kept(g, mm)
  <2>1. FileType(f, Nat)
    BY <1>2, <1>5 DEF DirType
  <2>2. g = IF sync THEN Synced(Add(f, q)) ELSE Add(f, q)
    BY DEF Logged
  <2> HIDE DEF g, f, q
  <2>3. CASE sync
    BY <1>4, <2>1, <2>2, <2>3, AppendFile
  <2>4. CASE ~sync
    BY <1>4, <2>1, <2>2, <2>4, AppendFile
  <2> QED  BY <2>3, <2>4
<1>6. new \subseteq {q}
  OBVIOUS
<1>7. /\ DOMAIN disk' = DOMAIN disk /\ disk'.tables = disk.tables /\ disk'.manifests = disk.manifests
      /\ disk'.current = disk.current /\ disk'.logs = [disk.logs EXCEPT ![db.log] = g]
  BY <1>1, <1>2 DEF DirType
<1>8. /\ DOMAIN db' = DOMAIN db /\ db'.at = db.at /\ db'.mem = db.mem \cup {q} /\ db'.imm = db.imm
      /\ db'.log = db.log /\ db'.last = q /\ db'.next = db.next /\ db'.manifest = db.manifest
      /\ db'.ver = db.ver /\ db'.edit = db.edit /\ db'.todo = db.todo /\ db'.ok = db.ok /\ db'.bg = db.bg
      /\ db'.work = db.work /\ db'.reader = db.reader
  BY <1>1, <1>2 DEF DbType
<1> HIDE DEF g, f, mm, new
<1>9. /\ IsFcn(disk'.logs) /\ DOMAIN disk'.logs = DOMAIN disk.logs
      /\ \A n \in DOMAIN disk.logs : disk'.logs[n] = IF n = db.log THEN g ELSE disk.logs[n]
  BY <1>7 DEF IsFcn
<1>10. \A n \in DOMAIN disk.logs : n = db.log => disk.logs[n] = f
  BY DEF f
<1>11. DirType(disk')
  BY <1>2, <1>5, <1>7, <1>9 DEF DirType
<1>12. DbType'
  <2>1. Finite(db.mem \cup {q}) /\ 0 \notin db.mem \cup {q}
    <3>1. Finite(db.mem) /\ 0 \notin db.mem /\ q # 0
      BY <1>2, <1>4 DEF DbType
    <3>2. Finite({q})
      BY <1>4, FiniteFacts
    <3> HIDE DEF q
    <3> QED  BY <3>1, <3>2, FiniteFacts
  <2> HIDE DEF q
  <2> QED  BY <1>2, <1>4, <1>8, <2>1 DEF DbType
<1>13. HistoryType' /\ QuietOK' /\ left'.machine = mm
  BY <1>1, <1>2, <1>3, <1>4, <1>6, <1>8 DEF HistoryType, QuietOK, mm
<1>14. DiskOK(disk', mm, promised', spoilt) /\ Usable(disk')
  <2>1. ASSUME NEW v \in Versions(disk.manifests[disk.current])
        PROVE  Stays(v, disk, disk', mm, promised, promised', spoilt)
    <3>1. TablesSame(disk, disk', v.files) /\ v.files \cap DOMAIN disk.tables \subseteq DOMAIN disk'.tables
      BY <1>7 DEF TablesSame
    <3>2. LogsStay(disk, disk', mm, v.log)
      BY <1>5, <1>9, <1>10 DEF LogsStay
    <3>3. ASSUME ~spoilt  PROVE promised' \subseteq promised \cup LogsKept(disk', mm, v.log)
      <4>1. v.log <= db.log
        BY <1>1, <1>2, <3>3, OpenFacts DEF Manifest
      <4>2. db.log \in DOMAIN disk.logs
        BY <1>2, <3>3 DEF OpenPromise
      <4>3. db.log \in {k \in DOMAIN disk'.logs : k >= v.log} /\ disk'.logs[db.log] = g
        BY <1>9, <4>1, <4>2
      <4>4. Kept(g, mm) \subseteq LogsKept(disk', mm, v.log)
        BY <4>3 DEF LogsKept
      <4> QED  BY <1>3, <1>5, <4>2, <4>4
    <3> QED  BY <3>1, <3>2, <3>3 DEF Stays
  <2>2. Continues(disk, disk', mm, promised, promised', spoilt)
    BY <1>2, <1>7, <2>1 DEF Continues
  <2>3. DirType(disk) /\ DirType(disk') /\ DiskOK(disk, mm, promised, spoilt) /\ Usable(disk)
        /\ spoilt \in BOOLEAN
    BY <1>2, <1>11 DEF HistoryType
  <2> QED  BY <2>2, <2>3, DiskStays
<1>15. Named' = Named /\ Manifest' = Manifest
  BY <1>7, <1>8 DEF Named, Manifest
<1>16. NumbersOK'
  BY <1>1, <1>2, <1>7, <1>8, <1>9, <1>14, <1>15 DEF NumbersOK
<1>17. OpenNumbers'
  <2>1. AtMost(disk', db.ver.files, q)
    BY <1>2, <1>4, <1>7 DEF OpenNumbers, AtMost, DirType, Finite
  <2>2. \A x \in db.mem \cup {q} \cup db.imm : x <= q
    BY <1>2, <1>4 DEF OpenNumbers, DbType, Finite
  <2>3. Replay(Manifest.recs).last <= q
    <3>1. Replay(Manifest.recs).last \in Nat
      BY <1>1, <1>2, OpenFacts, VersionNamed DEF VersionOK, VersionType, Manifest
    <3> QED  BY <1>2, <1>4, <3>1 DEF OpenNumbers
  <2> HIDE DEF q
  <2> QED  BY <1>2, <1>7, <1>8, <1>15, <2>1, <2>2, <2>3 DEF OpenNumbers
<1>18. WorkOK'
  BY <1>2, <1>8, <1>15 DEF WorkOK, Compacting
<1>19. EditOK'
  <2> SUFFICES ASSUME db.bg = "logged"  PROVE EditOK'
    BY <1>8 DEF EditOK
  <2>1. PICK x \in DOMAIN disk.tables \ db.ver.files :
      /\ db.edit.add = {x} /\ x < db.next /\ \A p \in disk.tables[x] : p <= db.last
      /\ IF db.edit.del = {}
         THEN db.edit.log = db.log /\ db.imm # NoTable /\ disk.tables[x] = db.imm
         ELSE /\ db.work # NoWork /\ x = db.work.out /\ db.edit.del = db.work.inputs
              /\ db.edit.log = db.ver.log
              /\ ~spoilt => disk.tables[x] = Held(disk, db.work.inputs)
    BY <1>2 DEF EditOK
  <2>2. \A p \in disk.tables[x] : p <= q
    BY <1>2, <1>4, <2>1 DEF DirType, Finite
  <2>3. Held(disk', db.work.inputs) = Held(disk, db.work.inputs)
    BY <1>7 DEF Held
  <2> HIDE DEF q
  <2> QED  BY <1>1, <1>7, <1>8, <2>1, <2>2, <2>3 DEF EditOK
<1>20. OpenTables'
  BY <1>1, <1>2, <1>7, <1>8 DEF OpenTables
<1>21. OpenVersions'
  <2>1. AppendVersion' = AppendVersion
    BY <1>8 DEF AppendVersion
  <2> QED  BY <1>1, <1>2, <1>8, <1>15, <2>1 DEF OpenVersions
<1>22. OpenPromise'
  <2> SUFFICES ASSUME ~spoilt  PROVE OpenPromise'
    BY <1>1 DEF OpenPromise
  <2>1. /\ db.log \in DOMAIN disk.logs /\ ToSet(f.recs) \subseteq db.mem
        /\ promised \subseteq Held(disk, db.ver.files) \cup Imm \cup Kept(f, mm)
    BY <1>2 DEF OpenPromise, f, mm
  <2>2. disk'.logs[db.log] = g /\ db.log \in DOMAIN disk'.logs
    BY <1>9, <2>1
  <2>3. Held(disk', db.ver.files) = Held(disk, db.ver.files) /\ Imm' = Imm
    BY <1>7, <1>8 DEF Held, Imm
  <2>4. ToSet(g.recs) \subseteq db.mem \cup {q}
    BY <1>5, <2>1
  <2>5. promised' \subseteq Held(disk, db.ver.files) \cup Imm \cup Kept(g, mm)
    BY <1>3, <1>5, <2>1
  <2> HIDE DEF q
  <2> QED  BY <1>8, <1>13, <2>2, <2>3, <2>4, <2>5 DEF OpenPromise
<1> QED  BY <1>1, <1>8, <1>11, <1>12, <1>13, <1>14, <1>16, <1>17, <1>18, <1>19, <1>20, <1>21, <1>22
         DEF Consistent, Typed, RepairOK, NewOK, RecoveryOK, LogsOK, NewManifestOK, OpenOK

\* The memtable becomes the immutable one, and a new log begins.
LEMMA SwitchKeeps == Consistent /\ SwitchMemTable => Consistent'
<1> SUFFICES ASSUME Consistent, SwitchMemTable  PROVE Consistent'
  OBVIOUS
<1> DEFINE mm == left.machine
           f == disk.logs[db.log]
<1>1. /\ db.at = "open" /\ db.imm = NoTable /\ UNCHANGED <<left, promised, spoilt>>
      /\ disk' = [disk EXCEPT !.logs = With(@, db.next, EmptyFile)]
      /\ db' = [db EXCEPT !.log = db.next, !.next = @ + 1, !.imm = db.mem, !.mem = {}]
  BY DEF SwitchMemTable
<1>2. /\ DirType(disk) /\ DbType /\ HistoryType /\ DiskOK(disk, mm, promised, spoilt) /\ NumbersOK
      /\ OpenNumbers /\ WorkOK /\ EditOK /\ OpenTables /\ OpenVersions /\ OpenPromise
      /\ disk.current = db.manifest /\ db.manifest \in DOMAIN disk.manifests /\ Usable(disk)
  BY <1>1, OpenFacts
<1>3. /\ DOMAIN disk' = DOMAIN disk /\ disk'.tables = disk.tables /\ disk'.manifests = disk.manifests
      /\ disk'.current = disk.current /\ disk'.logs = With(disk.logs, db.next, EmptyFile)
  BY <1>1, <1>2 DEF DirType
<1>4. /\ DOMAIN disk'.logs = DOMAIN disk.logs \cup {db.next} /\ disk'.logs[db.next] = EmptyFile
      /\ \A n \in DOMAIN disk.logs : n # db.next => disk'.logs[n] = disk.logs[n]
      /\ IsFcn(disk'.logs)
  BY <1>3 DEF With, IsFcn
<1>5. /\ DOMAIN db' = DOMAIN db /\ db'.at = db.at /\ db'.mem = {} /\ db'.imm = db.mem
      /\ db'.log = db.next /\ db'.last = db.last /\ db'.next = db.next + 1 /\ db'.manifest = db.manifest
      /\ db'.ver = db.ver /\ db'.edit = db.edit /\ db'.todo = db.todo /\ db'.ok = db.ok /\ db'.bg = db.bg
      /\ db'.work = db.work /\ db'.reader = db.reader
  BY <1>1, <1>2 DEF DbType
<1>6. db.next \in Nat /\ db.next \notin DOMAIN disk.logs
  BY <1>1, <1>2 DEF DbType, NumbersOK
<1>7. DirType(disk')
  <2>1. Finite(DOMAIN disk'.logs)
    <3>1. Finite({db.next}) /\ Finite(DOMAIN disk.logs)
      BY <1>2, <1>6, FiniteFacts DEF DirType
    <3> QED  BY <1>4, <3>1, FiniteFacts
  <2>2. FileType(EmptyFile, Nat)
    BY DEF FileType, EmptyFile
  <2> QED  BY <1>2, <1>3, <1>4, <1>6, <2>1, <2>2 DEF DirType
<1>8. DbType'
  <2>1. Finite({})
    BY FiniteFacts
  <2> QED  BY <1>2, <1>5, <1>6, <2>1 DEF DbType
<1>9. HistoryType' /\ QuietOK'
  BY <1>1, <1>2, <1>5 DEF HistoryType, QuietOK
<1>10. DiskOK(disk', mm, promised, spoilt) /\ Usable(disk')
  <2>1. ASSUME NEW v \in Versions(disk.manifests[disk.current])
        PROVE  Stays(v, disk, disk', mm, promised, promised, spoilt)
    <3>1. TablesSame(disk, disk', v.files) /\ v.files \cap DOMAIN disk.tables \subseteq DOMAIN disk'.tables
      BY <1>3 DEF TablesSame
    <3>2. LogsStay(disk, disk', mm, v.log)
      BY <1>4, <1>6 DEF LogsStay
    <3> QED  BY <3>1, <3>2 DEF Stays
  <2>2. disk.current = 0 => promised = {}
    BY <1>2 DEF DiskOK
  <2>3. Continues(disk, disk', mm, promised, promised, spoilt)
    BY <1>2, <1>3, <2>1, <2>2 DEF Continues
  <2>4. DirType(disk) /\ DirType(disk') /\ DiskOK(disk, mm, promised, spoilt) /\ Usable(disk)
        /\ spoilt \in BOOLEAN
    BY <1>2, <1>7 DEF HistoryType
  <2> HIDE DEF mm
  <2> QED  BY <2>3, <2>4, DiskStays
<1>11. Named' = Named /\ Manifest' = Manifest
  BY <1>3, <1>5 DEF Named, Manifest
<1>12. NumbersOK'
  <2>1. \A n \in Named : n < db.next + 1
    BY <1>1, <1>2, <1>6, VersionNamed DEF NumbersOK
  <2>2. \A n \in DOMAIN disk'.logs : n < db.next + 1
    BY <1>1, <1>2, <1>4, <1>6 DEF NumbersOK, DirType, Finite
  <2>3. 0 < db.manifest /\ db.manifest < db.next + 1
    BY <1>1, <1>2, <1>6 DEF NumbersOK, DbType
  <2> QED  BY <1>5, <1>10, <1>11, <2>1, <2>2, <2>3 DEF NumbersOK
<1>13. OpenNumbers'
  <2>1. db.ver.log <= db.next /\ 0 < db.ver.log /\ db.next < db.next + 1
    BY <1>2, <1>6 DEF OpenNumbers, DbType
  <2>2. Below(db.ver.files \cup db.reader, db.next + 1)
    BY <1>2, <1>6 DEF OpenNumbers, Below, DbType, Finite
  <2>3. Replay(Manifest.recs).next <= db.next + 1
    <3>1. Replay(Manifest.recs).next \in Nat
      BY <1>1, <1>2, OpenFacts, VersionNamed DEF VersionOK, VersionType, Manifest
    <3> QED  BY <1>2, <1>6, <3>1 DEF OpenNumbers
  <2>4. \A x \in {} \cup db.mem : x <= db.last
    BY <1>2 DEF OpenNumbers
  <2>5. AtMost(disk', db.ver.files, db.last)
    BY <1>2, <1>3 DEF OpenNumbers, AtMost
  <2> QED  BY <1>2, <1>3, <1>5, <1>11, <2>1, <2>2, <2>3, <2>4, <2>5 DEF OpenNumbers
<1>14. WorkOK'
  BY <1>2, <1>5, <1>6, <1>11 DEF WorkOK, Compacting, DbType
<1>15. EditOK'
  <2> SUFFICES ASSUME db.bg = "logged"  PROVE EditOK'
    BY <1>5 DEF EditOK
  <2>1. PICK x \in DOMAIN disk.tables \ db.ver.files :
      /\ db.edit.add = {x} /\ x < db.next /\ \A p \in disk.tables[x] : p <= db.last
      /\ IF db.edit.del = {}
         THEN db.edit.log = db.log /\ db.imm # NoTable /\ disk.tables[x] = db.imm
         ELSE /\ db.work # NoWork /\ x = db.work.out /\ db.edit.del = db.work.inputs
              /\ db.edit.log = db.ver.log
              /\ ~spoilt => disk.tables[x] = Held(disk, db.work.inputs)
    BY <1>2 DEF EditOK
  <2>2. db.edit.del # {}
    BY <1>1, <2>1
  <2>3. Held(disk', db.work.inputs) = Held(disk, db.work.inputs)
    BY <1>3 DEF Held
  <2>4. x < db.next + 1
    BY <1>2, <1>6, <2>1 DEF DirType, Finite
  <2> QED  BY <1>1, <1>3, <1>5, <2>1, <2>2, <2>3, <2>4 DEF EditOK
<1>16. OpenTables'
  BY <1>1, <1>2, <1>3, <1>5 DEF OpenTables
<1>17. OpenVersions'
  <2>1. AppendVersion' = AppendVersion
    BY <1>5 DEF AppendVersion
  <2> QED  BY <1>1, <1>2, <1>5, <1>11, <2>1 DEF OpenVersions
<1>18. OpenPromise'
  <2> SUFFICES ASSUME ~spoilt  PROVE OpenPromise'
    BY <1>1 DEF OpenPromise
  <2>1. /\ db.log \in DOMAIN disk.logs /\ ToSet(f.recs) \subseteq db.mem
        /\ promised \subseteq Held(disk, db.ver.files) \cup Imm \cup Kept(f, mm)
    BY <1>2 DEF OpenPromise
  <2>2. Kept(f, mm) \subseteq ToSet(f.recs)
    BY <1>2, <2>1, KeptLemma DEF DirType
  <2>3. Imm = {} /\ Imm' = db.mem
    BY <1>1, <1>2, <1>5 DEF Imm, NoTable, DbType
  <2>4. ToSet(EmptyFile.recs) = {}
    BY DEF EmptyFile, ToSet
  <2>5. Held(disk', db.ver.files) = Held(disk, db.ver.files)
    BY <1>3 DEF Held
  <2> HIDE DEF f
  <2> QED  BY <1>1, <1>4, <1>5, <2>1, <2>2, <2>3, <2>4, <2>5 DEF OpenPromise
<1> QED  BY <1>1, <1>5, <1>7, <1>8, <1>9, <1>10, <1>12, <1>13, <1>14, <1>15, <1>16, <1>17, <1>18
         DEF Consistent, Typed, RepairOK, NewOK, RecoveryOK, LogsOK, NewManifestOK, OpenOK

\* An iterator holds the current version, or lets go of it.
LEMMA ReaderKeeps == Consistent /\ (Acquire \/ ReleaseReader) => Consistent'
<1> SUFFICES ASSUME Consistent, Acquire \/ ReleaseReader  PROVE Consistent'
  OBVIOUS
<1>1. PICK r \in {db.ver.files, {}} : db' = [db EXCEPT !.reader = r]
  BY DEF Acquire, ReleaseReader
<1>2. db.at = "open" /\ UNCHANGED <<disk, left, promised, spoilt>>
  BY DEF Acquire, ReleaseReader
<1>3. /\ DirType(disk) /\ DbType /\ HistoryType /\ DiskOK(disk, left.machine, promised, spoilt) /\ NumbersOK
      /\ OpenNumbers /\ WorkOK /\ EditOK /\ OpenTables /\ OpenVersions /\ OpenPromise
  BY <1>2, OpenFacts
<1>4. /\ DOMAIN db' = DOMAIN db /\ db'.at = db.at /\ db'.mem = db.mem /\ db'.imm = db.imm
      /\ db'.log = db.log /\ db'.last = db.last /\ db'.next = db.next /\ db'.manifest = db.manifest
      /\ db'.ver = db.ver /\ db'.edit = db.edit /\ db'.todo = db.todo /\ db'.ok = db.ok /\ db'.bg = db.bg
      /\ db'.work = db.work /\ db'.reader = r
  BY <1>1, <1>3 DEF DbType
<1>5. r \subseteq db.ver.files /\ db.ver.files \subseteq Nat
  BY <1>1, <1>3 DEF DbType, Finite
<1>6. DbType' /\ QuietOK' /\ HistoryType'
  BY <1>2, <1>3, <1>4, <1>5 DEF DbType, QuietOK, HistoryType
<1>7. Named' = Named /\ Manifest' = Manifest /\ AppendVersion' = AppendVersion /\ Imm' = Imm
      /\ Compacting' = Compacting
  BY <1>2, <1>4 DEF Named, Manifest, AppendVersion, Imm, Compacting
<1>8. NumbersOK'
  BY <1>2, <1>3, <1>4, <1>7 DEF NumbersOK
<1>9. OpenNumbers'
  <2>1. Below(db.ver.files \cup r, db.next)
    BY <1>3, <1>5 DEF OpenNumbers, Below
  <2> QED  BY <1>2, <1>3, <1>4, <1>7, <2>1 DEF OpenNumbers
<1>10. WorkOK'
  BY <1>2, <1>3, <1>4, <1>7 DEF WorkOK
<1>11. EditOK'
  BY <1>2, <1>3, <1>4 DEF EditOK
<1>12. OpenTables'
  BY <1>2, <1>3, <1>4, <1>5 DEF OpenTables
<1>13. OpenVersions' /\ OpenPromise'
  BY <1>2, <1>3, <1>4, <1>7 DEF OpenVersions, OpenPromise
<1>14. DirType(disk') /\ DiskOK(disk', left'.machine, promised', spoilt')
  BY <1>2, <1>3
<1> QED  BY <1>2, <1>4, <1>6, <1>8, <1>9, <1>10, <1>11, <1>12, <1>13, <1>14
         DEF Consistent, Typed, RepairOK, NewOK, RecoveryOK, LogsOK, NewManifestOK, OpenOK

\* Files that no version needs are deleted.
LEMMA DeleteKeeps == Consistent /\ Delete => Consistent'
<1> SUFFICES ASSUME Consistent, Delete  PROVE Consistent'
  OBVIOUS
<1> DEFINE mm == left.machine
           live == LiveFiles(db.ver)
<1>1. /\ db.at = "open" /\ db.bg = "delete" /\ UNCHANGED <<left, promised, spoilt>>
      /\ DeleteObsoleteFiles(db.ver, live) /\ db' = [db EXCEPT !.bg = "idle"]
  BY DEF Delete
<1>2. /\ DirType(disk) /\ DbType /\ HistoryType /\ DiskOK(disk, mm, promised, spoilt) /\ NumbersOK
      /\ OpenNumbers /\ WorkOK /\ EditOK /\ OpenTables /\ OpenVersions /\ OpenPromise
      /\ disk.current = db.manifest /\ db.manifest \in DOMAIN disk.manifests /\ Usable(disk)
      /\ db.manifest \in Nat
      /\ (~spoilt => \A v \in Versions(Manifest) : Same(v, db.ver))
  BY <1>1, OpenFacts
<1>3. live = db.ver.files \cup db.reader \cup db.work.inputs \cup {db.work.out}
  BY DEF LiveFiles
<1> HIDE DEF live, mm
<1>4. /\ Shrinks(disk, disk')
      /\ DOMAIN disk'.logs = {n \in DOMAIN disk.logs : n >= db.ver.log}
      /\ DOMAIN disk'.tables = DOMAIN disk.tables \cap live
      /\ DOMAIN disk'.manifests = {n \in DOMAIN disk.manifests : n >= db.manifest}
  BY <1>1, <1>2, Deleted
<1>5. db.manifest \in DOMAIN disk'.manifests /\ disk'.current = db.manifest
      /\ Fewer(disk.logs, disk'.logs) /\ Fewer(disk.tables, disk'.tables)
  BY <1>2, <1>4 DEF Shrinks
<1>6. /\ DirType(disk') /\ DiskOK(disk', mm, promised, spoilt) /\ Usable(disk')
      /\ disk'.manifests[db.manifest] = disk.manifests[db.manifest]
  <2>1. ~spoilt => \A v \in Versions(disk.manifests[disk.current]) :
           /\ v.files \cap DOMAIN disk.tables \subseteq DOMAIN disk'.tables
           /\ \A n \in DOMAIN disk.logs : n >= v.log => n \in DOMAIN disk'.logs
    BY <1>2, <1>3, <1>4 DEF Manifest, Same
  <2>2. spoilt \in BOOLEAN
    BY <1>2 DEF HistoryType
  <2>3. disk.current \in DOMAIN disk'.manifests /\ DirType(disk) /\ DiskOK(disk, mm, promised, spoilt)
        /\ Usable(disk)
    BY <1>2, <1>5
  <2>4. /\ DirType(disk') /\ DiskOK(disk', mm, promised, spoilt) /\ Usable(disk')
        /\ disk'.manifests[disk.current] = disk.manifests[disk.current]
    BY <1>4, <2>1, <2>2, <2>3, DiskShrinks
  <2> QED  BY <1>2, <2>4
<1>7. /\ DOMAIN db' = DOMAIN db /\ db'.at = db.at /\ db'.mem = db.mem /\ db'.imm = db.imm
      /\ db'.log = db.log /\ db'.last = db.last /\ db'.next = db.next /\ db'.manifest = db.manifest
      /\ db'.ver = db.ver /\ db'.edit = db.edit /\ db'.todo = db.todo /\ db'.ok = db.ok /\ db'.bg = "idle"
      /\ db'.work = db.work /\ db'.reader = db.reader
  BY <1>1, <1>2 DEF DbType
<1>8. DbType' /\ QuietOK' /\ HistoryType'
  BY <1>1, <1>2, <1>7 DEF DbType, QuietOK, HistoryType
<1>9. Manifest' = Manifest /\ Imm' = Imm
  BY <1>6, <1>7 DEF Manifest, Imm
<1>10. Named' = Named
  <2>1. Named' = Names(disk') /\ Named = Names(disk)
    BY <1>2, <1>5, <1>6, NamedLemma DEF Named, Usable
  <2>2. Names(disk') = Names(disk)
    BY <1>2, <1>5, <1>6 DEF Names
  <2> QED  BY <2>1, <2>2
<1>11. NumbersOK'
  BY <1>1, <1>2, <1>4, <1>6, <1>7, <1>10 DEF NumbersOK
<1>12. OpenNumbers'
  <2>1. AtMost(disk', db.ver.files, db.last)
    BY <1>2, <1>5 DEF OpenNumbers, AtMost, Fewer
  <2> QED  BY <1>2, <1>5, <1>7, <1>9, <2>1 DEF OpenNumbers
<1>13. WorkOK' /\ EditOK'
  BY <1>1, <1>2, <1>7, <1>10 DEF WorkOK, Compacting, EditOK
<1>14. OpenTables'
  BY <1>1, <1>2, <1>3, <1>4, <1>7 DEF OpenTables
<1>15. OpenVersions'
  BY <1>1, <1>2, <1>7, <1>9 DEF OpenVersions
<1>16. OpenPromise'
  <2> SUFFICES ASSUME ~spoilt  PROVE OpenPromise'
    BY <1>1 DEF OpenPromise
  <2>1. Held(disk', db.ver.files) = Held(disk, db.ver.files)
    BY <1>3, <1>4, <1>5 DEF Held, Fewer
  <2>2. db.log \in DOMAIN disk'.logs /\ disk'.logs[db.log] = disk.logs[db.log]
    BY <1>2, <1>4, <1>5 DEF OpenPromise, OpenNumbers, Fewer, DbType
  <2> QED  BY <1>1, <1>2, <1>7, <1>9, <2>1, <2>2 DEF OpenPromise
<1> QED  BY <1>1, <1>6, <1>7, <1>8, <1>11, <1>12, <1>13, <1>14, <1>15, <1>16
         DEF Consistent, Typed, RepairOK, NewOK, RecoveryOK, LogsOK, NewManifestOK, OpenOK, mm

--------------------------------------------------------------------------------
(* Flushes and compactions. *)

\* A table that no version of the MANIFEST names is written or written anew.
Written(d, e, x, y) ==
  e = [d EXCEPT !.tables = With(@, x, y)] /\ x \in Nat /\ x # 0 /\ x \notin Names(d) /\ Finite(y)

\* A directory stays good when a table is written that its MANIFEST does not
\* name.
LEMMA TableAdded ==
  ASSUME NEW d, NEW e, NEW m, NEW P, NEW s \in BOOLEAN, NEW x, NEW y,
         DirType(d), DiskOK(d, m, P, s), Usable(d), Written(d, e, x, y)
  PROVE  /\ DirType(e) /\ DiskOK(e, m, P, s) /\ Usable(e) /\ DOMAIN e = DOMAIN d
         /\ e.logs = d.logs /\ e.manifests = d.manifests /\ e.current = d.current
         /\ DOMAIN e.tables = DOMAIN d.tables \cup {x} /\ e.tables[x] = y
         /\ \A n \in DOMAIN d.tables : n # x => e.tables[n] = d.tables[n]
         /\ \A F : x \notin F => Held(e, F) = Held(d, F) /\ \A q : AtMost(d, F, q) => AtMost(e, F, q)
<1>1. /\ DOMAIN e = DOMAIN d /\ e.logs = d.logs /\ e.manifests = d.manifests /\ e.current = d.current
      /\ e.tables = With(d.tables, x, y)
  BY DEF DirType, Written
<1>2. /\ DOMAIN e.tables = DOMAIN d.tables \cup {x} /\ e.tables[x] = y
      /\ \A n \in DOMAIN d.tables : n # x => e.tables[n] = d.tables[n]
  BY <1>1 DEF With
<1>3. Finite(DOMAIN e.tables)
  <2>1. Finite({x}) /\ Finite(DOMAIN d.tables)
    BY FiniteFacts DEF DirType, Written
  <2> QED  BY <1>2, <2>1, FiniteFacts
<1>4. DirType(e)
  BY <1>1, <1>2, <1>3 DEF DirType, Written
<1>5. ASSUME NEW F, x \notin F
      PROVE  /\ TablesSame(d, e, F) /\ F \cap DOMAIN d.tables \subseteq DOMAIN e.tables
             /\ Held(e, F) = Held(d, F) /\ \A q : AtMost(d, F, q) => AtMost(e, F, q)
  <2>1. TablesSame(d, e, F) /\ F \cap DOMAIN d.tables \subseteq DOMAIN e.tables
    BY <1>2, <1>5 DEF TablesSame
  <2> QED  BY <2>1, HeldStays
<1>6. ASSUME NEW v \in Versions(d.manifests[d.current])  PROVE Stays(v, d, e, m, P, P, s)
  <2>1. x \notin v.files
    BY DEF Names, Written
  <2>2. LogsStay(d, e, m, v.log)
    BY <1>1 DEF LogsStay
  <2> QED  BY <1>5, <2>1, <2>2 DEF Stays
<1>7. Continues(d, e, m, P, P, s)
  BY <1>1, <1>6 DEF Continues, Usable, Reads, DiskOK
<1>8. DiskOK(e, m, P, s) /\ Usable(e)
  BY <1>4, <1>7, DiskStays
<1> QED  BY <1>1, <1>2, <1>4, <1>5, <1>8

\* A compaction takes its inputs and the number of its output.
LEMMA BeginCompactionKeeps == Consistent /\ BeginCompaction => Consistent'
<1> SUFFICES ASSUME Consistent, BeginCompaction  PROVE Consistent'
  OBVIOUS
<1> DEFINE mm == left.machine
<1>1. /\ db.at = "open" /\ db.bg = "idle" /\ db.work = NoWork /\ UNCHANGED <<left, promised, spoilt>>
      /\ Cardinality(db.ver.files) >= 2 /\ disk' = [disk EXCEPT !.tables = With(@, db.next, {})]
      /\ db' = [db EXCEPT !.next = @ + 1, !.work = [inputs |-> db.ver.files, out |-> db.next]]
  BY DEF BeginCompaction
<1>2. /\ DirType(disk) /\ DbType /\ HistoryType /\ DiskOK(disk, mm, promised, spoilt) /\ NumbersOK
      /\ OpenNumbers /\ WorkOK /\ EditOK /\ OpenTables /\ OpenVersions /\ OpenPromise
      /\ disk.current = db.manifest /\ db.manifest \in DOMAIN disk.manifests /\ Usable(disk)
  BY <1>1, OpenFacts
<1>3. db.next \in Nat /\ db.next # 0 /\ db.next \notin Named
  BY <1>1, <1>2 DEF NumbersOK, DbType
<1>4. Named = Names(disk)
  BY <1>2, NamedLemma DEF Named, Usable
<1> DEFINE x == db.next
<1>5. /\ DirType(disk') /\ DiskOK(disk', mm, promised, spoilt) /\ Usable(disk')
      /\ disk'.logs = disk.logs /\ disk'.manifests = disk.manifests /\ disk'.current = disk.current
      /\ DOMAIN disk'.tables = DOMAIN disk.tables \cup {x} /\ disk'.tables[x] = {}
      /\ \A n \in DOMAIN disk.tables : n # x => disk'.tables[n] = disk.tables[n]
      /\ \A F : x \notin F => Held(disk', F) = Held(disk, F) /\ \A q : AtMost(disk, F, q) => AtMost(disk', F, q)
  <2> DEFINE y == {}
  <2>1. Written(disk, disk', x, y) /\ DirType(disk) /\ DiskOK(disk, mm, promised, spoilt) /\ Usable(disk) /\ spoilt \in BOOLEAN
    BY <1>1, <1>2, <1>3, <1>4, FiniteFacts DEF HistoryType, Written
  <2> HIDE DEF x, y, mm
  <2>2. /\ DirType(disk') /\ DiskOK(disk', mm, promised, spoilt) /\ Usable(disk')
        /\ disk'.logs = disk.logs /\ disk'.manifests = disk.manifests /\ disk'.current = disk.current
        /\ DOMAIN disk'.tables = DOMAIN disk.tables \cup {x} /\ disk'.tables[x] = y
        /\ \A n \in DOMAIN disk.tables : n # x => disk'.tables[n] = disk.tables[n]
        /\ \A F : x \notin F => Held(disk', F) = Held(disk, F) /\ \A q : AtMost(disk, F, q) => AtMost(disk', F, q)
    BY <2>1, TableAdded
  <2> QED  BY <2>2 DEF y
<1>6. /\ DOMAIN db' = DOMAIN db /\ db'.at = db.at /\ db'.mem = db.mem /\ db'.imm = db.imm
      /\ db'.log = db.log /\ db'.last = db.last /\ db'.next = db.next + 1 /\ db'.manifest = db.manifest
      /\ db'.ver = db.ver /\ db'.edit = db.edit /\ db'.todo = db.todo /\ db'.ok = db.ok /\ db'.bg = db.bg
      /\ db'.work = [inputs |-> db.ver.files, out |-> db.next] /\ db'.reader = db.reader
  BY <1>1, <1>2 DEF DbType
<1>7. DbType' /\ QuietOK' /\ HistoryType'
  BY <1>1, <1>2, <1>3, <1>6 DEF DbType, QuietOK, HistoryType, Finite
<1>8. Named' = Named /\ Manifest' = Manifest /\ AppendVersion' = AppendVersion /\ Imm' = Imm
  BY <1>5, <1>6 DEF Named, Manifest, AppendVersion, Imm
<1>9. /\ Below(db.ver.files \cup db.reader, db.next) /\ db.ver.files \cup db.reader \subseteq Nat
      /\ x \notin db.ver.files \cup db.reader
  BY <1>2, <1>3 DEF OpenNumbers, Below, DbType, Finite
<1>10. NumbersOK'
  <2>1. \A n \in Named : n < db.next + 1
    BY <1>1, <1>2, <1>3, VersionNamed DEF NumbersOK
  <2>2. \A n \in DOMAIN disk.logs : n < db.next + 1
    BY <1>1, <1>2, <1>3 DEF NumbersOK, DirType, Finite
  <2>3. 0 < db.manifest /\ db.manifest < db.next + 1
    BY <1>1, <1>2, <1>3 DEF NumbersOK, DbType
  <2> QED  BY <1>1, <1>5, <1>6, <1>8, <2>1, <2>2, <2>3 DEF NumbersOK
<1>11. OpenNumbers'
  <2>1. Below(db.ver.files \cup db.reader, db.next + 1)
    BY <1>3, <1>9 DEF Below
  <2>2. Replay(Manifest.recs).next <= db.next + 1
    <3>1. Replay(Manifest.recs).next \in Nat
      BY <1>1, <1>2, OpenFacts, VersionNamed DEF VersionOK, VersionType, Manifest
    <3> QED  BY <1>2, <1>3, <3>1 DEF OpenNumbers
  <2>3. AtMost(disk', db.ver.files, db.last)
    BY <1>2, <1>5, <1>9 DEF OpenNumbers
  <2>4. db.log < db.next + 1
    BY <1>2, <1>3 DEF OpenNumbers, DbType
  <2> QED  BY <1>2, <1>5, <1>6, <1>8, <2>1, <2>2, <2>3, <2>4 DEF OpenNumbers
<1>12. WorkOK'
  <2>1. db.ver.files # {}
    BY <1>1, FS_EmptySet
  <2> QED  BY <1>1, <1>3, <1>6, <1>8, <1>9, <2>1 DEF WorkOK
<1>13. EditOK'
  BY <1>1, <1>6 DEF EditOK
<1>14. OpenTables'
  BY <1>1, <1>2, <1>5, <1>6 DEF OpenTables
<1>15. OpenVersions'
  BY <1>1, <1>2, <1>6, <1>8 DEF OpenVersions
<1>16. OpenPromise'
  BY <1>1, <1>2, <1>5, <1>6, <1>8, <1>9 DEF OpenPromise
<1> QED  BY <1>1, <1>5, <1>6, <1>7, <1>10, <1>11, <1>12, <1>13, <1>14, <1>15, <1>16
         DEF Consistent, Typed, RepairOK, NewOK, RecoveryOK, LogsOK, NewManifestOK, OpenOK

\* A record is added to the MANIFEST that CURRENT names.
WithEdit(d, e) == [d EXCEPT !.manifests[d.current] = Add(@, EncodeTo(e))]

\* A directory stays good when an edit is added to its MANIFEST whose version
\* would be good.
LEMMA ManifestGrows ==
  ASSUME NEW d, NEW g, NEW m, NEW P, NEW s \in BOOLEAN, NEW e, EditType(e),
         DirType(d), DiskOK(d, m, P, s), Usable(d), g = WithEdit(d, e),
         VersionOK(Applied(Final(d, d.current), e), d, m, P, s),
         Final(d, d.current).next <= e.next, d.current < e.next
  PROVE  /\ DirType(g) /\ DiskOK(g, m, P, s) /\ Usable(g)
         /\ g.logs = d.logs /\ g.tables = d.tables /\ g.current = d.current
         /\ DOMAIN g.manifests = DOMAIN d.manifests
         /\ Final(g, d.current) = Applied(Final(d, d.current), e)
         /\ Versions(g.manifests[d.current])
              = Versions(d.manifests[d.current]) \cup {Applied(Final(d, d.current), e)}
<1> DEFINE c == d.current
           f == d.manifests[c]
           h == Add(f, EncodeTo(e))
           w == Applied(Final(d, c), e)
<1>1. c \in DOMAIN d.manifests /\ FileType(f, Record) /\ c \in Nat
  BY DEF Usable, Reads, DirType
<1>2. /\ FileType(h, Record) /\ Final(d, c) = Replay(f.recs) /\ Replay(h.recs) = w
      /\ Versions(h) = Versions(f) \cup {w}
  <2>1. Final(d, c) = Replay(f.recs)
    BY DEF Final
  <2> HIDE DEF f
  <2> QED  BY <1>1, <2>1, VersionsAdd
<1>3. g = [d EXCEPT !.manifests[c] = h]
  BY DEF WithEdit
<1> HIDE DEF h
<1>4. /\ DOMAIN g = DOMAIN d /\ g.logs = d.logs /\ g.tables = d.tables /\ g.current = c
      /\ DOMAIN g.manifests = DOMAIN d.manifests /\ g.manifests[c] = h
      /\ \A n \in DOMAIN d.manifests : n # c => g.manifests[n] = d.manifests[n]
  BY <1>1, <1>3 DEF DirType
<1>5. DirType(g)
  BY <1>2, <1>4 DEF DirType, ManifestType
<1>6. Final(g, c) = w
  BY <1>2, <1>4 DEF Final
<1>7. e.next \in Nat /\ w.next = e.next /\ e.next # 0 /\ c < e.next
  <2>1. e.next \in Nat /\ w.next = Known(Final(d, c).next, e.next)
    BY DEF EditType, Edit, Applied
  <2> HIDE DEF w
  <2>2. e.next # 0
    BY <1>1, <2>1
  <2> QED  BY <2>1, <2>2 DEF Known
<1>8. \A v : VersionOK(v, d, m, P, s) => VersionOK(v, g, m, P, s)
  BY <1>4 DEF VersionOK, AtMost, Safe, Held, LogsKept
<1>9. \A v \in Versions(f) : VersionOK(v, d, m, P, s) /\ v.next <= Final(d, c).next
  BY DEF DiskOK, ManifestOK, Usable
<1>10. Final(d, c) \in Versions(f) /\ Final(d, c).next \in Nat
  <2>1. Final(d, c) \in Versions(f)
    BY <1>1, ReplayIsVersion DEF Final
  <2> QED  BY <1>9, <2>1 DEF VersionOK, VersionType
<1>11. \A v \in Versions(f) : v.next \in Nat /\ v.next <= w.next
  <2> SUFFICES ASSUME NEW v \in Versions(f)  PROVE v.next \in Nat /\ v.next <= w.next
    OBVIOUS
  <2>1. v.next \in Nat /\ v.next <= Final(d, c).next
    BY <1>9 DEF VersionOK, VersionType
  <2> HIDE DEF w, f
  <2> QED  BY <2>1, <1>7, <1>10
<1>12. VersionOK(w, d, m, P, s)
  OBVIOUS
<1> HIDE DEF w, f
<1>13. ManifestOK(c, g, m, P, s)
  BY <1>2, <1>4, <1>6, <1>7, <1>8, <1>9, <1>11, <1>12 DEF ManifestOK
<1>14. c # 0 => Opens(c, g)
  <2> SUFFICES ASSUME c # 0, c # 1  PROVE \A v \in Versions(h) : c < v.next
    BY <1>4 DEF Opens
  <2>1. \A v \in Versions(f) : c < v.next
    BY DEF DiskOK, Usable, Opens, f
  <2> QED  BY <1>2, <1>7, <2>1
<1>15. DiskOK(g, m, P, s) /\ Reads(g)
  BY <1>1, <1>2, <1>4, <1>13, <1>14 DEF DiskOK, Reads
<1>16. Usable(g)
  BY <1>4, <1>6, <1>7, <1>15 DEF Usable
<1> QED  BY <1>2, <1>4, <1>5, <1>6, <1>15, <1>16 DEF w, f

\* An edit that puts y in the table x instead of the tables it deletes.
Prepared(E, x, y, nx) ==
  /\ EditType(E) /\ E.add = {x} /\ E.del \subseteq db.ver.files /\ 0 < E.log /\ E.log <= db.log
  /\ x \in Nat /\ nx \in Nat /\ 0 < x /\ x < nx /\ db.next <= nx
  /\ x \notin Named \cup db.ver.files
  /\ Finite(y) /\ \A q \in y : q <= db.last
  /\ y = IF E.del = {} THEN db.imm ELSE UNION {disk.tables[n] : n \in E.del}
  /\ ~spoilt => promised \subseteq
       Held(disk, db.ver.files \ E.del) \cup y \cup LogsKept(disk, left.machine, E.log)

Numbers2(E, a, b) == [E EXCEPT !.next = a, !.last = b]

\* The edit that LogAndApply writes.
LEMMA LoggedEdit ==
  ASSUME NEW E, EditType(E), NEW a \in Nat, NEW b \in Nat
  PROVE  /\ EditType(Numbers2(E, a, b)) /\ Numbers2(E, a, b).log = E.log
         /\ Numbers2(E, a, b).next = a /\ Numbers2(E, a, b).last = b
         /\ Numbers2(E, a, b).add = E.add /\ Numbers2(E, a, b).del = E.del
<1>1. E \in [log : Nat, next : Nat, last : Nat, add : SUBSET Nat, del : SUBSET Nat]
  BY DEF EditType, Edit
<1>2. Numbers2(E, a, b).log = E.log
  BY <1>1 DEF Numbers2
<1>3. Numbers2(E, a, b).next = a /\ Numbers2(E, a, b).last = b
  BY <1>1 DEF Numbers2
<1>4. Numbers2(E, a, b).add = E.add /\ Numbers2(E, a, b).del = E.del
  BY <1>1 DEF Numbers2
<1>5. Numbers2(E, a, b) \in Edit
  BY <1>1 DEF Numbers2, Edit
<1> QED  BY <1>2, <1>3, <1>4, <1>5 DEF EditType

\* What the first half of LogAndApply keeps.
LEMMA EditLogged ==
  ASSUME Consistent, db.at = "open", db.bg = "idle", UNCHANGED <<left, promised, spoilt>>,
         NEW E, NEW x, NEW y, NEW nx, Prepared(E, x, y, nx), LogEdit(E, nx)
  PROVE  /\ DirType(disk') /\ DiskOK(disk', left.machine, promised, spoilt)
         /\ DbType' /\ HistoryType' /\ QuietOK' /\ NumbersOK' /\ OpenNumbers' /\ OpenTables'
         /\ OpenVersions' /\ OpenPromise'
         /\ DOMAIN disk'.tables = DOMAIN disk.tables \cup {x} /\ disk'.tables[x] = y
         /\ \A F : x \notin F => Held(disk', F) = Held(disk, F)
         /\ Named' \subseteq Named \cup {x}
         /\ db'.at = "open" /\ db'.bg = "logged" /\ db'.next = nx /\ db'.last = db.last
         /\ db'.log = db.log /\ db'.imm = db.imm /\ db'.ver = db.ver /\ db'.work = db.work
         /\ db'.edit.add = {x} /\ db'.edit.del = E.del /\ db'.edit.log = E.log
<1> DEFINE mm == left.machine
           e == Numbers2(E, nx, db.last)
           f == [disk EXCEPT !.tables = With(@, x, y)]
           v == Final(disk, disk.current)
           w == Applied(v, e)
<1>1. /\ EditType(E) /\ E.add = {x} /\ E.del \subseteq db.ver.files /\ 0 < E.log /\ E.log <= db.log
      /\ x \in Nat /\ nx \in Nat /\ 0 < x /\ x # 0 /\ x < nx /\ db.next <= nx
      /\ x \notin Named /\ x \notin db.ver.files
      /\ Finite(y) /\ \A q \in y : q <= db.last
      /\ y = (IF E.del = {} THEN db.imm ELSE UNION {disk.tables[n] : n \in E.del})
  BY DEF Prepared
<1>2. /\ DirType(disk) /\ DbType /\ HistoryType /\ DiskOK(disk, mm, promised, spoilt) /\ NumbersOK
      /\ OpenNumbers /\ OpenTables /\ OpenVersions /\ OpenPromise
      /\ disk.current = db.manifest /\ db.manifest \in DOMAIN disk.manifests /\ Usable(disk)
      /\ spoilt \in BOOLEAN /\ mm \in BOOLEAN
      /\ (~spoilt => \A u \in Versions(Manifest) : Same(u, db.ver))
  <2>1. db.at = "open" /\ db.bg # "logged"
    OBVIOUS
  <2>2. HistoryType => spoilt \in BOOLEAN
    BY DEF HistoryType
  <2>3. HistoryType => mm \in BOOLEAN
    BY DEF HistoryType, Fault
  <2> HIDE DEF mm
  <2> QED  BY <2>1, <2>2, <2>3, OpenFacts DEF mm
<1>3. EditType(e) /\ e.log = E.log /\ e.next = nx /\ e.last = db.last /\ e.add = {x} /\ e.del = E.del
  <2>1. PICK a \in Nat : a = nx
    BY <1>1
  <2>2. PICK b \in Nat : b = db.last
    BY <1>2 DEF DbType
  <2>3. EditType(E) /\ e = Numbers2(E, a, b)
    BY <1>1, <2>1, <2>2
  <2> HIDE DEF e
  <2>4. /\ EditType(Numbers2(E, a, b)) /\ Numbers2(E, a, b).log = E.log
        /\ Numbers2(E, a, b).next = a /\ Numbers2(E, a, b).last = b
        /\ Numbers2(E, a, b).add = E.add /\ Numbers2(E, a, b).del = E.del
    BY <2>3, LoggedEdit
  <2> QED  BY <1>1, <2>1, <2>2, <2>3, <2>4
<1>4. /\ disk' = [disk EXCEPT !.tables = With(@, x, y), !.manifests[db.manifest] = Add(@, EncodeTo(e))]
      /\ db' = [db EXCEPT !.next = nx, !.edit = e, !.bg = "logged"]
  <2>1. (CHOOSE n \in E.add : TRUE) = x
    BY <1>1
  <2> QED  BY <1>1, <2>1 DEF LogEdit, Numbers2
<1> HIDE DEF e, mm, v, w
<1>5. disk' = WithEdit(f, e)
  BY <1>2, <1>4 DEF WithEdit, DirType
<1>6. Named = Names(disk) /\ Named \subseteq Nat /\ v \in Versions(Manifest)
      /\ VersionOK(v, disk, mm, promised, spoilt) /\ v.files \subseteq Named
  BY <1>2, VersionNamed DEF v, mm, Manifest
<1> HIDE DEF f
<1>7. /\ DirType(f) /\ DiskOK(f, mm, promised, spoilt) /\ Usable(f)
      /\ f.logs = disk.logs /\ f.manifests = disk.manifests /\ f.current = disk.current
      /\ DOMAIN f.tables = DOMAIN disk.tables \cup {x} /\ f.tables[x] = y
      /\ \A n \in DOMAIN disk.tables : n # x => f.tables[n] = disk.tables[n]
      /\ \A F : x \notin F => Held(f, F) = Held(disk, F) /\ \A q : AtMost(disk, F, q) => AtMost(f, F, q)
  <2>1. Written(disk, f, x, y) /\ DirType(disk) /\ DiskOK(disk, mm, promised, spoilt) /\ Usable(disk)
        /\ spoilt \in BOOLEAN
    BY <1>1, <1>2, <1>6 DEF f, Written
  <2> QED  BY <2>1, TableAdded
<1>8. Final(f, f.current) = v
  BY <1>7 DEF Final, v
<1>9. /\ v.next \in Nat /\ v.next <= db.next /\ v.last \in Nat /\ v.last <= db.last /\ v.log \in Nat
      /\ db.next \in Nat /\ db.last \in Nat /\ db.log \in Nat /\ db.log < db.next
      /\ db.manifest \in Nat /\ db.manifest < db.next /\ E.log \in Nat
  <2>1. Replay(Manifest.recs) = v
    BY <1>2 DEF Manifest, Final, v
  <2> QED  BY <1>1, <1>2, <1>6, <2>1 DEF OpenNumbers, NumbersOK, DbType, VersionOK, VersionType, EditType, Edit
<1>10. /\ w.files = (v.files \ E.del) \cup {x} /\ w.log = E.log /\ w.next = nx /\ w.last = db.last
  <2>1. w.files = (v.files \ e.del) \cup e.add /\ w.log = Known(v.log, e.log) /\ w.next = Known(v.next, e.next)
        /\ w.last = Known(v.last, e.last)
    BY DEF w, Applied
  <2>2. E.log # 0 /\ nx # 0 /\ (db.last = 0 => v.last = 0)
    BY <1>1, <1>9
  <2> QED  BY <1>3, <2>1, <2>2 DEF Known
<1>11. VersionOK(w, f, mm, promised, spoilt)
  <2>1. VersionType(w)
    <3>1. Finite(v.files) /\ Finite({x})
      BY <1>1, <1>6, FiniteFacts DEF VersionOK, VersionType
    <3>2. Finite(v.files \ E.del)
      BY <3>1, FiniteFacts
    <3>3. Finite((v.files \ E.del) \cup {x})
      BY <3>1, <3>2, FiniteFacts
    <3> QED  BY <1>1, <1>9, <1>10, <3>3 DEF VersionType
  <2>2. Below(w.files, w.next) /\ w.log < w.next /\ w.next # 0
    <3>1. \A n \in v.files : 0 < n /\ n < db.next /\ n \in Nat
      BY <1>2, <1>6 DEF NumbersOK, VersionOK, Below
    <3>2. \A n \in v.files : 0 < n /\ n < nx
      BY <1>1, <1>9, <3>1
    <3>3. E.log < nx /\ nx # 0
      BY <1>1, <1>9
    <3> QED  BY <1>1, <1>10, <3>2, <3>3 DEF Below
  <2>3. AtMost(f, w.files, w.last)
    <3>1. AtMost(disk, v.files, v.last) /\ x \notin v.files
      BY <1>1, <1>6 DEF VersionOK
    <3>2. AtMost(f, v.files, v.last)
      BY <1>7, <3>1
    <3>3. \A n \in v.files \cap DOMAIN f.tables : \A q \in f.tables[n] : q \in Nat /\ q <= v.last
      BY <1>7, <3>2 DEF AtMost, DirType, Finite
    <3>4. \A n \in v.files \cap DOMAIN f.tables : \A q \in f.tables[n] : q <= db.last
      BY <1>9, <3>3
    <3> QED  BY <1>1, <1>7, <1>10, <3>4 DEF AtMost
  <2>4. ASSUME ~spoilt  PROVE w.files \subseteq DOMAIN f.tables /\ Safe(f, mm, promised, w.files, w.log)
    <3>1. v.files = db.ver.files
      BY <1>2, <1>6, <2>4 DEF Same
    <3>2. db.ver.files \subseteq DOMAIN disk.tables
      BY <1>2, <2>4 DEF OpenTables
    <3>3. Held(disk, db.ver.files \ E.del) \subseteq Held(f, w.files)
      <4>1. Held(f, db.ver.files \ E.del) = Held(disk, db.ver.files \ E.del)
        BY <1>1, <1>7
      <4>2. Held(f, db.ver.files \ E.del) \subseteq Held(f, w.files)
        BY <1>10, <3>1 DEF Held
      <4> QED  BY <4>1, <4>2
    <3>4. y \subseteq Held(f, w.files)
      BY <1>7, <1>10 DEF Held
    <3>5. LogsKept(f, mm, E.log) = LogsKept(disk, mm, E.log)
      BY <1>7 DEF LogsKept
    <3>6. promised \subseteq Held(disk, db.ver.files \ E.del) \cup y \cup LogsKept(disk, mm, E.log)
      BY <2>4 DEF Prepared, mm
    <3>7. Safe(f, mm, promised, w.files, w.log)
      BY <1>10, <3>3, <3>4, <3>5, <3>6 DEF Safe
    <3> QED  BY <1>7, <1>10, <3>1, <3>2, <3>7
  <2> QED  BY <2>1, <2>2, <2>3, <2>4 DEF VersionOK
<1>12. /\ DirType(disk') /\ DiskOK(disk', mm, promised, spoilt) /\ Usable(disk')
       /\ disk'.logs = disk.logs /\ disk'.tables = f.tables /\ disk'.current = disk.current
       /\ DOMAIN disk'.manifests = DOMAIN disk.manifests
       /\ Final(disk', db.manifest) = w
       /\ Versions(disk'.manifests[db.manifest]) = Versions(Manifest) \cup {w}
  <2>1. v.next <= e.next /\ f.current < e.next
    BY <1>1, <1>2, <1>3, <1>7, <1>9
  <2>2. VersionOK(Applied(Final(f, f.current), e), f, mm, promised, spoilt)
    BY <1>8, <1>11 DEF w
  <2>3. Final(f, f.current).next <= e.next
    BY <1>8, <2>1
  <2>4. /\ DirType(disk') /\ DiskOK(disk', mm, promised, spoilt) /\ Usable(disk')
        /\ disk'.logs = f.logs /\ disk'.tables = f.tables /\ disk'.current = f.current
        /\ DOMAIN disk'.manifests = DOMAIN f.manifests
        /\ Final(disk', f.current) = Applied(Final(f, f.current), e)
        /\ Versions(disk'.manifests[f.current])
             = Versions(f.manifests[f.current]) \cup {Applied(Final(f, f.current), e)}
    <3>1. /\ EditType(e) /\ DirType(f) /\ DiskOK(f, mm, promised, spoilt) /\ Usable(f)
          /\ disk' = WithEdit(f, e) /\ spoilt \in BOOLEAN /\ f.current < e.next
      BY <1>2, <1>3, <1>5, <1>7, <2>1
    <3> QED  BY <2>2, <2>3, <3>1, ManifestGrows
  <2> QED  BY <1>2, <1>7, <1>8, <2>4 DEF w, Manifest
<1>13. /\ DOMAIN db' = DOMAIN db /\ db'.at = db.at /\ db'.mem = db.mem /\ db'.imm = db.imm
       /\ db'.log = db.log /\ db'.last = db.last /\ db'.next = nx /\ db'.manifest = db.manifest
       /\ db'.ver = db.ver /\ db'.edit = e /\ db'.todo = db.todo /\ db'.ok = db.ok /\ db'.bg = "logged"
       /\ db'.work = db.work /\ db'.reader = db.reader
  BY <1>2, <1>4 DEF DbType
<1>14. DbType' /\ QuietOK' /\ HistoryType'
  BY <1>1, <1>2, <1>3, <1>13 DEF DbType, QuietOK, HistoryType
<1>15. Named' \subseteq Named \cup {x}
  <2>1. Named' = Names(disk')
    BY <1>2, <1>12, NamedLemma DEF Named, Usable
  <2>2. Names(disk') = Names(disk) \cup w.files
    BY <1>2, <1>12 DEF Names, Manifest
  <2> QED  BY <1>6, <1>10, <2>1, <2>2
<1>16. NumbersOK'
  <2>1. \A n \in Named' : n < nx
    BY <1>1, <1>2, <1>6, <1>9, <1>15 DEF NumbersOK
  <2>2. \A n \in DOMAIN disk.logs : n \in Nat /\ n < db.next
    BY <1>2 DEF NumbersOK, DirType, Finite
  <2>3. \A n \in DOMAIN disk.logs : n < nx
    BY <1>1, <1>9, <2>2
  <2>4. 0 < db.manifest /\ db.manifest < nx
    BY <1>1, <1>2, <1>9 DEF NumbersOK
  <2> QED  BY <1>12, <1>13, <2>1, <2>3, <2>4 DEF NumbersOK
<1>17. Replay(Manifest.recs)' = w /\ Versions(Manifest)' = Versions(Manifest) \cup {w}
  BY <1>12, <1>13 DEF Manifest, Final
<1>18. OpenNumbers'
  <2>1. Below(db.ver.files \cup db.reader, nx)
    <3>1. \A n \in db.ver.files \cup db.reader : n \in Nat /\ 0 < n /\ n < db.next
      BY <1>2 DEF OpenNumbers, Below, DbType, Finite
    <3> QED  BY <1>1, <1>9, <3>1 DEF Below
  <2>2. AtMost(disk', db.ver.files, db.last)
    <3>1. AtMost(f, db.ver.files, db.last)
      BY <1>1, <1>2, <1>7 DEF OpenNumbers
    <3> QED  BY <1>12, <3>1 DEF AtMost
  <2>3. db.manifest < w.next /\ w.next <= nx /\ w.last <= db.last /\ db.log < nx
    BY <1>1, <1>9, <1>10
  <2> QED  BY <1>2, <1>12, <1>13, <1>17, <2>1, <2>2, <2>3 DEF OpenNumbers
<1>19. OpenTables'
  BY <1>2, <1>7, <1>12, <1>13 DEF OpenTables
<1>20. OpenVersions'
  <2> SUFFICES ASSUME ~spoilt  PROVE OpenVersions'
    BY DEF OpenVersions
  <2>1. AppendVersion' = [files |-> (db.ver.files \ E.del) \cup {x}, log |-> E.log]
    BY <1>3, <1>13 DEF AppendVersion
  <2>2. v.files = db.ver.files
    BY <1>2, <1>6 DEF Same
  <2>3. Same(w, AppendVersion')
    BY <1>10, <2>1, <2>2 DEF Same
  <2>4. \A u \in Versions(Manifest) : Same(u, db.ver)
    BY <1>2
  <2> QED  BY <1>13, <1>17, <2>3, <2>4 DEF OpenVersions
<1>21. OpenPromise'
  <2>1. Held(disk', db.ver.files) = Held(disk, db.ver.files)
    <3>1. Held(f, db.ver.files) = Held(disk, db.ver.files)
      BY <1>1, <1>7
    <3> QED  BY <1>12, <3>1 DEF Held
  <2>2. Imm' = Imm
    BY <1>13 DEF Imm
  <2> QED  BY <1>2, <1>12, <1>13, <2>1, <2>2 DEF OpenPromise
<1>22. \A F : x \notin F => Held(disk', F) = Held(disk, F)
  <2> SUFFICES ASSUME NEW F, x \notin F  PROVE Held(disk', F) = Held(disk, F)
    OBVIOUS
  <2>1. Held(f, F) = Held(disk, F)
    BY <1>7
  <2> QED  BY <1>12, <2>1 DEF Held
<1> QED  BY <1>3, <1>7, <1>12, <1>13, <1>14, <1>15, <1>16, <1>18, <1>19, <1>20, <1>21, <1>22 DEF mm

\* The writes in some of the tables are finitely many.
LEMMA TablesFinite ==
  ASSUME NEW d, DirType(d), NEW D, D \subseteq DOMAIN d.tables
  PROVE  Finite(UNION {d.tables[n] : n \in D})
<1> DEFINE S == {d.tables[n] : n \in D}
           g == [n \in D |-> d.tables[n]]
<1>1. \A n \in D : d.tables[n] \in SUBSET Nat /\ IsFiniteSet(d.tables[n])
  BY DEF DirType, Finite
<1>2. g \in Surjection(D, S)
  BY DEF Surjection
<1>3. IsFiniteSet(D)
  BY FiniteFacts DEF DirType, Finite
<1>4. \A T \in S : IsFiniteSet(T)
  BY <1>1
<1>5. UNION S \in SUBSET Nat
  BY <1>1
<1> HIDE DEF g, S
<1>6. IsFiniteSet(S)
  BY <1>2, <1>3, FS_Surjection
<1>7. IsFiniteSet(UNION S)
  BY <1>4, <1>6, FS_UNION
<1> QED  BY <1>5, <1>7 DEF Finite, S

\* The immutable memtable becomes a table, and the edit that adds it goes to the
\* MANIFEST.
LEMMA CompactMemTableKeeps == Consistent /\ CompactMemTable => Consistent'
<1> SUFFICES ASSUME Consistent, CompactMemTable  PROVE Consistent'
  OBVIOUS
<1> DEFINE E == [NoEdit EXCEPT !.log = db.log, !.add = {db.next}]
           x == db.next
           nx == db.next + 1
<1>1. /\ db.at = "open" /\ db.bg = "idle" /\ db.imm # NoTable /\ UNCHANGED <<left, promised, spoilt>>
      /\ LogEdit(E, nx)
  BY DEF CompactMemTable
<1>2. /\ DirType(disk) /\ DbType /\ HistoryType /\ DiskOK(disk, left.machine, promised, spoilt) /\ NumbersOK
      /\ OpenNumbers /\ WorkOK /\ EditOK /\ OpenTables /\ OpenVersions /\ OpenPromise
  BY <1>1, OpenFacts
<1>3. x \in Nat /\ 0 < x /\ nx \in Nat /\ x < nx /\ x <= nx /\ db.log \in Nat /\ 0 < db.log /\ db.log <= db.log
  <2>1. db.next \in Nat /\ db.manifest \in Nat /\ db.log \in Nat /\ db.ver.log \in Nat
        /\ 0 < db.manifest /\ db.manifest < db.next /\ 0 < db.ver.log /\ db.ver.log <= db.log
    BY <1>1, <1>2 DEF DbType, NumbersOK, OpenNumbers
  <2> QED  BY <2>1
<1>4. x \notin Named \cup db.ver.files /\ db.work.out \in Nat /\ (db.work # NoWork => db.work.out < x)
  BY <1>1, <1>2, <1>3 DEF NumbersOK, OpenNumbers, Below, WorkOK, DbType
<1>5. EditType(E) /\ E.add = {x} /\ E.del = {} /\ E.log = db.log
  <2>1. Finite({}) /\ Finite({x})
    BY <1>3, FiniteFacts
  <2> QED  BY <1>3, <2>1 DEF EditType, Edit, NoEdit
<1> HIDE DEF E, x, nx
<1>6. Prepared(E, x, db.imm, nx)
  <2>1. Finite(db.imm) /\ \A q \in db.imm : q <= db.last
    BY <1>2 DEF DbType, OpenNumbers
  <2>2. ASSUME ~spoilt
        PROVE  promised \subseteq Held(disk, db.ver.files \ {}) \cup db.imm \cup LogsKept(disk, left.machine, db.log)
    <3>1. promised \subseteq Held(disk, db.ver.files) \cup db.imm \cup Kept(disk.logs[db.log], left.machine)
      BY <1>1, <1>2, <2>2 DEF OpenPromise, Imm
    <3>2. Kept(disk.logs[db.log], left.machine) \subseteq LogsKept(disk, left.machine, db.log)
      BY <1>2, <1>3, <2>2 DEF OpenPromise, LogsKept
    <3>3. db.ver.files \ {} = db.ver.files
      OBVIOUS
    <3> QED  BY <3>1, <3>2, <3>3
  <2>3. db.next <= nx
    BY <1>3 DEF x
  <2> QED  BY <1>3, <1>4, <1>5, <2>1, <2>2, <2>3 DEF Prepared
<1>7. /\ DirType(disk') /\ DiskOK(disk', left.machine, promised, spoilt)
      /\ DbType' /\ HistoryType' /\ QuietOK' /\ NumbersOK' /\ OpenNumbers' /\ OpenTables'
      /\ OpenVersions' /\ OpenPromise'
      /\ DOMAIN disk'.tables = DOMAIN disk.tables \cup {x} /\ disk'.tables[x] = db.imm
      /\ Named' \subseteq Named \cup {x}
      /\ db'.at = "open" /\ db'.bg = "logged" /\ db'.next = nx /\ db'.last = db.last
      /\ db'.log = db.log /\ db'.imm = db.imm /\ db'.ver = db.ver /\ db'.work = db.work
      /\ db'.edit.add = {x} /\ db'.edit.del = E.del /\ db'.edit.log = E.log
  BY <1>1, <1>6, EditLogged
<1>8. WorkOK'
  <2> SUFFICES ASSUME db.work # NoWork  PROVE WorkOK'
    BY <1>7 DEF WorkOK
  <2>1. /\ db.work.inputs # {} /\ db.work.inputs \subseteq db.ver.files
        /\ 0 < db.work.out /\ db.work.out < x /\ db.work.out \notin db.ver.files /\ db.work.out \notin Named
    BY <1>1, <1>2, <1>4 DEF WorkOK, Compacting
  <2>2. db.work.out < nx /\ db.work.out \notin {x}
    BY <1>3, <1>4, <2>1
  <2> QED  BY <1>7, <2>1, <2>2 DEF WorkOK
<1>9. EditOK'
  <2>1. x \in DOMAIN disk'.tables \ db'.ver.files
    BY <1>4, <1>7
  <2>2. \A q \in db.imm : q <= db.last
    BY <1>2 DEF OpenNumbers
  <2> QED  BY <1>1, <1>3, <1>5, <1>7, <2>1, <2>2 DEF EditOK
<1> QED  BY <1>1, <1>7, <1>8, <1>9
         DEF Consistent, Typed, RepairOK, NewOK, RecoveryOK, LogsOK, NewManifestOK, OpenOK

\* A compaction has written its output, and its edit goes to the MANIFEST.
LEMMA FinishCompactionKeeps == Consistent /\ FinishCompaction => Consistent'
<1> SUFFICES ASSUME Consistent, FinishCompaction  PROVE Consistent'
  OBVIOUS
<1> DEFINE D == db.work.inputs
           x == db.work.out
           nx == db.next
           E == [NoEdit EXCEPT !.log = db.ver.log, !.add = {x}, !.del = D]
           y == UNION {disk.tables[n] : n \in D}
<1>1. /\ db.at = "open" /\ db.bg = "idle" /\ db.work # NoWork /\ D \subseteq DOMAIN disk.tables
      /\ UNCHANGED <<left, promised, spoilt>> /\ LogEdit(E, nx)
  BY DEF FinishCompaction
<1>2. /\ DirType(disk) /\ DbType /\ HistoryType /\ DiskOK(disk, left.machine, promised, spoilt) /\ NumbersOK
      /\ OpenNumbers /\ WorkOK /\ EditOK /\ OpenTables /\ OpenVersions /\ OpenPromise
  BY <1>1, OpenFacts
<1>3. /\ D # {} /\ D \subseteq db.ver.files /\ x \in Nat /\ 0 < x /\ x < nx /\ nx \in Nat
      /\ x \notin Named \cup db.ver.files /\ Finite(D)
      /\ db.ver.log \in Nat /\ 0 < db.ver.log /\ db.ver.log <= db.log /\ db.next <= nx
  BY <1>1, <1>2 DEF WorkOK, DbType, Compacting, OpenNumbers
<1>5. EditType(E) /\ E.add = {x} /\ E.del = D /\ E.log = db.ver.log
  <2>1. Finite({x})
    BY <1>3, FiniteFacts
  <2> QED  BY <1>3, <2>1 DEF EditType, Edit, NoEdit, Finite
<1> HIDE DEF E, x, nx
<1>4. y = Held(disk, D)
  BY <1>1 DEF Held
<1> HIDE DEF D
<1>6. Prepared(E, x, y, nx)
  <2>1. Finite(y)
    BY <1>1, <1>2, TablesFinite
  <2>2. \A q \in y : q <= db.last
    BY <1>1, <1>2, <1>3 DEF OpenNumbers, AtMost
  <2>3. ASSUME ~spoilt
        PROVE  promised \subseteq Held(disk, db.ver.files \ D) \cup y \cup LogsKept(disk, left.machine, db.ver.log)
    <3> DEFINE v == Replay(Manifest.recs)
    <3>1. v \in Versions(Manifest) /\ Same(v, db.ver) /\ Usable(disk) /\ disk.current = db.manifest
      BY <1>1, <2>3, OpenFacts
    <3>2. VersionOK(v, disk, left.machine, promised, spoilt)
      BY <3>1, VersionNamed DEF Manifest
    <3>3. \A u \in Versions(Manifest) : db.manifest < u.next
      BY <1>2 DEF OpenNumbers
    <3> HIDE DEF v
    <3>4. v.next # 0
      <4>1. v.next \in Nat /\ db.manifest \in Nat /\ db.manifest < v.next
        BY <1>2, <3>1, <3>2, <3>3 DEF VersionOK, VersionType, DbType
      <4> QED  BY <4>1
    <3>5. Safe(disk, left.machine, promised, v.files, v.log)
      BY <2>3, <3>2, <3>4 DEF VersionOK
    <3>6. promised \subseteq Held(disk, db.ver.files) \cup LogsKept(disk, left.machine, db.ver.log)
      BY <3>1, <3>5 DEF Safe, Same
    <3>7. Held(disk, db.ver.files) \subseteq Held(disk, db.ver.files \ D) \cup y
      BY DEF Held
    <3> QED  BY <3>6, <3>7
  <2> HIDE DEF y
  <2>4. y = IF E.del = {} THEN db.imm ELSE UNION {disk.tables[n] : n \in E.del}
    BY <1>3, <1>5 DEF y
  <2> QED  BY <1>3, <1>5, <2>1, <2>2, <2>3, <2>4 DEF Prepared
<1> HIDE DEF y
<1>7. /\ DirType(disk') /\ DiskOK(disk', left.machine, promised, spoilt)
      /\ DbType' /\ HistoryType' /\ QuietOK' /\ NumbersOK' /\ OpenNumbers' /\ OpenTables'
      /\ OpenVersions' /\ OpenPromise'
      /\ DOMAIN disk'.tables = DOMAIN disk.tables \cup {x} /\ disk'.tables[x] = y
      /\ \A F : x \notin F => Held(disk', F) = Held(disk, F)
      /\ db'.at = "open" /\ db'.bg = "logged" /\ db'.next = nx /\ db'.last = db.last
      /\ db'.log = db.log /\ db'.imm = db.imm /\ db'.ver = db.ver /\ db'.work = db.work
      /\ db'.edit.add = {x} /\ db'.edit.del = E.del /\ db'.edit.log = E.log
  BY <1>1, <1>6, EditLogged
<1>8. WorkOK'
  <2>1. Compacting'
    BY <1>3, <1>5, <1>7 DEF Compacting
  <2> QED  BY <1>3, <1>5, <1>7, <2>1 DEF WorkOK, D, x
<1>9. EditOK'
  <2>1. x \in DOMAIN disk'.tables \ db'.ver.files
    BY <1>3, <1>7
  <2>2. \A q \in y : q <= db.last
    BY <1>6 DEF Prepared
  <2>3. disk'.tables[x] = Held(disk', D)
    BY <1>3, <1>4, <1>7
  <2>4. db'.work # NoWork /\ x = db'.work.out /\ db'.edit.del = db'.work.inputs /\ D = db'.work.inputs
    BY <1>1, <1>5, <1>7 DEF D, x
  <2> QED  BY <1>1, <1>3, <1>5, <1>7, <2>1, <2>2, <2>3, <2>4 DEF EditOK
<1> QED  BY <1>1, <1>7, <1>8, <1>9
         DEF Consistent, Typed, RepairOK, NewOK, RecoveryOK, LogsOK, NewManifestOK, OpenOK

\* The MANIFEST is synced, and the version that it describes is current.
LEMMA InstallKeeps == Consistent /\ Install => Consistent'
<1> SUFFICES ASSUME Consistent, Install  PROVE Consistent'
  OBVIOUS
<1> DEFINE mm == left.machine
           A == AppendVersion
           w == Replay(Manifest.recs)
           flush == db.edit.del = {}
<1>1. /\ db.at = "open" /\ db.bg = "logged" /\ UNCHANGED <<left, promised, spoilt>>
      /\ disk' = [disk EXCEPT !.manifests[db.manifest] = Synced(@)]
      /\ db' = [db EXCEPT !.ver = A, !.imm = IF flush THEN NoTable ELSE @,
                          !.work = IF flush THEN @ ELSE NoWork, !.edit = NoEdit, !.bg = "delete"]
  BY DEF Install, Installed
<1>2. /\ DirType(disk) /\ DbType /\ HistoryType /\ DiskOK(disk, mm, promised, spoilt) /\ NumbersOK
      /\ OpenNumbers /\ WorkOK /\ EditOK /\ OpenTables /\ OpenVersions /\ OpenPromise
      /\ disk.current = db.manifest /\ db.manifest \in DOMAIN disk.manifests /\ Usable(disk)
      /\ FileType(Manifest, Record) /\ w \in Versions(Manifest)
  BY <1>1, OpenFacts
<1> HIDE DEF mm, A, w, flush
<1>5. /\ DirType(disk') /\ DiskOK(disk', mm, promised, spoilt) /\ Usable(disk')
      /\ disk'.logs = disk.logs /\ disk'.tables = disk.tables /\ disk'.current = disk.current
      /\ DOMAIN disk'.manifests = DOMAIN disk.manifests
      /\ disk'.manifests[db.manifest] = Synced(disk.manifests[db.manifest])
      /\ Names(disk') \subseteq Names(disk)
  <2>1. spoilt \in BOOLEAN
    BY <1>2 DEF HistoryType
  <2>0. db.manifest \in DOMAIN disk.manifests /\ Usable(disk) /\ disk.current \in DOMAIN disk.manifests
    BY <1>2
  <2>2. Syncs(disk, disk', db.manifest)
    BY <1>1, <2>0 DEF Syncs
  <2>3. DirType(disk) /\ DiskOK(disk, mm, promised, spoilt)
    BY <1>2 DEF mm
  <2>4. SyncedOK(disk, disk', mm, promised, spoilt, db.manifest)
    BY <2>0, <2>1, <2>2, <2>3, DiskSynced
  <2> QED  BY <2>4 DEF SyncedOK
<1>3. PICK x \in DOMAIN disk.tables \ db.ver.files :
      /\ db.edit.add = {x} /\ x < db.next /\ \A p \in disk.tables[x] : p <= db.last
      /\ IF db.edit.del = {}
         THEN db.edit.log = db.log /\ db.imm # NoTable /\ disk.tables[x] = db.imm
         ELSE /\ db.work # NoWork /\ x = db.work.out /\ db.edit.del = db.work.inputs
              /\ db.edit.log = db.ver.log
              /\ ~spoilt => disk.tables[x] = Held(disk, db.work.inputs)
  BY <1>1, <1>2 DEF EditOK
<1>4. /\ A.files = (db.ver.files \ db.edit.del) \cup {x} /\ A.log = db.edit.log
      /\ A = [files |-> (db.ver.files \ db.edit.del) \cup {x}, log |-> db.edit.log]
      /\ x \in Nat /\ 0 < x /\ db.next \in Nat /\ db.last \in Nat
  BY <1>2, <1>3 DEF AppendVersion, DirType, Finite, DbType, A
<1>6. /\ DOMAIN db' = DOMAIN db /\ db'.at = db.at /\ db'.mem = db.mem
      /\ db'.imm = (IF flush THEN NoTable ELSE db.imm)
      /\ db'.log = db.log /\ db'.last = db.last /\ db'.next = db.next /\ db'.manifest = db.manifest
      /\ db'.ver = A /\ db'.edit = NoEdit /\ db'.todo = db.todo /\ db'.ok = db.ok /\ db'.bg = "delete"
      /\ db'.work = (IF flush THEN db.work ELSE NoWork) /\ db'.reader = db.reader
  BY <1>1, <1>2 DEF DbType
<1>7. DbType'
  <2>1. A \in [files : SUBSET Nat, log : Nat] /\ Finite(A.files)
    <3>1. Finite(db.ver.files) /\ Finite({x})
      BY <1>2, <1>4, FiniteFacts DEF DbType
    <3>2. Finite(db.ver.files \ db.edit.del)
      BY <3>1, FiniteFacts
    <3>3. Finite((db.ver.files \ db.edit.del) \cup {x})
      BY <3>1, <3>2, FiniteFacts
    <3>4. db.edit.log \in Nat
      BY <1>2 DEF DbType, EditType, Edit
    <3> QED  BY <1>4, <3>3, <3>4 DEF Finite
  <2>2. Finite({0}) /\ Finite({}) /\ EditType(NoEdit)
    BY FiniteFacts DEF EditType, Edit, NoEdit
  <2>3. Finite(db'.imm)
    BY <1>2, <1>6, <2>2 DEF DbType, NoTable
  <2>4. db'.work \in [inputs : SUBSET Nat, out : Nat] /\ Finite(db'.work.inputs)
    BY <1>2, <1>6, <2>2 DEF DbType, NoWork, Finite
  <2> QED  BY <1>2, <1>6, <2>1, <2>2, <2>3, <2>4 DEF DbType
<1>8. HistoryType' /\ QuietOK'
  BY <1>1, <1>2, <1>6 DEF HistoryType, QuietOK
<1>9. Named' \subseteq Named
  <2>1. Named' = Names(disk') /\ Named = Names(disk)
    BY <1>2, <1>5, NamedLemma DEF Named, Usable
  <2> QED  BY <1>5, <2>1
<1>10. NumbersOK'
  BY <1>1, <1>2, <1>5, <1>6, <1>9 DEF NumbersOK
<1>11. Replay(Manifest.recs)' = w /\ Versions(Manifest)' = {w}
  <2>1. Manifest' = Synced(Manifest)
    BY <1>5, <1>6 DEF Manifest
  <2> QED  BY <1>2, <2>1, VersionsSynced DEF w
<1>12. Held(disk', A.files) = Held(disk, A.files)
  BY <1>5 DEF Held
<1>13. OpenNumbers'
  <2>1. Below(A.files \cup db.reader, db.next)
    BY <1>2, <1>3, <1>4 DEF OpenNumbers, Below
  <2>2. AtMost(disk', A.files, db.last)
    BY <1>2, <1>3, <1>4, <1>5 DEF OpenNumbers, AtMost
  <2>3. 0 < A.log /\ A.log <= db.log
    <3>1. 0 < db.ver.log /\ db.ver.log <= db.log /\ db.ver.log \in Nat /\ db.log \in Nat
      BY <1>2 DEF OpenNumbers, DbType
    <3>2. A.log \in {db.log, db.ver.log}
      BY <1>3, <1>4
    <3> QED  BY <3>1, <3>2
  <2>4. \A q \in db'.mem \cup db'.imm : q <= db.last
    BY <1>2, <1>4, <1>6 DEF OpenNumbers, NoTable
  <2>5. db.manifest < w.next /\ w.next <= db.next /\ w.last <= db.last
    BY <1>2 DEF OpenNumbers, w
  <2> QED  BY <1>2, <1>5, <1>6, <1>11, <2>1, <2>2, <2>3, <2>4, <2>5 DEF OpenNumbers
<1>14. WorkOK'
  <2> SUFFICES ASSUME flush, db.work # NoWork  PROVE WorkOK'
    BY <1>6 DEF WorkOK
  <2>1. db.ver.files \subseteq A.files /\ db.work.out \notin A.files
    BY <1>1, <1>2, <1>3, <1>4 DEF WorkOK, flush
  <2>2. db.work.out \notin Named
    BY <1>1, <1>2 DEF WorkOK, flush, Compacting
  <2> QED  BY <1>2, <1>6, <1>9, <2>1, <2>2 DEF WorkOK
<1>15. EditOK'
  BY <1>6 DEF EditOK
<1>16. OpenTables'
  BY <1>1, <1>2, <1>3, <1>4, <1>5, <1>6 DEF OpenTables
<1>17. OpenVersions'
  <2>1. ~spoilt => Same(w, A)
    BY <1>1, <1>2 DEF OpenVersions, w, A
  <2> QED  BY <1>1, <1>6, <1>11, <2>1 DEF OpenVersions
<1>18. OpenPromise'
  <2> SUFFICES ASSUME ~spoilt  PROVE OpenPromise'
    BY <1>1 DEF OpenPromise
  <2>1. /\ db.log \in DOMAIN disk.logs /\ ToSet(disk.logs[db.log].recs) \subseteq db.mem
        /\ promised \subseteq Held(disk, db.ver.files) \cup Imm \cup Kept(disk.logs[db.log], mm)
    BY <1>2 DEF OpenPromise, mm
  <2>2. Held(disk, db.ver.files \ db.edit.del) \subseteq Held(disk, A.files) /\ disk.tables[x] \subseteq Held(disk, A.files)
    BY <1>3, <1>4 DEF Held
  <2>3. promised \subseteq Held(disk, A.files) \cup Imm' \cup Kept(disk.logs[db.log], mm)
    <3>1. CASE flush
      <4>1. Imm = disk.tables[x] /\ db.ver.files \ db.edit.del = db.ver.files
        BY <1>3, <3>1 DEF Imm, flush
      <4> QED  BY <2>1, <2>2, <4>1
    <3>2. CASE ~flush
      <4>1. Imm' = Imm
        BY <1>6, <3>2 DEF Imm
      <4>2. disk.tables[x] = Held(disk, db.edit.del)
        BY <1>3, <3>2 DEF flush
      <4>3. Held(disk, db.ver.files) \subseteq Held(disk, db.ver.files \ db.edit.del) \cup Held(disk, db.edit.del)
        BY DEF Held
      <4> QED  BY <2>1, <2>2, <4>1, <4>2, <4>3
    <3> QED  BY <3>1, <3>2
  <2> QED  BY <1>1, <1>5, <1>6, <1>12, <2>1, <2>3 DEF OpenPromise, mm
<1> QED  BY <1>1, <1>5, <1>6, <1>7, <1>8, <1>10, <1>13, <1>14, <1>15, <1>16, <1>17, <1>18
         DEF Consistent, Typed, RepairOK, NewOK, RecoveryOK, LogsOK, NewManifestOK, OpenOK, mm

\* A directory whose history is given up has less to keep.
LEMMA Spoiling ==
  ASSUME NEW d, NEW m, NEW P, NEW s \in BOOLEAN, DiskOK(d, m, P, s)
  PROVE  DiskOK(d, m, P, TRUE)
<1>1. \A v : VersionOK(v, d, m, P, s) => VersionOK(v, d, m, P, TRUE)
  BY DEF VersionOK
<1>2. \A n : ManifestOK(n, d, m, P, s) => ManifestOK(n, d, m, P, TRUE)
  BY <1>1 DEF ManifestOK
<1> QED  BY <1>2 DEF DiskOK

\* The sync of the MANIFEST fails: the version stays as it is, and the edit stays
\* in the file.
LEMMA InstallFailsKeeps == Consistent /\ InstallFails => Consistent'
<1> SUFFICES ASSUME Consistent, InstallFails  PROVE Consistent'
  OBVIOUS
<1> DEFINE flush == db.edit.del = {}
           b == IF flush THEN "idle" ELSE "delete"
<1>1. /\ db.at = "open" /\ db.bg = "logged" /\ left.manifest > 0 /\ UNCHANGED <<disk, promised>>
      /\ left' = [left EXCEPT !.manifest = @ - 1] /\ spoilt' = TRUE
  BY DEF InstallFails
<1>2. /\ DirType(disk) /\ DbType /\ HistoryType /\ DiskOK(disk, left.machine, promised, spoilt) /\ NumbersOK
      /\ OpenNumbers /\ WorkOK
  BY <1>1, OpenFacts
<1>3. /\ DOMAIN db' = DOMAIN db /\ db'.at = db.at /\ db'.mem = db.mem /\ db'.imm = db.imm
      /\ db'.log = db.log /\ db'.last = db.last /\ db'.next = db.next /\ db'.manifest = db.manifest
      /\ db'.ver = db.ver /\ db'.edit = NoEdit /\ db'.todo = db.todo /\ db'.ok = db.ok /\ db'.bg = b
      /\ db'.work = (IF flush THEN db.work ELSE NoWork) /\ db'.reader = db.reader
  BY <1>2 DEF DbType, InstallFails, Installed
<1>4. b \in {"idle", "delete"}
  OBVIOUS
<1> HIDE DEF flush, b
<1>5. left' \in Fault /\ left'.machine = left.machine
  BY <1>1, <1>2 DEF HistoryType, Fault
<1>6. HistoryType' /\ QuietOK'
  BY <1>1, <1>2, <1>3, <1>5 DEF HistoryType, QuietOK
<1>7. DbType'
  <2>1. EditType(NoEdit) /\ Finite({})
    BY FiniteFacts DEF EditType, Edit, NoEdit
  <2>2. db'.work \in [inputs : SUBSET Nat, out : Nat] /\ Finite(db'.work.inputs)
    BY <1>2, <1>3, <2>1 DEF DbType, NoWork, Finite
  <2> QED  BY <1>2, <1>3, <1>4, <2>1, <2>2 DEF DbType
<1>8. Named' = Named /\ Manifest' = Manifest
  BY <1>1, <1>3 DEF Named, Manifest
<1>9. NumbersOK' /\ OpenNumbers'
  BY <1>1, <1>2, <1>3, <1>8 DEF NumbersOK, OpenNumbers
<1>10. WorkOK'
  <2> SUFFICES ASSUME flush, db.work # NoWork  PROVE WorkOK'
    BY <1>3 DEF WorkOK
  <2>1. db.work.out \notin Named
    BY <1>2 DEF WorkOK, flush, Compacting
  <2> QED  BY <1>2, <1>3, <1>4, <1>8, <2>1 DEF WorkOK
<1>11. EditOK' /\ OpenTables' /\ OpenVersions' /\ OpenPromise'
  BY <1>1, <1>3, <1>4 DEF EditOK, OpenTables, OpenVersions, OpenPromise
<1>12. DiskOK(disk', left'.machine, promised', spoilt')
  <2>1. spoilt \in BOOLEAN
    BY <1>2 DEF HistoryType
  <2>2. DiskOK(disk, left.machine, promised, TRUE)
    BY <1>2, <2>1, Spoiling
  <2> QED  BY <1>1, <1>5, <2>2
<1> QED  BY <1>1, <1>2, <1>3, <1>6, <1>7, <1>9, <1>10, <1>11, <1>12
         DEF Consistent, Typed, RepairOK, NewOK, RecoveryOK, LogsOK, NewManifestOK, OpenOK

--------------------------------------------------------------------------------
(* Repair. *)

\* All that must survive is in the tables and the logs.
LEMMA AllSafe ==
  ASSUME NEW d, NEW m, NEW P, NEW s, DirType(d), DiskOK(d, m, P, s), ~s
  PROVE  Safe(d, m, P, DOMAIN d.tables, 0)
<1> DEFINE v == Final(d, d.current)
<1>1. CASE Reads(d)
  <2>1. v \in Versions(d.manifests[d.current])
    BY <1>1, ReplayIsVersion DEF Final, Reads
  <2>2. VersionOK(v, d, m, P, s)
    BY <1>1, <2>1 DEF DiskOK, ManifestOK
  <2> HIDE DEF v
  <2>3. CASE v.next = 0
    BY <2>2, <2>3 DEF VersionOK
  <2>4. CASE v.next # 0
    <3>1. Safe(d, m, P, v.files, v.log) /\ v.files \subseteq DOMAIN d.tables /\ v.log \in Nat /\ 0 <= v.log
      BY <2>2, <2>4 DEF VersionOK, VersionType
    <3>2. DOMAIN d.logs \subseteq Nat /\ 0 \in Nat
      BY DEF DirType, Finite
    <3>3. Held(d, v.files) \subseteq Held(d, DOMAIN d.tables) /\ LogsKept(d, m, v.log) \subseteq LogsKept(d, m, 0)
      BY <3>1, <3>2, HeldMore
    <3> QED  BY <3>1, <3>3 DEF Safe
  <2> QED  BY <2>3, <2>4
<1>2. CASE ~Reads(d)
  BY <1>2 DEF DiskOK
<1> QED  BY <1>1, <1>2

\* A database that Open cannot use has to be repaired: all its data is still
\* there, whatever the MANIFEST says.
Damaged(d, m, P, s) ==
  /\ DirType(d) /\ DiskOK(d, m, P, s) /\ ~Usable(d)
  /\ ~s => Safe(d, m, P, DOMAIN d.tables, 0)

\* What makes a directory damaged: its MANIFEST has lost its only record, or has a
\* torn one, or is not there.
LEMMA RepairFacts ==
  ASSUME Consistent, db.at \in {"corrupt", "repair", "scanned", "archived"}
  PROVE  Damaged(disk, left.machine, promised, spoilt) /\ DbType /\ HistoryType /\ QuietOK
<1>1. /\ DirType(disk) /\ DbType /\ HistoryType /\ QuietOK
      /\ DiskOK(disk, left.machine, promised, spoilt) /\ ~Usable(disk)
  BY DEF Consistent, Typed, RepairOK
<1>2. ~spoilt => Safe(disk, left.machine, promised, DOMAIN disk.tables, 0)
  BY <1>1, AllSafe
<1> QED  BY <1>1, <1>2 DEF Damaged

\* Repair may move everything about, as long as all the data stays.
Moved(d, e, m, P, s) ==
  /\ DirType(e) /\ e.current = d.current
  /\ e.manifests = d.manifests \/ ~Reads(e)
  /\ ~s => Safe(e, m, P, DOMAIN e.tables, 0)

\* A damaged directory is in order, and stays so, however Repair moves the data.
LEMMA DamagedStays ==
  ASSUME NEW d, NEW e, NEW m, NEW P, NEW s, Damaged(d, m, P, s), Moved(d, e, m, P, s)
  PROVE  Damaged(e, m, P, s)
<1> DEFINE c == d.current
           f == d.manifests[c]
           w == Final(d, c)
<1>1. ~Usable(e)
  BY DEF Damaged, Moved, Usable, Reads, Final
<1>2. ASSUME Reads(e)  PROVE ManifestOK(c, e, m, P, s) /\ (c # 0 => Opens(c, e))
  <2>1. e.manifests = d.manifests /\ Reads(d) /\ Final(e, c) = w
    BY <1>2 DEF Moved, Reads, Final
  <2>2. w.next = 0 /\ ManifestOK(c, d, m, P, s) /\ (c # 0 => Opens(c, d))
    BY <2>1 DEF Damaged, Usable, DiskOK
  <2> HIDE DEF w, f
  <2>3. \A v \in Versions(f) : VersionOK(v, d, m, P, s) /\ v.next <= 0
    BY <2>2 DEF ManifestOK, w, f
  <2>4. ASSUME NEW v \in Versions(f)  PROVE VersionOK(v, e, m, P, s) /\ v.next <= w.next
    <3>1. VersionType(v) /\ v.next = 0 /\ v.files = {}
      BY <2>3 DEF VersionOK, VersionType
    <3>2. ~s => Safe(e, m, P, DOMAIN e.tables, 0)
      BY DEF Moved
    <3>3. AtMost(e, v.files, v.last)
      BY <3>1 DEF AtMost
    <3> QED  BY <2>2, <3>1, <3>2, <3>3 DEF VersionOK
  <2>5. c # 0 => Opens(c, e)
    BY <2>1, <2>2 DEF Opens
  <2> QED  BY <2>1, <2>4, <2>5 DEF ManifestOK, f
<1>3. DiskOK(e, m, P, s)
  <2>1. e.current = c /\ (c = 0 => P = {})
    BY DEF Damaged, Moved, DiskOK
  <2> HIDE DEF c
  <2> QED  BY <1>2, <2>1 DEF DiskOK, Moved
<1> QED  BY <1>1, <1>3 DEF Damaged, Moved

\* What a step of RepairDB that leaves the database damaged keeps.
Repairing(at) ==
  /\ UNCHANGED <<left, promised, spoilt>> /\ Moved(disk, disk', left.machine, promised, spoilt)
  /\ \E n \in Nat : n = db.next' /\ db' = [db EXCEPT !.at = at, !.next = n] /\ 0 < n
                    /\ Below(DOMAIN disk'.tables, n)

\* A step of RepairDB that does so keeps the invariant.
LEMMA RepairStep ==
  ASSUME Consistent, db.at \in {"corrupt", "repair", "scanned", "archived"},
         NEW at \in {"repair", "scanned", "archived"}, Repairing(at)
  PROVE  /\ Typed' /\ DiskOK(disk', left'.machine, promised', spoilt')
         /\ QuietOK' /\ NewOK' /\ NumbersOK' /\ RecoveryOK' /\ LogsOK' /\ NewManifestOK' /\ OpenOK'
         /\ db'.at = at /\ ~Usable(disk')
         /\ 0 < db'.next /\ Below(DOMAIN disk'.tables, db'.next)
<1> DEFINE mm == left.machine
<1>1. /\ Damaged(disk, mm, promised, spoilt) /\ DbType /\ HistoryType /\ QuietOK
  BY RepairFacts
<1>2. UNCHANGED <<left, promised, spoilt>> /\ Moved(disk, disk', mm, promised, spoilt)
  BY DEF Repairing
<1>3. PICK n \in Nat : n = db.next' /\ db' = [db EXCEPT !.at = at, !.next = n] /\ 0 < n
                       /\ Below(DOMAIN disk'.tables, n)
  BY DEF Repairing
<1> HIDE DEF mm
<1>4. Damaged(disk', mm, promised, spoilt)
  BY <1>1, <1>2, DamagedStays
<1>5. /\ DOMAIN db' = DOMAIN db /\ db'.at = at /\ db'.mem = db.mem /\ db'.imm = db.imm
      /\ db'.log = db.log /\ db'.last = db.last /\ db'.next = n /\ db'.manifest = db.manifest
      /\ db'.ver = db.ver /\ db'.edit = db.edit /\ db'.todo = db.todo /\ db'.ok = db.ok /\ db'.bg = db.bg
      /\ db'.work = db.work /\ db'.reader = db.reader
  BY <1>1, <1>3 DEF DbType
<1>6. DbType' /\ QuietOK' /\ HistoryType'
  BY <1>1, <1>2, <1>5 DEF DbType, QuietOK, HistoryType, Phase
<1>7. left'.machine = mm
  BY <1>2 DEF mm
<1> QED  BY <1>2, <1>3, <1>4, <1>5, <1>6, <1>7
         DEF Damaged, Typed, NewOK, NumbersOK, RecoveryOK, LogsOK, NewManifestOK, OpenOK

\* RepairDB looks for files and takes a number above all of theirs.
LEMMA FindFilesKeeps == Consistent /\ FindFiles => Consistent'
<1> SUFFICES ASSUME Consistent, FindFiles  PROVE Consistent'
  OBVIOUS
<1> DEFINE S == {0} \cup DOMAIN disk.logs \cup DOMAIN disk.tables
           k == 1 + Max(S)
<1>1. db.at = "corrupt" /\ db' = [db EXCEPT !.at = "repair", !.next = k] /\ UNCHANGED <<disk, left, promised, spoilt>>
  BY DEF FindFiles
<1>2. Damaged(disk, left.machine, promised, spoilt) /\ DbType /\ DirType(disk)
  BY <1>1, RepairFacts DEF Damaged
<1>3. Finite(S)
  <2>1. Finite({0}) /\ Finite(DOMAIN disk.logs) /\ Finite(DOMAIN disk.tables)
    BY <1>2, FiniteFacts DEF DirType
  <2>2. Finite({0} \cup DOMAIN disk.logs)
    BY <2>1, FiniteFacts
  <2> QED  BY <2>1, <2>2, FiniteFacts
<1>4. Max(S) \in S /\ \A y \in S : y <= Max(S)
  <2>1. S \in SUBSET Nat /\ IsFiniteSet(S) /\ S # {}
    BY <1>3 DEF Finite
  <2> QED  BY <2>1, MaxLemma
<1>5. k \in Nat /\ 0 < k /\ \A n \in DOMAIN disk.logs \cup DOMAIN disk.tables : n \in Nat /\ n < k
  <2>1. Max(S) \in Nat /\ \A n \in DOMAIN disk.logs \cup DOMAIN disk.tables : n \in Nat /\ n <= Max(S)
    BY <1>3, <1>4 DEF Finite
  <2> HIDE DEF S
  <2> QED  BY <2>1
<1> HIDE DEF S, k
<1>6. Below(DOMAIN disk.tables, k)
  BY <1>2, <1>5 DEF Below, DirType
<1>7. Moved(disk, disk', left.machine, promised, spoilt)
  BY <1>1, <1>2 DEF Moved, Damaged
<1>8. db'.next = k
  BY <1>1, <1>2 DEF DbType
<1>9. Repairing("repair")
  BY <1>1, <1>5, <1>6, <1>7, <1>8 DEF Repairing
<1>10. /\ Typed' /\ DiskOK(disk', left'.machine, promised', spoilt')
       /\ QuietOK' /\ NewOK' /\ NumbersOK' /\ RecoveryOK' /\ LogsOK' /\ NewManifestOK' /\ OpenOK'
       /\ db'.at = "repair" /\ ~Usable(disk')
       /\ 0 < db'.next /\ Below(DOMAIN disk'.tables, db'.next)
  BY <1>1, <1>9, RepairStep
<1>11. \A n \in DOMAIN disk'.logs : n < db'.next
  BY <1>1, <1>5, <1>8
<1> QED  BY <1>10, <1>11 DEF Consistent, RepairOK

\* RepairDB turns a log into a table.
LEMMA RepairLogKeeps == Consistent /\ RepairLog => Consistent'
<1> SUFFICES ASSUME Consistent, RepairLog  PROVE Consistent'
  OBVIOUS
<1> DEFINE n == Min(DOMAIN disk.logs)
           f == disk.logs[n]
           recs == ToSet(f.recs)
           mm == left.machine
<1>1. /\ db.at = "repair" /\ disk.logs # Empty /\ UNCHANGED <<left, promised, spoilt>>
      /\ disk' = [disk EXCEPT !.logs = Only(@, DOMAIN @ \ {n}),
                              !.tables = IF recs = {} THEN @ ELSE With(@, db.next, recs)]
      /\ db' = [db EXCEPT !.next = @ + 1]
  BY DEF RepairLog
<1>2. /\ Damaged(disk, mm, promised, spoilt) /\ DbType /\ DirType(disk)
  BY <1>1, RepairFacts DEF Damaged
<1>3. /\ db.next \in Nat /\ 0 < db.next /\ Below(DOMAIN disk.tables, db.next)
      /\ \A i \in DOMAIN disk.logs : i < db.next
  BY <1>1, <1>2 DEF Consistent, RepairOK, DbType
<1>4. n \in DOMAIN disk.logs
  <2>1. DOMAIN disk.logs # {}
    BY <1>1, <1>2 DEF DirType, IsFcn, Empty
  <2>2. DOMAIN disk.logs \in SUBSET Nat
    BY <1>2 DEF DirType, Finite
  <2> QED  BY <2>1, <2>2, MinLemma
<1>5. Kept(f, mm) \subseteq recs /\ Finite(recs)
  <2>1. FileType(f, Nat)
    BY <1>2, <1>4 DEF DirType
  <2> QED  BY <2>1, KeptLemma DEF Finite
<1> HIDE DEF mm, n, recs, f
<1>6. /\ DOMAIN disk' = DOMAIN disk /\ disk'.manifests = disk.manifests /\ disk'.current = disk.current
      /\ disk'.logs = Only(disk.logs, DOMAIN disk.logs \ {n})
      /\ disk'.tables = (IF recs = {} THEN disk.tables ELSE With(disk.tables, db.next, recs))
  BY <1>1, <1>2 DEF DirType
<1>7. /\ DOMAIN disk'.logs = DOMAIN disk.logs \ {n} /\ IsFcn(disk'.logs)
      /\ \A i \in DOMAIN disk'.logs : disk'.logs[i] = disk.logs[i]
  BY <1>6 DEF Only, IsFcn
<1>8. /\ DOMAIN disk'.tables \subseteq DOMAIN disk.tables \cup {db.next}
      /\ DOMAIN disk.tables \subseteq DOMAIN disk'.tables
      /\ (recs # {} => db.next \in DOMAIN disk'.tables /\ disk'.tables[db.next] = recs)
      /\ \A i \in DOMAIN disk.tables : i # db.next => disk'.tables[i] = disk.tables[i]
  BY <1>6 DEF With
<1>9. db.next \notin DOMAIN disk.tables
  BY <1>3 DEF Below
<1>10. db.next \in DOMAIN disk'.tables => disk'.tables[db.next] = recs
  BY <1>6, <1>8, <1>9
<1>11. DirType(disk')
  <2>1. Finite(DOMAIN disk'.logs)
    BY <1>2, <1>7, FiniteFacts DEF DirType
  <2>2. Finite(DOMAIN disk'.tables)
    <3>1. Finite({db.next}) /\ Finite(DOMAIN disk.tables)
      BY <1>2, <1>3, FiniteFacts DEF DirType
    <3>2. Finite(DOMAIN disk.tables \cup {db.next})
      BY <3>1, FiniteFacts
    <3> QED  BY <1>8, <3>2, FiniteFacts
  <2>3. \A i \in DOMAIN disk'.tables : Finite(disk'.tables[i])
    BY <1>2, <1>5, <1>8, <1>10 DEF DirType
  <2>4. 0 \notin DOMAIN disk'.tables
    BY <1>2, <1>3, <1>8 DEF DirType
  <2>5. \A i \in DOMAIN disk'.logs : FileType(disk'.logs[i], Nat)
    BY <1>2, <1>7 DEF DirType
  <2> QED  BY <1>2, <1>6, <1>7, <2>1, <2>2, <2>3, <2>4, <2>5 DEF DirType
<1>12. ASSUME ~spoilt  PROVE Safe(disk', mm, promised, DOMAIN disk'.tables, 0)
  <2>1. promised \subseteq Held(disk, DOMAIN disk.tables) \cup LogsKept(disk, mm, 0)
    BY <1>2, <1>12 DEF Damaged, Safe
  <2>2. Held(disk, DOMAIN disk.tables) \subseteq Held(disk', DOMAIN disk'.tables)
    BY <1>8, <1>9 DEF Held
  <2>3. recs \subseteq Held(disk', DOMAIN disk'.tables)
    BY <1>8 DEF Held
  <2>4. LogsKept(disk, mm, 0) \subseteq Kept(f, mm) \cup LogsKept(disk', mm, 0)
    <3>1. \A i \in DOMAIN disk.logs : i = n \/ (i \in DOMAIN disk'.logs /\ disk'.logs[i] = disk.logs[i])
      BY <1>7
    <3>2. disk.logs[n] = f
      BY DEF f
    <3> QED  BY <3>1, <3>2 DEF LogsKept
  <2> QED  BY <1>5, <2>1, <2>2, <2>3, <2>4 DEF Safe
<1>13. Moved(disk, disk', mm, promised, spoilt)
  BY <1>2, <1>6, <1>11, <1>12 DEF Moved
<1>14. Below(DOMAIN disk'.tables, db.next + 1)
  <2>1. \A i \in DOMAIN disk'.tables : i \in Nat /\ 0 < i /\ (i < db.next \/ i = db.next)
    BY <1>3, <1>8, <1>11 DEF Below, DirType, Finite
  <2> QED  BY <1>3, <2>1 DEF Below
<1>15. db'.next = db.next + 1
  BY <1>1, <1>2 DEF DbType
<1>16. Repairing("repair")
  <2>1. db.next + 1 \in Nat /\ 0 < db.next + 1
    BY <1>3
  <2>2. db' = [db EXCEPT !.at = "repair", !.next = db.next + 1]
    BY <1>1, <1>2 DEF DbType
  <2> QED  BY <1>1, <1>13, <1>14, <1>15, <2>1, <2>2 DEF Repairing, mm
<1>17. /\ Typed' /\ DiskOK(disk', left'.machine, promised', spoilt')
       /\ QuietOK' /\ NewOK' /\ NumbersOK' /\ RecoveryOK' /\ LogsOK' /\ NewManifestOK' /\ OpenOK'
       /\ db'.at = "repair" /\ ~Usable(disk')
       /\ 0 < db'.next /\ Below(DOMAIN disk'.tables, db'.next)
  BY <1>1, <1>16, RepairStep
<1>18. \A i \in DOMAIN disk'.logs : i < db'.next
  <2>1. \A i \in DOMAIN disk'.logs : i \in Nat /\ i < db.next
    BY <1>3, <1>7, <1>11 DEF DirType, Finite
  <2> QED  BY <1>3, <1>15, <2>1
<1> QED  BY <1>17, <1>18 DEF Consistent, RepairOK

\* Tables that cannot be read are moved away: they hold nothing.
LEMMA ExtractKeeps == Consistent /\ ExtractMetaData => Consistent'
<1> SUFFICES ASSUME Consistent, ExtractMetaData  PROVE Consistent'
  OBVIOUS
<1> DEFINE mm == left.machine
           S == {n \in DOMAIN disk.tables : disk.tables[n] # {}}
<1>1. /\ db.at = "repair" /\ disk.logs = Empty /\ UNCHANGED <<left, promised, spoilt>>
      /\ disk' = [disk EXCEPT !.tables = Only(@, S)] /\ db' = [db EXCEPT !.at = "scanned"]
  BY DEF ExtractMetaData, ScanTable
<1>2. /\ Damaged(disk, mm, promised, spoilt) /\ DbType /\ DirType(disk)
  BY <1>1, RepairFacts DEF Damaged
<1>3. db.next \in Nat /\ 0 < db.next /\ Below(DOMAIN disk.tables, db.next)
  BY <1>1, <1>2 DEF Consistent, RepairOK, DbType
<1> HIDE DEF mm, S
<1>4. /\ DOMAIN disk' = DOMAIN disk /\ disk'.manifests = disk.manifests /\ disk'.current = disk.current
      /\ disk'.logs = disk.logs /\ disk'.tables = Only(disk.tables, S)
  BY <1>1, <1>2 DEF DirType
<1>5. /\ DOMAIN disk'.tables = S /\ S \subseteq DOMAIN disk.tables
      /\ \A n \in S : disk'.tables[n] = disk.tables[n]
  BY <1>4 DEF Only, S
<1>6. DirType(disk')
  <2>1. Finite(S)
    BY <1>2, <1>5, FiniteFacts DEF DirType
  <2> QED  BY <1>2, <1>4, <1>5, <2>1 DEF DirType
<1>7. Held(disk', DOMAIN disk'.tables) = Held(disk, DOMAIN disk.tables)
  BY <1>5 DEF Held, S
<1>8. ~spoilt => Safe(disk', mm, promised, DOMAIN disk'.tables, 0)
  BY <1>2, <1>4, <1>7 DEF Damaged, Safe, LogsKept
<1>9. Moved(disk, disk', mm, promised, spoilt)
  BY <1>2, <1>4, <1>6, <1>8 DEF Moved
<1>10. db'.next = db.next /\ db' = [db EXCEPT !.at = "scanned", !.next = db.next]
  BY <1>1, <1>2 DEF DbType
<1>11. Below(DOMAIN disk'.tables, db.next)
  BY <1>3, <1>5 DEF Below
<1>12. Repairing("scanned")
  BY <1>1, <1>3, <1>9, <1>10, <1>11 DEF Repairing, mm
<1>13. /\ Typed' /\ DiskOK(disk', left'.machine, promised', spoilt')
       /\ QuietOK' /\ NewOK' /\ NumbersOK' /\ RecoveryOK' /\ LogsOK' /\ NewManifestOK' /\ OpenOK'
       /\ db'.at = "scanned" /\ ~Usable(disk')
       /\ 0 < db'.next /\ Below(DOMAIN disk'.tables, db'.next)
  BY <1>1, <1>12, RepairStep
<1>14. DOMAIN disk'.logs = {}
  BY <1>1, <1>4 DEF Empty
<1> QED  BY <1>13, <1>14 DEF Consistent, RepairOK

\* RepairDB moves the old MANIFESTs away.
LEMMA ArchiveKeeps == Consistent /\ ArchiveManifests => Consistent'
<1> SUFFICES ASSUME Consistent, ArchiveManifests  PROVE Consistent'
  OBVIOUS
<1> DEFINE mm == left.machine
<1>1. /\ db.at = "scanned" /\ UNCHANGED <<left, promised, spoilt>>
      /\ disk' = [disk EXCEPT !.manifests = Empty] /\ db' = [db EXCEPT !.at = "archived"]
  BY DEF ArchiveManifests
<1>2. /\ Damaged(disk, mm, promised, spoilt) /\ DbType /\ DirType(disk)
  BY <1>1, RepairFacts DEF Damaged
<1>3. db.next \in Nat /\ 0 < db.next /\ Below(DOMAIN disk.tables, db.next) /\ DOMAIN disk.logs = {}
  BY <1>1, <1>2 DEF Consistent, RepairOK, DbType
<1> HIDE DEF mm
<1>4. /\ DOMAIN disk' = DOMAIN disk /\ disk'.manifests = Empty /\ disk'.current = disk.current
      /\ disk'.logs = disk.logs /\ disk'.tables = disk.tables /\ DOMAIN disk'.manifests = {}
  BY <1>1, <1>2 DEF DirType, Empty
<1>5. DirType(disk')
  BY <1>2, <1>4 DEF DirType
<1>6. ~spoilt => Safe(disk', mm, promised, DOMAIN disk'.tables, 0)
  BY <1>2, <1>4 DEF Damaged, Safe, Held, LogsKept
<1>7. Moved(disk, disk', mm, promised, spoilt)
  BY <1>2, <1>4, <1>5, <1>6 DEF Moved, Reads, Empty
<1>8. db'.next = db.next /\ db' = [db EXCEPT !.at = "archived", !.next = db.next]
  BY <1>1, <1>2 DEF DbType
<1>9. Repairing("archived")
  BY <1>1, <1>3, <1>4, <1>7, <1>8 DEF Repairing, mm
<1>10. /\ Typed' /\ DiskOK(disk', left'.machine, promised', spoilt')
       /\ QuietOK' /\ NewOK' /\ NumbersOK' /\ RecoveryOK' /\ LogsOK' /\ NewManifestOK' /\ OpenOK'
       /\ db'.at = "archived" /\ ~Usable(disk')
       /\ 0 < db'.next /\ Below(DOMAIN disk'.tables, db'.next)
  BY <1>1, <1>9, RepairStep
<1> QED  BY <1>3, <1>4, <1>10 DEF Consistent, RepairOK

\* RepairDB writes a new MANIFEST that names every table, and CURRENT.
LEMMA WriteDescriptorKeeps == Consistent /\ WriteDescriptor => Consistent'
<1> SUFFICES ASSUME Consistent, WriteDescriptor  PROVE Consistent'
  OBVIOUS
<1> DEFINE mm == left.machine
           T == DOMAIN disk.tables
           U == UNION {disk.tables[n] : n \in T}
           last == Max({0} \cup U)
           e == [NoEdit EXCEPT !.add = T, !.next = db.next, !.last = last]
           f == Add(EmptyFile, EncodeTo(e))
           w == Applied(NoVersion, e)
<1>1. /\ db.at = "archived" /\ UNCHANGED <<left, promised, spoilt>>
      /\ disk' = [disk EXCEPT !.manifests = With(Empty, 1, f)] /\ db' = [db EXCEPT !.at = "new"]
  BY DEF WriteDescriptor
<1>2. /\ Damaged(disk, mm, promised, spoilt) /\ DbType /\ HistoryType /\ QuietOK
      /\ DirType(disk)
  BY <1>1, RepairFacts DEF Damaged
<1>3. db.next \in Nat /\ 0 < db.next /\ Below(T, db.next) /\ DOMAIN disk.logs = {}
  BY <1>1, <1>2 DEF Consistent, RepairOK, DbType
<1>4. last \in Nat /\ \A q \in U : q <= last
  <2>1. Finite(U) /\ Finite({0})
    BY <1>2, TablesFinite, FiniteFacts
  <2> HIDE DEF U
  <2>2. Finite({0} \cup U)
    BY <2>1, FiniteFacts
  <2>3. {0} \cup U \in SUBSET Nat /\ IsFiniteSet({0} \cup U) /\ {0} \cup U # {}
    BY <2>2 DEF Finite
  <2>4. Max({0} \cup U) \in {0} \cup U /\ \A y \in {0} \cup U : y <= Max({0} \cup U)
    BY <2>3, MaxLemma
  <2> QED  BY <2>3, <2>4
<1> HIDE DEF mm, last
<1>5. EditType(e) /\ e.add = T /\ e.del = {} /\ e.log = 0 /\ e.next = db.next /\ e.last = last
  <2>1. Finite(T) /\ Finite({})
    BY <1>2, FiniteFacts DEF DirType
  <2> QED  BY <1>3, <1>4, <2>1 DEF EditType, Edit, NoEdit, Finite
<1> HIDE DEF e
<1>6. w.files = T /\ w.log = 0 /\ w.next = db.next /\ w.last = last
  BY <1>5, AppliedFirst
<1>7. FileType(f, Record) /\ Replay(f.recs) = w
  BY <1>5, FirstRecord
<1> HIDE DEF f, w
<1>8. /\ DOMAIN disk' = DOMAIN disk /\ disk'.logs = disk.logs /\ disk'.tables = disk.tables
      /\ disk'.manifests = With(Empty, 1, f) /\ disk'.current = disk.current
  BY <1>1, <1>2 DEF DirType
<1>9. DOMAIN disk'.manifests = {1} /\ disk'.manifests[1] = f
  BY <1>8 DEF With, Empty
<1>10. DirType(disk')
  BY <1>2, <1>7, <1>8, <1>9 DEF DirType, ManifestType
<1>11. ~spoilt => Safe(disk', mm, promised, T, 0)
  BY <1>2, <1>8 DEF Damaged, Safe, Held, LogsKept
<1>12. VersionOK(w, disk', mm, promised, spoilt)
  <2>1. VersionType(w)
    BY <1>2, <1>3, <1>4, <1>6 DEF VersionType, DirType
  <2>2. AtMost(disk', T, last)
    BY <1>4, <1>8 DEF AtMost
  <2> QED  BY <1>3, <1>6, <1>8, <1>11, <2>1, <2>2 DEF VersionOK
<1>13. ManifestOK(1, disk', mm, promised, spoilt)
  <2>1. disk'.manifests[1] = Add(EmptyFile, EncodeTo(e)) /\ 1 \in DOMAIN disk'.manifests
    BY <1>9 DEF f
  <2>2. spoilt \in BOOLEAN
    BY <1>2 DEF HistoryType
  <2>3. VersionOK(Applied(NoVersion, e), disk', mm, promised, spoilt)
    BY <1>12 DEF w
  <2>4. ~spoilt => Safe(disk', mm, promised, DOMAIN disk'.tables, 0)
    BY <1>8, <1>11
  <2> QED  BY <1>5, <1>10, <2>1, <2>2, <2>3, <2>4, FirstManifest
<1>14. DiskOK(disk', mm, promised, spoilt)
  <2>1. Reads(disk') => disk'.current = 1
    BY <1>9 DEF Reads
  <2>2. Opens(1, disk')
    BY DEF Opens
  <2>3. disk'.current = 0 => promised = {}
    BY <1>2, <1>8 DEF Damaged, DiskOK
  <2> QED  BY <1>8, <1>11, <1>13, <2>1, <2>2, <2>3 DEF DiskOK
<1>15. DbType' /\ QuietOK' /\ HistoryType' /\ db'.at = "new"
  BY <1>1, <1>2 DEF DbType, QuietOK, HistoryType, Phase
<1>16. NewOK'
  BY <1>1, <1>7, <1>9, <1>13 DEF NewOK, mm
<1> QED  BY <1>1, <1>10, <1>14, <1>15, <1>16
         DEF Consistent, Typed, RepairOK, NumbersOK, RecoveryOK, LogsOK, NewManifestOK, OpenOK, mm

--------------------------------------------------------------------------------
(* Crashes. *)

\* What a crash leaves of a directory.  If the machine crashes, a log keeps what
\* was synced; if only the process does, it keeps everything.
Crashed(d, e, m) ==
  /\ DOMAIN e = DOMAIN d /\ e.tables = d.tables /\ e.current = d.current
  /\ IsFcn(e.logs) /\ DOMAIN e.logs = DOMAIN d.logs
  /\ \A n \in DOMAIN d.logs : IF m THEN e.logs[n] \in Leftovers(d.logs[n]) ELSE e.logs[n] = d.logs[n]
  /\ DOMAIN e.manifests = DOMAIN d.manifests
  /\ \A n \in DOMAIN d.manifests : e.manifests[n] = d.manifests[n] \/ e.manifests[n] \in Cutoffs(d.manifests[n])

\* A crash treats every file by itself.
LEMMA CrashLemma ==
  ASSUME DirType(disk), Crash
  PROVE  /\ Crashed(disk, disk', left.machine)
         /\ \A n \in DOMAIN disk.manifests : disk'.manifests[n] \in Remains(n)
<1>1. PICK l \in CrashOutcomes(disk.logs, LogRemains), k \in CrashOutcomes(disk.manifests, Remains) :
        disk' = [disk EXCEPT !.logs = l, !.manifests = k]
  BY DEF Crash
<1>2. DOMAIN disk' = DOMAIN disk /\ disk'.logs = l /\ disk'.manifests = k
      /\ disk'.tables = disk.tables /\ disk'.current = disk.current
  BY <1>1 DEF DirType
<1>3. IsFcn(l) /\ DOMAIN l = DOMAIN disk.logs /\ \A n \in DOMAIN disk.logs : l[n] \in LogRemains(n)
  BY DEF CrashOutcomes, IsFcn
<1>4. DOMAIN k = DOMAIN disk.manifests /\ \A n \in DOMAIN disk.manifests : k[n] \in Remains(n)
  BY DEF CrashOutcomes
<1>5. ASSUME NEW n \in DOMAIN disk.manifests
      PROVE  k[n] = disk.manifests[n] \/ k[n] \in Cutoffs(disk.manifests[n])
  <2> DEFINE f == disk.manifests[n]
  <2>1. ManifestType(f)
    BY DEF DirType
  <2>2. Cutoffs(Settled(f)) \subseteq Cutoffs(f)
    <3> HIDE DEF f
    <3> QED  BY <2>1, SettledLemma DEF ManifestType, Broken
  <2> QED  BY <1>4, <2>2 DEF Remains
<1> QED  BY <1>2, <1>3, <1>4, <1>5 DEF Crashed, LogRemains

\* A good directory stays good in a crash.
LEMMA DiskCrashes ==
  ASSUME NEW d, NEW e, NEW m, NEW P, NEW s, DirType(d), DiskOK(d, m, P, s), Crashed(d, e, m)
  PROVE  DirType(e) /\ DiskOK(e, m, P, s)
<1> DEFINE c == d.current
<1>1. \A n \in DOMAIN d.logs : FileType(e.logs[n], Nat) /\ Kept(d.logs[n], m) \subseteq Kept(e.logs[n], m)
  <2> SUFFICES ASSUME NEW n \in DOMAIN d.logs
               PROVE  FileType(e.logs[n], Nat) /\ Kept(d.logs[n], m) \subseteq Kept(e.logs[n], m)
    OBVIOUS
  <2> DEFINE f == d.logs[n]
             g == e.logs[n]
  <2>1. FileType(f, Nat) /\ (IF m THEN g \in Leftovers(f) ELSE g = f)
    BY DEF DirType, Crashed
  <2> HIDE DEF f, g
  <2>2. CASE ~m
    BY <2>1, <2>2 DEF f, g
  <2>3. CASE m
    <3>1. /\ FileType(g, Nat) /\ g.synced = Len(g.recs)
          /\ {f.recs[i] : i \in 1..f.synced} \subseteq ToSet(g.recs)
      BY <2>1, <2>3, LeftoverLemma
    <3>2. Kept(f, m) = {f.recs[i] : i \in 1..f.synced} /\ Kept(g, m) = {g.recs[i] : i \in 1..g.synced}
      BY <2>3 DEF Kept
    <3>3. DOMAIN g.recs = 1..Len(g.recs)
      BY <3>1 DEF FileType
    <3>4. Kept(g, m) = ToSet(g.recs)
      BY <3>1, <3>2, <3>3 DEF ToSet
    <3> QED  BY <3>1, <3>2, <3>4 DEF f, g
  <2> QED  BY <2>2, <2>3
<1>2. ASSUME NEW n \in DOMAIN d.manifests  PROVE ManifestType(e.manifests[n])
  <2> DEFINE f == d.manifests[n]
             g == e.manifests[n]
  <2>1. ManifestType(f) /\ (g = f \/ g \in Cutoffs(f))
    BY DEF DirType, Crashed
  <2> HIDE DEF f, g
  <2>2. CASE FileType(f, Record)
    BY <2>1, <2>2, CutoffLemma DEF ManifestType, g
  <2>3. CASE Broken(f)
    BY <2>1, <2>3, SyncedStays DEF ManifestType, Broken, g
  <2> QED  BY <2>1, <2>2, <2>3 DEF ManifestType
<1>3. DirType(e)
  BY <1>1, <1>2 DEF DirType, Crashed
<1>4. \A F : Held(e, F) = Held(d, F)
  BY DEF Held, Crashed
<1>5. \A min : LogsKept(d, m, min) \subseteq LogsKept(e, m, min)
  BY <1>1 DEF LogsKept, Crashed
<1>6. \A F, min : Safe(d, m, P, F, min) => Safe(e, m, P, F, min)
  BY <1>4, <1>5 DEF Safe
<1>7. \A v : VersionOK(v, d, m, P, s) => VersionOK(v, e, m, P, s)
  BY <1>6 DEF VersionOK, AtMost, Crashed
<1>8. e.current = c /\ DOMAIN e.tables = DOMAIN d.tables
  BY DEF Crashed
<1>9. ASSUME Reads(e)  PROVE ManifestOK(c, e, m, P, s) /\ (c # 0 => Opens(c, e))
  <2> DEFINE f == d.manifests[c]
             g == e.manifests[c]
  <2>1. c \in DOMAIN d.manifests /\ FileType(g, Record) /\ (g = f \/ g \in Cutoffs(f)) /\ ManifestType(f)
    BY <1>8, <1>9 DEF Reads, Crashed, DirType
  <2>2. Whole(g)
    BY <2>1, WholeLemma
  <2>3. FileType(f, Record)
    <3>1. CASE Broken(f)
      <4>1. g = f
        BY <2>1, <3>1, SyncedStays DEF Broken
      <4> QED  BY <2>1, <4>1
    <3> QED  BY <2>1, <3>1 DEF ManifestType
  <2>4. Reads(d)
    BY <2>1, <2>3 DEF Reads
  <2>5. \A v \in Versions(f) : VersionOK(v, d, m, P, s) /\ v.next <= Final(d, c).next
    BY <2>4 DEF DiskOK, ManifestOK
  <2>6. c # 0 => Opens(c, d)
    BY <2>4 DEF DiskOK
  <2>7. CASE g = f
    <3>1. Final(e, c) = Final(d, c)
      BY <2>7 DEF Final
    <3>2. ManifestOK(c, e, m, P, s)
      BY <1>7, <2>5, <2>7, <3>1 DEF ManifestOK
    <3>3. c # 0 => Opens(c, e)
      BY <2>6, <2>7 DEF Opens
    <3> QED  BY <3>2, <3>3
  <2>8. CASE g # f
    <3> DEFINE w == Replay(g.recs)
    <3>1. w \in Versions(f) /\ Versions(g) = {w}
      <4>1. g \in Cutoffs(f)
        BY <2>1, <2>8
      <4> HIDE DEF f, g
      <4>2. Broken(g) \/ (Replay(g.recs) \in Versions(f) /\ Versions(g) = {Replay(g.recs)})
        BY <2>3, <4>1, CutoffLemma
      <4> QED  BY <2>2, <4>2 DEF Broken
    <3>2. Final(e, c) = w
      BY DEF Final
    <3> HIDE DEF w
    <3>3. VersionOK(w, e, m, P, s) /\ w.next <= w.next
      <4>1. VersionOK(w, e, m, P, s)
        BY <1>7, <2>5, <3>1
      <4> QED  BY <4>1 DEF VersionOK, VersionType
    <3>4. ManifestOK(c, e, m, P, s)
      BY <3>1, <3>2, <3>3 DEF ManifestOK
    <3>5. c # 0 => Opens(c, e)
      BY <2>6, <3>1 DEF Opens
    <3> QED  BY <3>4, <3>5
  <2> QED  BY <2>7, <2>8
<1>10. ~s => Safe(e, m, P, DOMAIN e.tables, 0)
  BY <1>6, <1>8, AllSafe
<1>11. c = 0 => P = {}
  BY DEF DiskOK
<1> HIDE DEF c
<1> QED  BY <1>3, <1>8, <1>9, <1>10, <1>11 DEF DiskOK

\* A crash of the process or of the machine.
LEMMA CrashKeeps == Consistent /\ Crash => Consistent'
<1> SUFFICES ASSUME Consistent, Crash  PROVE Consistent'
  OBVIOUS
<1>1. /\ left.crashes > 0 /\ left' = [left EXCEPT !.crashes = @ - 1] /\ db' = Closed
      /\ UNCHANGED <<promised, spoilt>>
  BY DEF Crash
<1>2. DirType(disk) /\ HistoryType /\ DiskOK(disk, left.machine, promised, spoilt)
  BY DEF Consistent, Typed
<1>3. left' \in Fault /\ left'.machine = left.machine
  BY <1>1, <1>2 DEF HistoryType, Fault
<1>4. HistoryType'
  BY <1>1, <1>2, <1>3 DEF HistoryType
<1>5. DirType(disk') /\ DiskOK(disk', left.machine, promised, spoilt)
  <2>1. Crashed(disk, disk', left.machine)
    BY <1>2, CrashLemma
  <2> QED  BY <1>2, <2>1, DiskCrashes
<1> QED  BY <1>1, <1>3, <1>4, <1>5, ClosedNextOK DEF Consistent, Typed

--------------------------------------------------------------------------------
(* The theorems. *)

\* Every step of the database, of a crash and of a repair keeps the invariant.
LEMMA NextKeeps == Consistent /\ [Next]_vars => Consistent'
<1> SUFFICES ASSUME Consistent, [Next]_vars  PROVE Consistent'
  OBVIOUS
<1>1. CASE NewDB \/ SetCurrentNew \/ Recover \/ RecoverLogFile \/ OpenFails
  BY <1>1, NewDBKeeps, SetCurrentNewKeeps, RecoverKeeps, RecoverLogKeeps, OpenFailsKeeps
<1>2. CASE NewManifest \/ SyncManifest \/ SetCurrent \/ Opened
  BY <1>2, NewManifestKeeps, SyncKeeps, SetCurrentKeeps, OpenedKeeps
<1>3. CASE \E sync \in BOOLEAN : Write(sync)
  BY <1>3, WriteKeeps
<1>4. CASE SwitchMemTable \/ Acquire \/ ReleaseReader
  BY <1>4, SwitchKeeps, ReaderKeeps
<1>5. CASE CompactMemTable \/ BeginCompaction \/ FinishCompaction
  BY <1>5, CompactMemTableKeeps, BeginCompactionKeeps, FinishCompactionKeeps
<1>6. CASE Install \/ InstallFails \/ Delete
  BY <1>6, InstallKeeps, InstallFailsKeeps, DeleteKeeps
<1>7. CASE RepairDB
  BY <1>7, FindFilesKeeps, RepairLogKeeps, ExtractKeeps, ArchiveKeeps, WriteDescriptorKeeps DEF RepairDB
<1>8. CASE DestroyDB \/ Crash
  BY <1>8, DestroyKeeps, CrashKeeps
<1>9. CASE UNCHANGED vars
  BY <1>9, StutterKeeps
<1> QED  BY <1>1, <1>2, <1>3, <1>4, <1>5, <1>6, <1>7, <1>8, <1>9 DEF Next

\* Wherever writes, flushes, compactions, recovery and repair are cut off by a
\* crash, CURRENT names a MANIFEST each of whose possible versions, with the logs
\* that it does not declare to be old, holds every write that was promised.
THEOREM DatabaseConsistent == Spec => []Consistent
<1>1. Init => Consistent
  BY InitConsistent
<1>2. Consistent /\ [Next]_vars => Consistent'
  BY NextKeeps
<1> QED  BY <1>1, <1>2, PTL DEF Spec

\* Once the database is open, each write that must survive is in a memtable or in
\* a table of the current version.
THEOREM WritesSurvive == Spec => []Durable
<1>1. Consistent => Durable
  <2> SUFFICES ASSUME Consistent, db.at = "open", ~spoilt  PROVE promised \subseteq Visible
    BY DEF Durable
  <2>1. DirType(disk) /\ OpenPromise
    BY OpenFacts
  <2>2. /\ db.log \in DOMAIN disk.logs /\ ToSet(disk.logs[db.log].recs) \subseteq db.mem
        /\ promised \subseteq Held(disk, db.ver.files) \cup Imm \cup Kept(disk.logs[db.log], left.machine)
    BY <2>1 DEF OpenPromise
  <2>3. Kept(disk.logs[db.log], left.machine) \subseteq ToSet(disk.logs[db.log].recs)
    BY <2>1, <2>2, KeptLemma DEF DirType
  <2>4. Visible = db.mem \cup Imm \cup Held(disk, db.ver.files)
    BY DEF Visible, Imm, Held
  <2> QED  BY <2>2, <2>3, <2>4
<1> QED  BY <1>1, DatabaseConsistent, PTL

\* All of the MANIFEST that CURRENT names is synced.
Certain(d) == Reads(d) => d.manifests[d.current].synced = Len(d.manifests[d.current].recs)

\* It is, unless it is the first one, an edit is being written, or a sync has failed.
Settles ==
  \/ db.at # "open" /\ disk.current # 1
  \/ db.at = "open" /\ db.bg # "logged" /\ ~spoilt
  => Certain(disk)

\* The MANIFEST that CURRENT names, and CURRENT, are what they were, or it cannot be
\* read.
SameManifest ==
  Reads(disk') => /\ disk'.current = disk.current /\ Reads(disk)
                  /\ disk'.manifests[disk.current] = disk.manifests[disk.current]

\* A step that leaves the MANIFEST alone keeps it synced, unless it opens or closes
\* the database or ends the writing of an edit.
LEMMA SettlesStays ==
  ASSUME Settles, SameManifest,
         db'.at = "open" => db.at = "open",
         db.at = "open" => db'.at = "open",
         db'.at = "open" /\ db'.bg # "logged" /\ ~spoilt' => db.bg # "logged" /\ ~spoilt
  PROVE  Settles'
BY DEF Settles, SameManifest, Certain

\* The new MANIFEST has two records.
LEMMA TwoRecords ==
  ASSUME Consistent, db.at \in {"manifest", "current", "install"}
  PROVE  Len(disk.manifests[db.manifest].recs) = 2
<1>1. DbType /\ NewManifestOK
  BY DEF Consistent, Typed
<1>2. disk.manifests[db.manifest].recs = Snapshot(db.ver.files, db.edit).recs
  BY <1>1 DEF NewManifestOK, SnapshotAndEdit, Snapshot
<1>3. EditType(db.edit) /\ Finite(db.ver.files)
  BY <1>1 DEF DbType
<1> QED  BY <1>2, <1>3, SnapshotLemma

\* Opening a database syncs its new MANIFEST before CURRENT names it.
LEMMA OpeningSettles ==
  ASSUME Consistent, Settles, NewDB \/ SetCurrentNew \/ Recover \/ RecoverLogFile \/ OpenFails
                                \/ NewManifest \/ SyncManifest \/ SetCurrent \/ Opened
  PROVE  Settles'
<1>1. DirType(disk) /\ DbType /\ NumbersOK /\ RecoveryOK /\ NewManifestOK
  BY DEF Consistent, Typed
<1>2. CASE NewDB
  <2> DEFINE f == Add(EmptyFile, EncodeTo([NoEdit EXCEPT !.next = 2]))
  <2>1. /\ db.at = "closed" /\ disk.current = 0 /\ db'.at = "new"
        /\ disk'.manifests = With(disk.manifests, 1, f) /\ disk'.current = 0
    BY <1>1, <1>2 DEF NewDB, DirType, DbType
  <2> HIDE DEF f
  <2>2. SameManifest
    BY <2>1 DEF SameManifest, Reads, With
  <2> QED  BY <2>1, <2>2, SettlesStays
<1>3. CASE SetCurrentNew
  <2>1. disk'.current = 1 /\ db'.at = "closed"
    BY <1>1, <1>3 DEF SetCurrentNew, DirType, DbType
  <2> QED  BY <2>1 DEF Settles
<1>4. CASE Recover \/ RecoverLogFile \/ OpenFails
  <2>1. disk'.manifests = disk.manifests /\ disk'.current = disk.current /\ db.at # "open"
    BY <1>1, <1>4 DEF Recover, RecoverLogFile, OpenFails, DirType
  <2>2. CASE Recover
    <3>1. db'.at \in {"corrupt", "logs"}
      BY <1>1, <2>2 DEF Recover, DbType, Closed
    <3> QED  BY <2>1, <3>1, SettlesStays DEF SameManifest, Reads
  <2>3. CASE RecoverLogFile
    <3>1. db'.at = "logs"
      BY <1>1, <2>3 DEF RecoverLogFile, DbType
    <3> QED  BY <2>1, <3>1, SettlesStays DEF SameManifest, Reads
  <2>4. CASE OpenFails
    <3>1. db'.at = "closed"
      BY <2>4 DEF OpenFails, Closed
    <3> QED  BY <2>1, <3>1, SettlesStays DEF SameManifest, Reads
  <2> QED  BY <1>4, <2>2, <2>3, <2>4
<1>5. CASE NewManifest
  <2>1. /\ db.at = "logs" /\ db'.at = "manifest" /\ disk'.current = disk.current
        /\ \E f : disk'.manifests = With(disk.manifests, db.manifest, f)
    BY <1>1, <1>5 DEF NewManifest, DirType, DbType
  <2>2. disk.current # 1 => disk.current # db.manifest
    BY <1>1, <2>1 DEF RecoveryOK, DirType, DbType
  <2>3. disk.current # 1 => SameManifest
    BY <2>1, <2>2 DEF SameManifest, Reads, With
  <2>4. CASE disk.current = 1
    BY <2>1, <2>4 DEF Settles
  <2> QED  BY <2>1, <2>3, <2>4, SettlesStays
<1>6. CASE SyncManifest
  <2>1. /\ db.at = "manifest" /\ db'.at = "current" /\ disk'.current = disk.current
        /\ disk'.manifests = [disk.manifests EXCEPT ![db.manifest] = Synced(@)]
    BY <1>1, <1>6 DEF SyncManifest, DirType, DbType
  <2>2. disk.current # 1 => disk.current # db.manifest
    BY <1>1, <2>1 DEF RecoveryOK, DirType, DbType
  <2>3. disk.current # 1 => SameManifest
    BY <2>1, <2>2 DEF SameManifest, Reads
  <2>4. CASE disk.current = 1
    BY <2>1, <2>4 DEF Settles
  <2> QED  BY <2>1, <2>3, <2>4, SettlesStays
<1>7. CASE SetCurrent
  <2>1. /\ db.at = "current" /\ db'.at = "install"
        /\ disk'.current = db.manifest /\ disk'.manifests = disk.manifests
    BY <1>1, <1>7 DEF SetCurrent, DirType, DbType
  <2>2. disk.manifests[db.manifest].synced = 2 /\ Len(disk.manifests[db.manifest].recs) = 2
    BY <1>1, <2>1, TwoRecords DEF NewManifestOK
  <2> QED  BY <2>1, <2>2 DEF Settles, Certain
<1>8. CASE Opened
  <2>1. /\ db.at = "install" /\ disk'.current = disk.current
        /\ disk'.manifests = Only(disk.manifests, {n \in DOMAIN disk.manifests : n >= db.manifest})
    BY <1>1, <1>8 DEF Opened, DeleteObsoleteFiles, DirType
  <2>2. /\ disk.current = db.manifest
        /\ disk.manifests[db.manifest].synced = 2 /\ Len(disk.manifests[db.manifest].recs) = 2
    BY <1>1, <2>1, TwoRecords DEF NewManifestOK
  <2>3. Reads(disk') => disk'.manifests[db.manifest] = disk.manifests[db.manifest]
    BY <2>1, <2>2 DEF Reads, Only
  <2> QED  BY <2>1, <2>2, <2>3 DEF Settles, Certain
<1> QED  BY <1>2, <1>3, <1>4, <1>5, <1>6, <1>7, <1>8

\* An open database syncs each edit of its MANIFEST, unless the sync fails.
LEMMA RunningSettles ==
  ASSUME Consistent, Settles,
         \/ \E sync \in BOOLEAN : Write(sync)
         \/ SwitchMemTable \/ Acquire \/ ReleaseReader \/ CompactMemTable \/ BeginCompaction
         \/ FinishCompaction \/ Install \/ InstallFails \/ Delete
  PROVE  Settles'
<1>1. DirType(disk) /\ DbType
  BY DEF Consistent, Typed
<1>2. CASE (\E sync \in BOOLEAN : Write(sync)) \/ SwitchMemTable \/ BeginCompaction
  <2>1. db.at = "open" /\ disk'.manifests = disk.manifests /\ disk'.current = disk.current /\ spoilt' = spoilt
    BY <1>1, <1>2 DEF Write, SwitchMemTable, BeginCompaction, DirType
  <2>2. db'.at = db.at /\ db'.bg = db.bg
    BY <1>1, <1>2 DEF Write, SwitchMemTable, BeginCompaction, DbType
  <2> QED  BY <2>1, <2>2, SettlesStays DEF SameManifest, Reads
<1>3. CASE Acquire \/ ReleaseReader
  <2>1. UNCHANGED <<disk, spoilt>> /\ db'.at = db.at /\ db'.bg = db.bg
    BY <1>1, <1>3 DEF Acquire, ReleaseReader, DbType
  <2> QED  BY <2>1, SettlesStays DEF SameManifest, Reads
<1>4. CASE CompactMemTable \/ FinishCompaction
  <2>1. db'.at = "open" /\ db'.bg = "logged"
    BY <1>1, <1>4 DEF CompactMemTable, FinishCompaction, LogEdit, DbType
  <2> QED  BY <2>1 DEF Settles
<1>5. CASE Install
  <2> DEFINE f == disk.manifests[db.manifest]
  <2>1. /\ db.at = "open" /\ db'.at = "open" /\ disk'.current = disk.current
        /\ disk'.manifests = [disk.manifests EXCEPT ![db.manifest] = Synced(@)]
    BY <1>1, <1>5 DEF Install, Installed, DirType, DbType
  <2>2. disk.current = db.manifest /\ db.manifest \in DOMAIN disk.manifests /\ FileType(f, Record)
    BY <2>1, OpenFacts DEF Manifest
  <2>3. disk'.manifests[disk'.current] = Synced(f)
    BY <2>1, <2>2
  <2> HIDE DEF f
  <2>4. Synced(f).recs = f.recs /\ Synced(f).synced = Len(f.recs)
    BY <2>2, VersionsSynced
  <2> QED  BY <2>3, <2>4 DEF Settles, Certain
<1>6. CASE InstallFails
  <2>1. db'.at = "open" /\ spoilt'
    BY <1>1, <1>6 DEF InstallFails, Installed, DbType
  <2> QED  BY <2>1 DEF Settles
<1>7. CASE Delete
  <2>1. /\ db.at = "open" /\ db'.at = "open" /\ db.bg = "delete" /\ spoilt' = spoilt
        /\ disk'.current = disk.current
        /\ disk'.manifests = Only(disk.manifests, {n \in DOMAIN disk.manifests : n >= db.manifest})
    BY <1>1, <1>7 DEF Delete, DeleteObsoleteFiles, DirType, DbType
  <2>2. SameManifest
    BY <2>1, OpenFacts DEF SameManifest, Usable, Reads, Only
  <2> QED  BY <2>1, <2>2, SettlesStays
<1> QED  BY <1>2, <1>3, <1>4, <1>5, <1>6, <1>7

\* Once the MANIFEST that CURRENT names is synced, a crash leaves it as it is.
LEMMA CrashSettles == Consistent /\ Settles /\ Crash => Settles'
<1> SUFFICES ASSUME Consistent, Settles, Crash  PROVE Settles'
  OBVIOUS
<1> DEFINE c == disk.current
           f == disk.manifests[c]
           g == disk'.manifests[c]
<1>1. DirType(disk) /\ DbType
  BY DEF Consistent, Typed
<1>2. db'.at = "closed" /\ spoilt' = spoilt
  BY DEF Crash, Closed
<1>3. disk'.current = c /\ DOMAIN disk'.manifests = DOMAIN disk.manifests
      /\ \A n \in DOMAIN disk.manifests : disk'.manifests[n] \in Remains(n)
  BY <1>1, CrashLemma DEF Crashed
<1> SUFFICES ASSUME c # 1, Reads(disk')  PROVE g.synced = Len(g.recs)
  BY <1>2, <1>3 DEF Settles, Certain
<1>4. c \in DOMAIN disk.manifests /\ ManifestType(f) /\ g \in Remains(c) /\ FileType(g, Record)
  BY <1>1, <1>3 DEF Reads, DirType
<1>5. ASSUME NEW h, NEW S, FileType(h, S), g \in Cutoffs(h)
      PROVE  g.synced = Len(g.recs)
  <2>1. PICK r : g = Synced([h EXCEPT !.recs = r])
    BY <1>5 DEF Cutoffs
  <2>2. h = [recs |-> h.recs, synced |-> h.synced]
    BY <1>5 DEF FileType
  <2> QED  BY <2>1, <2>2 DEF Synced
<1>6. CASE left.machine
  BY <1>4, <1>5, <1>6 DEF Remains, ManifestType, Broken, f
<1>7. CASE ~left.machine /\ c = db.manifest
  <2>1. g \in Cutoffs(Settled(f))
    BY <1>4, <1>7 DEF Remains
  <2>2. \E S : FileType(f, S)
    BY <1>4 DEF ManifestType, Broken
  <2> HIDE DEF f, g
  <2> QED  BY <1>5, <2>1, <2>2, SettledLemma
<1>8. CASE ~left.machine /\ c # db.manifest
  <2>1. g = f
    BY <1>4, <1>8 DEF Remains
  <2>2. db.at # "open"
    BY <1>8, OpenFacts
  <2>3. Reads(disk)
    BY <1>4, <2>1 DEF Reads
  <2> QED  BY <2>1, <2>2, <2>3 DEF Settles, Certain
<1> QED  BY <1>6, <1>7, <1>8

\* A repair leaves the MANIFEST alone until it makes the first one.
LEMMA RestSettles ==
  ASSUME Consistent, Settles, RepairDB \/ DestroyDB \/ UNCHANGED vars
  PROVE  Settles'
<1>1. DirType(disk) /\ DbType
  BY DEF Consistent, Typed
<1>2. CASE FindFiles \/ RepairLog \/ ExtractMetaData
  <2>1. disk'.manifests = disk.manifests /\ disk'.current = disk.current /\ db.at # "open"
    BY <1>1, <1>2 DEF FindFiles, RepairLog, ExtractMetaData, DirType
  <2>2. db'.at # "open"
    BY <1>1, <1>2 DEF FindFiles, RepairLog, ExtractMetaData, DbType
  <2> QED  BY <2>1, <2>2, SettlesStays DEF SameManifest, Reads
<1>3. CASE ArchiveManifests
  <2>1. DOMAIN disk'.manifests = {} /\ db'.at # "open"
    BY <1>1, <1>3 DEF ArchiveManifests, DirType, DbType, Empty
  <2> QED  BY <2>1 DEF Settles, Certain, Reads
<1>4. CASE WriteDescriptor
  <2>1. DOMAIN disk'.manifests = {1} /\ db'.at # "open"
    BY <1>1, <1>4 DEF WriteDescriptor, DirType, DbType, With, Empty
  <2> QED  BY <2>1 DEF Settles, Certain, Reads
<1>5. CASE DestroyDB
  <2>1. DOMAIN disk'.manifests = {} /\ db'.at # "open"
    BY <1>5 DEF DestroyDB, NoDatabase, Empty
  <2> QED  BY <2>1 DEF Settles, Certain, Reads
<1>6. CASE UNCHANGED vars
  BY <1>6 DEF vars, Settles, Certain, Reads
<1> QED  BY <1>2, <1>3, <1>4, <1>5, <1>6 DEF RepairDB

\* A file that is whole and synced is all that a crash leaves of it.
LEMMA SyncedRemains ==
  ASSUME Consistent, Usable(disk), disk.manifests[disk.current].synced = Len(disk.manifests[disk.current].recs)
  PROVE  \A file \in Remains(disk.current) : Readable(file)
<1> DEFINE f == disk.manifests[disk.current]
<1>1. FileType(f, Record) /\ f.synced = Len(f.recs)
  BY DEF Usable, Reads
<1>2. Readable(f)
  BY ReadableLemma DEF Consistent, Typed
<1> HIDE DEF f
<1>3. Cutoffs(f) = {f} /\ Settled(f) = f
  BY <1>1, SyncedStays, SettledFields
<1>4. Remains(disk.current) \subseteq {f}
  BY <1>3 DEF Remains, f
<1> QED  BY <1>2, <1>4

\* A database that is open, or is being opened, can be opened again after any crash,
\* while no edit of its MANIFEST is being written, unless that is the first one.
THEOREM StaysRecoverable == Spec => []Recoverable
<1>1. Init => Settles
  BY DEF Init, NoDatabase, Empty, Closed, Settles, Certain, Reads
<1>2. Consistent /\ Settles /\ [Next]_vars => Settles'
  <2> SUFFICES ASSUME Consistent, Settles, [Next]_vars  PROVE Settles'
    OBVIOUS
  <2>1. CASE NewDB \/ SetCurrentNew \/ Recover \/ RecoverLogFile \/ OpenFails
               \/ NewManifest \/ SyncManifest \/ SetCurrent \/ Opened
    BY <2>1, OpeningSettles
  <2>2. CASE \/ \E sync \in BOOLEAN : Write(sync)
             \/ SwitchMemTable \/ Acquire \/ ReleaseReader \/ CompactMemTable \/ BeginCompaction
             \/ FinishCompaction \/ Install \/ InstallFails \/ Delete
    BY <2>2, RunningSettles
  <2>3. CASE Crash
    BY <2>3, CrashSettles
  <2>4. CASE RepairDB \/ DestroyDB \/ UNCHANGED vars
    BY <2>4, RestSettles
  <2> QED  BY <2>1, <2>2, <2>3, <2>4 DEF Next
<1>3. Consistent /\ Settles => Recoverable
  <2> SUFFICES ASSUME Consistent, Settles, ~spoilt,
                      db.at \in {"logs", "manifest", "current", "install", "open"}, db.bg # "logged",
                      disk.current # 1 \/ db.at \in {"install", "open"}
               PROVE  disk.current \in DOMAIN disk.manifests
                        /\ \A file \in Remains(disk.current) : Readable(file)
    BY DEF Recoverable
  <2>1. Usable(disk) /\ Reads(disk)
    BY DEF Consistent, NumbersOK, Usable
  <2>2. disk.manifests[disk.current].synced = Len(disk.manifests[disk.current].recs)
    <3>1. CASE db.at = "install"
      BY <3>1, TwoRecords DEF Consistent, NewManifestOK
    <3>2. CASE db.at # "install"
      BY <2>1, <3>2 DEF Settles, Certain
    <3> QED  BY <3>1, <3>2
  <2> QED  BY <2>1, <2>2, SyncedRemains DEF Reads
<1>4. Spec => []Settles
  BY <1>1, <1>2, DatabaseConsistent, PTL DEF Spec
<1> QED  BY <1>3, <1>4, DatabaseConsistent, PTL

\* No table is deleted that the MANIFEST may name after a crash, or that an
\* iterator or the running compaction uses.
THEOREM TablesStay == Spec => []TablesExist
<1>1. Consistent => TablesExist
  <2> SUFFICES ASSUME Consistent, ~spoilt
               PROVE  /\ Named \subseteq DOMAIN disk.tables
                      /\ db.reader \cup db.work.inputs \subseteq DOMAIN disk.tables
                      /\ db.work # NoWork => db.work.out \in DOMAIN disk.tables
    BY DEF TablesExist
  <2>1. Named \subseteq DOMAIN disk.tables
    <3>1. DirType(disk) /\ DiskOK(disk, left.machine, promised, spoilt)
      BY DEF Consistent, Typed
    <3>2. CASE Reads(disk)
      <4>1. Named = Names(disk)
        BY <3>2, NamedLemma DEF Named, Reads
      <4>2. \A v \in Versions(disk.manifests[disk.current]) : v.files \subseteq DOMAIN disk.tables
        BY <3>1, <3>2 DEF DiskOK, ManifestOK, VersionOK
      <4> QED  BY <4>1, <4>2 DEF Names
    <3>3. CASE ~Reads(disk)
      <4> DEFINE f == disk.manifests[disk.current]
      <4>1. disk.current \notin DOMAIN disk.manifests \/ Broken(f)
        BY <3>1, <3>3 DEF DirType, ManifestType, Reads
      <4>2. Broken(f) => {g \in Cutoffs(f) : Whole(g)} = {}
        <5> HIDE DEF f
        <5> QED  BY SyncedStays DEF Broken
      <4> QED  BY <4>1, <4>2 DEF Named
    <3> QED  BY <3>2, <3>3
  <2>2. CASE db.at = "open"
    <3>1. OpenTables /\ WorkOK
      BY <2>2, OpenFacts
    <3>2. db.work = NoWork => db.work.inputs = {}
      BY DEF NoWork
    <3> QED  BY <2>1, <3>1, <3>2 DEF OpenTables, WorkOK
  <2>3. CASE db.at # "open"
    <3>1. db.reader = {} /\ db.work = NoWork
      BY <2>3 DEF Consistent, QuietOK
    <3> QED  BY <2>1, <3>1 DEF NoWork
  <2> QED  BY <2>2, <2>3
<1> QED  BY <1>1, DatabaseConsistent, PTL

\* The next write and the next file get numbers that nothing in the open database
\* has.
THEOREM NumbersStayFresh == Spec => []FreshNumbers
<1>1. Consistent => FreshNumbers
  <2> SUFFICES ASSUME Consistent, db.at = "open"
               PROVE  /\ \A s \in Visible : s <= db.last
                      /\ \A n \in DOMAIN disk.logs \cup Named \cup {db.manifest} : n < db.next
    BY DEF FreshNumbers
  <2>1. NumbersOK /\ OpenNumbers
    BY OpenFacts
  <2>2. Visible = db.mem \cup Imm \cup Held(disk, db.ver.files)
    BY DEF Visible, Imm, Held
  <2>3. \A s \in db.mem \cup Imm : s <= db.last
    BY <2>1 DEF OpenNumbers, Imm
  <2>4. \A s \in Held(disk, db.ver.files) : s <= db.last
    BY <2>1 DEF OpenNumbers, Held, AtMost
  <2>5. \A n \in DOMAIN disk.logs \cup Named \cup {db.manifest} : n < db.next
    BY <2>1 DEF NumbersOK
  <2> QED  BY <2>2, <2>3, <2>4, <2>5
<1> QED  BY <1>1, DatabaseConsistent, PTL

================================================================================
