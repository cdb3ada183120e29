---------------------------- MODULE PartsProofs ----------------------------
(***************************************************************************)
(* Proofs about the parts of MCParts: opening a store (Schema), the types, *)
(* the order of the migrations and the copy a migration leaves behind;     *)
(* prompts (Prompts), deletes that stay and stores that agree; the         *)
(* versions of a memory (History), kept alike on every store; the model    *)
(* (Install), whole or not there; and the instruction file (Setup), with   *)
(* the lines of the person and the block of the agents that read it.       *)
(***************************************************************************)
EXTENDS MCParts, FiniteSetTheorems, SequenceTheorems, WellFoundedInduction, TLAPS

-----------------------------------------------------------------------------
(* The newest of some versions.                                            *)

\* A set of versions that is not empty has a greatest one.
LEMMA Greatest ==
    ASSUME NEW n \in Nat, NEW T \in SUBSET (0..n), T # {}
    PROVE  \E m \in T : \A u \in T : u <= m
<1> DEFINE D == {n - u : u \in T}
           Less == OpToRel(<, Nat)
<1>1. PICK t \in T : TRUE
  OBVIOUS
<1>2. D \in SUBSET Nat /\ n - t \in D
  OBVIOUS
<1>3. PICK d \in D : \A e \in D : ~ (<<e, d>> \in Less)
  <2>1. IsWellFoundedOn(Less, Nat)
    BY NatLessThanWellFounded
  <2> HIDE DEF D, Less
  <2> QED BY <1>2, <2>1, WFMin
<1>4. PICK m \in T : d = n - m
  OBVIOUS
<1>5. ASSUME NEW u \in T PROVE u <= m
  <2>1. n - u \in D
    OBVIOUS
  <2>2. ~ (n - u < d)
    BY <2>1, <1>2, <1>3 DEF OpToRel
  <2> QED BY <2>2, <1>4
<1> QED BY <1>5

\* The versions newer than v that have a copy.
Above(copies, v) == {u \in Version : u > v /\ copies[u] # None}

LEMMA AboveIsFinite ==
    ASSUME NEW copies, NEW v
    PROVE  IsFiniteSet(Above(copies, v)) /\ Cardinality(Above(copies, v)) \in Nat
<1>1. IsFiniteSet(Version)
  BY FS_Interval, VersionAssumption DEF Version
<1>2. Above(copies, v) \in SUBSET Version
  BY DEF Above
<1> QED BY <1>1, <1>2, FS_Subset, FS_CardinalityType

\* More copies, more of them newer.
LEMMA AboveGrows ==
    ASSUME NEW c, NEW d, NEW v,
           \A u \in Version : u > v /\ c[u] # None => d[u] # None
    PROVE  Cardinality(Above(c, v)) <= Cardinality(Above(d, v))
<1>1. Above(c, v) \in SUBSET Above(d, v)
  BY DEF Above
<1> QED BY <1>1, AboveIsFinite, FS_Subset

\* Pruning leaves the newest: a version that had Kept newer copies has them
\* still.
LEMMA PrunedKeepsNewest ==
    ASSUME NEW c, NEW v \in Version, Cardinality(Above(c, v)) >= Kept
    PROVE  Cardinality(Above(Pruned(c), v)) >= Kept
<1> DEFINE P == Above(Pruned(c), v)
           T == Above(c, v)
<1>0. \A u \in Version : Pruned(c)[u] = IF Cardinality(Above(c, u)) >= Kept THEN None ELSE c[u]
  BY DEF Pruned, Above
<1>1. P \subseteq T
  BY <1>0 DEF Above
<1>2. SUFFICES ASSUME Cardinality(P) < Kept PROVE FALSE
  BY AboveIsFinite, BoundAssumption
<1>3. T \ P # {}
  <2>1. Cardinality(P) \in Nat /\ Cardinality(P) # Cardinality(T)
    BY <1>2, AboveIsFinite, BoundAssumption
  <2> HIDE DEF P, T
  <2> QED BY <1>1, <2>1
<1>4. T \ P \in SUBSET (0..Newest) /\ Newest \in Nat
  BY VersionAssumption DEF Above, Version
<1>5. PICK m \in T \ P : \A u \in T \ P : u <= m
  <2> HIDE DEF T, P
  <2> QED BY <1>3, <1>4, Greatest
<1>6. m \in Version /\ m > v /\ c[m] # None /\ v \in Nat /\ m \in Nat
  BY <1>5 DEF Above, Version
<1>7. Above(c, m) \subseteq P
  <2> SUFFICES ASSUME NEW u \in Above(c, m) PROVE u \in P
    OBVIOUS
  <2>1. u \in Version /\ u > m /\ c[u] # None /\ u \in Nat
    BY DEF Above, Version
  <2>2. u \in T
    BY <2>1, <1>6 DEF Above
  <2> QED BY <2>1, <2>2, <1>5, <1>6
<1>8. Cardinality(Above(c, m)) <= Cardinality(P)
  BY <1>7, AboveIsFinite, FS_Subset
<1>9. Pruned(c)[m] = c[m]
  BY <1>0, <1>2, <1>6, <1>8, AboveIsFinite, BoundAssumption
<1>10. m \in P
  BY <1>6, <1>9 DEF Above
<1> QED BY <1>5, <1>10

-----------------------------------------------------------------------------
(* The invariant.                                                          *)

\* The migrations were run above the versions that were spent.
Stamped == applied # <<>> => stamp > Released

\* No process has seen a version newer than the file's.
Known == \A p \in Proc : seen[p] <= stamp

\* A copy with the name of the file's version, or a later one, is one of
\* that version: a name lags behind only when the file went on.
Named ==
    \A v \in Version :
        v >= stamp /\ copy[v] # None =>
            copy[v].at = v /\ (copy[v].whole \/ cuts > 0)

\* Who is about to migrate the file it found has its copy.
Copied ==
    \A p \in Proc :
        pc[p] = "migrate" /\ seen[p] = stamp /\ 0 < stamp /\ stamp < supports[p] =>
            CopyStands(stamp)

IInv == TypeOK /\ EachMigrationOnce /\ Stamped /\ Known /\ Named /\ Copied

LEMMA InitInv ==
    ASSUME Init
    PROVE  IInv
<1>1. TypeOK
  BY VersionAssumption, BoundAssumption DEF Init, TypeOK, Version, Build, Copy, Stage
<1>2. EachMigrationOnce /\ Stamped
  BY DEF Init, EachMigrationOnce, Stamped
<1>3. Known
  BY <1>1 DEF Init, Known, TypeOK, Version
<1>4. Named
  BY DEF Init, Named
<1>5. Copied
  BY DEF Init, Copied
<1> QED BY <1>1, <1>2, <1>3, <1>4, <1>5 DEF IInv

-----------------------------------------------------------------------------
(* The steps.                                                              *)

\* Whatever a process does to its copies and not to the file.
FileKept == UNCHANGED file /\ UNCHANGED seen

LEMMA FileKeptOrder ==
    ASSUME EachMigrationOnce, Stamped, Known, FileKept
    PROVE  EachMigrationOnce' /\ Stamped' /\ Known'
BY DEF EachMigrationOnce, Stamped, Known, FileKept, file

\* A step that leaves file and copies alone and puts no process before a
\* migration leaves the copies as they are wanted.
LEMMA CopiesKept ==
    ASSUME Named, Copied, UNCHANGED file, UNCHANGED copy, cuts' \in {cuts, cuts + 1},
           cuts \in Nat,
           \A p \in Proc : pc'[p] = "migrate" =>
               pc[p] = "migrate" /\ seen'[p] = seen[p] /\ supports'[p] = supports[p]
    PROVE  Named' /\ Copied'
<1>1. stamp' = stamp /\ copy' = copy
  BY DEF file
<1>2. cuts > 0 => cuts' > 0
  OBVIOUS
<1>3. Named'
  BY <1>1, <1>2 DEF Named, Version
<1>4. CopyStands(stamp) => CopyStands(stamp)'
  BY <1>1, <1>2 DEF CopyStands, Version
<1>5. Copied'
  BY <1>1, <1>4 DEF Copied
<1> QED BY <1>3, <1>5

LEMMA ReadVersionInv ==
    ASSUME IInv, NEW p \in Proc, ReadVersion(p)
    PROVE  IInv'
<1>1. TypeOK'
  BY DEF IInv, TypeOK, ReadVersion, Goes, Stage, file
<1>2. EachMigrationOnce' /\ Stamped'
  BY DEF IInv, EachMigrationOnce, Stamped, ReadVersion, file
<1>3. Known'
  BY DEF IInv, TypeOK, Version, Known, ReadVersion, file
<1>4. Named' /\ Copied'
  <2>1. \A q \in Proc : pc'[q] = "migrate" =>
            pc[q] = "migrate" /\ seen'[q] = seen[q] /\ supports'[q] = supports[q]
    BY DEF IInv, TypeOK, ReadVersion, Goes
  <2> QED BY <2>1, CopiesKept DEF IInv, TypeOK, ReadVersion
<1> QED BY <1>1, <1>2, <1>3, <1>4 DEF IInv

\* The processes that want no copy or find one.
LEMMA SkipCopyInv ==
    ASSUME IInv, NEW p \in Proc, SkipCopy(p)
    PROVE  IInv'
<1>0. UNCHANGED <<ours, stamp, applied, copy, supports, seen, cuts>>
  BY DEF SkipCopy, file
<1>1. TypeOK'
  BY <1>0 DEF IInv, TypeOK, SkipCopy, Goes, Stage
<1>2. EachMigrationOnce' /\ Stamped' /\ Known'
  BY <1>0, FileKeptOrder DEF IInv, FileKept, file
<1>3. Named'
  BY <1>0 DEF IInv, Named, Version
<1>4. Copied'
  <2> SUFFICES ASSUME NEW q \in Proc, pc'[q] = "migrate", seen[q] = stamp,
                      0 < stamp, stamp < supports[q]
               PROVE  CopyStands(stamp)
    BY <1>0 DEF Copied, CopyStands, Version
  <2>1. CASE q # p
    BY <2>1 DEF IInv, TypeOK, Copied, SkipCopy, Goes
  <2>2. CASE q = p
    <3>1. ~Worthless(p)
      BY <2>2 DEF Worthless, IInv, TypeOK, Version, Build
    <3>2. copy[stamp] # None /\ stamp \in Version /\ stamp \in Nat
      BY <2>2, <3>1 DEF SkipCopy, IInv, TypeOK, Version
    <3> QED BY <3>2 DEF IInv, Named, CopyStands
  <2> QED BY <2>1, <2>2
<1> QED BY <1>1, <1>2, <1>3, <1>4 DEF IInv

LEMMA WantCopyInv ==
    ASSUME IInv, NEW p \in Proc, WantCopy(p)
    PROVE  IInv'
<1>0. UNCHANGED <<ours, stamp, applied, copy, supports, seen, cuts>>
  BY DEF WantCopy, file
<1>1. TypeOK'
  BY <1>0 DEF IInv, TypeOK, WantCopy, Goes, Stage
<1>2. EachMigrationOnce' /\ Stamped' /\ Known'
  BY <1>0, FileKeptOrder DEF IInv, FileKept, file
<1>3. Named' /\ Copied'
  <2>1. \A q \in Proc : pc'[q] = "migrate" => pc[q] = "migrate"
    BY DEF IInv, TypeOK, WantCopy, Goes
  <2> QED BY <1>0, <2>1, CopiesKept DEF IInv, TypeOK, file
<1> QED BY <1>1, <1>2, <1>3 DEF IInv

\* The copies with one more, of what p saw.
Added(p, c) == [copy EXCEPT ![seen[p]] = c]

\* A copy of the file, whole or not, is added: what is named right stays so.
LEMMA CopyAdded ==
    ASSUME IInv, NEW p \in Proc, copy[seen[p]] = None,
           NEW c \in Copy, c.at = stamp
    PROVE  /\ Added(p, c) \in [Version -> Copy \cup {None}]
           /\ \A v \in Version : v >= stamp /\ Added(p, c)[v] # None =>
                  \/ v = seen[p] /\ Added(p, c)[v] = c /\ c.at = v
                  \/ /\ Added(p, c)[v] = copy[v]
                     /\ Added(p, c)[v].at = v /\ (Added(p, c)[v].whole \/ cuts > 0)
           /\ \A v \in Version : copy[v] # None => Added(p, c)[v] = copy[v]
<1>1. seen[p] \in Version /\ stamp \in Version /\ seen[p] <= stamp
  BY DEF Added, IInv, TypeOK, Known
<1>2. Added(p, c) \in [Version -> Copy \cup {None}]
  BY <1>1 DEF Added, IInv, TypeOK
<1>3. ASSUME NEW v \in Version, v >= stamp, Added(p, c)[v] # None
      PROVE  \/ v = seen[p] /\ Added(p, c)[v] = c /\ c.at = v
             \/ /\ Added(p, c)[v] = copy[v]
                /\ Added(p, c)[v].at = v /\ (Added(p, c)[v].whole \/ cuts > 0)
  <2>1. CASE v = seen[p]
    <3>1. Added(p, c)[v] = c
      BY <2>1, <1>1 DEF Added, IInv, TypeOK
    <3>2. v = stamp
      BY <2>1, <1>1, <1>3, VersionAssumption DEF Version
    <3> QED BY <2>1, <3>1, <3>2
  <2>2. CASE v # seen[p]
    <3>1. Added(p, c)[v] = copy[v]
      BY <2>2, <1>1 DEF Added, IInv, TypeOK
    <3> QED BY <3>1, <1>3 DEF IInv, Named
  <2> QED BY <2>1, <2>2
<1>4. \A v \in Version : copy[v] # None => Added(p, c)[v] = copy[v]
  BY <1>1 DEF Added, IInv, TypeOK
<1> QED BY <1>2, <1>3, <1>4

LEMMA MakeCopyInv ==
    ASSUME IInv, NEW p \in Proc, MakeCopy(p)
    PROVE  IInv'
<1>c. PICK c \in Copy : c = [at |-> stamp, whole |-> TRUE]
  BY DEF IInv, TypeOK, Copy
<1> DEFINE d == Added(p, c)
<1>0. UNCHANGED <<ours, stamp, applied, supports, seen, cuts>>
  BY DEF MakeCopy, file
<1>a. copy' = Pruned(d) /\ copy[seen[p]] = None
  BY <1>c DEF MakeCopy, Added
<1>b. /\ d \in [Version -> Copy \cup {None}]
      /\ \A v \in Version : v >= stamp /\ d[v] # None =>
             \/ v = seen[p] /\ d[v] = c /\ c.at = v
             \/ d[v] = copy[v] /\ d[v].at = v /\ (d[v].whole \/ cuts > 0)
      /\ \A v \in Version : copy[v] # None => d[v] = copy[v]
  <2>1. c.at = stamp
    BY <1>c
  <2>2. /\ Added(p, c) \in [Version -> Copy \cup {None}]
        /\ \A v \in Version : v >= stamp /\ Added(p, c)[v] # None =>
               \/ v = seen[p] /\ Added(p, c)[v] = c /\ c.at = v
               \/ /\ Added(p, c)[v] = copy[v]
                  /\ Added(p, c)[v].at = v /\ (Added(p, c)[v].whole \/ cuts > 0)
        /\ \A v \in Version : copy[v] # None => Added(p, c)[v] = copy[v]
    BY <1>a, <2>1, CopyAdded
  <2> QED BY <2>2, Zenon
<1>e. /\ Pruned(d) \in [Version -> Copy \cup {None}]
      /\ \A v \in Version : Pruned(d)[v] =
             IF Cardinality(Above(d, v)) >= Kept THEN None ELSE d[v]
  BY <1>b DEF Pruned, Above
<1>f. \A v \in Version : v >= stamp /\ d[v] # None =>
           d[v].at = v /\ (d[v].whole \/ cuts' > 0)
  <2>1. c.whole
    BY <1>c
  <2> HIDE DEF d
  <2> QED BY <1>0, <1>b, <2>1
<1>1. TypeOK'
  <2>1. copy' \in [Version -> Copy \cup {None}]
    BY <1>a, <1>e
  <2> QED BY <2>1, <1>0 DEF IInv, TypeOK, MakeCopy, Goes, Stage
<1>2. EachMigrationOnce' /\ Stamped' /\ Known'
  BY <1>0, FileKeptOrder DEF IInv, FileKept, file
<1>3. Named'
  <2> SUFFICES ASSUME NEW v \in Version, v >= stamp, copy'[v] # None
               PROVE  copy'[v].at = v /\ (copy'[v].whole \/ cuts' > 0)
    BY <1>0 DEF Named, Version
  <2>1. copy'[v] = d[v]
    BY <1>a, <1>e
  <2> HIDE DEF d
  <2> QED BY <1>f, <2>1
<1>4. Copied'
  <2> SUFFICES ASSUME NEW q \in Proc, pc'[q] = "migrate", seen[q] = stamp,
                      0 < stamp, stamp < supports[q]
               PROVE  CopyStands(stamp)'
    BY <1>0 DEF Copied
  <2>0. stamp \in Version
    BY DEF IInv, TypeOK
  <2>1. d[stamp] # None \/ Cardinality(Above(d, stamp)) >= Kept
    <3>1. CASE q # p
      <4>1. CopyStands(stamp)
        BY <3>1 DEF IInv, TypeOK, Copied, MakeCopy, Goes
      <4>2. CASE copy[stamp] # None
        BY <4>2, <2>0, <1>b
      <4>3. CASE Cardinality(Above(copy, stamp)) >= Kept
        <5>1. Cardinality(Above(copy, stamp)) <= Cardinality(Above(d, stamp))
          BY <1>b, AboveGrows
        <5> QED BY <4>3, <5>1, AboveIsFinite, BoundAssumption
      <4> QED BY <4>1, <4>2, <4>3 DEF CopyStands, Above
    <3>2. CASE q = p
      <4>1. d[stamp] = c
        BY <3>2, <2>0 DEF Added, IInv, TypeOK
      <4> QED BY <4>1, NoCopyAssumption
    <3> QED BY <3>1, <3>2
  <2>2. CASE Cardinality(Above(d, stamp)) >= Kept
    <3>1. Cardinality(Above(copy', stamp)) >= Kept
      BY <2>0, <2>2, <1>a, PrunedKeepsNewest
    <3> QED BY <3>1, <1>0 DEF CopyStands, Above
  <2>3. CASE ~ (Cardinality(Above(d, stamp)) >= Kept) /\ d[stamp] # None
    <3>1. copy'[stamp] = d[stamp]
      BY <2>0, <2>3, <1>a, <1>e
    <3>2. stamp >= stamp
      BY <2>0, VersionAssumption DEF Version
    <3> HIDE DEF d
    <3>3. copy'[stamp].at = stamp /\ (copy'[stamp].whole \/ cuts' > 0)
      BY <2>0, <2>3, <3>1, <3>2, <1>f
    <3> QED BY <3>1, <3>3, <2>3, <1>0 DEF CopyStands
  <2> QED BY <2>1, <2>2, <2>3
<1> QED BY <1>1, <1>2, <1>3, <1>4 DEF IInv

LEMMA CopyRefusedInv ==
    ASSUME IInv, NEW p \in Proc, CopyRefused(p)
    PROVE  IInv'
<1>0. UNCHANGED <<ours, stamp, applied, copy, supports, seen, cuts>>
  BY DEF CopyRefused, file
<1>1. TypeOK'
  BY <1>0 DEF IInv, TypeOK, CopyRefused, Goes, Stage
<1>2. EachMigrationOnce' /\ Stamped' /\ Known'
  BY <1>0, FileKeptOrder DEF IInv, FileKept, file
<1>3. Named' /\ Copied'
  <2>1. \A q \in Proc : pc'[q] = "migrate" => pc[q] = "migrate"
    BY DEF IInv, TypeOK, CopyRefused, Goes
  <2> QED BY <1>0, <2>1, CopiesKept DEF IInv, TypeOK, file
<1> QED BY <1>1, <1>2, <1>3 DEF IInv

LEMMA CutOffInv ==
    ASSUME IInv, NEW p \in Proc, CutOff(p)
    PROVE  IInv'
<1>c. PICK c \in Copy : c = [at |-> stamp, whole |-> FALSE]
  BY DEF IInv, TypeOK, Copy
<1> DEFINE d == Added(p, c)
<1>0. UNCHANGED <<ours, stamp, applied, supports, seen>> /\ cuts \in Nat /\ cuts' = cuts + 1
  BY DEF CutOff, file, IInv, TypeOK
<1>a. copy' = d /\ copy[seen[p]] = None
  BY <1>c DEF CutOff, Added
<1>b. /\ d \in [Version -> Copy \cup {None}]
      /\ \A v \in Version : v >= stamp /\ d[v] # None =>
             \/ v = seen[p] /\ d[v] = c /\ c.at = v
             \/ d[v] = copy[v] /\ d[v].at = v /\ (d[v].whole \/ cuts > 0)
      /\ \A v \in Version : copy[v] # None => d[v] = copy[v]
  <2>1. c.at = stamp
    BY <1>c
  <2>2. /\ Added(p, c) \in [Version -> Copy \cup {None}]
        /\ \A v \in Version : v >= stamp /\ Added(p, c)[v] # None =>
               \/ v = seen[p] /\ Added(p, c)[v] = c /\ c.at = v
               \/ /\ Added(p, c)[v] = copy[v]
                  /\ Added(p, c)[v].at = v /\ (Added(p, c)[v].whole \/ cuts > 0)
        /\ \A v \in Version : copy[v] # None => Added(p, c)[v] = copy[v]
    BY <1>a, <2>1, CopyAdded
  <2> QED BY <2>2, Zenon
<1>f. \A v \in Version : v >= stamp /\ d[v] # None =>
           d[v].at = v /\ (d[v].whole \/ cuts' > 0)
  <2>1. cuts' > 0
    BY <1>0
  <2> HIDE DEF d
  <2> QED BY <1>b, <2>1
<1>1. TypeOK'
  <2>1. copy' \in [Version -> Copy \cup {None}]
    BY <1>a, <1>b
  <2>2. cuts' \in 0..MaxCuts
    BY <1>0, BoundAssumption DEF CutOff
  <2> QED BY <2>1, <2>2, <1>0 DEF IInv, TypeOK, CutOff, Goes, Stage
<1>2. EachMigrationOnce' /\ Stamped' /\ Known'
  BY <1>0, FileKeptOrder DEF IInv, FileKept, file
<1>3. Named'
  BY <1>0, <1>a, <1>f DEF Named, Version
<1>4. Copied'
  <2> SUFFICES ASSUME NEW q \in Proc, pc'[q] = "migrate", seen[q] = stamp,
                      0 < stamp, stamp < supports[q]
               PROVE  CopyStands(stamp)'
    BY <1>0 DEF Copied
  <2>0. stamp \in Version
    BY DEF IInv, TypeOK
  <2>1. CopyStands(stamp)
    BY DEF IInv, TypeOK, Copied, CutOff, Goes
  <2>2. CASE copy[stamp] # None
    <3>1. copy'[stamp] = copy[stamp]
      BY <2>0, <2>2, <1>a, <1>b
    <3>2. copy[stamp].at = stamp
      BY <2>0, <2>2, VersionAssumption DEF IInv, Named, Version
    <3> QED BY <1>0, <2>2, <3>1, <3>2 DEF CopyStands
  <2>3. CASE Cardinality(Above(copy, stamp)) >= Kept
    <3>1. Cardinality(Above(copy, stamp)) <= Cardinality(Above(copy', stamp))
      BY <1>a, <1>b, AboveGrows
    <3>2. Cardinality(Above(copy', stamp)) >= Kept
      BY <2>3, <3>1, AboveIsFinite, BoundAssumption
    <3> QED BY <3>2, <1>0 DEF CopyStands, Above
  <2> QED BY <2>1, <2>2, <2>3 DEF CopyStands, Above
<1> QED BY <1>1, <1>2, <1>3, <1>4 DEF IInv

LEMMA SequenceOf ==
    ASSUME NEW S, NEW T, NEW s \in Seq(S), \A i \in 1..Len(s) : s[i] \in T
    PROVE  s \in Seq(T)
<1>1. Len(s) \in Nat /\ s = [i \in 1..Len(s) |-> s[i]]
  OBVIOUS
<1>2. [i \in 1..Len(s) |-> s[i]] \in [1..Len(s) -> T]
  OBVIOUS
<1> QED BY <1>1, <1>2

LEMMA ElementOf ==
    ASSUME NEW S, NEW s \in Seq(S), NEW i \in 1..Len(s)
    PROVE  s[i] \in S
OBVIOUS

Increasing(s) == \A i, j \in 1..Len(s) : i < j => s[i] < s[j]

\* The migrations from one version to another, after earlier ones.
LEMMA AscendingExtends ==
    ASSUME NEW from \in Nat, NEW to \in Nat, from <= to,
           NEW a \in Seq(1..to), Increasing(a), \A i \in 1..Len(a) : a[i] <= from
    PROVE  /\ a \o Ascending(from, to) \in Seq(1..to)
           /\ Increasing(a \o Ascending(from, to))
           /\ Len(a \o Ascending(from, to)) = Len(a) + (to - from)
           /\ from < to => (a \o Ascending(from, to))[Len(a) + (to - from)] = to
<1> DEFINE s == Ascending(from, to)
           t == a \o s
<1>1. s \in [1..(to - from) -> 1..to] /\ \A i \in 1..(to - from) : s[i] = from + i
  BY DEF Ascending
<1>2. s \in Seq(1..to) /\ Len(s) = to - from
  BY <1>1
<1> HIDE DEF s
<1>3. /\ t \in Seq(1..to)
      /\ Len(t) = Len(a) + (to - from)
      /\ \A i \in 1..Len(t) : t[i] = IF i <= Len(a) THEN a[i] ELSE s[i - Len(a)]
  <2>1. t \in Seq(1..to)
    BY <1>2
  <2>2. Len(t) = Len(a) + Len(s)
    BY <1>2
  <2>3. \A i \in 1..Len(t) : t[i] = IF i <= Len(a) THEN a[i] ELSE s[i - Len(a)]
    BY <1>2, <2>2
  <2> QED BY <1>2, <2>1, <2>2, <2>3
<1>4. ASSUME NEW i \in 1..Len(t), i > Len(a) PROVE t[i] = from + (i - Len(a))
  <2>1. i - Len(a) \in 1..(to - from)
    BY <1>3, <1>4
  <2> QED BY <1>1, <1>3, <1>4, <2>1
<1>5. Increasing(t)
  <2> SUFFICES ASSUME NEW i \in 1..Len(t), NEW j \in 1..Len(t), i < j
               PROVE  t[i] < t[j]
    BY DEF Increasing
  <2>1. CASE j <= Len(a)
    <3>1. i \in 1..Len(a) /\ j \in 1..Len(a)
      BY <2>1, <1>3
    <3> QED BY <3>1, <1>3 DEF Increasing
  <2>2. CASE i <= Len(a) /\ j > Len(a)
    <3>1. t[i] = a[i] /\ i \in 1..Len(a) /\ a[i] \in Nat
      BY <2>2, <1>3
    <3>2. t[j] = from + (j - Len(a))
      BY <2>2, <1>4
    <3> QED BY <2>2, <3>1, <3>2
  <2>3. CASE i > Len(a) /\ j > Len(a)
    BY <2>3, <1>4
  <2> QED BY <2>1, <2>2, <2>3
<1>6. from < to => t[Len(a) + (to - from)] = to
  <2> SUFFICES ASSUME from < to PROVE t[Len(a) + (to - from)] = to
    OBVIOUS
  <2>1. Len(a) \in Nat /\ Len(a) + (to - from) \in 1..Len(t) /\ Len(a) + (to - from) > Len(a)
    BY <1>3
  <2>2. t[Len(a) + (to - from)] = from + (Len(a) + (to - from) - Len(a))
    BY <2>1, <1>4
  <2> HIDE DEF t
  <2> QED BY <2>1, <2>2
<1>7. s = Ascending(from, to)
  BY DEF s
<1> QED BY <1>3, <1>5, <1>6, <1>7

\* A migration that is not refused.
Migrated(p) ==
    /\ ~Refuses(p)
    /\ applied' = applied \o (IF stamp = 0 THEN <<1>> ELSE <<>>) \o Due(p)
    /\ stamp' = supports[p]

LEMMA MigratedInOrder ==
    ASSUME IInv, NEW p \in Proc, Migrated(p)
    PROVE  /\ applied' \in Seq(1..Newest)
           /\ EachMigrationOnce' /\ Stamped'
           /\ stamp' \in Version /\ stamp <= stamp'
<1> DEFINE n == supports[p]
           from == IF stamp <= Released THEN Released ELSE stamp
<1>1. /\ n \in Nat /\ Released < n /\ n <= Newest /\ stamp \in Nat /\ stamp <= n
      /\ Released \in Nat /\ Newest \in Nat /\ Released >= 1
  BY VersionAssumption DEF IInv, TypeOK, Build, Version, Migrated, Refuses
<1>2. from \in Nat /\ from <= n /\ stamp <= from /\ 1 <= from
  BY <1>1
<1>3. Due(p) = Ascending(from, n)
  BY DEF Due
<1> DEFINE a == applied \o (IF stamp = 0 THEN <<1>> ELSE <<>>)
<1>4. /\ a \in Seq(1..n)
      /\ Increasing(a)
      /\ \A i \in 1..Len(a) : a[i] <= from
      /\ from = n => a = <<>> \/ a[Len(a)] = n
  <2>1. CASE applied # <<>>
    <3>1. stamp > Released /\ stamp # 0 /\ from = stamp
      BY <2>1, <1>1 DEF IInv, Stamped
    <3>2. a = applied /\ applied \in Seq(1..Newest) /\ Len(applied) \in Nat /\ Len(applied) > 0
      BY <2>1, <3>1 DEF IInv, TypeOK
    <3>3. applied[Len(applied)] = stamp
      BY <2>1 DEF IInv, EachMigrationOnce
    <3>4. \A i \in 1..Len(applied) : applied[i] \in 1..Newest /\ applied[i] <= stamp
      <4> SUFFICES ASSUME NEW i \in 1..Len(applied)
                   PROVE  applied[i] \in 1..Newest /\ applied[i] <= stamp
        OBVIOUS
      <4>1. applied[i] \in 1..Newest
        BY <3>2, ElementOf
      <4>2. i < Len(applied) => applied[i] < applied[Len(applied)]
        BY <3>2 DEF IInv, EachMigrationOnce
      <4> QED BY <1>1, <3>2, <3>3, <4>1, <4>2
    <3>5. applied \in Seq(1..n)
      <4>1. \A i \in 1..Len(applied) : applied[i] \in 1..n
        BY <1>1, <3>4
      <4> QED BY <3>2, <4>1, SequenceOf
    <3>6. Increasing(applied)
      BY DEF IInv, EachMigrationOnce, Increasing
    <3> HIDE DEF a, from, n
    <3> QED BY <3>1, <3>2, <3>3, <3>4, <3>5, <3>6
  <2>2. CASE applied = <<>>
    <3>1. CASE stamp = 0
      <4>1. a = <<1>>
        BY <2>2, <3>1
      <4>2. from = Released /\ from # n
        BY <1>1, <3>1
      <4> HIDE DEF a, from, n
      <4> QED BY <1>1, <1>2, <4>1, <4>2 DEF Increasing
    <3>2. CASE stamp # 0
      <4>1. a = <<>>
        BY <2>2, <3>2
      <4> HIDE DEF a, from, n
      <4> QED BY <4>1 DEF Increasing
    <3> QED BY <3>1, <3>2
  <2> QED BY <2>1, <2>2
<1>5. applied' = a \o Ascending(from, n)
  BY <1>3 DEF Migrated
<1>a. stamp' = n
  BY DEF Migrated
<1> HIDE DEF a, from, n
<1>6. /\ a \o Ascending(from, n) \in Seq(1..n)
      /\ Increasing(a \o Ascending(from, n))
      /\ Len(a \o Ascending(from, n)) = Len(a) + (n - from)
      /\ from < n => (a \o Ascending(from, n))[Len(a) + (n - from)] = n
  BY <1>1, <1>2, <1>4, AscendingExtends
<1>7. applied' \in Seq(1..Newest)
  <2>1. 1..n \subseteq 1..Newest
    BY <1>1
  <2>2. applied' \in Seq(1..n)
    BY <1>5, <1>6
  <2>3. \A i \in 1..Len(applied') : applied'[i] \in 1..Newest
    BY <2>1, <2>2, ElementOf
  <2> QED BY <2>2, <2>3, SequenceOf
<1>8. applied' # <<>> => applied'[Len(applied')] = n
  <2>1. CASE from < n
    BY <2>1, <1>5, <1>6
  <2>2. CASE from = n
    <3>1. Ascending(from, n) = <<>>
      BY <2>2, <1>1 DEF Ascending
    <3>2. applied' = a
      BY <3>1, <1>4, <1>5
    <3> QED BY <2>2, <3>2, <1>4
  <2> QED BY <1>1, <1>2, <2>1, <2>2
<1>9. EachMigrationOnce' /\ Stamped'
  BY <1>1, <1>5, <1>6, <1>8, <1>a DEF EachMigrationOnce, Stamped, Increasing
<1> QED BY <1>1, <1>7, <1>9, <1>a DEF Version

LEMMA MigrateInv ==
    ASSUME IInv, NEW p \in Proc, Migrate(p)
    PROVE  IInv'
<1>0. UNCHANGED <<ours, copy, supports, seen, cuts>>
  BY DEF Migrate, file
<1>a. \A q \in Proc : pc'[q] = "migrate" => pc[q] = "migrate"
  BY DEF IInv, TypeOK, Migrate, Goes
<1>b. pc' \in [Proc -> Stage]
  BY DEF IInv, TypeOK, Migrate, Goes, Stage
<1>1. CASE Refuses(p)
  <2>0. UNCHANGED file
    BY <1>1 DEF Migrate
  <2>1. TypeOK'
    BY <1>0, <1>b, <2>0 DEF IInv, TypeOK, file
  <2>2. EachMigrationOnce' /\ Stamped' /\ Known'
    BY <1>0, <2>0, FileKeptOrder DEF IInv, FileKept
  <2>3. Named' /\ Copied'
    BY <1>0, <1>a, <2>0, CopiesKept DEF IInv, TypeOK
  <2> QED BY <2>1, <2>2, <2>3 DEF IInv
<1>2. CASE ~Refuses(p)
  <2>1. Migrated(p)
    BY <1>2 DEF Migrate, Migrated
  <2>2. /\ applied' \in Seq(1..Newest)
        /\ EachMigrationOnce' /\ Stamped'
        /\ stamp' \in Version /\ stamp <= stamp'
    BY <2>1, MigratedInOrder
  <2>3. TypeOK'
    BY <1>0, <1>b, <2>2 DEF IInv, TypeOK
  <2>a. stamp \in Nat /\ stamp' \in Nat /\ Version \subseteq Nat
        /\ \A q \in Proc : seen[q] \in Nat
    BY <2>2 DEF IInv, TypeOK, Version
  <2>4. Known'
    BY <1>0, <2>2, <2>a DEF IInv, Known
  <2>5. Named'
    BY <1>0, <2>2, <2>a DEF IInv, Named
  <2>6. Copied'
    <3> SUFFICES ASSUME NEW q \in Proc, pc'[q] = "migrate", seen[q] = stamp',
                        0 < stamp', stamp' < supports[q]
                 PROVE  CopyStands(stamp)'
      BY <1>0 DEF Copied
    <3>1. stamp' = stamp
      BY <2>2, <2>a DEF IInv, Known
    <3>2. CopyStands(stamp)
      BY <1>a, <3>1 DEF IInv, Copied
    <3> QED BY <1>0, <3>1, <3>2 DEF CopyStands, Version
  <2> QED BY <2>2, <2>3, <2>4, <2>5, <2>6 DEF IInv
<1> QED BY <1>1, <1>2

LEMMA MigrateFailsInv ==
    ASSUME IInv, NEW p \in Proc, MigrateFails(p)
    PROVE  IInv'
<1>0. UNCHANGED <<ours, stamp, applied, copy, supports, seen>> /\ cuts' = cuts + 1
  BY DEF MigrateFails, file
<1>a. cuts \in Nat /\ cuts' \in 0..MaxCuts
  BY <1>0, BoundAssumption DEF MigrateFails, IInv, TypeOK
<1>1. TypeOK'
  BY <1>0, <1>a DEF IInv, TypeOK, MigrateFails, Goes, Stage
<1>2. EachMigrationOnce' /\ Stamped' /\ Known'
  BY <1>0, FileKeptOrder DEF IInv, FileKept, file
<1>3. Named' /\ Copied'
  <2>1. \A q \in Proc : pc'[q] = "migrate" => pc[q] = "migrate"
    BY DEF IInv, TypeOK, MigrateFails, Goes
  <2> QED BY <1>0, <1>a, <2>1, CopiesKept DEF IInv, file
<1> QED BY <1>1, <1>2, <1>3 DEF IInv

LEMMA EndsInv ==
    ASSUME IInv, NEW p \in Proc, Ends(p)
    PROVE  IInv'
<1>0. UNCHANGED <<ours, stamp, applied, copy, seen, cuts>>
  BY DEF Ends, file
<1>1. TypeOK'
  <2>1. supports' \in [Proc -> Build]
    BY DEF IInv, TypeOK, Ends
  <2>2. pc' \in [Proc -> Stage]
    BY DEF IInv, TypeOK, Ends, Goes, Stage
  <2> QED BY <1>0, <2>1, <2>2 DEF IInv, TypeOK
<1>2. EachMigrationOnce' /\ Stamped' /\ Known'
  BY <1>0, FileKeptOrder DEF IInv, FileKept, file
<1>3. Named' /\ Copied'
  <2>1. \A q \in Proc : pc'[q] = "migrate" =>
            pc[q] = "migrate" /\ seen'[q] = seen[q] /\ supports'[q] = supports[q]
    <3> SUFFICES ASSUME NEW q \in Proc, pc'[q] = "migrate"
                 PROVE  pc[q] = "migrate" /\ seen'[q] = seen[q] /\ supports'[q] = supports[q]
      OBVIOUS
    <3>1. q # p /\ pc'[q] = pc[q]
      BY DEF IInv, TypeOK, Ends, Goes
    <3> QED BY <1>0, <3>1 DEF IInv, TypeOK, Ends
  <2> QED BY <1>0, <2>1, CopiesKept DEF IInv, TypeOK, file
<1> QED BY <1>1, <1>2, <1>3 DEF IInv

\* Every step keeps the invariant.
LEMMA NextInv ==
    ASSUME IInv, [Next]_vars
    PROVE  IInv'
<1>1. CASE Next
  BY <1>1, ReadVersionInv, SkipCopyInv, WantCopyInv, MakeCopyInv, CopyRefusedInv, CutOffInv,
     MigrateInv, MigrateFailsInv, EndsInv DEF Next
<1>2. CASE UNCHANGED vars
  BY <1>2 DEF vars, file, process, IInv, TypeOK, EachMigrationOnce, Stamped, Known, Named,
     Copied, CopyStands, Version
<1> QED BY <1>1, <1>2

-----------------------------------------------------------------------------
(* The theorems.                                                           *)

LEMMA Invariance ==
    Spec => []IInv
<1>1. Init => IInv
  BY InitInv
<1>2. IInv /\ [Next]_vars => IInv'
  BY NextInv
<1> QED BY <1>1, <1>2, PTL DEF Spec

(***************************************************************************)
(* Every variable keeps its type, whatever builds and processes there are  *)
(* (schema.rs).                                                            *)
(***************************************************************************)
THEOREM TypeCorrect ==
    Spec => []TypeOK
<1>1. IInv => TypeOK
  BY DEF IInv
<1> QED BY <1>1, Invariance, PTL

(***************************************************************************)
(* Any number of processes of any builds run every migration once and in   *)
(* the order of the numbers (migrate).                                     *)
(***************************************************************************)
THEOREM MigrationsInOrder ==
    Spec => []EachMigrationOnce
<1>1. IInv => EachMigrationOnce
  BY DEF IInv
<1> QED BY <1>1, Invariance, PTL

(***************************************************************************)
(* A process that opens the store finds it Leteo's and of its own version, *)
(* or leaves it so (prepare_once, migrate).                                *)
(***************************************************************************)
THEOREM OpenedAtItsVersion ==
    Spec => OpensItsOwn
<1>1. IInv /\ [Next]_vars =>
        [\A p \in Proc : pc[p] # "open" /\ pc'[p] = "open" => ours' /\ stamp' = supports[p]]_vars
  <2> SUFFICES ASSUME IInv, Next, NEW p \in Proc, pc[p] # "open", pc'[p] = "open"
               PROVE  ours' /\ stamp' = supports[p]
    BY DEF vars
  <2>1. PICK q \in Proc : \/ ReadVersion(q) \/ SkipCopy(q) \/ WantCopy(q)
                          \/ MakeCopy(q) \/ CopyRefused(q) \/ CutOff(q)
                          \/ Migrate(q) \/ MigrateFails(q) \/ Ends(q)
    BY DEF Next
  <2>2. CASE ReadVersion(q)
    <3>1. q = p /\ FastPath(p)
      BY <2>2 DEF ReadVersion, Goes, IInv, TypeOK
    <3> QED BY <2>2, <3>1 DEF ReadVersion, FastPath, file
  <2>3. CASE Migrate(q)
    <3>1. q = p /\ ~Refuses(p)
      BY <2>3 DEF Migrate, Goes, IInv, TypeOK
    <3> QED BY <2>3, <3>1 DEF Migrate, Refuses
  <2>4. CASE \/ SkipCopy(q) \/ WantCopy(q) \/ MakeCopy(q) \/ CopyRefused(q) \/ CutOff(q)
             \/ MigrateFails(q) \/ Ends(q)
    BY <2>4 DEF SkipCopy, WantCopy, MakeCopy, CopyRefused, CutOff, MigrateFails, Ends, Goes,
       IInv, TypeOK
  <2> QED BY <2>1, <2>2, <2>3, <2>4
<1> QED BY <1>1, Invariance, PTL DEF Spec, OpensItsOwn

(***************************************************************************)
(* Whoever migrates the version it found leaves a copy of that version,    *)
(* unless Kept newer ones crowded it out (backup_before_migrate).          *)
(***************************************************************************)
THEOREM MigrationLeavesCopy ==
    Spec => WayBack
<1>1. IInv /\ [Next]_vars =>
        [\A p \in Proc :
           /\ pc[p] = "migrate" /\ pc'[p] = "open"
           /\ seen[p] = stamp /\ stamp' # stamp /\ stamp > 0
           => CopyStands(stamp)]_vars
  <2> SUFFICES ASSUME IInv, Next, NEW p \in Proc, pc[p] = "migrate", pc'[p] = "open",
                      seen[p] = stamp, stamp' # stamp, stamp > 0
               PROVE  CopyStands(stamp)
    BY DEF vars
  <2>1. PICK q \in Proc : \/ ReadVersion(q) \/ SkipCopy(q) \/ WantCopy(q)
                          \/ MakeCopy(q) \/ CopyRefused(q) \/ CutOff(q)
                          \/ Migrate(q) \/ MigrateFails(q) \/ Ends(q)
    BY DEF Next
  <2>2. Migrate(q)
    BY <2>1 DEF ReadVersion, SkipCopy, WantCopy, MakeCopy, CopyRefused, CutOff, MigrateFails,
       Ends, file
  <2>3. q = p /\ ~Refuses(p) /\ stamp' = supports[p]
    BY <2>2 DEF Migrate, Goes, IInv, TypeOK, file
  <2>4. stamp < supports[p]
    BY <2>3, VersionAssumption DEF Refuses, IInv, TypeOK, Build, Version
  <2> QED BY <2>4 DEF IInv, Copied
<1> QED BY <1>1, Invariance, PTL DEF Spec, WayBack

-----------------------------------------------------------------------------
(* Prompts: the entries that travel.                                       *)

\* e stands in a journal or in the log.
Among(e, q) == \E i \in DOMAIN q : q[i] = e

\* What is in two journals, one after the other.
LEMMA AmongBoth ==
    ASSUME NEW S, NEW q \in Seq(S), NEW r \in Seq(S)
    PROVE  /\ q \o r \in Seq(S)
           /\ \A e : Among(e, q \o r) <=> Among(e, q) \/ Among(e, r)
<1>1. q \o r \in Seq(S) /\ Len(q \o r) = Len(q) + Len(r) /\ Len(q) \in Nat /\ Len(r) \in Nat
  OBVIOUS
<1>2. /\ \A i \in 1..Len(q) : (q \o r)[i] = q[i]
      /\ \A i \in 1..Len(r) : (q \o r)[Len(q) + i] = r[i]
  OBVIOUS
<1>3. /\ DOMAIN q = 1..Len(q) /\ DOMAIN r = 1..Len(r)
      /\ DOMAIN (q \o r) = 1..(Len(q) + Len(r))
  BY <1>1
<1>4. ASSUME NEW e, Among(e, q \o r) PROVE Among(e, q) \/ Among(e, r)
  <2>1. PICK i \in 1..(Len(q) + Len(r)) : (q \o r)[i] = e BY <1>3, <1>4 DEF Among
  <2>2. CASE i <= Len(q) BY <1>1, <1>2, <1>3, <2>1, <2>2 DEF Among
  <2>3. CASE i > Len(q)
    <3>1. i - Len(q) \in 1..Len(r) /\ i = Len(q) + (i - Len(q)) BY <1>1, <2>1, <2>3
    <3>2. r[i - Len(q)] = e BY <1>2, <2>1, <3>1
    <3>3. QED BY <1>3, <3>1, <3>2 DEF Among
  <2>4. QED BY <1>1, <2>1, <2>2, <2>3
<1>5. ASSUME NEW e, Among(e, q) PROVE Among(e, q \o r)
  <2>1. PICK i \in 1..Len(q) : q[i] = e BY <1>3, <1>5 DEF Among
  <2>2. QED BY <1>1, <1>2, <1>3, <2>1 DEF Among
<1>6. ASSUME NEW e, Among(e, r) PROVE Among(e, q \o r)
  <2>1. PICK i \in 1..Len(r) : r[i] = e BY <1>3, <1>6 DEF Among
  <2>2. Len(q) + i \in 1..(Len(q) + Len(r)) BY <1>1, <2>1
  <2>3. QED BY <1>2, <1>3, <2>1, <2>2 DEF Among
<1>7. QED BY <1>1, <1>4, <1>5, <1>6

\* What the head of a journal is moved behind, and what it leaves.
LEMMA AmongMoved ==
    ASSUME NEW S, NEW q \in Seq(S), NEW r \in Seq(S), q # <<>>
    PROVE  /\ Head(q) \in S /\ Tail(q) \in Seq(S) /\ Append(r, Head(q)) \in Seq(S)
           /\ Len(Append(r, Head(q))) = Len(r) + 1
           /\ \A i \in DOMAIN r : i \in DOMAIN Append(r, Head(q)) /\ Append(r, Head(q))[i] = r[i]
           /\ Append(r, Head(q))[Len(r) + 1] = Head(q)
           /\ \A e : Among(e, Append(r, Head(q))) <=> Among(e, r) \/ e = Head(q)
           /\ \A e : Among(e, q) <=> e = Head(q) \/ Among(e, Tail(q))
<1> DEFINE h == Head(q)
<1>1. /\ h \in S /\ Tail(q) \in Seq(S) /\ Len(q) \in Nat \ {0} /\ Len(r) \in Nat
      /\ h = q[1] /\ Len(Tail(q)) = Len(q) - 1
      /\ \A i \in 1..(Len(q) - 1) : Tail(q)[i] = q[i + 1]
  OBVIOUS
<1>2. /\ DOMAIN q = 1..Len(q) /\ DOMAIN r = 1..Len(r) /\ DOMAIN Tail(q) = 1..(Len(q) - 1)
  BY <1>1
<1> HIDE DEF h
<1>3. /\ Append(r, h) \in Seq(S) /\ Len(Append(r, h)) = Len(r) + 1
      /\ DOMAIN Append(r, h) = 1..(Len(r) + 1)
      /\ \A i \in 1..Len(r) : Append(r, h)[i] = r[i]
      /\ Append(r, h)[Len(r) + 1] = h
  BY <1>1
<1>4. \A e : Among(e, Append(r, h)) <=> Among(e, r) \/ e = h
  <2>1. ASSUME NEW e, Among(e, Append(r, h)) PROVE Among(e, r) \/ e = h
    <3>1. PICK i \in 1..(Len(r) + 1) : Append(r, h)[i] = e BY <1>3, <2>1 DEF Among
    <3>2. i \in 1..Len(r) \/ i = Len(r) + 1 BY <1>1
    <3>3. QED BY <1>2, <1>3, <3>1, <3>2 DEF Among
  <2>2. ASSUME NEW e, Among(e, r) \/ e = h PROVE Among(e, Append(r, h))
    <3>1. 1..Len(r) \subseteq 1..(Len(r) + 1) /\ Len(r) + 1 \in 1..(Len(r) + 1) BY <1>1
    <3>2. QED BY <1>2, <1>3, <2>2, <3>1 DEF Among
  <2>3. QED BY <2>1, <2>2
<1>5. \A e : Among(e, q) <=> e = h \/ Among(e, Tail(q))
  <2>1. ASSUME NEW e, Among(e, q) PROVE e = h \/ Among(e, Tail(q))
    <3>1. PICK i \in 1..Len(q) : q[i] = e BY <1>2, <2>1 DEF Among
    <3>2. CASE i = 1 BY <1>1, <3>1, <3>2
    <3>3. CASE i > 1
      <4>1. i - 1 \in 1..(Len(q) - 1) /\ (i - 1) + 1 = i BY <1>1, <3>1, <3>3
      <4>2. Tail(q)[i - 1] = e BY <1>1, <3>1, <4>1
      <4>3. QED BY <1>2, <4>1, <4>2 DEF Among
    <3>4. QED BY <3>2, <3>3
  <2>2. ASSUME NEW e, Among(e, Tail(q)) PROVE Among(e, q)
    <3>1. PICK i \in 1..(Len(q) - 1) : Tail(q)[i] = e BY <1>2, <2>2 DEF Among
    <3>2. i + 1 \in 1..Len(q) /\ q[i + 1] = e BY <1>1, <3>1
    <3>3. QED BY <1>2, <3>2 DEF Among
  <2>3. 1 \in 1..Len(q) BY <1>1
  <2>4. QED BY <1>1, <1>2, <2>1, <2>2, <2>3 DEF Among
<1>6. QED BY <1>1, <1>2, <1>3, <1>4, <1>5 DEF h

\* The members of a set, one after the other.
LEMMA OneAfterTheOther ==
    ASSUME NEW S, IsFiniteSet(S)
    PROVE  Pr!SetToSeq(S) \in Seq(S) /\ \A x \in S : Among(x, Pr!SetToSeq(S))
<1>1. Cardinality(S) \in Nat /\ ExistsBijection(1..Cardinality(S), S)
  BY FS_CardinalityType
<1>2. PICK b \in [1..Cardinality(S) -> S] :
        /\ \A x, y \in 1..Cardinality(S) : x # y => b[x] # b[y]
        /\ \A y \in S : \E x \in 1..Cardinality(S) : b[x] = y
  BY <1>1 DEF ExistsBijection, Bijection, Injection, IsInjective, Surjection
<1> DEFINE q == Pr!SetToSeq(S)
<1>3. q \in [1..Cardinality(S) -> S] /\ \A x, y \in 1..Cardinality(S) : q[x] = q[y] => x = y
  <2>1. Pr!IsInjective(b) BY <1>2 DEF Pr!IsInjective
  <2>2. q \in [1..Cardinality(S) -> S] /\ Pr!IsInjective(q)
    <3>1. Pr!Cardinality(S) = Cardinality(S) BY DEF Pr!Cardinality, Cardinality
    <3>2. QED BY <1>2, <2>1, <3>1 DEF Pr!SetToSeq
  <2> HIDE DEF q
  <2>3. QED BY <2>2 DEF Pr!IsInjective
<1> HIDE DEF q
<1>4. q \in Seq(S) BY <1>1, <1>3
<1>5. ASSUME NEW x \in S PROVE \E i \in 1..Cardinality(S) : q[i] = x
  <2>1. IsFiniteSet(1..Cardinality(S)) /\ Cardinality(1..Cardinality(S)) = Cardinality(S)
    BY <1>1, FS_Interval
  <2>2. q \in Injection(1..Cardinality(S), S) BY <1>3 DEF Injection, IsInjective
  <2>3. q \in Surjection(1..Cardinality(S), S)
    BY <2>1, <2>2, FS_Injection
  <2>4. QED BY <2>3 DEF Surjection
<1>6. \A x \in S : Among(x, q) BY <1>3, <1>5 DEF Among
<1>7. QED BY <1>4, <1>6 DEF q
-----------------------------------------------------------------------------
(* Prompts: what an operation does.                                        *)

\* The upsert of a prompt.
PromptOf(p, c) == [op |-> "prompt", key |-> p, at |-> c]

\* Something in a journal or in the log.
OnItsWay(e) == Among(e, shared) \/ \E n \in Store : Among(e, pending[n])

\* c is somewhere the moment p was written, d one when it was deleted.
Says(p, c) == (\E n \in Store : prompts[n][p] = c) \/ OnItsWay(PromptOf(p, c))
Buries(p, d) == (\E n \in Store : gone[n][p] = d) \/ OnItsWay(Pr!Gone(p, d))

\* Only what was written is spoken of, and nothing is of a later moment.
OfThePast ==
    \A p \in Prompt, c \in Pr!Stamp :
        Says(p, c) \/ Buries(p, c) => p \in born /\ c < now + Skew

\* A store that has not enrolled the project queues nothing.
NothingUntold == \A n \in Store : ~joined[n] => pending[n] = <<>>

PromptTypes == Pr!TypeOK /\ IsFiniteSet(born)

\* What an operation of store n that queues es does with prompt p: it may send
\* the prompt once more,
Stays(n, p, es) ==
    /\ prompts'[n][p] = prompts[n][p] /\ gone'[n][p] = gone[n][p]
    /\ p \in born' <=> p \in born
    /\ \A e : Among(e, es) /\ e.key = p => prompts[n][p] # None /\ e = PromptOf(p, prompts[n][p])
    /\ joined'[n] /\ ~joined[n] /\ prompts[n][p] # None => Among(PromptOf(p, prompts[n][p]), es)

\* or write it,
Begins(n, p, es) ==
    /\ p \notin born /\ p \in born' /\ now' = now + 1
    /\ prompts'[n][p] = Pr!Clock(n) /\ gone'[n][p] = gone[n][p]
    /\ \A e : Among(e, es) /\ e.key = p => e = PromptOf(p, Pr!Clock(n))
    /\ joined'[n] => Among(PromptOf(p, Pr!Clock(n)), es)

\* or delete it.
Ceases(n, p, es) ==
    /\ prompts[n][p] # None /\ p \in born /\ p \in born' /\ now' = now + 1
    /\ prompts'[n][p] = None /\ gone'[n][p] \in {gone[n][p], Pr!Clock(n)}
    /\ \A e : Among(e, es) /\ e.key = p => e = Pr!Gone(p, Pr!Clock(n))
    /\ IF joined[n] THEN Among(Pr!Gone(p, Pr!Clock(n)), es) ELSE p \in unsent'

Operates(n, es) ==
    /\ es \in Seq(Pr!Mutation)
    /\ pending' = [pending EXCEPT ![n] = @ \o es]
    /\ joined' \in [Store -> BOOLEAN]
    /\ (joined[n] => joined'[n]) /\ (~joined'[n] => es = <<>>)
    /\ UNCHANGED <<behind, shared, taken>>
    /\ prompts' \in [Store -> [Prompt -> Pr!Stamp \cup {None}]]
    /\ gone' \in [Store -> [Prompt -> Pr!Stamp \cup {None}]]
    /\ \A o \in Store \ {n} :
          prompts'[o] = prompts[o] /\ gone'[o] = gone[o] /\ joined'[o] = joined[o]
    /\ now' \in 0..MaxTime /\ now <= now'
    /\ born' \in SUBSET Prompt /\ IsFiniteSet(born')
    /\ unsent \subseteq unsent' /\ unsent' \subseteq born'
    /\ \A p \in Prompt : Stays(n, p, es) \/ Begins(n, p, es) \/ Ceases(n, p, es)

\* A clock shows a moment.
LEMMA ClockShows ==
    ASSUME PromptTypes, NEW n \in Store, now < MaxTime
    PROVE  /\ Pr!Clock(n) \in Pr!Stamp /\ Pr!Clock(n) # None
           /\ Pr!Clock(n) <= now + Skew /\ now + 1 \in 0..MaxTime
           /\ behind[n] = 0 => Pr!Clock(n) = now + Skew
<1>1. behind[n] \in 0..Skew /\ now \in 0..MaxTime BY DEF PromptTypes, Pr!TypeOK
<1>2. Pr!Clock(n) = now + Skew - behind[n] BY DEF Pr!Clock
<1>3. QED BY <1>1, <1>2, PromptAssumption DEF Pr!Stamp

\* What is queued, and what is not.
LEMMA Queued ==
    ASSUME PromptTypes, NEW n \in Store, NEW xs \in Seq(Pr!Mutation), Pr!Enqueue(n, xs)
    PROVE  /\ (IF joined[n] THEN xs ELSE <<>>) \in Seq(Pr!Mutation)
           /\ pending' = [pending EXCEPT ![n] = @ \o (IF joined[n] THEN xs ELSE <<>>)]
           /\ joined' = joined
<1>1. pending[n] \in Seq(Pr!Mutation) BY DEF PromptTypes, Pr!TypeOK
<1>2. pending[n] \o <<>> = pending[n] BY <1>1
<1>3. joined' = joined BY DEF Pr!Enqueue
<1>4. CASE joined[n] BY <1>3, <1>4 DEF Pr!Enqueue
<1>5. CASE ~joined[n]
  <2>1. pending' = [pending EXCEPT ![n] = @] BY <1>5 DEF Pr!Enqueue
  <2>2. QED BY <1>2, <1>3, <1>5, <2>1
<1>6. QED BY <1>4, <1>5

\* What a store holds was written, and is finite.
LEMMA HeldWereWritten ==
    ASSUME PromptTypes, OfThePast, NEW n \in Store
    PROVE  /\ \A p \in Prompt : prompts[n][p] # None => p \in born
           /\ IsFiniteSet(Pr!HeldBy(n))
<1>1. ASSUME NEW p \in Prompt, prompts[n][p] # None PROVE p \in born
  <2>1. prompts[n][p] \in Pr!Stamp BY <1>1 DEF PromptTypes, Pr!TypeOK
  <2>2. QED BY <2>1 DEF OfThePast, Says
<1>2. Pr!HeldBy(n) \in SUBSET born BY <1>1 DEF Pr!HeldBy
<1>3. QED BY <1>1, <1>2, FS_Subset DEF PromptTypes

\* Every prompt that is held goes into what is sent of them.
LEMMA SentOfHeld ==
    ASSUME PromptTypes, OfThePast, NEW n \in Store,
           NEW f \in [Pr!HeldBy(n) -> Pr!Mutation], \A p \in Pr!HeldBy(n) : f[p].key = p
    PROVE  LET held == Pr!SetToSeq(Pr!HeldBy(n))
               xs == [i \in DOMAIN held |-> f[held[i]]]
           IN /\ held \in Seq(Pr!HeldBy(n))
              /\ xs \in Seq(Pr!Mutation)
              /\ \A p \in Pr!HeldBy(n) : Among(f[p], xs)
              /\ \A e : Among(e, xs) => e.key \in Pr!HeldBy(n) /\ e = f[e.key]
<1> DEFINE held == Pr!SetToSeq(Pr!HeldBy(n))
           xs == [i \in DOMAIN held |-> f[held[i]]]
<1>1. held \in Seq(Pr!HeldBy(n)) /\ \A p \in Pr!HeldBy(n) : Among(p, held)
  BY HeldWereWritten, OneAfterTheOther
<1> HIDE DEF held
<1>2. /\ DOMAIN held = 1..Len(held) /\ Len(held) \in Nat
      /\ \A i \in DOMAIN held : held[i] \in Pr!HeldBy(n)
  BY <1>1
<1>3. xs \in Seq(Pr!Mutation) BY <1>2
<1>4. \A p \in Pr!HeldBy(n) : Among(f[p], xs) BY <1>1 DEF Among
<1>5. \A e : Among(e, xs) => e.key \in Pr!HeldBy(n) /\ e = f[e.key] BY <1>2 DEF Among
<1>6. QED BY <1>1, <1>3, <1>4, <1>5 DEF held

\* add_prompt.
LEMMA AddOperates ==
    ASSUME PromptTypes, OfThePast, NothingUntold,
           NEW n \in Store, NEW p \in Prompt, Pr!Add(n, p)
    PROVE  \E es : Operates(n, es)
<1> DEFINE c == Pr!Clock(n)
           xs == <<PromptOf(p, c)>>
           es == IF joined[n] THEN xs ELSE <<>>
<1>1. /\ p \notin born /\ born' = born \cup {p} /\ now' = now + 1 /\ now < MaxTime
      /\ prompts' = [prompts EXCEPT ![n][p] = c] /\ Pr!Enqueue(n, xs)
      /\ UNCHANGED <<gone, behind, shared, taken, unsent>>
  BY DEF Pr!Add, Pr!Moment, PromptOf
<1>2. c \in Pr!Stamp /\ c # None /\ now + 1 \in 0..MaxTime BY <1>1, ClockShows
<1> HIDE DEF c
<1>3. xs \in Seq(Pr!Mutation) BY <1>2 DEF PromptOf, Pr!Mutation
<1>4. /\ es \in Seq(Pr!Mutation) /\ pending' = [pending EXCEPT ![n] = @ \o es] /\ joined' = joined
  BY <1>1, <1>3, Queued
<1>5. \A e : Among(e, xs) <=> e = PromptOf(p, c) BY DEF Among
<1>6. \A e : ~Among(e, <<>>) BY DEF Among
<1> HIDE DEF xs
<1>7. PromptOf(p, c).key = p BY DEF PromptOf
<1>8. \A e : Among(e, es) => e = PromptOf(p, c) BY <1>5, <1>6
<1>9. joined[n] => Among(PromptOf(p, c), es) BY <1>5
<1>10. ~joined[n] => es = <<>> OBVIOUS
<1> HIDE DEF es
<1>11. /\ prompts \in [Store -> [Prompt -> Pr!Stamp \cup {None}]]
       /\ gone \in [Store -> [Prompt -> Pr!Stamp \cup {None}]]
       /\ joined \in [Store -> BOOLEAN] /\ now \in 0..MaxTime
       /\ born \in SUBSET Prompt /\ unsent \in SUBSET born /\ IsFiniteSet(born)
  BY DEF PromptTypes, Pr!TypeOK
<1>12. IsFiniteSet(born') BY <1>1, <1>11, FS_AddElement
<1>13. /\ prompts' \in [Store -> [Prompt -> Pr!Stamp \cup {None}]]
       /\ \A o \in Store \ {n} : prompts'[o] = prompts[o]
       /\ prompts'[n][p] = c
       /\ \A q \in Prompt : q # p => prompts'[n][q] = prompts[n][q]
  BY <1>1, <1>2, <1>11
<1>14. Begins(n, p, es) BY <1>1, <1>4, <1>8, <1>9, <1>13 DEF Begins, c
<1>15. ASSUME NEW q \in Prompt, q # p PROVE Stays(n, q, es)
  BY <1>1, <1>4, <1>7, <1>8, <1>13, <1>15 DEF Stays
<1>16. /\ gone' \in [Store -> [Prompt -> Pr!Stamp \cup {None}]]
       /\ \A o \in Store \ {n} : gone'[o] = gone[o] /\ joined'[o] = joined[o]
       /\ now' \in 0..MaxTime /\ now <= now'
       /\ born' \in SUBSET Prompt /\ unsent \subseteq unsent' /\ unsent' \subseteq born'
  BY <1>1, <1>2, <1>4, <1>11
<1>17. QED
  BY <1>1, <1>4, <1>10, <1>11, <1>12, <1>13, <1>14, <1>15, <1>16 DEF Operates

\* delete_prompt.
LEMMA DeleteOperates ==
    ASSUME PromptTypes, OfThePast, NothingUntold,
           NEW n \in Store, NEW p \in Prompt, Pr!Delete(n, p)
    PROVE  \E es : Operates(n, es)
<1> DEFINE c == Pr!Clock(n)
           xs == <<Pr!Gone(p, c)>>
           es == IF joined[n] THEN xs ELSE <<>>
<1>1. /\ prompts[n][p] # None /\ born' = born /\ now' = now + 1 /\ now < MaxTime
      /\ unsent' = IF joined[n] THEN unsent ELSE unsent \cup {p}
      /\ prompts' = [prompts EXCEPT ![n][p] = None] /\ gone' = [gone EXCEPT ![n][p] = c]
      /\ Pr!Enqueue(n, xs)
      /\ UNCHANGED <<behind, shared, taken>>
  BY DEF Pr!Delete, Pr!Moment, Pr!Untold
<1>2. c \in Pr!Stamp /\ c # None /\ now + 1 \in 0..MaxTime BY <1>1, ClockShows
<1> HIDE DEF c
<1>3. xs \in Seq(Pr!Mutation) BY <1>2 DEF Pr!Gone, Pr!Mutation
<1>4. /\ es \in Seq(Pr!Mutation) /\ pending' = [pending EXCEPT ![n] = @ \o es] /\ joined' = joined
  BY <1>1, <1>3, Queued
<1>5. \A e : Among(e, xs) <=> e = Pr!Gone(p, c) BY DEF Among
<1>6. \A e : ~Among(e, <<>>) BY DEF Among
<1> HIDE DEF xs
<1>7. Pr!Gone(p, c).key = p BY DEF Pr!Gone
<1>8. \A e : Among(e, es) => e = Pr!Gone(p, c) BY <1>5, <1>6
<1>9. joined[n] => Among(Pr!Gone(p, c), es) BY <1>5
<1>10. ~joined[n] => es = <<>> OBVIOUS
<1> HIDE DEF es
<1>11. /\ prompts \in [Store -> [Prompt -> Pr!Stamp \cup {None}]]
       /\ gone \in [Store -> [Prompt -> Pr!Stamp \cup {None}]]
       /\ joined \in [Store -> BOOLEAN] /\ now \in 0..MaxTime
       /\ born \in SUBSET Prompt /\ unsent \in SUBSET born /\ IsFiniteSet(born)
  BY DEF PromptTypes, Pr!TypeOK
<1>12. p \in born BY <1>1, HeldWereWritten
<1>13. /\ prompts' \in [Store -> [Prompt -> Pr!Stamp \cup {None}]]
       /\ gone' \in [Store -> [Prompt -> Pr!Stamp \cup {None}]]
       /\ \A o \in Store \ {n} : prompts'[o] = prompts[o] /\ gone'[o] = gone[o]
       /\ prompts'[n][p] = None /\ gone'[n][p] = c
       /\ \A q \in Prompt : q # p => prompts'[n][q] = prompts[n][q] /\ gone'[n][q] = gone[n][q]
  BY <1>1, <1>2, <1>11
<1>14. Ceases(n, p, es)
  BY <1>1, <1>8, <1>9, <1>12, <1>13 DEF Ceases, c
<1>15. ASSUME NEW q \in Prompt, q # p PROVE Stays(n, q, es)
  BY <1>1, <1>4, <1>7, <1>8, <1>13, <1>15 DEF Stays
<1>16. /\ \A o \in Store \ {n} : joined'[o] = joined[o]
       /\ now' \in 0..MaxTime /\ now <= now'
       /\ born' \in SUBSET Prompt /\ IsFiniteSet(born')
       /\ unsent \subseteq unsent' /\ unsent' \subseteq born'
  BY <1>1, <1>2, <1>4, <1>11, <1>12
<1>17. \A q \in Prompt : Stays(n, q, es) \/ Begins(n, q, es) \/ Ceases(n, q, es)
  BY <1>14, <1>15
<1>18. QED
  BY <1>1, <1>4, <1>10, <1>11, <1>13, <1>16, <1>17 DEF Operates

\* delete_project and the others that delete with their contents.
LEMMA DeleteAllOperates ==
    ASSUME PromptTypes, OfThePast, NothingUntold,
           NEW n \in Store, Pr!DeleteAll(n)
    PROVE  \E es : Operates(n, es)
<1> DEFINE c == Pr!Clock(n)
           H == Pr!HeldBy(n)
           f == [p \in H |-> Pr!Gone(p, c)]
           held == Pr!SetToSeq(H)
           xs == [i \in DOMAIN held |-> Pr!Gone(held[i], c)]
           es == IF joined[n] THEN xs ELSE <<>>
<1>1. /\ born' = born /\ now' = now + 1 /\ now < MaxTime
      /\ unsent' = IF joined[n] THEN unsent ELSE unsent \cup H
      /\ prompts' = [prompts EXCEPT ![n] = [p \in Prompt |-> None]]
      /\ Pr!Enqueue(n, xs)
      /\ UNCHANGED <<gone, behind, shared, taken>>
  BY DEF Pr!DeleteAll, Pr!Moment, Pr!Untold
<1>2. c \in Pr!Stamp /\ c # None /\ now + 1 \in 0..MaxTime BY <1>1, ClockShows
<1>3. H \subseteq Prompt /\ \A p \in Prompt : p \in H <=> prompts[n][p] # None BY DEF Pr!HeldBy
<1>4. f \in [H -> Pr!Mutation] /\ \A p \in H : f[p].key = p
  BY <1>2, <1>3 DEF Pr!Gone, Pr!Mutation
<1>5. /\ held \in Seq(H)
      /\ [i \in DOMAIN held |-> f[held[i]]] \in Seq(Pr!Mutation)
      /\ \A p \in H : Among(f[p], [i \in DOMAIN held |-> f[held[i]]])
      /\ \A e : Among(e, [i \in DOMAIN held |-> f[held[i]]]) => e.key \in H /\ e = f[e.key]
  BY <1>4, SentOfHeld
<1>6. xs = [i \in DOMAIN held |-> f[held[i]]]
  <2>1. \A i \in DOMAIN held : held[i] \in H BY <1>5
  <2>2. QED BY <2>1
<1>7. /\ xs \in Seq(Pr!Mutation)
      /\ \A p \in H : Among(Pr!Gone(p, c), xs)
      /\ \A e : Among(e, xs) => e.key \in H /\ e = Pr!Gone(e.key, c)
  BY <1>5, <1>6
<1> HIDE DEF xs, f, held, H, c
<1>8. /\ es \in Seq(Pr!Mutation) /\ pending' = [pending EXCEPT ![n] = @ \o es] /\ joined' = joined
  BY <1>1, <1>7, Queued
<1>9. \A e : ~Among(e, <<>>) BY DEF Among
<1>10. \A e : Among(e, es) => e.key \in H /\ e = Pr!Gone(e.key, c) BY <1>7, <1>9
<1>11. joined[n] => \A p \in H : Among(Pr!Gone(p, c), es) BY <1>7
<1>12. ~joined[n] => es = <<>> OBVIOUS
<1> HIDE DEF es
<1>13. /\ prompts \in [Store -> [Prompt -> Pr!Stamp \cup {None}]]
       /\ gone \in [Store -> [Prompt -> Pr!Stamp \cup {None}]]
       /\ joined \in [Store -> BOOLEAN] /\ now \in 0..MaxTime
       /\ born \in SUBSET Prompt /\ unsent \in SUBSET born /\ IsFiniteSet(born)
  BY DEF PromptTypes, Pr!TypeOK
<1>14. H \subseteq born BY <1>3, HeldWereWritten
<1>15. /\ prompts' \in [Store -> [Prompt -> Pr!Stamp \cup {None}]]
       /\ \A o \in Store \ {n} : prompts'[o] = prompts[o]
       /\ \A p \in Prompt : prompts'[n][p] = None
  BY <1>1, <1>13
<1>16. ASSUME NEW p \in H PROVE Ceases(n, p, es)
  BY <1>1, <1>3, <1>10, <1>11, <1>14, <1>15 DEF Ceases, c
<1>17. ASSUME NEW p \in Prompt \ H PROVE Stays(n, p, es)
  BY <1>1, <1>3, <1>8, <1>10, <1>15 DEF Stays
<1>18. /\ \A o \in Store \ {n} : gone'[o] = gone[o] /\ joined'[o] = joined[o]
       /\ now' \in 0..MaxTime /\ now <= now'
       /\ born' \in SUBSET Prompt /\ IsFiniteSet(born')
       /\ unsent \subseteq unsent' /\ unsent' \subseteq born'
  BY <1>1, <1>2, <1>8, <1>13, <1>14
<1>19. QED
  BY <1>1, <1>8, <1>12, <1>13, <1>15, <1>16, <1>17, <1>18 DEF Operates

\* enroll_project and merge_projects send what is held.
LEMMA SendingOperates ==
    ASSUME PromptTypes, OfThePast, NothingUntold,
           NEW n \in Store, Pr!Enroll(n) \/ Pr!Merge(n)
    PROVE  \E es : Operates(n, es)
<1> DEFINE H == Pr!HeldBy(n)
           f == [p \in H |-> PromptOf(p, prompts[n][p])]
           held == Pr!SetToSeq(H)
           xs == [i \in DOMAIN held |-> Pr!Put(n, held[i])]
<1>1. /\ prompts \in [Store -> [Prompt -> Pr!Stamp \cup {None}]]
      /\ gone \in [Store -> [Prompt -> Pr!Stamp \cup {None}]]
      /\ pending \in [Store -> Seq(Pr!Mutation)]
      /\ joined \in [Store -> BOOLEAN] /\ now \in 0..MaxTime
      /\ born \in SUBSET Prompt /\ unsent \in SUBSET born /\ IsFiniteSet(born)
  BY DEF PromptTypes, Pr!TypeOK
<1>2. H \subseteq Prompt /\ \A p \in Prompt : p \in H <=> prompts[n][p] # None BY DEF Pr!HeldBy
<1>3. f \in [H -> Pr!Mutation] /\ \A p \in H : f[p].key = p
  <2>1. \A p \in H : prompts[n][p] \in Pr!Stamp BY <1>1, <1>2
  <2>2. QED BY <1>2, <2>1 DEF PromptOf, Pr!Mutation
<1>4. /\ held \in Seq(H)
      /\ [i \in DOMAIN held |-> f[held[i]]] \in Seq(Pr!Mutation)
      /\ \A p \in H : Among(f[p], [i \in DOMAIN held |-> f[held[i]]])
      /\ \A e : Among(e, [i \in DOMAIN held |-> f[held[i]]]) => e.key \in H /\ e = f[e.key]
  BY <1>3, SentOfHeld
<1>5. xs = [i \in DOMAIN held |-> f[held[i]]]
  <2>1. \A i \in DOMAIN held : held[i] \in H BY <1>4
  <2>2. QED BY <2>1 DEF Pr!Put, PromptOf
<1>6. /\ xs \in Seq(Pr!Mutation)
      /\ \A p \in H : Among(PromptOf(p, prompts[n][p]), xs)
      /\ \A e : Among(e, xs) => e.key \in H /\ e = PromptOf(e.key, prompts[n][e.key])
  BY <1>4, <1>5
<1>7. \A e : ~Among(e, <<>>) BY DEF Among
<1>8. Pr!Enroll(n) \/ Pr!Merge(n) =>
        /\ UNCHANGED <<prompts, gone, behind, shared, taken, born, unsent>>
        /\ now' \in 0..MaxTime /\ now <= now'
  BY <1>1, PromptAssumption DEF Pr!Enroll, Pr!Merge, Pr!Moment, Pr!rows, Pr!past
<1>9. CASE Pr!Enroll(n)
  <2>1. /\ ~joined[n] /\ joined' = [joined EXCEPT ![n] = TRUE]
        /\ pending' = [pending EXCEPT ![n] = xs]
    BY <1>9 DEF Pr!Enroll
  <2> HIDE DEF xs, f, held, H
  <2>2. pending[n] = <<>> /\ <<>> \o xs = xs BY <1>6, <2>1 DEF NothingUntold
  <2>3. pending' = [pending EXCEPT ![n] = @ \o xs] BY <2>1, <2>2
  <2>4. ASSUME NEW p \in Prompt PROVE Stays(n, p, xs)
    BY <1>1, <1>2, <1>6, <1>8, <2>1 DEF Stays
  <2>5. Operates(n, xs) BY <1>1, <1>6, <1>8, <2>1, <2>3, <2>4 DEF Operates
  <2>6. QED BY <2>5
<1>10. CASE Pr!Merge(n)
  <2> DEFINE es == IF joined[n] THEN xs ELSE <<>>
  <2>1. Pr!Enqueue(n, xs) BY <1>10 DEF Pr!Merge
  <2> HIDE DEF xs, f, held, H
  <2>2. /\ es \in Seq(Pr!Mutation) /\ pending' = [pending EXCEPT ![n] = @ \o es]
        /\ joined' = joined
    BY <1>6, <2>1, Queued
  <2>3. \A e : Among(e, es) => e.key \in H /\ e = PromptOf(e.key, prompts[n][e.key])
    BY <1>6, <1>7
  <2>4. ~joined[n] => es = <<>> OBVIOUS
  <2> HIDE DEF es
  <2>5. ASSUME NEW p \in Prompt PROVE Stays(n, p, es)
    BY <1>1, <1>2, <1>8, <2>2, <2>3 DEF Stays
  <2>6. Operates(n, es) BY <1>1, <1>8, <2>2, <2>4, <2>5 DEF Operates
  <2>7. QED BY <2>6
<1>11. QED BY <1>8, <1>9, <1>10

\* What a push does.
LEMMA Pushes ==
    ASSUME PromptTypes, NEW n \in Store, Pr!Push(n)
    PROVE  LET h == Head(pending[n]) IN
           /\ pending[n] # <<>> /\ h \in Pr!Mutation
           /\ shared' = Append(shared, h) /\ shared' \in Seq(Pr!Mutation)
           /\ Len(shared') = Len(shared) + 1 /\ Len(shared) \in Nat /\ shared'[Len(shared) + 1] = h
           /\ \A i \in 1..Len(shared) : shared'[i] = shared[i]
           /\ pending' = [pending EXCEPT ![n] = Tail(@)]
           /\ pending' \in [Store -> Seq(Pr!Mutation)]
           /\ \A o \in Store : o # n => pending'[o] = pending[o]
           /\ \A e : Among(e, shared') <=> Among(e, shared) \/ e = h
           /\ \A e : Among(e, pending[n]) <=> e = h \/ Among(e, pending'[n])
           /\ UNCHANGED <<prompts, gone, behind, joined, taken, now, born, unsent>>
<1> DEFINE h == Head(pending[n])
<1>1. /\ pending[n] # <<>> /\ shared' = Append(shared, h)
      /\ pending' = [pending EXCEPT ![n] = Tail(@)]
      /\ UNCHANGED <<prompts, gone, behind, joined, taken, now, born, unsent>>
  BY DEF Pr!Push, Pr!rows, Pr!past
<1>2. pending \in [Store -> Seq(Pr!Mutation)] /\ shared \in Seq(Pr!Mutation)
  BY DEF PromptTypes, Pr!TypeOK
<1>3. /\ h \in Pr!Mutation /\ Tail(pending[n]) \in Seq(Pr!Mutation)
      /\ Append(shared, h) \in Seq(Pr!Mutation)
      /\ Len(Append(shared, h)) = Len(shared) + 1
      /\ \A i \in DOMAIN shared : i \in DOMAIN Append(shared, h) /\ Append(shared, h)[i] = shared[i]
      /\ Append(shared, h)[Len(shared) + 1] = h
      /\ \A e : Among(e, Append(shared, h)) <=> Among(e, shared) \/ e = h
      /\ \A e : Among(e, pending[n]) <=> e = h \/ Among(e, Tail(pending[n]))
  <2>1. pending[n] \in Seq(Pr!Mutation) BY <1>2
  <2>2. QED BY <1>1, <1>2, <2>1, AmongMoved
<1>4. DOMAIN shared = 1..Len(shared) /\ Len(shared) \in Nat BY <1>2
<1> HIDE DEF h
<1>5. pending'[n] = Tail(pending[n]) /\ \A o \in Store : o # n => pending'[o] = pending[o]
  BY <1>1, <1>2
<1>6. pending' \in [Store -> Seq(Pr!Mutation)] BY <1>1, <1>2, <1>3
<1>7. QED BY <1>1, <1>3, <1>4, <1>5, <1>6 DEF h

\* What a pull does.
LEMMA Pulls ==
    ASSUME PromptTypes, NEW n \in Store, Pr!Pull(n)
    PROVE  LET t == taken[n] + 1
               e == shared[t]
           IN
           /\ t \in 1..Len(shared) /\ taken[n] \in Nat /\ e \in Pr!Mutation /\ Among(e, shared)
           /\ taken' \in [Store -> 0..Len(shared)] /\ taken'[n] = t
           /\ prompts' \in [Store -> [Prompt -> Pr!Stamp \cup {None}]]
           /\ gone' \in [Store -> [Prompt -> Pr!Stamp \cup {None}]]
           /\ \A o \in Store : o # n =>
                 prompts'[o] = prompts[o] /\ gone'[o] = gone[o] /\ taken'[o] = taken[o]
           /\ \A p \in Prompt : p # e.key =>
                 prompts'[n][p] = prompts[n][p] /\ gone'[n][p] = gone[n][p]
           /\ \/ /\ e.op = "prompt"
                 /\ IF gone[n][e.key] # None /\ e.at <= gone[n][e.key]
                    THEN prompts'[n] = prompts[n] /\ gone'[n] = gone[n]
                    ELSE prompts'[n][e.key] = e.at /\ gone'[n][e.key] = None
              \/ e.op = "prompt gone" /\ prompts'[n][e.key] = None /\ gone'[n][e.key] = e.at
           /\ UNCHANGED <<behind, joined, pending, shared, now, born, unsent>>
<1> DEFINE t == taken[n] + 1
           e == shared[t]
<1>1. /\ prompts \in [Store -> [Prompt -> Pr!Stamp \cup {None}]]
      /\ gone \in [Store -> [Prompt -> Pr!Stamp \cup {None}]]
      /\ taken \in [Store -> 0..Len(shared)] /\ shared \in Seq(Pr!Mutation)
  BY DEF PromptTypes, Pr!TypeOK
<1>2. /\ taken[n] < Len(shared) /\ taken' = [taken EXCEPT ![n] = t]
      /\ Pr!ApplyPrompt(n, e) \/ Pr!ApplyDelete(n, e)
      /\ UNCHANGED <<behind, joined, pending, shared, now, born, unsent>>
  BY <1>1 DEF Pr!Pull, Pr!queue, Pr!past
<1>3. t \in 1..Len(shared) /\ taken[n] \in Nat /\ Len(shared) \in Nat BY <1>1, <1>2
<1>4. e \in Pr!Mutation /\ Among(e, shared) BY <1>1, <1>3 DEF Among
<1> HIDE DEF t
<1> HIDE DEF e
<1>5. e.op \in {"prompt", "prompt gone"} /\ e.key \in Prompt /\ e.at \in Pr!Stamp
  BY <1>4 DEF Pr!Mutation
<1>6. taken' \in [Store -> 0..Len(shared)] /\ taken'[n] = t
      /\ \A o \in Store : o # n => taken'[o] = taken[o]
  BY <1>1, <1>2, <1>3
<1>7. CASE e.op = "prompt" /\ gone[n][e.key] # None /\ e.at <= gone[n][e.key]
  <2>1. UNCHANGED <<prompts, gone>>
    BY <1>2, <1>7 DEF Pr!ApplyPrompt, Pr!ApplyDelete, Pr!TakenForDeleted, Pr!rows
  <2>2. QED BY <1>1, <1>2, <1>3, <1>4, <1>6, <1>7, <2>1 DEF t, e
<1>8. CASE e.op = "prompt" /\ ~ (gone[n][e.key] # None /\ e.at <= gone[n][e.key])
  <2>1. /\ prompts' = [prompts EXCEPT ![n][e.key] = e.at]
        /\ gone' = [gone EXCEPT ![n][e.key] = None]
    BY <1>2, <1>8 DEF Pr!ApplyPrompt, Pr!ApplyDelete, Pr!TakenForDeleted, Pr!rows
  <2>2. /\ prompts' \in [Store -> [Prompt -> Pr!Stamp \cup {None}]]
        /\ gone' \in [Store -> [Prompt -> Pr!Stamp \cup {None}]]
        /\ \A o \in Store : o # n => prompts'[o] = prompts[o] /\ gone'[o] = gone[o]
        /\ \A p \in Prompt : p # e.key =>
              prompts'[n][p] = prompts[n][p] /\ gone'[n][p] = gone[n][p]
        /\ prompts'[n][e.key] = e.at /\ gone'[n][e.key] = None
    BY <1>1, <1>5, <2>1
  <2>3. QED BY <1>1, <1>2, <1>3, <1>4, <1>6, <1>8, <2>2 DEF t, e
<1>9. CASE e.op = "prompt gone"
  <2>1. /\ prompts' = [prompts EXCEPT ![n][e.key] = None]
        /\ gone' = [gone EXCEPT ![n][e.key] = e.at]
    BY <1>2, <1>9 DEF Pr!ApplyPrompt, Pr!ApplyDelete
  <2>2. /\ prompts' \in [Store -> [Prompt -> Pr!Stamp \cup {None}]]
        /\ gone' \in [Store -> [Prompt -> Pr!Stamp \cup {None}]]
        /\ \A o \in Store : o # n => prompts'[o] = prompts[o] /\ gone'[o] = gone[o]
        /\ \A p \in Prompt : p # e.key =>
              prompts'[n][p] = prompts[n][p] /\ gone'[n][p] = gone[n][p]
        /\ prompts'[n][e.key] = None /\ gone'[n][e.key] = e.at
    BY <1>1, <1>5, <2>1
  <2>3. QED BY <1>1, <1>2, <1>3, <1>4, <1>6, <1>9, <2>2 DEF t, e
<1>10. QED BY <1>5, <1>7, <1>8, <1>9

-----------------------------------------------------------------------------
(* Prompts: the moments that are spoken of.                                *)

\* What the steps are.
LEMMA PromptSteps ==
    ASSUME PromptTypes, OfThePast, NothingUntold, Pr!Next
    PROVE  \E n \in Store : (\E es : Operates(n, es)) \/ Pr!Push(n) \/ Pr!Pull(n)
<1>1. PICK n \in Store :
        \/ \E p \in Prompt : Pr!Add(n, p) \/ Pr!Delete(n, p)
        \/ Pr!DeleteAll(n) \/ Pr!Enroll(n) \/ Pr!Merge(n)
        \/ Pr!Push(n) \/ Pr!Pull(n)
  BY DEF Pr!Next
<1>2. ASSUME NEW p \in Prompt, Pr!Add(n, p) PROVE \E es : Operates(n, es) BY <1>2, AddOperates
<1>3. ASSUME NEW p \in Prompt, Pr!Delete(n, p) PROVE \E es : Operates(n, es)
  BY <1>3, DeleteOperates
<1>4. Pr!DeleteAll(n) => \E es : Operates(n, es) BY DeleteAllOperates
<1>5. Pr!Enroll(n) \/ Pr!Merge(n) => \E es : Operates(n, es) BY SendingOperates
<1>6. QED BY <1>1, <1>2, <1>3, <1>4, <1>5

\* What is on its way after an operation.
LEMMA OnItsWayAfter ==
    ASSUME PromptTypes, NEW n \in Store, NEW es, Operates(n, es), NEW e
    PROVE  OnItsWay(e)' <=> OnItsWay(e) \/ Among(e, es)
<1>1. /\ pending \in [Store -> Seq(Pr!Mutation)] /\ es \in Seq(Pr!Mutation)
      /\ pending' = [pending EXCEPT ![n] = @ \o es] /\ shared' = shared
  BY DEF PromptTypes, Pr!TypeOK, Operates
<1>2. pending'[n] = pending[n] \o es /\ \A o \in Store : o # n => pending'[o] = pending[o]
  BY <1>1
<1>3. Among(e, pending'[n]) <=> Among(e, pending[n]) \/ Among(e, es)
  <2>1. pending[n] \in Seq(Pr!Mutation) BY <1>1
  <2>2. QED BY <1>1, <1>2, <2>1, AmongBoth
<1>4. Among(e, shared') <=> Among(e, shared) BY <1>1
<1>5. OnItsWay(e)' <=> Among(e, shared') \/ \E o \in Store : Among(e, pending'[o])
  BY DEF OnItsWay, Among
<1>6. QED BY <1>2, <1>3, <1>4, <1>5 DEF OnItsWay

\* Nothing new is on its way after a push or a pull.
LEMMA OnItsWayMoves ==
    ASSUME PromptTypes, NEW n \in Store, Pr!Push(n) \/ Pr!Pull(n), NEW e
    PROVE  OnItsWay(e)' <=> OnItsWay(e)
<1>1. OnItsWay(e)' <=> Among(e, shared') \/ \E o \in Store : Among(e, pending'[o])
  BY DEF OnItsWay, Among
<1>2. CASE Pr!Push(n)
  <2> DEFINE h == Head(pending[n])
  <2>1. /\ \A o \in Store : o # n => pending'[o] = pending[o]
        /\ Among(e, shared') <=> Among(e, shared) \/ e = h
        /\ Among(e, pending[n]) <=> e = h \/ Among(e, pending'[n])
    BY <1>2, Pushes
  <2> HIDE DEF h
  <2>2. QED BY <1>1, <2>1 DEF OnItsWay
<1>3. CASE Pr!Pull(n)
  <2>1. UNCHANGED <<shared, pending>> BY <1>3, Pulls
  <2>2. QED BY <1>1, <2>1 DEF OnItsWay
<1>4. QED BY <1>2, <1>3

\* A moment is new only where a prompt is written or deleted.
LEMMA MomentsMade ==
    ASSUME PromptTypes, OfThePast, NothingUntold, Pr!Next
    PROVE  /\ now <= now' /\ now \in Nat /\ now' \in Nat /\ born \subseteq born'
           /\ UNCHANGED behind
           /\ \E n \in Store : \A p \in Prompt, c \in Pr!Stamp :
                 /\ Says(p, c)' => \/ Says(p, c)
                                   \/ /\ c = Pr!Clock(n) /\ now' = now + 1
                                      /\ p \notin born /\ p \in born'
                 /\ Buries(p, c)' => \/ Buries(p, c)
                                     \/ c = Pr!Clock(n) /\ p \in born /\ now' = now + 1
<1>1. PICK n \in Store : (\E es : Operates(n, es)) \/ Pr!Push(n) \/ Pr!Pull(n) BY PromptSteps
<1>2. now \in Nat /\ MaxTime \in Nat BY PromptAssumption DEF PromptTypes, Pr!TypeOK
<1>3. ASSUME NEW p \in Prompt, NEW c \in Pr!Stamp
      PROVE  /\ Says(p, c)' <=> (\E o \in Store : prompts'[o][p] = c) \/ OnItsWay(PromptOf(p, c))'
             /\ Buries(p, c)' <=> (\E o \in Store : gone'[o][p] = c) \/ OnItsWay(Pr!Gone(p, c))'
             /\ PromptOf(p, c).key = p /\ Pr!Gone(p, c).key = p
             /\ PromptOf(p, c).op = "prompt" /\ PromptOf(p, c).at = c
             /\ Pr!Gone(p, c).op = "prompt gone" /\ Pr!Gone(p, c).at = c
  BY DEF Says, Buries, OnItsWay, Among, PromptOf, Pr!Gone
<1>3a. \A p, c : /\ PromptOf(p, c).key = p /\ Pr!Gone(p, c).key = p
                /\ PromptOf(p, c).op = "prompt" /\ PromptOf(p, c).at = c
                /\ Pr!Gone(p, c).op = "prompt gone" /\ Pr!Gone(p, c).at = c
  BY DEF PromptOf, Pr!Gone
<1>4. CASE \E es : Operates(n, es)
  <2>1. PICK es : Operates(n, es) BY <1>4
  <2>2. now <= now' /\ now' \in Nat /\ UNCHANGED behind BY <1>2, <2>1 DEF Operates
  <2>3. born \subseteq born'
    <3>1. born \subseteq Prompt BY DEF PromptTypes, Pr!TypeOK
    <3>2. QED BY <2>1, <3>1 DEF Operates, Stays, Begins, Ceases
  <2>4. ASSUME NEW p \in Prompt, NEW c \in Pr!Stamp
        PROVE  /\ Says(p, c)' => \/ Says(p, c)
                                 \/ /\ c = Pr!Clock(n) /\ now' = now + 1
                                    /\ p \notin born /\ p \in born'
               /\ Buries(p, c)' => \/ Buries(p, c)
                                   \/ c = Pr!Clock(n) /\ p \in born /\ now' = now + 1
    <3>0. c # None BY PromptAssumption
    <3>1. \A o \in Store : o # n => prompts'[o] = prompts[o] /\ gone'[o] = gone[o]
      BY <2>1 DEF Operates
    <3>2. /\ Says(p, c)' <=> \/ prompts'[n][p] = c \/ \E o \in Store : o # n /\ prompts[o][p] = c
                             \/ OnItsWay(PromptOf(p, c)) \/ Among(PromptOf(p, c), es)
          /\ Buries(p, c)' <=> \/ gone'[n][p] = c \/ \E o \in Store : o # n /\ gone[o][p] = c
                               \/ OnItsWay(Pr!Gone(p, c)) \/ Among(Pr!Gone(p, c), es)
      <4>1. OnItsWay(PromptOf(p, c))' <=> OnItsWay(PromptOf(p, c)) \/ Among(PromptOf(p, c), es)
        BY <2>1, OnItsWayAfter DEF PromptOf
      <4>2. OnItsWay(Pr!Gone(p, c))' <=> OnItsWay(Pr!Gone(p, c)) \/ Among(Pr!Gone(p, c), es)
        BY <2>1, OnItsWayAfter DEF Pr!Gone
      <4>3. /\ (\E o \in Store : prompts'[o][p] = c)
                 <=> prompts'[n][p] = c \/ \E o \in Store : o # n /\ prompts[o][p] = c
            /\ (\E o \in Store : gone'[o][p] = c)
                 <=> gone'[n][p] = c \/ \E o \in Store : o # n /\ gone[o][p] = c
        BY <3>1
      <4>4. QED BY <1>3, <4>1, <4>2, <4>3
    <3>3. CASE Stays(n, p, es)
      <4>1. Among(PromptOf(p, c), es) => prompts[n][p] = c
        <5>1. Among(PromptOf(p, c), es) => PromptOf(p, c) = PromptOf(p, prompts[n][p])
          BY <1>3a, <3>3, Zenon DEF Stays
        <5>2. QED BY <5>1 DEF PromptOf, Pr!Gone
      <4>2. ~Among(Pr!Gone(p, c), es)
        <5>1. Among(Pr!Gone(p, c), es) => Pr!Gone(p, c) = PromptOf(p, prompts[n][p])
          BY <1>3a, <3>3, Zenon DEF Stays
        <5>2. QED BY <5>1 DEF PromptOf, Pr!Gone
      <4>3. prompts'[n][p] = prompts[n][p] /\ gone'[n][p] = gone[n][p] BY <3>3 DEF Stays
      <4>4. QED BY <3>2, <4>1, <4>2, <4>3 DEF Says, Buries
    <3>4. CASE Begins(n, p, es)
      <4>1. Among(PromptOf(p, c), es) => c = Pr!Clock(n)
        <5>1. Among(PromptOf(p, c), es) => PromptOf(p, c) = PromptOf(p, Pr!Clock(n))
          BY <1>3a, <3>4, Zenon DEF Begins
        <5>2. QED BY <5>1 DEF PromptOf, Pr!Gone
      <4>2. ~Among(Pr!Gone(p, c), es)
        <5>1. Among(Pr!Gone(p, c), es) => Pr!Gone(p, c) = PromptOf(p, Pr!Clock(n))
          BY <1>3a, <3>4, Zenon DEF Begins
        <5>2. QED BY <5>1 DEF PromptOf, Pr!Gone
      <4>3. /\ prompts'[n][p] = Pr!Clock(n) /\ gone'[n][p] = gone[n][p]
            /\ p \notin born /\ p \in born' /\ now' = now + 1
        BY <3>4 DEF Begins
      <4>4. QED BY <3>2, <4>1, <4>2, <4>3 DEF Says, Buries
    <3>5. CASE Ceases(n, p, es)
      <4>1. ~Among(PromptOf(p, c), es)
        <5>1. Among(PromptOf(p, c), es) => PromptOf(p, c) = Pr!Gone(p, Pr!Clock(n))
          BY <1>3a, <3>5, Zenon DEF Ceases
        <5>2. QED BY <5>1 DEF PromptOf, Pr!Gone
      <4>2. Among(Pr!Gone(p, c), es) => c = Pr!Clock(n)
        <5>1. Among(Pr!Gone(p, c), es) => Pr!Gone(p, c) = Pr!Gone(p, Pr!Clock(n))
          BY <1>3a, <3>5, Zenon DEF Ceases
        <5>2. QED BY <5>1 DEF PromptOf, Pr!Gone
      <4>3. /\ prompts'[n][p] = None /\ gone'[n][p] \in {gone[n][p], Pr!Clock(n)}
            /\ p \in born /\ now' = now + 1
        BY <3>5 DEF Ceases
      <4>4. QED BY <3>0, <3>2, <4>1, <4>2, <4>3 DEF Says, Buries
    <3>6. QED BY <2>1, <3>3, <3>4, <3>5 DEF Operates
  <2>5. QED BY <1>2, <2>2, <2>3, <2>4
<1>5. CASE Pr!Push(n)
  <2>1. UNCHANGED <<prompts, gone, behind, now, born>> BY <1>5, Pushes
  <2>2. ASSUME NEW p \in Prompt, NEW c \in Pr!Stamp
        PROVE  (Says(p, c)' => Says(p, c)) /\ (Buries(p, c)' => Buries(p, c))
    <3>1. /\ OnItsWay(PromptOf(p, c))' <=> OnItsWay(PromptOf(p, c))
          /\ OnItsWay(Pr!Gone(p, c))' <=> OnItsWay(Pr!Gone(p, c))
      BY <1>5, OnItsWayMoves DEF PromptOf, Pr!Gone
    <3>2. QED BY <1>3, <2>1, <3>1 DEF Says, Buries
  <2>3. QED BY <1>2, <2>1, <2>2
<1>6. CASE Pr!Pull(n)
  <2> DEFINE e == shared[taken[n] + 1]
  <2>1. /\ UNCHANGED <<behind, now, born>>
        /\ e \in Pr!Mutation /\ Among(e, shared)
        /\ \A o \in Store : o # n => prompts'[o] = prompts[o] /\ gone'[o] = gone[o]
        /\ \A p \in Prompt : p # e.key =>
              prompts'[n][p] = prompts[n][p] /\ gone'[n][p] = gone[n][p]
        /\ \/ /\ e.op = "prompt"
              /\ IF gone[n][e.key] # None /\ e.at <= gone[n][e.key]
                 THEN prompts'[n] = prompts[n] /\ gone'[n] = gone[n]
                 ELSE prompts'[n][e.key] = e.at /\ gone'[n][e.key] = None
           \/ e.op = "prompt gone" /\ prompts'[n][e.key] = None /\ gone'[n][e.key] = e.at
    BY <1>6, Pulls
  <2> HIDE DEF e
  <2>2. ASSUME NEW p \in Prompt, NEW c \in Pr!Stamp
        PROVE  (Says(p, c)' => Says(p, c)) /\ (Buries(p, c)' => Buries(p, c))
    <3>0. c # None BY PromptAssumption
    <3>1. /\ OnItsWay(PromptOf(p, c))' <=> OnItsWay(PromptOf(p, c))
          /\ OnItsWay(Pr!Gone(p, c))' <=> OnItsWay(Pr!Gone(p, c))
      BY <1>6, OnItsWayMoves DEF PromptOf, Pr!Gone
    <3>2. prompts'[n][p] = c => prompts[n][p] = c \/ OnItsWay(PromptOf(p, c))
      <4>1. e.op = "prompt" => e = PromptOf(e.key, e.at)
        BY <2>1 DEF Pr!Mutation, PromptOf
      <4>2. e.op = "prompt" => (prompts'[n][p] = c => prompts[n][p] = c \/ e = PromptOf(p, c))
        BY <2>1, <4>1
      <4>3. e.op = "prompt gone" => (prompts'[n][p] = c => prompts[n][p] = c)
        BY <2>1, <3>0
      <4>4. prompts'[n][p] = c => prompts[n][p] = c \/ e = PromptOf(p, c) BY <2>1, <4>2, <4>3
      <4>5. Among(e, shared) BY <2>1
      <4>6. QED BY <4>4, <4>5 DEF OnItsWay
    <3>3. gone'[n][p] = c => gone[n][p] = c \/ OnItsWay(Pr!Gone(p, c))
      <4>1. e.op = "prompt gone" => e = Pr!Gone(e.key, e.at)
        BY <2>1 DEF Pr!Mutation, Pr!Gone
      <4>2. e.op = "prompt" => (gone'[n][p] = c => gone[n][p] = c) BY <2>1, <3>0
      <4>3. e.op = "prompt gone" => (gone'[n][p] = c => gone[n][p] = c \/ e = Pr!Gone(p, c))
        BY <2>1, <4>1
      <4>4. gone'[n][p] = c => gone[n][p] = c \/ e = Pr!Gone(p, c) BY <2>1, <4>2, <4>3
      <4>5. Among(e, shared) BY <2>1
      <4>6. QED BY <4>4, <4>5 DEF OnItsWay
    <3>4. \A o \in Store : o # n => prompts'[o] = prompts[o] /\ gone'[o] = gone[o] BY <2>1
    <3>5. Says(p, c)' => Says(p, c)
      <4>1. \A o \in Store : prompts'[o][p] = c => Says(p, c) BY <3>2, <3>4 DEF Says
      <4>2. QED BY <3>1, <4>1 DEF Says
    <3>6. Buries(p, c)' => Buries(p, c)
      <4>1. \A o \in Store : gone'[o][p] = c => Buries(p, c) BY <3>3, <3>4 DEF Buries
      <4>2. QED BY <3>1, <4>1 DEF Buries
    <3>7. QED BY <3>5, <3>6
  <2>3. UNCHANGED <<behind, now, born>> BY <2>1
  <2>4. QED BY <1>2, <2>2, <2>3
<1>7. QED BY <1>1, <1>4, <1>5, <1>6

\* A prompt has one created_at.
OneMoment == \A p \in Prompt, c, d \in Pr!Stamp : Says(p, c) /\ Says(p, d) => c = d

\* Where clocks are right, it was deleted later than it was written.
DeletedLater ==
    Pr!TrueClocks => \A p \in Prompt, c, d \in Pr!Stamp : Says(p, c) /\ Buries(p, d) => c < d

LEMMA MomentsNext ==
    ASSUME PromptTypes, OfThePast, NothingUntold, OneMoment, DeletedLater, Pr!Next
    PROVE  OfThePast' /\ OneMoment' /\ DeletedLater'
<1>1. /\ now <= now' /\ now \in Nat /\ now' \in Nat /\ born \subseteq born' /\ UNCHANGED behind
      /\ \E n \in Store : \A p \in Prompt, c \in Pr!Stamp :
            /\ Says(p, c)' => \/ Says(p, c)
                              \/ c = Pr!Clock(n) /\ p \notin born /\ p \in born' /\ now' = now + 1
            /\ Buries(p, c)' => \/ Buries(p, c)
                                \/ c = Pr!Clock(n) /\ p \in born /\ now' = now + 1
  BY MomentsMade
<1>2. PICK n \in Store : \A p \in Prompt, c \in Pr!Stamp :
            /\ Says(p, c)' => \/ Says(p, c)
                              \/ c = Pr!Clock(n) /\ p \notin born /\ p \in born' /\ now' = now + 1
            /\ Buries(p, c)' => \/ Buries(p, c)
                                \/ c = Pr!Clock(n) /\ p \in born /\ now' = now + 1
  BY <1>1
<1>3. /\ Pr!Clock(n) <= now + Skew /\ Pr!Clock(n) \in Int /\ Skew \in Nat
      /\ Pr!TrueClocks => Pr!Clock(n) = now + Skew
      /\ Pr!TrueClocks' <=> Pr!TrueClocks
  <2>1. behind[n] \in 0..Skew /\ Skew \in Nat
    BY PromptAssumption DEF PromptTypes, Pr!TypeOK
  <2>2. QED BY <1>1, <2>1 DEF Pr!Clock, Pr!TrueClocks
<1>4. \A c \in Pr!Stamp : c \in Nat BY PromptAssumption DEF Pr!Stamp
<1>5. ASSUME NEW p \in Prompt, NEW c \in Pr!Stamp
      PROVE  Says(p, c) \/ Buries(p, c) => p \in born /\ c < now + Skew
  BY DEF OfThePast
<1>6. ASSUME NEW p \in Prompt, NEW c \in Pr!Stamp, (Says(p, c) \/ Buries(p, c))'
      PROVE  p \in born' /\ c < now' + Skew
  BY <1>1, <1>2, <1>3, <1>4, <1>5, <1>6
<1>7. ASSUME NEW p \in Prompt, NEW c \in Pr!Stamp, NEW d \in Pr!Stamp, Says(p, c)', Says(p, d)'
      PROVE  c = d
  BY <1>2, <1>5, <1>7 DEF OneMoment
<1>8. ASSUME Pr!TrueClocks, NEW p \in Prompt, NEW c \in Pr!Stamp, NEW d \in Pr!Stamp,
             Says(p, c)', Buries(p, d)'
      PROVE  c < d
  BY <1>2, <1>3, <1>4, <1>5, <1>8 DEF DeletedLater
<1>9. OfThePast' BY <1>6 DEF OfThePast
<1>10. OneMoment' BY <1>7 DEF OneMoment
<1>11. DeletedLater' BY <1>3, <1>8 DEF DeletedLater
<1>12. QED BY <1>9, <1>10, <1>11

\* Types are kept, and what is not enrolled is not queued.
LEMMA PromptTypesNext ==
    ASSUME PromptTypes, OfThePast, NothingUntold, Pr!Next
    PROVE  PromptTypes' /\ NothingUntold'
<1>1. PICK n \in Store : (\E es : Operates(n, es)) \/ Pr!Push(n) \/ Pr!Pull(n) BY PromptSteps
<1>2. /\ behind \in [Store -> 0..Skew] /\ joined \in [Store -> BOOLEAN]
      /\ pending \in [Store -> Seq(Pr!Mutation)] /\ shared \in Seq(Pr!Mutation)
      /\ taken \in [Store -> 0..Len(shared)] /\ now \in 0..MaxTime
      /\ prompts \in [Store -> [Prompt -> Pr!Stamp \cup {None}]]
      /\ gone \in [Store -> [Prompt -> Pr!Stamp \cup {None}]]
      /\ born \in SUBSET Prompt /\ unsent \in SUBSET born /\ IsFiniteSet(born)
      /\ Len(shared) \in Nat
  BY DEF PromptTypes, Pr!TypeOK
<1>3. CASE \E es : Operates(n, es)
  <2>1. PICK es : Operates(n, es) BY <1>3
  <2>2. /\ es \in Seq(Pr!Mutation) /\ pending' = [pending EXCEPT ![n] = @ \o es]
        /\ joined' \in [Store -> BOOLEAN] /\ (joined[n] => joined'[n])
        /\ (~joined'[n] => es = <<>>)
        /\ \A o \in Store \ {n} : joined'[o] = joined[o]
    BY <2>1 DEF Operates
  <2>3. pending[n] \o es \in Seq(Pr!Mutation) /\ (es = <<>> => pending[n] \o es = pending[n])
    BY <1>2, <2>2
  <2>4. pending' \in [Store -> Seq(Pr!Mutation)] BY <1>2, <2>2, <2>3
  <2>5. NothingUntold' BY <1>2, <2>2, <2>3 DEF NothingUntold
  <2>6. PromptTypes'
    <3>1. Pr!Stamp' = Pr!Stamp BY DEF Pr!Stamp
    <3>2. QED BY <1>2, <2>1, <2>4, <3>1 DEF Operates, PromptTypes, Pr!TypeOK, Pr!Mutation
  <2>7. QED BY <2>5, <2>6
<1>4. CASE Pr!Push(n)
  <2>1. /\ shared' \in Seq(Pr!Mutation) /\ Len(shared') = Len(shared) + 1
        /\ pending' \in [Store -> Seq(Pr!Mutation)] /\ pending[n] # <<>>
        /\ \A o \in Store : o # n => pending'[o] = pending[o]
        /\ UNCHANGED <<prompts, gone, behind, joined, taken, now, born, unsent>>
    BY <1>4, Pushes
  <2>2. 0..Len(shared) \subseteq 0..Len(shared') BY <1>2, <2>1
  <2>3. taken' \in [Store -> 0..Len(shared')] BY <1>2, <2>1, <2>2
  <2>4. PromptTypes' BY <1>2, <2>1, <2>3 DEF PromptTypes, Pr!TypeOK, Pr!Mutation, Pr!Stamp
  <2>5. NothingUntold' BY <2>1 DEF NothingUntold
  <2>6. QED BY <2>4, <2>5
<1>5. CASE Pr!Pull(n)
  <2>1. /\ taken' \in [Store -> 0..Len(shared)]
        /\ prompts' \in [Store -> [Prompt -> Pr!Stamp \cup {None}]]
        /\ gone' \in [Store -> [Prompt -> Pr!Stamp \cup {None}]]
        /\ UNCHANGED <<behind, joined, pending, shared, now, born, unsent>>
    BY <1>5, Pulls
  <2>2. PromptTypes' BY <1>2, <2>1 DEF PromptTypes, Pr!TypeOK, Pr!Mutation, Pr!Stamp
  <2>3. NothingUntold' BY <2>1 DEF NothingUntold
  <2>4. QED BY <2>2, <2>3
<1>6. QED BY <1>1, <1>3, <1>4, <1>5

-----------------------------------------------------------------------------
(* Prompts: a deleted one does not come back.                              *)

\* An entry that deletes a prompt, and one that writes it.
Deletes(e, p) == e.op = "prompt gone" /\ e.key = p
Writes(e, p) == e.op = "prompt" /\ e.key = p

\* Where clocks are right, a store that has seen a delete does not hold the
\* prompt, and remembers that it was deleted.
Remembered ==
    Pr!TrueClocks =>
        \A n \in Store, p \in Prompt : \A i \in 1..taken[n] :
            Deletes(shared[i], p) => prompts[n][p] = None /\ gone[n][p] # None

\* What the log says.
LEMMA LogSays ==
    ASSUME PromptTypes, NEW i \in 1..Len(shared)
    PROVE  /\ shared[i] \in Pr!Mutation /\ shared[i].key \in Prompt /\ shared[i].at \in Pr!Stamp
           /\ \A p : Writes(shared[i], p) => Says(p, shared[i].at)
           /\ \A p : Deletes(shared[i], p) => Buries(p, shared[i].at)
<1> DEFINE e == shared[i]
<1>1. e \in Pr!Mutation /\ Among(e, shared)
  BY DEF PromptTypes, Pr!TypeOK, Among
<1> HIDE DEF e
<1>2. /\ e.key \in Prompt /\ e.at \in Pr!Stamp
      /\ \A p : Writes(e, p) => e = PromptOf(p, e.at)
      /\ \A p : Deletes(e, p) => e = Pr!Gone(p, e.at)
  BY <1>1 DEF Pr!Mutation, PromptOf, Pr!Gone, Writes, Deletes
<1>3. ASSUME NEW p PROVE (Writes(e, p) => Says(p, e.at)) /\ (Deletes(e, p) => Buries(p, e.at))
  BY <1>1, <1>2 DEF Says, Buries, OnItsWay
<1>4. QED BY <1>1, <1>2, <1>3 DEF e

\* A pull, as far as one prompt goes.
LEMMA PullsPrompt ==
    ASSUME PromptTypes, NEW n \in Store, Pr!Pull(n), NEW p \in Prompt
    PROVE  LET e == shared[taken[n] + 1] IN
           /\ e.at \in Pr!Stamp /\ e.at \in Nat /\ e.at # None
           /\ \/ /\ ~Writes(e, p) /\ ~Deletes(e, p)
                 /\ prompts'[n][p] = prompts[n][p] /\ gone'[n][p] = gone[n][p]
              \/ /\ Writes(e, p) /\ ~Deletes(e, p) /\ Says(p, e.at)
                 /\ gone[n][p] # None /\ e.at <= gone[n][p]
                 /\ prompts'[n][p] = prompts[n][p] /\ gone'[n][p] = gone[n][p]
              \/ /\ Writes(e, p) /\ ~Deletes(e, p) /\ Says(p, e.at)
                 /\ ~ (gone[n][p] # None /\ e.at <= gone[n][p])
                 /\ prompts'[n][p] = e.at /\ gone'[n][p] = None
              \/ /\ Deletes(e, p) /\ ~Writes(e, p)
                 /\ prompts'[n][p] = None /\ gone'[n][p] = e.at
<1> DEFINE t == taken[n] + 1
           e == shared[t]
<1>1. /\ t \in 1..Len(shared)
      /\ \A q \in Prompt : q # e.key =>
              prompts'[n][q] = prompts[n][q] /\ gone'[n][q] = gone[n][q]
      /\ \/ /\ e.op = "prompt"
            /\ IF gone[n][e.key] # None /\ e.at <= gone[n][e.key]
               THEN prompts'[n] = prompts[n] /\ gone'[n] = gone[n]
               ELSE prompts'[n][e.key] = e.at /\ gone'[n][e.key] = None
         \/ e.op = "prompt gone" /\ prompts'[n][e.key] = None /\ gone'[n][e.key] = e.at
  BY Pulls
<1>2. /\ e \in Pr!Mutation /\ e.at \in Pr!Stamp /\ (Writes(e, p) => Says(p, e.at))
  BY <1>1, LogSays
<1> HIDE DEF t, e
<1>3. e.at # None /\ e.at \in Nat BY <1>2, PromptAssumption DEF Pr!Stamp
<1>4. (e.op = "prompt" <=> Writes(e, e.key)) /\ (e.op = "prompt gone" <=> Deletes(e, e.key))
  BY DEF Writes, Deletes
<1>5. ~ (Writes(e, p) /\ Deletes(e, p)) BY DEF Writes, Deletes
<1>6. CASE p # e.key
  <2>1. ~Writes(e, p) /\ ~Deletes(e, p) BY <1>6 DEF Writes, Deletes
  <2>2. QED BY <1>1, <1>2, <1>3, <1>6, <2>1 DEF e, t
<1>7. CASE p = e.key BY <1>1, <1>2, <1>3, <1>4, <1>5, <1>7 DEF e, t
<1>8. QED BY <1>6, <1>7

LEMMA RememberedNext ==
    ASSUME PromptTypes, OfThePast, NothingUntold, DeletedLater, Remembered,
           Pr!Next
    PROVE  Remembered'
<1>1. PICK n \in Store : (\E es : Operates(n, es)) \/ Pr!Push(n) \/ Pr!Pull(n) BY PromptSteps
<1>2. Pr!TrueClocks' <=> Pr!TrueClocks BY MomentsMade DEF Pr!TrueClocks
<1>3. Len(shared) \in Nat /\ \A m \in Store : taken[m] \in Nat /\ taken[m] <= Len(shared)
  BY DEF PromptTypes, Pr!TypeOK
<1> SUFFICES ASSUME Pr!TrueClocks, NEW o \in Store, NEW p \in Prompt, NEW i,
                    i \in 1..taken'[o], Deletes(shared'[i], p)
             PROVE  prompts'[o][p] = None /\ gone'[o][p] # None
  BY <1>2 DEF Remembered
<1>4. ASSUME NEW j \in 1..taken[o], Deletes(shared[j], p)
      PROVE  prompts[o][p] = None /\ gone[o][p] # None /\ p \in born
  <2>1. j \in 1..Len(shared) BY <1>3
  <2>2. Buries(p, shared[j].at) /\ shared[j].at \in Pr!Stamp BY <1>4, <2>1, LogSays
  <2>3. QED BY <1>4, <2>2 DEF Remembered, OfThePast
<1>5. CASE \E es : Operates(n, es)
  <2>1. PICK es : Operates(n, es) BY <1>5
  <2>2. taken' = taken /\ shared' = shared BY <2>1 DEF Operates
  <2>3. prompts[o][p] = None /\ gone[o][p] # None /\ p \in born BY <1>4, <2>2
  <2>4. CASE o # n
    <3>1. prompts'[o] = prompts[o] /\ gone'[o] = gone[o] BY <2>1, <2>4 DEF Operates
    <3>2. QED BY <2>3, <3>1
  <2>5. CASE o = n
    <3>1. Stays(n, p, es) BY <2>1, <2>3, <2>5 DEF Operates, Begins, Ceases
    <3>2. prompts'[n][p] = prompts[n][p] /\ gone'[n][p] = gone[n][p] BY <3>1 DEF Stays
    <3>3. QED BY <2>3, <2>5, <3>2
  <2>6. QED BY <2>4, <2>5
<1>6. CASE Pr!Push(n)
  <2>1. /\ \A j \in 1..Len(shared) : shared'[j] = shared[j]
        /\ UNCHANGED <<prompts, gone, taken>>
    BY <1>6, Pushes
  <2>2. i \in 1..taken[o] BY <2>1
  <2>3. i \in 1..Len(shared) BY <1>3, <2>2
  <2>4. Deletes(shared[i], p) BY <2>1, <2>3
  <2>5. QED BY <1>4, <2>1, <2>2, <2>4
<1>7. CASE Pr!Pull(n)
  <2>1. /\ taken'[n] = taken[n] + 1 /\ shared' = shared
        /\ \A m \in Store : m # n =>
              prompts'[m] = prompts[m] /\ gone'[m] = gone[m] /\ taken'[m] = taken[m]
    BY <1>7, Pulls
  <2>2. CASE o # n
    <3>1. prompts'[o] = prompts[o] /\ gone'[o] = gone[o] /\ taken'[o] = taken[o] BY <2>1, <2>2
    <3>2. i \in 1..taken[o] /\ Deletes(shared[i], p) BY <2>1, <3>1
    <3>3. QED BY <1>4, <3>1, <3>2
  <2> DEFINE e == shared[taken[n] + 1]
  <2>3. /\ e.at \in Pr!Stamp /\ e.at \in Nat /\ e.at # None
        /\ \/ /\ ~Writes(e, p) /\ ~Deletes(e, p)
              /\ prompts'[n][p] = prompts[n][p] /\ gone'[n][p] = gone[n][p]
           \/ /\ Writes(e, p) /\ ~Deletes(e, p) /\ Says(p, e.at)
              /\ gone[n][p] # None /\ e.at <= gone[n][p]
              /\ prompts'[n][p] = prompts[n][p] /\ gone'[n][p] = gone[n][p]
           \/ /\ Writes(e, p) /\ ~Deletes(e, p) /\ Says(p, e.at)
              /\ ~ (gone[n][p] # None /\ e.at <= gone[n][p])
              /\ prompts'[n][p] = e.at /\ gone'[n][p] = None
           \/ /\ Deletes(e, p) /\ ~Writes(e, p)
              /\ prompts'[n][p] = None /\ gone'[n][p] = e.at
    BY <1>7, PullsPrompt
  <2>4. CASE o = n /\ i = taken[n] + 1
    <3>1. Deletes(e, p) BY <2>1, <2>4
    <3> HIDE DEF e
    <3>2. QED BY <2>3, <2>4, <3>1
  <2>5. CASE o = n /\ i # taken[n] + 1
    <3>1. i \in 1..taken[n] BY <1>3, <2>1, <2>5
    <3>2. prompts[n][p] = None /\ gone[n][p] # None /\ p \in born
      BY <1>4, <2>1, <2>5, <3>1
    <3> HIDE DEF e
    <3>3. gone[n][p] \in Pr!Stamp BY <3>2 DEF PromptTypes, Pr!TypeOK
    <3>4. Buries(p, gone[n][p]) BY DEF Buries
    <3>5. Says(p, e.at) => e.at < gone[n][p] BY <2>3, <3>3, <3>4 DEF DeletedLater
    <3>6. gone[n][p] \in Nat BY <3>3, PromptAssumption DEF Pr!Stamp
    <3>7. Says(p, e.at) => e.at <= gone[n][p] BY <2>3, <3>5, <3>6
    <3>8. QED BY <2>3, <2>5, <3>2, <3>7
  <2>6. QED BY <2>2, <2>4, <2>5
<1>8. QED BY <1>1, <1>5, <1>6, <1>7

-----------------------------------------------------------------------------
(* Prompts: stores that have exchanged everything hold the same.           *)

\* What an enrolled store holds is in the log or in its own journal.
HeldAreSent ==
    \A n \in Store, p \in Prompt :
        prompts[n][p] # None /\ joined[n] =>
            LET e == PromptOf(p, prompts[n][p]) IN Among(e, shared) \/ Among(e, pending[n])

LEMMA HeldAreSentNext ==
    ASSUME PromptTypes, OfThePast, NothingUntold, HeldAreSent, Pr!Next
    PROVE  HeldAreSent'
<1>1. PICK n \in Store : (\E es : Operates(n, es)) \/ Pr!Push(n) \/ Pr!Pull(n) BY PromptSteps
<1> SUFFICES ASSUME NEW o \in Store, NEW p \in Prompt, prompts'[o][p] # None, joined'[o]
             PROVE  \/ Among(PromptOf(p, prompts'[o][p]), shared')
                    \/ Among(PromptOf(p, prompts'[o][p]), pending'[o])
  BY DEF HeldAreSent, Among, PromptOf
<1> DEFINE f == PromptOf(p, prompts[o][p])
<1>2. prompts[o][p] # None /\ joined[o] => Among(f, shared) \/ Among(f, pending[o])
  BY DEF HeldAreSent
<1>3. CASE \E es : Operates(n, es)
  <2>1. PICK es : Operates(n, es) BY <1>3
  <2>2. /\ es \in Seq(Pr!Mutation) /\ pending' = [pending EXCEPT ![n] = @ \o es] /\ shared' = shared
        /\ \A m \in Store : m # n => prompts'[m] = prompts[m] /\ joined'[m] = joined[m]
    BY <2>1 DEF Operates
  <2>3. pending \in [Store -> Seq(Pr!Mutation)] BY DEF PromptTypes, Pr!TypeOK
  <2>4. pending'[n] = pending[n] \o es /\ \A m \in Store : m # n => pending'[m] = pending[m]
    BY <2>2, <2>3
  <2>5. \A e : Among(e, pending'[n]) <=> Among(e, pending[n]) \/ Among(e, es)
    <3>1. pending[n] \in Seq(Pr!Mutation) BY <2>3
    <3>2. \A e : Among(e, pending[n] \o es) <=> Among(e, pending[n]) \/ Among(e, es)
      BY <2>2, <3>1, AmongBoth
    <3>3. QED BY <2>4, <3>2
  <2>6. CASE o # n BY <1>2, <2>2, <2>4, <2>6
  <2>7. CASE o = n /\ Stays(n, p, es)
    <3>1. /\ prompts'[n][p] = prompts[n][p]
          /\ joined'[n] /\ ~joined[n] /\ prompts[n][p] # None => Among(f, es)
      BY <2>7 DEF Stays
    <3> HIDE DEF f
    <3>2. Among(f, shared) \/ Among(f, pending'[n])
      BY <1>2, <2>5, <2>7, <3>1
    <3>3. QED BY <2>2, <2>7, <3>1, <3>2 DEF f
  <2>8. CASE o = n /\ Begins(n, p, es)
    <3>1. prompts'[n][p] = Pr!Clock(n) /\ Among(PromptOf(p, Pr!Clock(n)), es)
      BY <2>8 DEF Begins
    <3>2. QED BY <2>5, <2>8, <3>1
  <2>9. CASE o = n /\ Ceases(n, p, es) BY <2>9 DEF Ceases
  <2>10. QED BY <2>1, <2>6, <2>7, <2>8, <2>9 DEF Operates
<1>4. CASE Pr!Push(n)
  <2> DEFINE h == Head(pending[n])
  <2>1. /\ UNCHANGED <<prompts, joined>>
        /\ \A m \in Store : m # n => pending'[m] = pending[m]
        /\ \A e : Among(e, shared') <=> Among(e, shared) \/ e = h
        /\ \A e : Among(e, pending[n]) <=> e = h \/ Among(e, pending'[n])
    BY <1>4, Pushes
  <2> HIDE DEF h
  <2>2. Among(f, shared) \/ Among(f, pending[o]) BY <1>2, <2>1
  <2>3. f = PromptOf(p, prompts'[o][p]) BY <2>1
  <2> HIDE DEF f
  <2>4. QED BY <2>1, <2>2, <2>3
<1>5. CASE Pr!Pull(n)
  <2> DEFINE e == shared[taken[n] + 1]
  <2>1. /\ UNCHANGED <<joined, pending, shared>> /\ e \in Pr!Mutation /\ Among(e, shared)
        /\ \A m \in Store : m # n => prompts'[m] = prompts[m]
    BY <1>5, Pulls
  <2>2. \/ prompts'[n][p] = prompts[n][p] \/ prompts'[n][p] = None
        \/ Writes(e, p) /\ prompts'[n][p] = e.at
    BY <1>5, PullsPrompt
  <2> HIDE DEF e
  <2>3. Writes(e, p) => e = PromptOf(p, e.at) BY <2>1 DEF Writes, Pr!Mutation, PromptOf
  <2>4. CASE prompts'[o][p] = prompts[o][p] BY <1>2, <2>1, <2>4
  <2>5. CASE o = n /\ Writes(e, p) /\ prompts'[n][p] = e.at BY <2>1, <2>3, <2>5
  <2>6. QED BY <2>1, <2>2, <2>4, <2>5
<1>6. QED BY <1>1, <1>3, <1>4, <1>5

\* No delete of p waits to be sent by store n or to be taken by it.
Settled(n, p) ==
    /\ \A e : Among(e, pending[n]) => ~Deletes(e, p)
    /\ \A i \in DOMAIN shared : i > taken[n] => ~Deletes(shared[i], p)

\* The last delete of p that store n has taken.
LastDelete(n, p, k) ==
    Deletes(shared[k], p) /\ \A i \in 1..taken[n] : i > k => ~Deletes(shared[i], p)

\* It took a prompt afterwards that is younger than that delete.
WrittenAfter(n, p, k) ==
    \E i \in 1..taken[n] : i > k /\ Writes(shared[i], p) /\ shared[i].at > shared[k].at

\* A store that is settled holds what the log it has taken says, of prompts
\* whose deletes were all sent.
Follows(n, p) ==
    /\ \A k \in 1..taken[n] : LastDelete(n, p, k) =>
          /\ prompts[n][p] # None <=> WrittenAfter(n, p, k)
          /\ prompts[n][p] = None => gone[n][p] = shared[k].at
    /\ (\A k \in 1..taken[n] : ~Deletes(shared[k], p)) =>
          /\ gone[n][p] = None
          /\ (\E k \in 1..taken[n] : Writes(shared[k], p)) => prompts[n][p] # None

PromptsFollow == \A n \in Store, p \in Prompt : p \notin unsent /\ Settled(n, p) => Follows(n, p)

\* Nothing a store has taken or holds of p changes.
LEMMA FollowsFrame ==
    ASSUME PromptTypes, NEW n \in Store, NEW p \in Prompt, Follows(n, p), taken'[n] = taken[n],
           prompts'[n][p] = prompts[n][p], gone'[n][p] = gone[n][p],
           \A i \in 1..taken[n] : shared'[i] = shared[i]
    PROVE  Follows(n, p)'
<1>1. ASSUME NEW k \in 1..taken[n]
      PROVE  /\ LastDelete(n, p, k)' <=> LastDelete(n, p, k)
             /\ WrittenAfter(n, p, k)' <=> WrittenAfter(n, p, k)
  BY DEF LastDelete, WrittenAfter
<1>2. QED BY <1>1 DEF Follows

LEMMA FollowNext ==
    ASSUME PromptTypes, OfThePast, NothingUntold, PromptsFollow, Pr!Next
    PROVE  PromptsFollow'
<1>1. PICK n \in Store : (\E es : Operates(n, es)) \/ Pr!Push(n) \/ Pr!Pull(n) BY PromptSteps
<1>2. /\ Len(shared) \in Nat /\ DOMAIN shared = 1..Len(shared)
      /\ \A m \in Store : taken[m] \in Nat /\ taken[m] <= Len(shared)
      /\ pending \in [Store -> Seq(Pr!Mutation)]
  BY DEF PromptTypes, Pr!TypeOK
<1> SUFFICES ASSUME NEW o \in Store, NEW p \in Prompt, p \notin unsent', Settled(o, p)'
             PROVE  Follows(o, p)'
  BY DEF PromptsFollow
<1>3. /\ \A e : Among(e, pending'[o]) => ~Deletes(e, p)
      /\ \A i \in DOMAIN shared' : i > taken'[o] => ~Deletes(shared'[i], p)
  BY DEF Settled, Among, Deletes
<1>4. p \notin unsent /\ Settled(o, p) => Follows(o, p) BY DEF PromptsFollow
<1>5. CASE \E es : Operates(n, es)
  <2>1. PICK es : Operates(n, es) BY <1>5
  <2>2. /\ es \in Seq(Pr!Mutation) /\ pending' = [pending EXCEPT ![n] = @ \o es]
        /\ shared' = shared /\ taken' = taken /\ unsent \subseteq unsent'
        /\ \A m \in Store : m # n => prompts'[m] = prompts[m] /\ gone'[m] = gone[m]
    BY <2>1 DEF Operates
  <2>3. pending'[n] = pending[n] \o es /\ \A m \in Store : m # n => pending'[m] = pending[m]
    BY <1>2, <2>2
  <2>4. \A e : Among(e, pending'[n]) <=> Among(e, pending[n]) \/ Among(e, es)
    <3>1. pending[n] \in Seq(Pr!Mutation) BY <1>2
    <3>2. \A e : Among(e, pending[n] \o es) <=> Among(e, pending[n]) \/ Among(e, es)
      BY <2>2, <3>1, AmongBoth
    <3>3. QED BY <2>3, <3>2
  <2>5. p \notin unsent BY <2>2
  <2>6. Settled(o, p)
    <3>1. \A e : Among(e, pending[o]) => ~Deletes(e, p) BY <1>3, <2>3, <2>4
    <3>2. QED BY <1>3, <2>2, <3>1 DEF Settled
  <2>7. Follows(o, p) BY <1>4, <2>5, <2>6
  <2>8. CASE prompts'[o][p] = prompts[o][p] /\ gone'[o][p] = gone[o][p]
    BY <2>2, <2>7, <2>8, FollowsFrame
  <2>9. CASE o = n /\ Begins(n, p, es)
    <3>1. p \notin born /\ gone'[n][p] = gone[n][p] BY <2>9 DEF Begins
    <3>2. \A c \in Pr!Stamp : ~Says(p, c) /\ ~Buries(p, c) BY <3>1 DEF OfThePast
    <3>3. ASSUME NEW k \in 1..taken[n] PROVE ~Writes(shared[k], p) /\ ~Deletes(shared[k], p)
      <4>1. k \in 1..Len(shared) BY <1>2
      <4>2. QED BY <3>2, <4>1, LogSays
    <3>4. gone[n][p] = None
      <4>1. gone[n][p] \in Pr!Stamp \cup {None} BY DEF PromptTypes, Pr!TypeOK
      <4>2. QED BY <3>2, <4>1 DEF Buries
    <3>5. \A k \in 1..taken'[n] : ~Writes(shared'[k], p) /\ ~Deletes(shared'[k], p)
      BY <2>2, <3>3
    <3>6. gone'[n][p] = None BY <3>1, <3>4
    <3>7. QED BY <2>9, <3>5, <3>6 DEF Follows, LastDelete
  <2>10. CASE o = n /\ Ceases(n, p, es)
    <3>1. joined[n] /\ Among(Pr!Gone(p, Pr!Clock(n)), es) BY <2>10 DEF Ceases
    <3>2. Deletes(Pr!Gone(p, Pr!Clock(n)), p) BY DEF Deletes, Pr!Gone
    <3>3. QED BY <1>3, <2>4, <2>10, <3>1, <3>2
  <2>11. Stays(n, p, es) => prompts'[n][p] = prompts[n][p] /\ gone'[n][p] = gone[n][p]
    BY DEF Stays
  <2>12. Stays(n, p, es) \/ Begins(n, p, es) \/ Ceases(n, p, es) BY <2>1 DEF Operates
  <2>13. QED BY <2>2, <2>8, <2>9, <2>10, <2>11, <2>12
<1>6. CASE Pr!Push(n)
  <2> DEFINE h == Head(pending[n])
  <2>1. /\ Len(shared') = Len(shared) + 1 /\ shared'[Len(shared) + 1] = h
        /\ shared' \in Seq(Pr!Mutation)
        /\ \A i \in 1..Len(shared) : shared'[i] = shared[i]
        /\ \A m \in Store : m # n => pending'[m] = pending[m]
        /\ \A e : Among(e, pending[n]) <=> e = h \/ Among(e, pending'[n])
        /\ UNCHANGED <<prompts, gone, taken, unsent>>
    BY <1>6, Pushes
  <2> HIDE DEF h
  <2>2. DOMAIN shared' = 1..(Len(shared) + 1) BY <2>1
  <2>3. ~Deletes(h, p)
    <3>1. Len(shared) + 1 \in DOMAIN shared' /\ Len(shared) + 1 > taken'[o] BY <1>2, <2>1, <2>2
    <3>2. QED BY <1>3, <2>1, <3>1
  <2>4. Settled(o, p)
    <3>1. \A e : Among(e, pending[o]) => ~Deletes(e, p) BY <1>3, <2>1, <2>3
    <3>2. ASSUME NEW i \in DOMAIN shared, i > taken[o] PROVE ~Deletes(shared[i], p)
      <4>1. i \in DOMAIN shared' /\ shared'[i] = shared[i] BY <1>2, <2>1, <2>2
      <4>2. QED BY <1>3, <2>1, <3>2, <4>1
    <3>3. QED BY <3>1, <3>2 DEF Settled
  <2>5. Follows(o, p) BY <1>4, <2>1, <2>4
  <2>6. \A i \in 1..taken[o] : shared'[i] = shared[i] BY <1>2, <2>1
  <2>7. QED BY <2>1, <2>5, <2>6, FollowsFrame
<1>7. CASE Pr!Pull(n)
  <2> DEFINE t == taken[n] + 1
             e == shared[t]
  <2>1. /\ t \in 1..Len(shared) /\ taken'[n] = t
        /\ \A m \in Store : m # n =>
              prompts'[m] = prompts[m] /\ gone'[m] = gone[m] /\ taken'[m] = taken[m]
        /\ UNCHANGED <<pending, shared, unsent>>
    BY <1>7, Pulls
  <2>2. CASE o # n
    <3>1. taken'[o] = taken[o] /\ prompts'[o] = prompts[o] /\ gone'[o] = gone[o] BY <2>1, <2>2
    <3>2. Settled(o, p) BY <1>3, <2>1, <3>1 DEF Settled
    <3>3. Follows(o, p) BY <1>4, <2>1, <3>2
    <3>4. QED BY <2>1, <3>1, <3>3, FollowsFrame
  <2>3. CASE o = n
    <3>1. /\ e.at \in Pr!Stamp /\ e.at \in Nat /\ e.at # None
          /\ \/ /\ ~Writes(e, p) /\ ~Deletes(e, p)
                /\ prompts'[n][p] = prompts[n][p] /\ gone'[n][p] = gone[n][p]
             \/ /\ Writes(e, p) /\ ~Deletes(e, p) /\ Says(p, e.at)
                /\ gone[n][p] # None /\ e.at <= gone[n][p]
                /\ prompts'[n][p] = prompts[n][p] /\ gone'[n][p] = gone[n][p]
             \/ /\ Writes(e, p) /\ ~Deletes(e, p) /\ Says(p, e.at)
                /\ ~ (gone[n][p] # None /\ e.at <= gone[n][p])
                /\ prompts'[n][p] = e.at /\ gone'[n][p] = None
             \/ /\ Deletes(e, p) /\ ~Writes(e, p)
                /\ prompts'[n][p] = None /\ gone'[n][p] = e.at
      BY <1>7, PullsPrompt
    <3>2. /\ taken[n] \in Nat /\ t = taken[n] + 1 /\ e = shared[t]
          /\ \A i \in 1..t : i \in 1..taken[n] \/ i = t
          /\ 1..taken[n] \subseteq 1..t /\ t \in 1..t /\ \A i \in 1..taken[n] : i < t
      BY <1>2
    <3> HIDE DEF t, e
    <3>3. /\ Follows(n, p)' <=>
              /\ \A k \in 1..t : LastDelete(n, p, k)' =>
                    /\ prompts'[n][p] # None <=> WrittenAfter(n, p, k)'
                    /\ prompts'[n][p] = None => gone'[n][p] = shared[k].at
              /\ (\A k \in 1..t : ~Deletes(shared[k], p)) =>
                    /\ gone'[n][p] = None
                    /\ (\E k \in 1..t : Writes(shared[k], p)) => prompts'[n][p] # None
          /\ \A k \in 1..t :
              /\ LastDelete(n, p, k)' <=>
                    Deletes(shared[k], p) /\ \A i \in 1..t : i > k => ~Deletes(shared[i], p)
              /\ WrittenAfter(n, p, k)' <=>
                    \E i \in 1..t : i > k /\ Writes(shared[i], p) /\ shared[i].at > shared[k].at
      <4>1. taken'[n] = t /\ shared' = shared BY <2>1
      <4>2. QED BY <4>1 DEF Follows, LastDelete, WrittenAfter
    <3>4. CASE Deletes(e, p)
      <4>1. /\ prompts'[n][p] = None /\ gone'[n][p] = e.at BY <3>1, <3>4
      <4>2. \A k \in 1..t : LastDelete(n, p, k)' => k = t
        BY <3>2, <3>3, <3>4
      <4>3. \A k \in 1..t : k = t => ~WrittenAfter(n, p, k)'
        <5>1. \A i \in 1..t : ~ (i > t) BY <3>2
        <5>2. QED BY <3>3, <5>1
      <4>4. QED BY <2>3, <3>2, <3>3, <3>4, <4>1, <4>2, <4>3
    <3>5. CASE ~Deletes(e, p)
      <4>1. Settled(n, p)
        <5>1. \A i \in DOMAIN shared : i > taken[n] => i = t \/ i > taken'[n]
          BY <1>2, <2>1, <3>2
        <5>2. QED BY <1>3, <2>1, <2>3, <3>2, <3>5, <5>1 DEF Settled
      <4>2. Follows(n, p) BY <1>4, <2>1, <2>3, <4>1
      <4>3. /\ \A k \in 1..taken[n] : LastDelete(n, p, k) =>
                  /\ prompts[n][p] # None <=> WrittenAfter(n, p, k)
                  /\ prompts[n][p] = None => gone[n][p] = shared[k].at
            /\ (\A k \in 1..taken[n] : ~Deletes(shared[k], p)) =>
                  /\ gone[n][p] = None
                  /\ (\E k \in 1..taken[n] : Writes(shared[k], p)) => prompts[n][p] # None
        BY <4>2 DEF Follows
      <4>4. ASSUME NEW k \in 1..t, LastDelete(n, p, k)'
            PROVE  /\ k \in 1..taken[n] /\ LastDelete(n, p, k)
                   /\ WrittenAfter(n, p, k)' <=>
                        WrittenAfter(n, p, k) \/ (Writes(e, p) /\ e.at > shared[k].at)
        <5>1. k \in 1..taken[n] BY <3>2, <3>3, <3>5, <4>4
        <5>2. LastDelete(n, p, k) BY <3>2, <3>3, <4>4, <5>1 DEF LastDelete
        <5>3. WrittenAfter(n, p, k)' <=>
                WrittenAfter(n, p, k) \/ (Writes(e, p) /\ e.at > shared[k].at)
          BY <3>2, <3>3, <5>1 DEF WrittenAfter
        <5>4. QED BY <5>1, <5>2, <5>3
      <4>5. ASSUME NEW k \in 1..t, LastDelete(n, p, k)'
            PROVE  /\ prompts'[n][p] # None <=> WrittenAfter(n, p, k)'
                   /\ prompts'[n][p] = None => gone'[n][p] = shared[k].at
        <5>1. /\ k \in 1..taken[n] /\ LastDelete(n, p, k)
              /\ WrittenAfter(n, p, k)' <=>
                   WrittenAfter(n, p, k) \/ (Writes(e, p) /\ e.at > shared[k].at)
          BY <4>4, <4>5
        <5>2. /\ prompts[n][p] # None <=> WrittenAfter(n, p, k)
              /\ prompts[n][p] = None => gone[n][p] = shared[k].at
          BY <4>3, <5>1
        <5>3. shared[k].at \in Nat /\ shared[k].at # None
          <6>1. k \in 1..Len(shared) BY <1>2, <5>1
          <6>2. shared[k].at \in Pr!Stamp BY <6>1, LogSays
          <6>3. QED BY <6>2, PromptAssumption DEF Pr!Stamp
        <5>4. CASE ~Writes(e, p) BY <3>1, <3>5, <5>1, <5>2, <5>4
        <5>5. CASE Writes(e, p) /\ prompts[n][p] # None
          BY <3>1, <3>5, <5>1, <5>2, <5>5
        <5>6. CASE Writes(e, p) /\ prompts[n][p] = None
          <6>1. gone[n][p] = shared[k].at /\ gone[n][p] # None BY <5>2, <5>3, <5>6
          <6>2. e.at <= gone[n][p] <=> ~ (e.at > shared[k].at) BY <3>1, <5>3, <6>1
          <6>3. QED BY <3>1, <3>5, <5>1, <5>2, <5>6, <6>1, <6>2
        <5>7. QED BY <5>4, <5>5, <5>6
      <4>6. ASSUME \A k \in 1..t : ~Deletes(shared[k], p)
            PROVE  /\ gone'[n][p] = None
                   /\ (\E k \in 1..t : Writes(shared[k], p)) => prompts'[n][p] # None
        <5>1. /\ gone[n][p] = None
              /\ (\E k \in 1..taken[n] : Writes(shared[k], p)) => prompts[n][p] # None
          BY <3>2, <4>3, <4>6
        <5>2. QED BY <3>1, <3>2, <3>5, <5>1
      <4>7. QED BY <2>3, <3>3, <4>5, <4>6
    <3>6. QED BY <3>4, <3>5
  <2>4. QED BY <2>2, <2>3
<1>8. QED BY <1>1, <1>5, <1>6, <1>7

-----------------------------------------------------------------------------
(* Prompts: the theorems.                                                  *)

PromptInv ==
    /\ PromptTypes /\ NothingUntold
    /\ OfThePast /\ OneMoment /\ DeletedLater /\ Remembered
    /\ HeldAreSent /\ PromptsFollow

LEMMA PromptInvInit == ASSUME Pr!Init PROVE PromptInv
<1>1. /\ prompts = [n \in Store |-> [p \in Prompt |-> None]] /\ gone = prompts
      /\ behind \in [Store -> 0..Skew] /\ joined \in [Store -> BOOLEAN]
      /\ pending = [n \in Store |-> <<>>] /\ shared = <<>>
      /\ taken = [n \in Store |-> 0] /\ now = 0 /\ born = {} /\ unsent = {}
  BY DEF Pr!Init
<1>2. <<>> \in Seq(Pr!Mutation) /\ Len(<<>>) = 0 /\ DOMAIN <<>> = {} OBVIOUS
<1>3. PromptTypes
  <2>1. IsFiniteSet(born) BY <1>1, FS_EmptySet
  <2>2. 0 \in 0..MaxTime /\ 0 \in 0..Len(<<>>) BY <1>2, PromptAssumption
  <2>3. QED BY <1>1, <1>2, <2>1, <2>2 DEF PromptTypes, Pr!TypeOK
<1>4. \A e : ~OnItsWay(e) BY <1>1, <1>2 DEF OnItsWay, Among
<1>5. \A p \in Prompt, c \in Pr!Stamp : ~Says(p, c) /\ ~Buries(p, c)
  BY <1>1, <1>4, PromptAssumption DEF Says, Buries
<1>6. OfThePast /\ OneMoment /\ DeletedLater BY <1>5 DEF OfThePast, OneMoment, DeletedLater
<1>7. \A n \in Store : 1..taken[n] = {} BY <1>1
<1>8. Remembered BY <1>7 DEF Remembered
<1>9. HeldAreSent BY <1>1 DEF HeldAreSent
<1>10. PromptsFollow BY <1>1, <1>7 DEF PromptsFollow, Follows
<1>11. NothingUntold BY <1>1 DEF NothingUntold
<1>12. QED BY <1>3, <1>6, <1>8, <1>9, <1>10, <1>11 DEF PromptInv

LEMMA PromptInvNext == ASSUME PromptInv, [Pr!Next]_(Pr!vars) PROVE PromptInv'
<1>1. CASE Pr!Next
  BY <1>1, PromptTypesNext, MomentsNext, RememberedNext, HeldAreSentNext, FollowNext DEF PromptInv
<1>2. CASE UNCHANGED Pr!vars
  <2>1. UNCHANGED <<prompts, gone, behind, joined, pending, shared, taken, now, born, unsent>>
    BY <1>2 DEF Pr!vars, Pr!rows, Pr!queue, Pr!past
  <2>2. PromptTypes' /\ NothingUntold'
    BY <2>1 DEF PromptInv, PromptTypes, Pr!TypeOK, Pr!Mutation, Pr!Stamp, NothingUntold
  <2>3. OfThePast' /\ OneMoment' /\ DeletedLater'
    BY <2>1 DEF PromptInv, OfThePast, OneMoment, DeletedLater, Says, Buries, OnItsWay, Among,
                Pr!TrueClocks
  <2>4. Remembered' BY <2>1 DEF PromptInv, Remembered, Pr!TrueClocks
  <2>5. HeldAreSent' BY <2>1 DEF PromptInv, HeldAreSent, Among
  <2>6. PromptsFollow'
    BY <2>1 DEF PromptInv, PromptsFollow, Settled, Among, Follows, LastDelete, WrittenAfter
  <2>7. QED BY <2>2, <2>3, <2>4, <2>5, <2>6 DEF PromptInv
<1>3. QED BY <1>1, <1>2

\* In the composition, prompts do what Prompts says.
LEMMA PromptsKeep == MCSpec => []PromptInv
<1>1. MCInit => PromptInv BY PromptInvInit DEF MCInit
<1>2. PromptInv /\ [MCNext]_allVars => PromptInv'
  <2>1. [MCNext]_allVars => [Pr!Next]_(Pr!vars)
    BY DEF MCNext, allVars, prompting, Pr!vars, Pr!rows, Pr!queue, Pr!past
  <2>2. QED BY <2>1, PromptInvNext
<1>3. QED BY <1>1, <1>2, PTL DEF MCSpec

(***************************************************************************)
(* A prompt whose delete reached the log is on no store that has seen the  *)
(* delete, whatever the number of stores and prompts and however often     *)
(* enrolment or merge sends it once more, while no clock is behind         *)
(* (apply_prompt_upsert_tx, apply_prompt_delete_tx).                       *)
(***************************************************************************)
THEOREM DeletedPromptsStay == MCSpec => []DeletedStaysDeleted
<1>1. PromptInv => DeletedStaysDeleted
  <2> SUFFICES ASSUME PromptInv, Pr!TrueClocks, NEW n \in Store, NEW i \in 1..taken[n]
               PROVE  shared[i].op = "prompt gone" => prompts[n][shared[i].key] = None
    BY DEF DeletedStaysDeleted, Pr!DeletedStaysDeleted
  <2>1. i \in 1..Len(shared) BY DEF PromptInv, PromptTypes, Pr!TypeOK
  <2>2. shared[i].key \in Prompt BY <2>1, LogSays DEF PromptInv
  <2>3. shared[i].op = "prompt gone" => Deletes(shared[i], shared[i].key) BY DEF Deletes
  <2>4. Remembered BY DEF PromptInv
  <2>5. QED BY <2>2, <2>3, <2>4 DEF Remembered
<1>2. QED BY <1>1, PromptsKeep, PTL

(***************************************************************************)
(* Any number of stores that have sent and taken everything hold the same  *)
(* prompts, however wrong their clocks are (apply_prompt_upsert_tx and     *)
(* apply_prompt_delete_tx compare stamps that both travelled).             *)
(***************************************************************************)
THEOREM QuietStoresHoldSamePrompts == MCSpec => []SamePrompts
<1>1. PromptInv => SamePrompts
  <2> SUFFICES ASSUME PromptInv, Pr!AllQuiet, NEW m \in Store, NEW n \in Store,
                      NEW p \in Prompt, p \notin unsent
               PROVE  prompts[m][p] = prompts[n][p]
    BY DEF SamePrompts, Pr!SamePrompts
  <2>1. /\ \A o \in Store : joined[o] /\ pending[o] = <<>> /\ taken[o] = Len(shared)
        /\ Len(shared) \in Nat /\ DOMAIN shared = 1..Len(shared)
        /\ \A o \in Store : prompts[o][p] \in Pr!Stamp \cup {None}
    BY DEF Pr!AllQuiet, Pr!Quiet, PromptInv, PromptTypes, Pr!TypeOK
  <2>2. ASSUME NEW o \in Store PROVE Follows(o, p)
    <3>1. \A e : ~Among(e, pending[o]) BY <2>1 DEF Among
    <3>2. \A i \in DOMAIN shared : ~ (i > taken[o]) BY <2>1
    <3>3. Settled(o, p) BY <3>1, <3>2 DEF Settled
    <3>4. QED BY <3>3 DEF PromptInv, PromptsFollow
  <2>3. (prompts[m][p] = None) <=> (prompts[n][p] = None)
    <3>1. CASE \E k \in 1..Len(shared) : Deletes(shared[k], p)
      <4> DEFINE T == {k \in 1..Len(shared) : Deletes(shared[k], p)}
      <4>1. T \in SUBSET (0..Len(shared)) /\ T # {} BY <2>1, <3>1
      <4>2. \E k \in T : \A u \in T : u <= k
        <5> HIDE DEF T
        <5>1. QED BY <2>1, <4>1, Greatest
      <4>3. PICK k \in 1..Len(shared) : /\ Deletes(shared[k], p)
                                        /\ \A u \in 1..Len(shared) : Deletes(shared[u], p) => u <= k
        BY <4>2
      <4>4. ASSUME NEW u \in 1..Len(shared), u > k PROVE ~Deletes(shared[u], p)
        BY <2>1, <4>3, <4>4
      <4>5. \A o \in Store : LastDelete(o, p, k) BY <2>1, <4>3, <4>4 DEF LastDelete
      <4>6. \A o \in Store : WrittenAfter(o, p, k) <=>
              \E i \in 1..Len(shared) : i > k /\ Writes(shared[i], p) /\ shared[i].at > shared[k].at
        BY <2>1 DEF WrittenAfter
      <4>7. \A o \in Store : prompts[o][p] # None <=> WrittenAfter(o, p, k)
        BY <2>1, <2>2, <4>5 DEF Follows
      <4>8. QED BY <4>6, <4>7
    <3>2. CASE \A k \in 1..Len(shared) : ~Deletes(shared[k], p)
      <4>1. \A o \in Store : (\E k \in 1..Len(shared) : Writes(shared[k], p))
                               => prompts[o][p] # None
        BY <2>1, <2>2, <3>2 DEF Follows
      <4>2. ASSUME NEW o \in Store, prompts[o][p] # None
            PROVE  \E k \in 1..Len(shared) : Writes(shared[k], p)
        <5>1. /\ Among(PromptOf(p, prompts[o][p]), shared)
                  \/ Among(PromptOf(p, prompts[o][p]), pending[o])
          BY <2>1, <4>2 DEF PromptInv, HeldAreSent
        <5>2. Among(PromptOf(p, prompts[o][p]), shared) BY <2>1, <5>1 DEF Among
        <5>3. Writes(PromptOf(p, prompts[o][p]), p) BY DEF Writes, PromptOf
        <5>4. QED BY <2>1, <5>2, <5>3 DEF Among
      <4>3. QED BY <4>1, <4>2
    <3>3. QED BY <3>1, <3>2
  <2>4. CASE prompts[m][p] # None /\ prompts[n][p] # None
    <3>1. /\ prompts[m][p] \in Pr!Stamp /\ prompts[n][p] \in Pr!Stamp
          /\ Says(p, prompts[m][p]) /\ Says(p, prompts[n][p])
      BY <2>1, <2>4 DEF Says
    <3>2. QED BY <3>1 DEF PromptInv, OneMoment
  <2>5. QED BY <2>3, <2>4
<1>2. QED BY <1>1, PromptsKeep, PTL

-----------------------------------------------------------------------------
(* History: the versions that are kept.                                    *)

\* The row after k edits, and the versions that are left of the others.
RowAfter(k) == [text |-> k, rev |-> k + 1]
KeptAfter(k) ==
    [r \in Hi!Revision |-> IF r <= k /\ r + Retention > k THEN r - 1 ELSE None]

\* Whatever else is there, trimming leaves the newest.
LEMMA TrimmedToNewest ==
    ASSUME NEW k \in 0..MaxEdits,
           NEW kept \in [Hi!Revision -> Hi!Text \cup {None}],
           \A r \in Hi!Revision : /\ r <= k /\ r + Retention > k => kept[r] = r - 1
                                  /\ r > k => kept[r] = None
    PROVE  Hi!Trimmed(kept) = KeptAfter(k)
<1> DEFINE Newer(r) == {q \in Hi!Revision : q > r /\ kept[q] # None}
<1>1. /\ Retention \in Nat /\ MaxEdits \in Nat /\ k \in Nat /\ k <= MaxEdits
      /\ Hi!Revision = 1..(MaxEdits + 1)
      /\ \A i \in 0..MaxEdits : i # None
  BY HistoryAssumption DEF Hi!Revision, Hi!Text
<1>2. /\ Hi!Trimmed(kept) =
           [r \in Hi!Revision |-> IF Cardinality(Newer(r)) >= Retention THEN None ELSE kept[r]]
  <2>1. \A S : Hi!Cardinality(S) = Cardinality(S) BY DEF Hi!Cardinality, Cardinality
  <2>2. QED BY <2>1 DEF Hi!Trimmed
<1>3. ASSUME NEW r \in Hi!Revision
      PROVE  (IF Cardinality(Newer(r)) >= Retention THEN None ELSE kept[r]) =
             (IF r <= k /\ r + Retention > k THEN r - 1 ELSE None)
  <2>0. r \in Nat /\ r >= 1 BY <1>1
  <2>1. IsFiniteSet(Newer(r)) /\ Cardinality(Newer(r)) \in Nat
    <3>1. IsFiniteSet(Hi!Revision) BY <1>1, FS_Interval
    <3>2. Newer(r) \in SUBSET Hi!Revision OBVIOUS
    <3>3. QED BY <3>1, <3>2, FS_Subset, FS_CardinalityType
  <2>2. CASE r > k BY <1>1, <2>0, <2>2
  <2>3. CASE r <= k /\ r + Retention > k
    <3>1. Newer(r) \subseteq (r + 1)..k BY <1>1, <2>0, <2>3
    <3>2. /\ IsFiniteSet((r + 1)..k)
          /\ Cardinality((r + 1)..k) = IF r + 1 > k THEN 0 ELSE k - (r + 1) + 1
      <4>1. r + 1 \in Int /\ k \in Int BY <1>1, <2>0
      <4>2. QED BY <4>1, FS_Interval
    <3>3. Cardinality((r + 1)..k) < Retention BY <1>1, <2>0, <2>3, <3>2
    <3>4. Cardinality(Newer(r)) <= Cardinality((r + 1)..k) /\ Cardinality((r + 1)..k) \in Nat
      BY <3>1, <3>2, FS_Subset, FS_CardinalityType
    <3>5. ~ (Cardinality(Newer(r)) >= Retention) BY <1>1, <2>1, <3>3, <3>4
    <3>6. QED BY <2>3, <3>5
  <2>4. CASE r + Retention <= k
    <3>1. (k - Retention + 1)..k \subseteq Newer(r)
      <4>1. ASSUME NEW q \in (k - Retention + 1)..k
            PROVE  q \in Hi!Revision /\ q > r /\ kept[q] # None
        <5>1. q \in Int /\ q > r /\ q <= k /\ q + Retention > k BY <1>1, <2>0, <2>4
        <5>2. q \in Hi!Revision BY <1>1, <2>0, <5>1
        <5>3. kept[q] = q - 1 /\ q - 1 \in 0..MaxEdits BY <1>1, <2>0, <5>1, <5>2
        <5>4. QED BY <1>1, <5>1, <5>2, <5>3
      <4>2. QED BY <4>1
    <3>2. Cardinality((k - Retention + 1)..k) = Retention
      <4>1. k - Retention + 1 \in Int /\ k \in Int BY <1>1
      <4>2. Cardinality((k - Retention + 1)..k) =
              IF k - Retention + 1 > k THEN 0 ELSE k - (k - Retention + 1) + 1
        BY <4>1, FS_Interval
      <4>3. QED BY <1>1, <4>2
    <3>3. Cardinality((k - Retention + 1)..k) <= Cardinality(Newer(r))
      BY <2>1, <3>1, FS_Subset
    <3>4. QED BY <1>1, <2>0, <2>1, <2>4, <3>2, <3>3
  <2>5. QED BY <1>1, <2>0, <2>2, <2>3, <2>4
<1> HIDE DEF Newer
<1>4. QED BY <1>2, <1>3 DEF KeptAfter

\* The version of the text before last, kept for the first or the second time.
LEMMA KeptOnceMore ==
    ASSUME NEW k \in 1..MaxEdits, NEW kept,
           kept = KeptAfter(k - 1) \/ kept = KeptAfter(k)
    PROVE  Hi!Trimmed(Hi!Inserted(kept, [text |-> k - 1, rev |-> k])) = KeptAfter(k)
<1>1. /\ Retention \in Nat /\ MaxEdits \in Nat /\ k \in Nat /\ k <= MaxEdits /\ k >= 1
      /\ Hi!Revision = 1..(MaxEdits + 1) /\ Hi!Text = 0..MaxEdits
  BY HistoryAssumption DEF Hi!Revision, Hi!Text
<1>2. \A j \in Nat : j <= MaxEdits => KeptAfter(j) \in [Hi!Revision -> Hi!Text \cup {None}]
  <2>1. ASSUME NEW j \in Nat, j <= MaxEdits, NEW r \in Hi!Revision
        PROVE  (IF r <= j /\ r + Retention > j THEN r - 1 ELSE None) \in Hi!Text \cup {None}
    BY <1>1, <2>1
  <2>2. QED BY <2>1 DEF KeptAfter
<1> DEFINE new == Hi!Inserted(kept, [text |-> k - 1, rev |-> k])
<1>3. kept \in [Hi!Revision -> Hi!Text \cup {None}]
  <2>1. k - 1 \in Nat /\ k - 1 <= MaxEdits BY <1>1
  <2>2. QED BY <1>1, <1>2, <2>1
<1>4. new = IF kept[k] = None THEN [kept EXCEPT ![k] = k - 1] ELSE kept
  BY DEF Hi!Inserted
<1>5. new \in [Hi!Revision -> Hi!Text \cup {None}]
  <2>1. k - 1 \in Hi!Text BY <1>1
  <2>2. QED BY <1>3, <1>4, <2>1
<1>6. ASSUME NEW r \in Hi!Revision
      PROVE  /\ r <= k /\ r + Retention > k => new[r] = r - 1
             /\ r > k => new[r] = None
  <2>0. r \in Nat /\ r >= 1 BY <1>1
  <2>1. CASE r # k
    <3>1. new[r] = kept[r] BY <1>3, <1>4, <2>1
    <3>2. \/ kept[r] = IF r <= k - 1 /\ r + Retention > k - 1 THEN r - 1 ELSE None
          \/ kept[r] = IF r <= k /\ r + Retention > k THEN r - 1 ELSE None
      BY DEF KeptAfter
    <3>3. QED BY <1>1, <2>0, <2>1, <3>1, <3>2
  <2>2. CASE r = k
    <3>1. kept[k] = None \/ kept[k] = k - 1
      <4>1. \/ kept[k] = IF k <= k - 1 /\ k + Retention > k - 1 THEN k - 1 ELSE None
            \/ kept[k] = IF k <= k /\ k + Retention > k THEN k - 1 ELSE None
        BY <2>2 DEF KeptAfter
      <4>2. QED BY <4>1
    <3>2. new[k] = k - 1 BY <1>3, <1>4, <2>2, <3>1
    <3>3. QED BY <1>1, <2>2, <3>2
  <2>3. QED BY <2>1, <2>2
<1> HIDE DEF new
<1>7. k \in 0..MaxEdits BY <1>1
<1>8. Hi!Trimmed(new) = KeptAfter(k) BY <1>5, <1>6, <1>7, TrimmedToNewest
<1>9. QED BY <1>8 DEF new

\* A mutation that n has still to apply: in a journal, or in the log past n's cursor.
Awaits(n, e) ==
    \/ \E m \in Store : Among(e, outbox[m])
    \/ \E i \in DOMAIN log : i > cursor[n] /\ log[i] = e

\* The two mutations of the newest edit.
NewestEdit(e) == edits >= 1 /\ e \in {Hi!Memory(RowAfter(edits)), Hi!Version(RowAfter(edits - 1))}

\* Every store has the newest row and its versions, or still has to apply what brings them.
RowFollows(n) ==
    \/ row[n] = RowAfter(edits)
    \/ /\ edits >= 1 /\ row[n] = RowAfter(edits - 1)
       /\ Awaits(n, Hi!Memory(RowAfter(edits)))
VersionsFollow(n) ==
    \/ versions[n] = KeptAfter(edits)
    \/ /\ edits >= 1 /\ versions[n] = KeptAfter(edits - 1)
       /\ Awaits(n, Hi!Version(RowAfter(edits - 1)))

InTurn ==
    /\ Hi!TypeOK
    /\ \A n \in Store : enrolled[n]
    /\ \A n \in Store, e \in Hi!Mutation : Awaits(n, e) => NewestEdit(e)
    /\ \A n \in Store : RowFollows(n) /\ VersionsFollow(n)

Serial == ~concurrent /\ ~late => InTurn

\* What an edit leaves is a row, and its mutations are mutations.
LEMMA RowsAfter ==
    ASSUME NEW k \in 0..MaxEdits
    PROVE  /\ RowAfter(k) \in Hi!Row /\ RowAfter(k) # None
           /\ RowAfter(k).text = k /\ RowAfter(k).rev = k + 1
           /\ Hi!Memory(RowAfter(k)) = [op |-> "memory", text |-> k, rev |-> k + 1]
           /\ Hi!Version(RowAfter(k)) = [op |-> "version", text |-> k, rev |-> k + 1]
           /\ Hi!Memory(RowAfter(k)) \in Hi!Mutation /\ Hi!Version(RowAfter(k)) \in Hi!Mutation
           /\ KeptAfter(k) \in [Hi!Revision -> Hi!Text \cup {None}]
<1>1. k \in Hi!Text /\ k + 1 \in Hi!Revision /\ k \in Nat /\ k <= MaxEdits /\ MaxEdits \in Nat
      /\ Hi!Revision = 1..(MaxEdits + 1) /\ Hi!Text = 0..MaxEdits
  BY HistoryAssumption DEF Hi!Text, Hi!Revision
<1>2. RowAfter(k) \in Hi!Row /\ RowAfter(k).text = k /\ RowAfter(k).rev = k + 1
  BY <1>1 DEF RowAfter, Hi!Row
<1>3. RowAfter(k) # None BY <1>2, HistoryAssumption
<1>4. /\ Hi!Memory(RowAfter(k)) = [op |-> "memory", text |-> k, rev |-> k + 1]
      /\ Hi!Version(RowAfter(k)) = [op |-> "version", text |-> k, rev |-> k + 1]
  BY <1>2 DEF Hi!Memory, Hi!Version
<1>5. Hi!Memory(RowAfter(k)) \in Hi!Mutation /\ Hi!Version(RowAfter(k)) \in Hi!Mutation
  BY <1>1, <1>4 DEF Hi!Mutation
<1>6. \A r \in Hi!Revision : (IF r <= k /\ r + Retention > k THEN r - 1 ELSE None)
                               \in Hi!Text \cup {None}
  BY <1>1, HistoryAssumption
<1>7. QED BY <1>2, <1>3, <1>4, <1>5, <1>6 DEF KeptAfter

LEMMA SerialInit == ASSUME Hi!Init PROVE Serial
<1> SUFFICES ASSUME ~late PROVE InTurn BY DEF Serial
<1>1. /\ row = [n \in Store |-> Hi!First] /\ enrolled = [n \in Store |-> TRUE]
      /\ versions = [n \in Store |-> [r \in Hi!Revision |-> None]]
      /\ outbox = [n \in Store |-> <<>>] /\ log = <<>> /\ cursor = [n \in Store |-> 0]
      /\ edits = 0 /\ concurrent \in BOOLEAN /\ late = FALSE
  BY DEF Hi!Init
<1>2. 0 \in 0..MaxEdits BY HistoryAssumption
<1>3. RowAfter(0) = Hi!First BY DEF RowAfter, Hi!First
<1>4. KeptAfter(0) = [r \in Hi!Revision |-> None]
  BY HistoryAssumption DEF KeptAfter, Hi!Revision
<1>5. Hi!TypeOK
  <2>1. RowAfter(0) \in Hi!Row BY <1>2, RowsAfter
  <2>2. Len(log) = 0 /\ log \in Seq(Hi!Mutation) /\ 0 \in 0..Len(log) BY <1>1
  <2>3. <<>> \in Seq(Hi!Mutation) OBVIOUS
  <2>4. QED BY <1>1, <1>2, <1>3, <2>1, <2>2, <2>3 DEF Hi!TypeOK
<1>6. \A n \in Store : enrolled[n] BY <1>1
<1>7. ASSUME NEW n \in Store, NEW e PROVE ~Awaits(n, e)
  <2>1. DOMAIN log = {} BY <1>1
  <2>2. \A m \in Store : DOMAIN outbox[m] = {} BY <1>1
  <2>3. QED BY <2>1, <2>2 DEF Awaits, Among
<1>8. \A n \in Store : RowFollows(n) /\ VersionsFollow(n)
  BY <1>1, <1>3, <1>4 DEF RowFollows, VersionsFollow
<1>9. QED BY <1>5, <1>6, <1>7, <1>8 DEF InTurn

\* Where nothing waits, the stores are as the last edit left them.
LEMMA QuietInTurn ==
    ASSUME InTurn, Hi!AllQuiet
    PROVE  /\ \A n \in Store : \A e : ~Awaits(n, e)
           /\ \A n \in Store : row[n] = RowAfter(edits) /\ versions[n] = KeptAfter(edits)
<1>1. /\ \A n \in Store : outbox[n] = <<>> /\ cursor[n] = Len(log)
      /\ DOMAIN log = 1..Len(log) /\ Len(log) \in Nat
  BY DEF Hi!AllQuiet, Hi!Quiet, InTurn, Hi!TypeOK
<1>2. ASSUME NEW n \in Store, NEW e PROVE ~Awaits(n, e)
  <2>1. \A m \in Store : ~Among(e, outbox[m]) BY <1>1 DEF Among
  <2>2. \A i \in DOMAIN log : ~ (i > cursor[n]) BY <1>1
  <2>3. QED BY <2>1, <2>2 DEF Awaits
<1>3. QED BY <1>2 DEF InTurn, RowFollows, VersionsFollow

\* An edit where nothing waits.
LEMMA EditInTurn ==
    ASSUME InTurn, ~concurrent, NEW n \in Store, Hi!Edit(n)
    PROVE  InTurn'
<1> DEFINE k == edits
           e1 == Hi!Memory(RowAfter(k + 1))
           e2 == Hi!Version(RowAfter(k))
<1>1. Hi!TypeOK /\ k \in 0..MaxEdits /\ k < MaxEdits /\ edits' = k + 1 /\ Hi!AllQuiet
      /\ k + 1 \in 0..MaxEdits /\ k + 1 \in 1..MaxEdits /\ k \in Nat /\ (k + 1) - 1 = k
      /\ MaxEdits \in Nat
  BY HistoryAssumption DEF InTurn, Hi!TypeOK, Hi!Edit, Hi!AllQuiet
<1>2. /\ \A m \in Store : \A e : ~Awaits(m, e)
      /\ \A m \in Store : row[m] = RowAfter(k) /\ versions[m] = KeptAfter(k)
  BY <1>1, QuietInTurn
<1>3. /\ row[n].text = k /\ row[n].rev = k + 1 BY <1>1, <1>2, RowsAfter
<1>4. [text |-> k + 1, rev |-> row[n].rev + 1] = RowAfter(k + 1) BY <1>3 DEF RowAfter
<1>5. Hi!Replaced(row[n]) = RowAfter(k) BY <1>2 DEF Hi!Replaced
<1>6. /\ row' = [row EXCEPT ![n] = RowAfter(k + 1)]
      /\ \/ outbox' = [outbox EXCEPT ![n] = outbox[n] \o <<e1, e2>>]
         \/ outbox' = [outbox EXCEPT ![n] = outbox[n] \o <<e2, e1>>]
      /\ UNCHANGED <<enrolled, log, cursor, concurrent, late>>
      /\ versions' = [versions EXCEPT ![n] = Hi!Trimmed(Hi!Inserted(versions[n], row[n]))]
  BY <1>4, <1>5 DEF Hi!Edit, Hi!Snapshot, Hi!world, InTurn
<1>7. e1 \in Hi!Mutation /\ e2 \in Hi!Mutation /\ e1 # e2
  BY <1>1, RowsAfter
<1> HIDE DEF e1, e2
<1>8. /\ outbox \in [Store -> Seq(Hi!Mutation)] /\ outbox[n] = <<>>
      /\ row \in [Store -> Hi!Row \cup {None}]
      /\ versions \in [Store -> [Hi!Revision -> Hi!Text \cup {None}]]
  BY <1>1 DEF Hi!TypeOK, Hi!AllQuiet, Hi!Quiet
<1>9. PICK sent \in Seq(Hi!Mutation) :
        /\ outbox' = [outbox EXCEPT ![n] = sent]
        /\ sent = <<e1, e2>> \/ sent = <<e2, e1>>
  <2>1. outbox[n] \o <<e1, e2>> = <<e1, e2>> /\ outbox[n] \o <<e2, e1>> = <<e2, e1>>
    BY <1>7, <1>8
  <2>2. <<e1, e2>> \in Seq(Hi!Mutation) /\ <<e2, e1>> \in Seq(Hi!Mutation) BY <1>7
  <2>3. QED BY <1>6, <2>1, <2>2
<1>10. versions'[n] = KeptAfter(k + 1)
  <2>1. row[n] = [text |-> (k + 1) - 1, rev |-> k + 1] BY <1>1, <1>2 DEF RowAfter
  <2>2. versions[n] = KeptAfter((k + 1) - 1) BY <1>1, <1>2
  <2>3. Hi!Trimmed(Hi!Inserted(versions[n], row[n])) = KeptAfter(k + 1)
    BY <1>1, <2>1, <2>2, KeptOnceMore
  <2>4. QED BY <1>6, <1>8, <2>3
<1>11. /\ RowAfter(k + 1) \in Hi!Row
       /\ KeptAfter(k + 1) \in [Hi!Revision -> Hi!Text \cup {None}]
  BY <1>1, RowsAfter
<1>12. Hi!TypeOK'
  <2>1. row' \in [Store -> Hi!Row \cup {None}] BY <1>6, <1>8, <1>11
  <2>2. versions' \in [Store -> [Hi!Revision -> Hi!Text \cup {None}]]
    BY <1>6, <1>8, <1>10, <1>11
  <2>3. outbox' \in [Store -> Seq(Hi!Mutation)] BY <1>8, <1>9
  <2>4. QED BY <1>1, <1>6, <2>1, <2>2, <2>3 DEF Hi!TypeOK
<1>13. ASSUME NEW m \in Store, NEW e PROVE Awaits(m, e)' <=> e \in {e1, e2}
  <2>1. \A o \in Store : ~Among(e, outbox[o]) BY <1>2 DEF Awaits
  <2>2. \A i \in DOMAIN log' : i > cursor'[m] => log'[i] # e BY <1>2, <1>6 DEF Awaits
  <2>3. \A o \in Store \ {n} : ~Among(e, outbox'[o])
    <3>1. \A o \in Store \ {n} : outbox'[o] = outbox[o] BY <1>8, <1>9
    <3>2. QED BY <2>1, <3>1
  <2>4. Among(e, outbox'[n]) <=> e \in {e1, e2}
    <3>1. outbox'[n] = sent BY <1>8, <1>9
    <3>2. 1 \in DOMAIN sent /\ 2 \in DOMAIN sent /\ \A i \in DOMAIN sent : i = 1 \/ i = 2
      BY <1>9
    <3>3. (sent[1] = e1 /\ sent[2] = e2) \/ (sent[1] = e2 /\ sent[2] = e1) BY <1>9
    <3>4. Among(e, sent) <=> e = sent[1] \/ e = sent[2] BY <3>2 DEF Among
    <3>5. QED BY <3>1, <3>3, <3>4
  <2>5. QED BY <2>2, <2>3, <2>4 DEF Awaits
<1>14. e1 = Hi!Memory(RowAfter(edits')) /\ e2 = Hi!Version(RowAfter(edits' - 1))
  BY <1>1 DEF e1, e2
<1>15. \A m \in Store, e \in Hi!Mutation : Awaits(m, e)' => NewestEdit(e)'
  <2>1. ASSUME NEW e, e \in {e1, e2} PROVE NewestEdit(e)' BY <1>1, <1>14, <2>1 DEF NewestEdit
  <2>2. QED BY <1>13, <2>1
<1>16. ASSUME NEW m \in Store PROVE RowFollows(m)' /\ VersionsFollow(m)'
  <2>1. \A e : e \in {e1, e2} => \/ \E o \in Store : Among(e, outbox'[o])
                                \/ \E i \in DOMAIN log' : i > cursor'[m] /\ log'[i] = e
    <3>1. \A e : Awaits(m, e)' <=> e \in {e1, e2} BY <1>13
    <3>2. QED BY <3>1 DEF Awaits
  <2>2. CASE m = n
    <3>1. row'[m] = RowAfter(edits') BY <1>1, <1>6, <1>8, <2>2
    <3>2. QED BY <1>1, <1>10, <2>2, <3>1 DEF RowFollows, VersionsFollow
  <2>3. CASE m # n
    <3>1. row'[m] = RowAfter(edits' - 1) /\ versions'[m] = KeptAfter(edits' - 1)
      BY <1>1, <1>2, <1>6, <1>8, <2>3
    <3>2. Awaits(m, Hi!Memory(RowAfter(edits)))' /\ Awaits(m, Hi!Version(RowAfter(edits - 1)))'
      BY <1>14, <2>1 DEF Awaits
    <3>3. edits' >= 1 BY <1>1
    <3>4. QED BY <3>1, <3>2, <3>3 DEF RowFollows, VersionsFollow
  <2>4. QED BY <2>2, <2>3
<1>17. \A m \in Store : enrolled'[m] BY <1>6 DEF InTurn
<1>18. QED BY <1>12, <1>15, <1>16, <1>17 DEF InTurn

\* A store pushes what others, and it, wait for.
LEMMA PushInTurn ==
    ASSUME InTurn, NEW n \in Store, Hi!Push(n)
    PROVE  InTurn'
<1>1. /\ Hi!TypeOK /\ outbox[n] # <<>> /\ log' = Append(log, Head(outbox[n]))
      /\ outbox' = [outbox EXCEPT ![n] = Tail(outbox[n])]
      /\ UNCHANGED <<row, versions, enrolled, cursor, edits, concurrent, late>>
  BY DEF InTurn, Hi!Push, Hi!world
<1>2. /\ outbox \in [Store -> Seq(Hi!Mutation)] /\ log \in Seq(Hi!Mutation)
      /\ cursor \in [Store -> 0..Len(log)] /\ Len(log) \in Nat /\ DOMAIN log = 1..Len(log)
  BY <1>1 DEF Hi!TypeOK
<1>3. outbox[n] \in Seq(Hi!Mutation) BY <1>2
<1>4. /\ Tail(outbox[n]) \in Seq(Hi!Mutation) /\ log' \in Seq(Hi!Mutation)
      /\ Len(log') = Len(log) + 1
      /\ \A i \in DOMAIN log : i \in DOMAIN log' /\ log'[i] = log[i]
      /\ log'[Len(log) + 1] = Head(outbox[n])
      /\ \A e : Among(e, outbox[n]) <=> e = Head(outbox[n]) \/ Among(e, Tail(outbox[n]))
  BY <1>1, <1>2, <1>3, AmongMoved
<1>5. DOMAIN log' = 1..(Len(log) + 1) BY <1>4
<1>6. Hi!TypeOK'
  <2>1. outbox' \in [Store -> Seq(Hi!Mutation)] BY <1>1, <1>2, <1>4
  <2>2. cursor' \in [Store -> 0..Len(log')]
    <3>1. \A m \in Store : cursor[m] \in 0..(Len(log) + 1) BY <1>2
    <3>2. QED BY <1>1, <1>2, <1>4, <3>1
  <2>3. QED BY <1>1, <1>4, <2>1, <2>2 DEF Hi!TypeOK
<1>7. ASSUME NEW m \in Store, NEW e PROVE Awaits(m, e)' <=> Awaits(m, e)
  <2>1. outbox'[n] = Tail(outbox[n]) /\ \A o \in Store \ {n} : outbox'[o] = outbox[o]
    BY <1>1, <1>2
  <2>2. (\E o \in Store : Among(e, outbox[o])) <=>
          (\E o \in Store : Among(e, outbox'[o])) \/ e = Head(outbox[n])
    BY <1>4, <2>1
  <2>3. (\E i \in DOMAIN log' : i > cursor'[m] /\ log'[i] = e) <=>
          (\E i \in DOMAIN log : i > cursor[m] /\ log[i] = e) \/ e = Head(outbox[n])
    <3>1. Len(log) + 1 > cursor[m] BY <1>2
    <3>2. cursor' = cursor BY <1>1
    <3>3. \A i \in DOMAIN log' : i \in DOMAIN log \/ i = Len(log) + 1 BY <1>2, <1>5
    <3>4. Len(log) + 1 \in DOMAIN log' BY <1>2, <1>5
    <3>5. QED BY <1>4, <3>1, <3>2, <3>3, <3>4
  <2>4. QED BY <2>2, <2>3 DEF Awaits
<1>8. \A m \in Store, e \in Hi!Mutation : Awaits(m, e)' => NewestEdit(e)'
  <2>1. \A e : NewestEdit(e)' <=> NewestEdit(e) BY <1>1 DEF NewestEdit
  <2>2. \A m \in Store, e \in Hi!Mutation : Awaits(m, e) => NewestEdit(e) BY DEF InTurn
  <2>3. QED BY <1>7, <2>1, <2>2
<1>9. ASSUME NEW m \in Store PROVE RowFollows(m)' /\ VersionsFollow(m)'
  <2>1. RowFollows(m) /\ VersionsFollow(m) BY DEF InTurn
  <2>2. /\ Awaits(m, Hi!Memory(RowAfter(edits)))' <=> Awaits(m, Hi!Memory(RowAfter(edits)))
        /\ Awaits(m, Hi!Version(RowAfter(edits - 1)))'
             <=> Awaits(m, Hi!Version(RowAfter(edits - 1)))
    <3>1. \A e : (\/ \E o \in Store : Among(e, outbox'[o])
                 \/ \E i \in DOMAIN log' : i > cursor'[m] /\ log'[i] = e) <=> Awaits(m, e)
      <4>1. \A e : Awaits(m, e)' <=> Awaits(m, e) BY <1>7
      <4>2. QED BY <4>1 DEF Awaits
    <3>2. edits' = edits BY <1>1
    <3>3. /\ Awaits(m, Hi!Memory(RowAfter(edits)))' <=>
               \/ \E o \in Store : Among(Hi!Memory(RowAfter(edits)), outbox'[o])
               \/ \E i \in DOMAIN log' :
                    i > cursor'[m] /\ log'[i] = Hi!Memory(RowAfter(edits))
          /\ Awaits(m, Hi!Version(RowAfter(edits - 1)))' <=>
               \/ \E o \in Store : Among(Hi!Version(RowAfter(edits - 1)), outbox'[o])
               \/ \E i \in DOMAIN log' :
                    i > cursor'[m] /\ log'[i] = Hi!Version(RowAfter(edits - 1))
      BY <3>2 DEF Awaits
    <3>4. QED BY <3>1, <3>3
  <2>3. QED BY <1>1, <2>1, <2>2 DEF RowFollows, VersionsFollow
<1>10. \A m \in Store : enrolled'[m] BY <1>1 DEF InTurn
<1>11. QED BY <1>6, <1>8, <1>9, <1>10 DEF InTurn

\* A store applies what it waited for.
LEMMA PullInTurn ==
    ASSUME InTurn, NEW n \in Store, Hi!Pull(n)
    PROVE  InTurn'
<1> DEFINE j == cursor[n] + 1
           e == log[j]
<1>1. /\ Hi!TypeOK /\ cursor[n] < Len(log)
      /\ cursor' = [cursor EXCEPT ![n] = j]
      /\ UNCHANGED <<enrolled, outbox, log, edits, concurrent, late>>
      /\ Hi!ApplyMemory(n, e) \/ Hi!ApplyVersion(n, e)
  BY DEF InTurn, Hi!Pull, Hi!world
<1>2. /\ outbox \in [Store -> Seq(Hi!Mutation)] /\ log \in Seq(Hi!Mutation)
      /\ cursor \in [Store -> 0..Len(log)] /\ Len(log) \in Nat /\ DOMAIN log = 1..Len(log)
      /\ row \in [Store -> Hi!Row \cup {None}] /\ edits \in 0..MaxEdits /\ edits \in Nat
      /\ versions \in [Store -> [Hi!Revision -> Hi!Text \cup {None}]]
  BY <1>1, HistoryAssumption DEF Hi!TypeOK
<1>3. j \in DOMAIN log /\ j > cursor[n] /\ e \in Hi!Mutation /\ j \in 0..Len(log)
  BY <1>1, <1>2
<1>4. NewestEdit(e) BY <1>3 DEF InTurn, Awaits
<1>5. cursor'[n] = j /\ \A m \in Store \ {n} : cursor'[m] = cursor[m] BY <1>1, <1>2
<1>6. ASSUME NEW m \in Store, NEW x, x # e \/ m # n
      PROVE  Awaits(m, x) <=> \/ \E o \in Store : Among(x, outbox'[o])
                              \/ \E i \in DOMAIN log' : i > cursor'[m] /\ log'[i] = x
  <2>1. CASE m # n BY <1>1, <1>5, <2>1 DEF Awaits
  <2>2. CASE m = n
    <3>1. \A i \in DOMAIN log : i > cursor[n] /\ log[i] = x => i > j
      BY <1>2, <1>6, <2>2
    <3>2. \A i \in DOMAIN log : i > j => i > cursor[n] BY <1>2
    <3>3. QED BY <1>1, <1>5, <2>2, <3>1, <3>2 DEF Awaits
  <2>3. QED BY <2>1, <2>2
<1>7. ASSUME NEW m \in Store, NEW x, Awaits(m, x)' PROVE Awaits(m, x)
  <2>1. \/ \E o \in Store : Among(x, outbox'[o])
        \/ \E i \in DOMAIN log' : i > cursor'[m] /\ log'[i] = x
    BY <1>7 DEF Awaits
  <2>2. CASE x # e \/ m # n BY <1>6, <2>1, <2>2
  <2>3. CASE x = e /\ m = n BY <1>3, <2>3 DEF Awaits
  <2>4. QED BY <2>2, <2>3
<1>8. \A m \in Store, x \in Hi!Mutation : Awaits(m, x)' => NewestEdit(x)'
  <2>1. \A x : NewestEdit(x)' <=> NewestEdit(x) BY <1>1 DEF NewestEdit
  <2>2. \A m \in Store, x \in Hi!Mutation : Awaits(m, x) => NewestEdit(x) BY DEF InTurn
  <2>3. QED BY <1>7, <2>1, <2>2
<1> DEFINE k == edits
           e1 == Hi!Memory(RowAfter(k))
           e2 == Hi!Version(RowAfter(k - 1))
<1>9. /\ k >= 1 /\ k - 1 \in 0..MaxEdits /\ k \in 1..MaxEdits /\ (e = e1 \/ e = e2)
  <2>1. k >= 1 /\ (e = e1 \/ e = e2) BY <1>4 DEF NewestEdit
  <2>2. MaxEdits \in Nat BY HistoryAssumption
  <2>3. k - 1 \in 0..MaxEdits /\ k \in 1..MaxEdits BY <1>2, <2>1, <2>2
  <2>4. QED BY <2>1, <2>3
<1>10. /\ RowAfter(k) \in Hi!Row /\ KeptAfter(k) \in [Hi!Revision -> Hi!Text \cup {None}]
       /\ e1 = [op |-> "memory", text |-> k, rev |-> k + 1]
       /\ e2 = [op |-> "version", text |-> k - 1, rev |-> k]
  <2>1. (k - 1) + 1 = k BY <1>2
  <2>2. QED BY <1>2, <1>9, <2>1, RowsAfter
<1>11. e1 # e2 BY <1>10
<1>12. e = e1 => /\ row' = [row EXCEPT ![n] = RowAfter(k)] /\ versions' = versions
  <2>1. e = e1 => e.op = "memory" /\ [text |-> e.text, rev |-> e.rev] = RowAfter(k)
    BY <1>10 DEF RowAfter
  <2>2. e = e1 => Hi!ApplyMemory(n, e) BY <1>1, <2>1 DEF Hi!ApplyVersion
  <2>3. QED BY <2>1, <2>2 DEF Hi!ApplyMemory
<1>13. e = e2 => /\ row' = row
                 /\ versions' = [versions EXCEPT ![n] = KeptAfter(k)]
  <2> SUFFICES ASSUME e = e2 PROVE row' = row /\ versions' = [versions EXCEPT ![n] = KeptAfter(k)]
    OBVIOUS
  <2>1. e.op = "version" /\ e = [op |-> "version", text |-> k - 1, rev |-> k] BY <1>10
  <2>2. Hi!ApplyVersion(n, e) BY <1>1, <2>1 DEF Hi!ApplyMemory
  <2>3. /\ row' = row
        /\ versions' = [versions EXCEPT ![n] = Hi!Trimmed(Hi!Inserted(versions[n], e))]
    BY <2>2 DEF Hi!ApplyVersion, Hi!Snapshot
  <2>4. Hi!Inserted(versions[n], e) =
          Hi!Inserted(versions[n], [text |-> k - 1, rev |-> k])
    BY <2>1 DEF Hi!Inserted
  <2>5. versions[n] = KeptAfter(k - 1) \/ versions[n] = KeptAfter(k)
    BY DEF InTurn, VersionsFollow
  <2>6. Hi!Trimmed(Hi!Inserted(versions[n], [text |-> k - 1, rev |-> k])) = KeptAfter(k)
    BY <1>9, <2>5, KeptOnceMore
  <2>7. QED BY <2>3, <2>4, <2>6
<1>14. Hi!TypeOK'
  <2>1. row' \in [Store -> Hi!Row \cup {None}] BY <1>2, <1>9, <1>10, <1>12, <1>13
  <2>2. versions' \in [Store -> [Hi!Revision -> Hi!Text \cup {None}]]
    BY <1>2, <1>9, <1>10, <1>12, <1>13
  <2>3. cursor' \in [Store -> 0..Len(log)] BY <1>1, <1>2, <1>3
  <2>4. QED BY <1>1, <2>1, <2>2, <2>3 DEF Hi!TypeOK
<1>15. ASSUME NEW m \in Store PROVE RowFollows(m)' /\ VersionsFollow(m)'
  <2> HIDE DEF e, e1, e2
  <2>0. edits' = edits BY <1>1
  <2>1. RowFollows(m) /\ VersionsFollow(m) BY DEF InTurn
  <2>2. row'[m] = row[m] \/ (row'[m] = RowAfter(k) /\ m = n /\ e = e1)
    BY <1>2, <1>9, <1>12, <1>13
  <2>3. versions'[m] = versions[m] \/ (versions'[m] = KeptAfter(k) /\ m = n /\ e = e2)
    BY <1>2, <1>9, <1>12, <1>13
  <2>4. m = n /\ e = e1 => row'[m] = RowAfter(k) BY <1>2, <1>12
  <2>5. m = n /\ e = e2 => versions'[m] = KeptAfter(k) BY <1>2, <1>13
  <2>6. \A x : Awaits(m, x) /\ (x # e \/ m # n) =>
               \/ \E o \in Store : Among(x, outbox'[o])
               \/ \E i \in DOMAIN log' : i > cursor'[m] /\ log'[i] = x
    BY <1>6
  <2>7. RowFollows(m)'
    <3>1. CASE row'[m] = RowAfter(k) BY <2>0, <3>1 DEF RowFollows
    <3>2. CASE row'[m] # RowAfter(k)
      <4>1. row[m] # RowAfter(k) /\ ~ (m = n /\ e = e1) /\ row'[m] = row[m] BY <2>2, <2>4, <3>2
      <4>2. row[m] = RowAfter(k - 1) /\ Awaits(m, e1) BY <2>1, <4>1 DEF RowFollows, e1
      <4>3. \/ \E o \in Store : Among(e1, outbox'[o])
            \/ \E i \in DOMAIN log' : i > cursor'[m] /\ log'[i] = e1
        BY <2>6, <4>1, <4>2
      <4>4. Awaits(m, Hi!Memory(RowAfter(edits)))' BY <2>0, <4>3 DEF Awaits, e1
      <4>5. QED BY <1>9, <2>0, <4>1, <4>2, <4>4 DEF RowFollows
    <3>3. QED BY <3>1, <3>2
  <2>8. VersionsFollow(m)'
    <3>1. CASE versions'[m] = KeptAfter(k) BY <2>0, <3>1 DEF VersionsFollow
    <3>2. CASE versions'[m] # KeptAfter(k)
      <4>1. /\ versions[m] # KeptAfter(k) /\ ~ (m = n /\ e = e2) /\ versions'[m] = versions[m]
        BY <2>3, <2>5, <3>2
      <4>2. versions[m] = KeptAfter(k - 1) /\ Awaits(m, e2)
        BY <2>1, <4>1 DEF VersionsFollow, e2
      <4>3. \/ \E o \in Store : Among(e2, outbox'[o])
            \/ \E i \in DOMAIN log' : i > cursor'[m] /\ log'[i] = e2
        BY <2>6, <4>1, <4>2
      <4>4. Awaits(m, Hi!Version(RowAfter(edits - 1)))' BY <2>0, <4>3 DEF Awaits, e2
      <4>5. QED BY <1>9, <2>0, <4>1, <4>2, <4>4 DEF VersionsFollow
    <3>3. QED BY <3>1, <3>2
  <2>9. QED BY <2>7, <2>8
<1>16. \A m \in Store : enrolled'[m] BY <1>1 DEF InTurn
<1>17. QED BY <1>8, <1>14, <1>15, <1>16 DEF InTurn

LEMMA SerialNext == ASSUME Serial, [Hi!Next]_(Hi!vars) PROVE Serial'
<1>1. CASE UNCHANGED Hi!vars
  <2>1. UNCHANGED <<row, versions, enrolled, outbox, log, cursor, edits, concurrent, late>>
    BY <1>1 DEF Hi!vars, Hi!world
  <2>2. QED
    BY <2>1 DEF Serial, InTurn, Hi!TypeOK, Awaits, NewestEdit, RowFollows, VersionsFollow
<1>2. CASE Hi!Next
  <2>1. PICK n \in Store : Hi!Edit(n) \/ Hi!Enroll(n) \/ Hi!Push(n) \/ Hi!Pull(n)
    BY <1>2 DEF Hi!Next
  <2>2. UNCHANGED <<concurrent, late>>
    BY <2>1 DEF Hi!Edit, Hi!Enroll, Hi!Push, Hi!Pull, Hi!world
  <2>3. SUFFICES ASSUME ~concurrent, ~late PROVE InTurn' BY <2>2 DEF Serial
  <2>4. InTurn BY <2>3 DEF Serial
  <2>5. CASE Hi!Edit(n) BY <2>3, <2>4, <2>5, EditInTurn
  <2>6. CASE Hi!Enroll(n) BY <2>4, <2>6 DEF Hi!Enroll, InTurn
  <2>7. CASE Hi!Push(n) BY <2>4, <2>7, PushInTurn
  <2>8. CASE Hi!Pull(n) BY <2>4, <2>8, PullInTurn
  <2>9. QED BY <2>1, <2>5, <2>6, <2>7, <2>8
<1>3. QED BY <1>1, <1>2

(***************************************************************************)
(* Where edits are made one after the other, on whichever of any number of *)
(* stores, and memories and versions travel in whatever order, every store *)
(* that has sent and taken everything keeps the newest versions, as many   *)
(* as the retention allows, each with the text its revision had            *)
(* (snapshot_observation_version_tx, apply_observation_version_upsert_tx). *)
(***************************************************************************)
THEOREM SerialVersionsKept == MCSpec => []SerialHistoryKept
<1>1. MCInit => Serial BY SerialInit DEF MCInit
<1>2. Serial /\ [MCNext]_allVars => Serial'
  <2>1. [MCNext]_allVars => [Hi!Next]_(Hi!vars)
    BY DEF MCNext, allVars, history, Hi!vars, Hi!world
  <2>2. QED BY <2>1, SerialNext
<1>3. Serial => SerialHistoryKept
  <2> SUFFICES ASSUME Serial, ~concurrent, ~late, Hi!AllQuiet, NEW n \in Store
               PROVE  versions[n] = [r \in Hi!Revision |-> Hi!Survivor(r)]
    BY DEF SerialHistoryKept, Hi!SerialHistoryKept
  <2>1. versions[n] = KeptAfter(edits) BY QuietInTurn DEF Serial
  <2>2. QED BY <2>1 DEF KeptAfter, Hi!Survivor
<1>4. QED BY <1>1, <1>2, <1>3, PTL DEF MCSpec

-----------------------------------------------------------------------------
(* Install: two installers.                                                *)

\* Where three race, a model in parts that one puts back can take the place of
\* a whole one.
AtMostTwo == \A p, q, r \in Installer : p = q \/ p = r \/ q = r

\* An installer that does not touch the model in place any more.
Through(p) == stage[p] \in {"clear", "done", "killed"}

\* What is where, by how far an installer is.
SidesOf(p) ==
    /\ aside[p] \in {None, first, File}
    /\ stage[p] = "write" => staging[p] \in SUBSET File
    /\ stage[p] \in {"look", "aside", "swap", "put back"} => staging[p] = File
    /\ stage[p] \in {"off", "write", "inspect", "look", "aside"} => aside[p] = None
    /\ stage[p] = "aside" => hadOne[p]
    /\ In!Underway(p) => (hadOne[p] <=> aside[p] # None)
Sides == target \in {None, first, File} /\ \A p \in Installer : SidesOf(p)

\* Between the two renames of one nothing is in place, until the other has put
\* it there.
PlacedByTheOther ==
    \A p, q \in Installer :
        p # q /\ In!Underway(q) /\ aside[q] # None /\ target # None => Through(p)

\* A whole model that was not there at first is one that an installer has put
\* in place; where another has it aside, nobody puts the first one back.
NewAreInstalled ==
    /\ target = File => had
    /\ had /\ first # File => \E p \in Installer : Through(p)
    /\ \A p, q \in Installer :
         p # q /\ first # File /\ aside[q] = File => Through(p)
    /\ \A q \in Installer :
         first # File /\ aside[q] = File /\ In!Underway(q) => target \in {None, File}

\* Where an installer is about to put one back, a rename failed or another model
\* is in place.
WhyPutBack ==
    \A q \in Installer : stage[q] = "put back" /\ aside[q] # None => trouble >= 1 \/ ~In!Free

\* A whole model is in place or aside, with an installer that still can put it
\* back, was killed, or failed twice.
HasIt(q) ==
    /\ aside[q] = File
    /\ In!Underway(q) \/ stage[q] = "killed" \/ (stage[q] = "done" /\ trouble > 1)
WholeStands == had /\ target # File => \E q \in Installer : HasIt(q)

InstallInv ==
    /\ In!TypeOK /\ Sides /\ PlacedByTheOther /\ NewAreInstalled /\ WhyPutBack /\ WholeStands

LEMMA InstallInvInit == ASSUME In!Init PROVE InstallInv
<1>1. /\ target \in (SUBSET File) \cup {None} /\ first = target /\ had = (target = File)
      /\ \A p \in Installer : staging[p] = None /\ aside[p] = None /\ stage[p] = "off"
      /\ trouble = 0
  BY DEF In!Init, In!Directory, In!Whole
<1>2. In!TypeOK
  <2>1. 0 \in 0..MaxTrouble BY InstallAssumption
  <2>2. target \in (SUBSET File) \cup {None} /\ first \in (SUBSET File) \cup {None} BY <1>1
  <2>3. staging \in [Installer -> (SUBSET File) \cup {None}]
    BY DEF In!Init
  <2>4. aside \in [Installer -> (SUBSET File) \cup {None}]
    BY DEF In!Init
  <2>5. QED BY <1>1, <2>1, <2>2, <2>3, <2>4 DEF In!TypeOK, In!Init, In!Directory
<1>3. Sides BY <1>1 DEF Sides, SidesOf, In!Underway
<1>4. PlacedByTheOther /\ NewAreInstalled /\ WhyPutBack /\ WholeStands
  BY <1>1, InstallAssumption
     DEF PlacedByTheOther, NewAreInstalled, WhyPutBack, WholeStands, In!Underway
<1>5. QED BY <1>2, <1>3, <1>4 DEF InstallInv

\* Before an installer has looked at what is in place it leaves that alone, and
\* what others have aside.
Prepares(p) ==
    \/ In!Obtain(p) \/ (\E f \in File : In!WriteFile(p, f)) \/ In!Written(p) \/ In!WriteFails(p)
    \/ In!Inspect(p) \/ In!Look(p)

Renames(p) == In!MoveAside(p) \/ In!Swap(p) \/ In!PutBack(p) \/ In!Clear(p) \/ In!Killed(p)

\* An installer moves in its own directories; it leaves what was there first.
Moves(p) ==
    /\ \A q \in Installer \ {p} :
          /\ stage'[q] = stage[q] /\ staging'[q] = staging[q]
          /\ aside'[q] = aside[q] /\ hadOne'[q] = hadOne[q]
    /\ In!TypeOK' /\ first' = first /\ (had => had')
    /\ trouble <= trouble' /\ trouble' \in Nat

LEMMA InstallTypes ==
    ASSUME In!TypeOK
    PROVE  /\ target \in (SUBSET File) \cup {None} /\ first \in (SUBSET File) \cup {None}
           /\ staging \in [Installer -> (SUBSET File) \cup {None}]
           /\ aside \in [Installer -> (SUBSET File) \cup {None}]
           /\ trouble \in Nat /\ trouble <= MaxTrouble /\ MaxTrouble \in Nat
           /\ (In!Trouble => trouble' = trouble + 1 /\ trouble' \in 0..MaxTrouble)
           /\ None \notin SUBSET File /\ File # None
<1>1. /\ target \in (SUBSET File) \cup {None} /\ first \in (SUBSET File) \cup {None}
      /\ staging \in [Installer -> (SUBSET File) \cup {None}]
      /\ aside \in [Installer -> (SUBSET File) \cup {None}]
  BY DEF In!TypeOK, In!Directory
<1>2. /\ trouble \in Nat /\ trouble <= MaxTrouble /\ MaxTrouble \in Nat
  <2>1. trouble \in 0..MaxTrouble BY DEF In!TypeOK
  <2>2. MaxTrouble \in Nat BY InstallAssumption
  <2>3. QED BY <2>1, <2>2
<1>3. In!Trouble => trouble' = trouble + 1 /\ trouble' \in 0..MaxTrouble
  BY <1>2 DEF In!Trouble
<1>4. File \in SUBSET File OBVIOUS
<1>5. QED BY <1>1, <1>2, <1>3, <1>4, InstallAssumption

\* A step that leaves the model in place and what is aside alone.
LEMMA PreparesMoves ==
    ASSUME In!TypeOK, Sides, NEW p \in Installer, Prepares(p)
    PROVE  /\ Moves(p) /\ SidesOf(p)' /\ UNCHANGED <<target, aside, had>>
           /\ ~Through(p) /\ ~In!Underway(p) /\ stage'[p] \notin {"put back", "killed"}
           /\ aside[p] = None
<1> USE DEF In!Goes, In!dirs
<1>0. /\ SidesOf(p) /\ stage[p] \in {"off", "write", "inspect", "look"}
      /\ stage \in [Installer -> {"off", "write", "inspect", "look", "aside", "swap",
                                   "put back", "clear", "done", "killed"}]
      /\ hadOne \in [Installer -> BOOLEAN] /\ had \in BOOLEAN
  BY DEF Sides, In!TypeOK, Prepares, In!Obtain, In!WriteFile, In!Written, In!WriteFails,
         In!Inspect, In!Look
<1>1. aside[p] = None /\ ~Through(p) /\ ~In!Underway(p)
  BY <1>0 DEF SidesOf, Through, In!Underway
<1>2. UNCHANGED <<target, aside, had, first>>
  BY DEF Prepares, In!Obtain, In!WriteFile, In!Written, In!WriteFails, In!Inspect, In!Look
<1>3. trouble' = trouble \/ In!Trouble
  BY DEF Prepares, In!Obtain, In!WriteFile, In!Written, In!WriteFails, In!Inspect, In!Look
<1>4. trouble' \in 0..MaxTrouble /\ trouble' \in Nat /\ trouble <= trouble'
  BY <1>3, InstallTypes
<1>5. /\ stage' = [stage EXCEPT ![p] = stage'[p]]
      /\ stage'[p] \in {"write", "inspect", "look", "aside", "swap", "done"}
      /\ staging' = [staging EXCEPT ![p] = staging'[p]]
      /\ staging'[p] \in (SUBSET File) \cup {None}
      /\ stage'[p] = "write" => staging'[p] \in SUBSET File
      /\ stage'[p] \in {"look", "aside", "swap"} => staging'[p] = File
      /\ hadOne' = [hadOne EXCEPT ![p] = hadOne'[p]] /\ hadOne'[p] \in BOOLEAN
      /\ stage'[p] = "swap" => ~hadOne'[p]
      /\ stage'[p] = "aside" => hadOne'[p]
  <2>1. CASE In!Obtain(p) BY <1>0, <2>1, InstallTypes DEF In!Obtain
  <2>2. CASE \E f \in File : In!WriteFile(p, f)
    <3>1. staging[p] \in SUBSET File BY <1>0, <2>2 DEF In!WriteFile, SidesOf
    <3>2. PICK f \in File : In!WriteFile(p, f) BY <2>2
    <3>3. staging[p] \cup {f} \in SUBSET File BY <3>1
    <3>4. /\ staging' = [staging EXCEPT ![p] = staging[p] \cup {f}] /\ stage[p] = "write"
          /\ UNCHANGED <<stage, hadOne>>
      BY <3>2 DEF In!WriteFile
    <3>5. staging'[p] = staging[p] \cup {f} BY <3>4, InstallTypes
    <3>6. QED BY <1>0, <3>3, <3>4, <3>5, InstallTypes
  <2>3. CASE In!Written(p) BY <1>0, <2>3, InstallTypes DEF In!Written
  <2>4. CASE In!WriteFails(p) BY <1>0, <2>4, InstallTypes DEF In!WriteFails
  <2>5. CASE In!Inspect(p) BY <1>0, <2>5, InstallTypes DEF In!Inspect, In!Verified, In!Whole
  <2>6. CASE In!Look(p)
    <3>1. staging[p] = File BY <1>0, <2>6 DEF In!Look, SidesOf
    <3>2. QED BY <1>0, <2>6, <3>1, InstallTypes DEF In!Look
  <2>7. QED BY <2>1, <2>2, <2>3, <2>4, <2>5, <2>6 DEF Prepares
<1>6. In!TypeOK'
  <2>1. stage' \in [Installer -> {"off", "write", "inspect", "look", "aside", "swap",
                                   "put back", "clear", "done", "killed"}]
    BY <1>0, <1>5
  <2>2. staging' \in [Installer -> (SUBSET File) \cup {None}] BY <1>5, InstallTypes
  <2>3. hadOne' \in [Installer -> BOOLEAN] BY <1>0, <1>5
  <2>4. QED
    BY <1>0, <1>2, <1>4, <2>1, <2>2, <2>3, InstallTypes DEF In!TypeOK, In!Directory
<1>7. Moves(p) BY <1>0, <1>2, <1>4, <1>5, <1>6, InstallTypes DEF Moves
<1>8. SidesOf(p)' BY <1>1, <1>2, <1>5 DEF SidesOf, In!Underway
<1>9. QED BY <1>1, <1>2, <1>5, <1>7, <1>8

\* What the renames of an installer do, and its end.
LEMMA RenamesMoves ==
    ASSUME In!TypeOK, Sides, NEW p \in Installer, Renames(p)
    PROVE  /\ Moves(p) /\ SidesOf(p)' /\ target' \in {None, first, File}
           /\ (target' = File => target = File \/ stage'[p] \in {"clear", "done"})
<1> USE DEF In!Goes, In!dirs
<1>0. /\ SidesOf(p) /\ target \in {None, first, File}
      /\ stage \in [Installer -> {"off", "write", "inspect", "look", "aside", "swap",
                                   "put back", "clear", "done", "killed"}]
      /\ hadOne \in [Installer -> BOOLEAN] /\ had \in BOOLEAN
  BY DEF Sides, In!TypeOK
<1>3. trouble' = trouble \/ In!Trouble
  BY DEF Renames, In!MoveAside, In!Swap, In!PutBack, In!Clear, In!Killed
<1>4. trouble' \in 0..MaxTrouble /\ trouble' \in Nat /\ trouble <= trouble'
  BY <1>3, InstallTypes
<1>5. /\ first' = first /\ hadOne' = hadOne
      /\ target' \in {None, first, File} /\ had' \in BOOLEAN /\ (had => had')
      /\ stage' = [stage EXCEPT ![p] = stage'[p]]
      /\ stage'[p] \in {"swap", "put back", "clear", "done", "killed"}
      /\ staging' = [staging EXCEPT ![p] = staging'[p]]
      /\ staging'[p] \in (SUBSET File) \cup {None}
      /\ stage'[p] \in {"swap", "put back"} => staging'[p] = File
      /\ aside' = [aside EXCEPT ![p] = aside'[p]]
      /\ aside'[p] \in {None, first, File}
      /\ stage'[p] \in {"swap", "put back"} => (hadOne[p] <=> aside'[p] # None)
  <2>1. CASE In!MoveAside(p)
    <3>1. stage[p] = "aside" /\ staging[p] = File /\ aside[p] = None
      BY <1>0, <2>1 DEF In!MoveAside, SidesOf
    <3>2. hadOne[p] BY <1>0, <3>1 DEF SidesOf
    <3>3. QED BY <1>0, <2>1, <3>1, <3>2, InstallTypes DEF In!MoveAside
  <2>2. CASE In!Swap(p)
    <3>1. /\ staging[p] = File /\ aside[p] \in {None, first, File}
          /\ (hadOne[p] <=> aside[p] # None)
      BY <1>0, <2>2 DEF In!Swap, SidesOf, In!Underway
    <3>2. QED BY <1>0, <2>2, <3>1, InstallTypes DEF In!Swap, In!Puts
  <2>3. CASE In!PutBack(p)
    <3>1. aside[p] \in {None, first, File} BY <1>0 DEF SidesOf
    <3>2. QED BY <1>0, <2>3, <3>1, InstallTypes DEF In!PutBack, In!Puts
  <2>4. CASE In!Clear(p) BY <1>0, <2>4, InstallTypes DEF In!Clear
  <2>5. CASE In!Killed(p) BY <1>0, <2>5, InstallTypes DEF In!Killed, SidesOf
  <2>6. QED BY <2>1, <2>2, <2>3, <2>4, <2>5 DEF Renames
<1>6. In!TypeOK'
  <2>1. stage' \in [Installer -> {"off", "write", "inspect", "look", "aside", "swap",
                                   "put back", "clear", "done", "killed"}]
    BY <1>0, <1>5
  <2>2. staging' \in [Installer -> (SUBSET File) \cup {None}] BY <1>5, InstallTypes
  <2>3. aside'[p] \in (SUBSET File) \cup {None} /\ target' \in (SUBSET File) \cup {None}
    BY <1>5, InstallTypes
  <2>4. aside' \in [Installer -> (SUBSET File) \cup {None}] BY <1>5, <2>3, InstallTypes
  <2>5. QED
    BY <1>0, <1>4, <1>5, <2>1, <2>2, <2>3, <2>4, InstallTypes DEF In!TypeOK, In!Directory
<1>7. Moves(p) BY <1>0, <1>4, <1>5, <1>6, InstallTypes DEF Moves
<1>8. SidesOf(p)' BY <1>5 DEF SidesOf, In!Underway
<1>9. target' = File => target = File \/ stage'[p] \in {"clear", "done"}
  BY <1>0, InstallTypes DEF Renames, In!MoveAside, In!Swap, In!PutBack, In!Clear, In!Killed
<1>10. QED BY <1>5, <1>7, <1>8, <1>9

\* Any number of installers keep to their own directories.
LEMMA SidesNext ==
    ASSUME In!TypeOK, Sides, [In!Next]_(In!vars)
    PROVE  In!TypeOK' /\ Sides'
<1>1. CASE UNCHANGED In!vars
  BY <1>1 DEF In!vars, In!dirs, In!TypeOK, Sides, SidesOf, In!Underway
<1>2. CASE In!Next
  <2>1. PICK p \in Installer : Prepares(p) \/ Renames(p)
    BY <1>2 DEF In!Next, Prepares, Renames
  <2>2. Moves(p) /\ SidesOf(p)' /\ target' \in {None, first, File}
    BY <2>1, PreparesMoves, RenamesMoves DEF Sides
  <2>3. ASSUME NEW q \in Installer, q # p PROVE SidesOf(q)'
    <3>1. /\ stage'[q] = stage[q] /\ staging'[q] = staging[q] /\ aside'[q] = aside[q]
          /\ hadOne'[q] = hadOne[q] /\ first' = first
      BY <2>2, <2>3 DEF Moves
    <3>2. SidesOf(q) BY DEF Sides
    <3>3. QED BY <3>1, <3>2 DEF SidesOf, In!Underway
  <2>4. \A q \in Installer : SidesOf(q)' BY <2>2, <2>3
  <2>5. In!TypeOK' /\ target' \in {None, first', File} BY <2>2 DEF Moves
  <2>6. QED BY <2>4, <2>5 DEF Sides
<1>3. QED BY <1>1, <1>2

LEMMA InstallInvNext == ASSUME AtMostTwo, InstallInv, [In!Next]_(In!vars) PROVE InstallInv'
<1> USE DEF In!Goes
<1>0. /\ In!TypeOK /\ Sides /\ PlacedByTheOther /\ NewAreInstalled /\ WhyPutBack /\ WholeStands
      /\ \A q \in Installer : SidesOf(q)
      /\ stage \in [Installer -> {"off", "write", "inspect", "look", "aside", "swap",
                                   "put back", "clear", "done", "killed"}]
  BY DEF InstallInv, Sides, In!TypeOK
<1>1. CASE UNCHANGED In!vars
  BY <1>1 DEF InstallInv, In!vars, In!dirs, In!TypeOK, Sides, SidesOf, PlacedByTheOther,
     NewAreInstalled, WhyPutBack, WholeStands, HasIt, Through, In!Underway, In!Free
<1>2. In!TypeOK' /\ Sides' BY <1>0, SidesNext
<1>3. ASSUME NEW p \in Installer, Prepares(p) PROVE InstallInv'
  <2>1. /\ Moves(p) /\ SidesOf(p)' /\ UNCHANGED <<target, aside, had>>
        /\ ~Through(p) /\ ~In!Underway(p) /\ stage'[p] \notin {"put back", "killed"}
        /\ aside[p] = None
    BY <1>0, <1>3, PreparesMoves
  <2>2. In!TypeOK' /\ Sides' BY <1>2
  <2>3. /\ \A q \in Installer \ {p} : stage'[q] = stage[q]
        /\ first' = first /\ trouble <= trouble'
    BY <2>1 DEF Moves
  <2>4. /\ \A q \in Installer : Through(q) => Through(q)'
        /\ \A q \in Installer : aside[q] # None /\ In!Underway(q)' => In!Underway(q)
    BY <2>1, <2>3 DEF Through, In!Underway
  <2>5. PlacedByTheOther' BY <1>0, <2>1, <2>4 DEF PlacedByTheOther
  <2>6. NewAreInstalled' BY <1>0, <2>1, <2>3, <2>4, InstallTypes DEF NewAreInstalled
  <2>7. WhyPutBack' 
    <3>1. ASSUME NEW q \in Installer, (stage[q] = "put back")', aside'[q] # None
          PROVE  trouble' >= 1 \/ ~In!Free'
      <4>1. stage[q] = "put back" /\ aside[q] # None BY <2>1, <2>3, <3>1
      <4>2. trouble >= 1 \/ ~In!Free BY <1>0, <4>1 DEF WhyPutBack
      <4>3. trouble \in Nat /\ trouble' \in Nat BY <1>0, <2>1, <2>2, InstallTypes DEF Moves
      <4>4. trouble >= 1 => trouble' >= 1 BY <2>3, <4>3
      <4>5. target' = target BY <2>1
      <4>6. In!Free' <=> In!Free BY <4>5 DEF In!Free
      <4>7. QED BY <4>2, <4>4, <4>6
    <3>2. QED BY <3>1 DEF WhyPutBack
  <2>8. WholeStands'
    <3>1. trouble \in Nat /\ trouble' \in Nat BY <1>0, <2>1, <2>2, InstallTypes DEF Moves
    <3>2. ASSUME NEW q \in Installer, HasIt(q) PROVE HasIt(q)'
      <4>1. aside[q] = File /\ q # p BY <1>0, <2>1, <3>2, InstallTypes DEF HasIt
      <4>2. stage'[q] = stage[q] /\ aside'[q] = File BY <2>1, <2>3, <4>1
      <4>3. trouble > 1 => trouble' > 1 BY <2>3, <3>1
      <4>4. QED BY <3>2, <4>2, <4>3 DEF HasIt, In!Underway
    <3>3. QED BY <1>0, <2>1, <3>2 DEF WholeStands
  <2>9. QED BY <2>2, <2>5, <2>6, <2>7, <2>8 DEF InstallInv
<1>4. ASSUME NEW p \in Installer, Renames(p) PROVE InstallInv'
  <2>1. /\ Moves(p) /\ SidesOf(p)' /\ target' \in {None, first, File}
        /\ (target' = File => target = File \/ stage'[p] \in {"clear", "done"})
    BY <1>0, <1>4, RenamesMoves
  <2>2. In!TypeOK' /\ Sides' BY <1>2
  <2>3. /\ \A q \in Installer \ {p} : stage'[q] = stage[q] /\ aside'[q] = aside[q]
        /\ first' = first /\ trouble <= trouble' /\ trouble \in Nat /\ trouble' \in Nat
    BY <1>0, <2>1, <2>2, InstallTypes DEF Moves
  <2>4. \A q \in Installer : Through(q) => Through(q)'
    <3>1. Through(p) => Through(p)'
      BY <1>0, <1>4 DEF Renames, Through, In!MoveAside, In!Swap, In!PutBack, In!Clear, In!Killed
    <3>2. QED BY <2>3, <3>1 DEF Through
  <2>5. ASSUME NEW q \in Installer, q # p, ~Through(p), NEW r \in Installer, r # q
        PROVE  r = p
    BY <2>5 DEF AtMostTwo
  <2>6. SidesOf(p) /\ None # File BY <1>0, InstallTypes
  <2>7. ASSUME UNCHANGED <<target, aside, had>>,
               \A q \in Installer : In!Underway(q)' => In!Underway(q)
        PROVE  PlacedByTheOther' /\ NewAreInstalled'
    <3>1. PlacedByTheOther' BY <1>0, <2>4, <2>7 DEF PlacedByTheOther
    <3>2. NewAreInstalled' BY <1>0, <2>3, <2>4, <2>7 DEF NewAreInstalled
    <3>3. QED BY <3>1, <3>2
  <2>8. ASSUME NEW q \in Installer, q # p
        PROVE  /\ stage'[q] = stage[q] /\ aside'[q] = aside[q]
               /\ In!Underway(q)' <=> In!Underway(q)
               /\ HasIt(q) => HasIt(q)'
               /\ stage[q] = "put back" /\ aside[q] # None => trouble' >= 1 \/ ~In!Free
    <3>1. stage'[q] = stage[q] /\ aside'[q] = aside[q] BY <2>3, <2>8
    <3>2. (trouble > 1 => trouble' > 1) /\ (trouble >= 1 => trouble' >= 1) BY <2>3
    <3>3. QED BY <1>0, <3>1, <3>2 DEF HasIt, In!Underway, WhyPutBack
  <2>9. CASE In!MoveAside(p)
    <3>1. /\ stage[p] = "aside" /\ aside[p] = None /\ had' = had /\ ~Through(p)
      BY <2>6, <2>9 DEF In!MoveAside, SidesOf, Through
    <3>2. CASE /\ target # None /\ stage'[p] = "swap" /\ aside'[p] = target /\ target' = None
      <4>1. PlacedByTheOther' BY <3>2 DEF PlacedByTheOther
      <4>2. ASSUME NEW r \in Installer, NEW q \in Installer, r # q, first' # File,
                   aside'[q] = File
            PROVE  Through(r)'
        <5>1. CASE q # p BY <1>0, <2>3, <2>4, <2>8, <4>2, <5>1 DEF NewAreInstalled
        <5>2. CASE q = p
          <6>1. had /\ first # File BY <1>0, <2>3, <3>2, <4>2, <5>2 DEF NewAreInstalled
          <6>2. PICK t \in Installer : Through(t) BY <1>0, <6>1 DEF NewAreInstalled
          <6>3. r = t BY <3>1, <4>2, <5>2, <6>2 DEF AtMostTwo
          <6>4. QED BY <2>4, <6>2, <6>3
        <5>3. QED BY <5>1, <5>2
      <4>3. NewAreInstalled'
        BY <1>0, <2>3, <2>4, <2>6, <3>1, <3>2, <4>2 DEF NewAreInstalled
      <4>4. WhyPutBack'
        <5>1. ASSUME NEW q \in Installer, stage'[q] = "put back", aside'[q] # None
              PROVE  FALSE
          <6>1. q # p BY <3>2, <5>1
          <6>2. In!Underway(q) /\ aside[q] # None BY <2>8, <5>1, <6>1 DEF In!Underway
          <6>3. QED BY <1>0, <3>1, <3>2, <6>1, <6>2 DEF PlacedByTheOther
        <5>2. QED BY <5>1 DEF WhyPutBack
      <4>5. WholeStands'
        <5>1. CASE target = File
          <6>1. In!Underway(p)' /\ aside'[p] = File BY <3>2, <5>1 DEF In!Underway
          <6>2. HasIt(p)' BY <6>1 DEF HasIt
          <6>3. QED BY <6>2 DEF WholeStands
        <5>2. CASE target # File /\ had
          <6>1. PICK q \in Installer : HasIt(q) BY <1>0, <5>2 DEF WholeStands
          <6>2. q # p BY <2>6, <3>1, <6>1 DEF HasIt
          <6>3. QED BY <2>8, <6>1, <6>2 DEF WholeStands
        <5>3. QED BY <3>1, <5>1, <5>2 DEF WholeStands
      <4>6. QED BY <2>2, <4>1, <4>3, <4>4, <4>5 DEF InstallInv
    <3>3. CASE UNCHANGED <<target, aside>> /\ stage'[p] = "done"
      <4>1. \A q \in Installer : In!Underway(q)' => In!Underway(q)
        BY <2>8, <3>3 DEF In!Underway
      <4>2. WhyPutBack'
        <5>1. In!Free' <=> In!Free BY <3>3 DEF In!Free
        <5>2. QED BY <2>8, <3>3, <5>1 DEF WhyPutBack
      <4>3. WholeStands'
        <5>1. \A q \in Installer : HasIt(q) => q # p BY <2>6, <3>1 DEF HasIt
        <5>2. QED BY <1>0, <2>8, <3>1, <3>3, <5>1 DEF WholeStands
      <4>4. QED BY <2>2, <2>7, <3>1, <3>3, <4>1, <4>2, <4>3 DEF InstallInv
    <3>4. QED BY <1>0, <2>9, <3>2, <3>3, InstallTypes DEF In!MoveAside
  <2>10. CASE In!Swap(p)
    <3>1. stage[p] = "swap" /\ staging[p] = File /\ aside' = aside /\ ~Through(p)
      BY <2>6, <2>10 DEF In!Swap, SidesOf, Through
    <3>2. CASE In!Free /\ stage'[p] = "clear" /\ target' = File /\ had'
      <4>1. Through(p)' BY <3>2 DEF Through
      <4>2. \A q \in Installer : In!Underway(q)' => q # p BY <3>2 DEF In!Underway
      <4>3. PlacedByTheOther' BY <2>5, <3>1, <4>1, <4>2 DEF PlacedByTheOther
      <4>4. NewAreInstalled'
        BY <1>0, <2>3, <2>4, <3>1, <3>2, <4>1 DEF NewAreInstalled
      <4>5. WhyPutBack' BY <2>8, <3>2 DEF WhyPutBack
      <4>6. WholeStands' BY <3>2 DEF WholeStands
      <4>7. QED BY <2>2, <4>3, <4>4, <4>5, <4>6 DEF InstallInv
    <3>3. CASE /\ UNCHANGED <<target, had>> /\ stage'[p] = "put back"
               /\ In!Free => trouble' = trouble + 1
      <4>1. \A q \in Installer : In!Underway(q)' => In!Underway(q)
        BY <2>8, <3>1, <3>3 DEF In!Underway
      <4>2. WhyPutBack'
        <5>1. In!Free' <=> In!Free BY <3>3 DEF In!Free
        <5>2. In!Free => trouble' >= 1
          <6>1. trouble \in Nat BY <2>3
          <6>2. In!Free => trouble' = trouble + 1 BY <3>3
          <6>3. QED BY <6>1, <6>2
        <5>3. QED BY <2>8, <5>1, <5>2 DEF WhyPutBack
      <4>3. WholeStands'
        <5>1. HasIt(p) => HasIt(p)'
          <6>1. In!Underway(p)' BY <3>3 DEF In!Underway
          <6>2. HasIt(p) => aside'[p] = File BY <3>1 DEF HasIt
          <6>3. QED BY <6>1, <6>2 DEF HasIt
        <5>2. QED BY <1>0, <2>8, <3>1, <3>3, <5>1 DEF WholeStands
      <4>4. QED BY <2>2, <2>7, <3>1, <3>3, <4>1, <4>2, <4>3 DEF InstallInv
    <3>4. QED
      <4>1. \/ In!Free /\ stage'[p] = "clear" /\ target' = File /\ had'
            \/ /\ UNCHANGED <<target, had>> /\ stage'[p] = "put back"
               /\ In!Free => In!Trouble
        BY <1>0, <2>10, <3>1 DEF In!Swap, In!Puts, In!Whole
      <4>2. QED BY <1>0, <3>2, <3>3, <4>1, InstallTypes
  <2>11. CASE In!PutBack(p)
    <3>1. /\ stage[p] = "put back" /\ stage'[p] = "done" /\ ~Through(p) /\ In!Underway(p)
          /\ aside[p] \in {None, first, File} /\ (hadOne[p] <=> aside[p] # None)
      BY <1>0, <2>6, <2>11 DEF In!PutBack, SidesOf, Through, In!Underway
    <3>2. Through(p)' BY <3>1 DEF Through
    <3>3. \A q \in Installer : In!Underway(q)' => q # p BY <3>1 DEF In!Underway
    <3>4. CASE /\ aside[p] # None /\ In!Free /\ target' = aside[p] /\ aside'[p] = None
               /\ had' = (had \/ aside[p] = File)
      <4>1. PlacedByTheOther' BY <2>5, <3>1, <3>2, <3>3 DEF PlacedByTheOther
      <4>2. NewAreInstalled'
        <5>1. \A q \in Installer : aside'[q] = File => q # p BY <2>6, <3>4
        <5>2. \A q \in Installer : first # File /\ aside[q] = File => q = p
          BY <1>0, <3>1 DEF NewAreInstalled
        <5>3. QED BY <2>3, <2>8, <3>2, <3>4, <5>1, <5>2 DEF NewAreInstalled
      <4>3. WhyPutBack' BY <2>8, <3>1, <3>4 DEF WhyPutBack
      <4>4. WholeStands'
        <5>1. SUFFICES ASSUME had', target' # File PROVE \E q \in Installer : HasIt(q)'
          BY DEF WholeStands
        <5>2. had /\ aside[p] # File BY <3>4, <5>1
        <5>3. target # File
          <6>1. SUFFICES ASSUME target = File PROVE FALSE OBVIOUS
          <6>2. File = {} BY <2>6, <3>4, <6>1 DEF In!Free
          <6>3. aside[p] \in SUBSET File BY <1>0, <3>4, InstallTypes
          <6>4. QED BY <5>2, <6>2, <6>3
        <5>4. PICK q \in Installer : HasIt(q) BY <1>0, <5>2, <5>3 DEF WholeStands
        <5>5. q # p BY <5>2, <5>4 DEF HasIt
        <5>6. QED BY <2>8, <5>4, <5>5
      <4>5. QED BY <2>2, <4>1, <4>2, <4>3, <4>4 DEF InstallInv
    <3>5. CASE /\ UNCHANGED <<target, aside, had>>
               /\ aside[p] # None /\ In!Free => trouble' = trouble + 1
      <4>1. \A q \in Installer : In!Underway(q)' => In!Underway(q)
        BY <2>8, <3>1
      <4>2. WhyPutBack'
        <5>1. In!Free' <=> In!Free BY <3>5 DEF In!Free
        <5>2. QED BY <2>8, <3>1, <5>1 DEF WhyPutBack
      <4>3. WholeStands'
        <5>1. SUFFICES ASSUME had, target # File PROVE \E q \in Installer : HasIt(q)'
          BY <3>5 DEF WholeStands
        <5>2. PICK q \in Installer : HasIt(q) BY <1>0, <5>1 DEF WholeStands
        <5>3. CASE q # p BY <2>8, <5>2, <5>3
        <5>4. CASE q = p
          <6>1. aside[p] = File /\ aside[p] # None BY <2>6, <5>2, <5>4 DEF HasIt
          <6>2. In!Free
            <7>1. first # File => target = None
              BY <1>0, <3>1, <5>1, <6>1 DEF NewAreInstalled
            <7>2. target = None BY <1>0, <5>1, <7>1 DEF Sides
            <7>3. QED BY <7>2 DEF In!Free
          <6>3. trouble >= 1 BY <1>0, <3>1, <6>1, <6>2 DEF WhyPutBack
          <6>4. trouble' > 1 BY <2>3, <3>5, <6>1, <6>2, <6>3
          <6>5. QED BY <3>1, <3>5, <6>1, <6>4 DEF HasIt
        <5>5. QED BY <5>3, <5>4
      <4>4. QED BY <2>2, <2>7, <3>5, <4>1, <4>2, <4>3 DEF InstallInv
    <3>6. QED
      <4>1. \/ /\ aside[p] # None /\ In!Free /\ target' = aside[p] /\ aside'[p] = None
               /\ had' = (had \/ aside[p] = File)
            \/ /\ UNCHANGED <<target, aside, had>>
               /\ aside[p] # None /\ In!Free => In!Trouble
        BY <1>0, <2>11, <3>1, InstallTypes DEF In!PutBack, In!Puts, In!Whole
      <4>2. QED BY <1>0, <3>4, <3>5, <4>1, InstallTypes
  <2>12. CASE In!Clear(p)
    <3>1. /\ stage[p] = "clear" /\ stage'[p] = "done" /\ aside'[p] = None
          /\ UNCHANGED <<target, had, trouble>>
      BY <1>0, <2>12, InstallTypes DEF In!Clear
    <3>2. \A q \in Installer : In!Underway(q)' => q # p /\ In!Underway(q)
      BY <2>8, <3>1 DEF In!Underway
    <3>3. PlacedByTheOther' BY <1>0, <2>4, <2>8, <3>1, <3>2 DEF PlacedByTheOther
    <3>4. \A q \in Installer : aside'[q] = File => q # p /\ aside[q] = File
      BY <2>6, <2>8, <3>1
    <3>5. NewAreInstalled' BY <1>0, <2>3, <2>4, <3>1, <3>2, <3>4 DEF NewAreInstalled
    <3>6. In!Free' <=> In!Free BY <3>1 DEF In!Free
    <3>7. WhyPutBack' BY <2>8, <3>1, <3>6 DEF WhyPutBack
    <3>8. \A q \in Installer : HasIt(q) => q # p BY <3>1 DEF HasIt, In!Underway
    <3>9. WholeStands' BY <1>0, <2>8, <3>1, <3>8 DEF WholeStands
    <3>10. QED BY <2>2, <3>3, <3>5, <3>7, <3>9 DEF InstallInv
  <2>13. CASE In!Killed(p)
    <3>1. /\ stage[p] # "done" /\ stage'[p] = "killed" /\ UNCHANGED <<target, aside, had>>
      BY <1>0, <2>13 DEF In!Killed, In!dirs
    <3>2. \A q \in Installer : In!Underway(q)' => In!Underway(q)
      BY <2>8, <3>1 DEF In!Underway
    <3>3. In!Free' <=> In!Free BY <3>1 DEF In!Free
    <3>4. WhyPutBack' BY <2>8, <3>1, <3>3 DEF WhyPutBack
    <3>5. HasIt(p) => HasIt(p)'
      <4>1. HasIt(p) => aside'[p] = File BY <3>1 DEF HasIt
      <4>2. QED BY <3>1, <4>1 DEF HasIt
    <3>6. WholeStands' BY <1>0, <2>8, <3>1, <3>5 DEF WholeStands
    <3>7. QED BY <2>2, <2>7, <3>1, <3>2, <3>4, <3>6 DEF InstallInv
  <2>14. QED BY <1>4, <2>9, <2>10, <2>11, <2>12, <2>13 DEF Renames
<1>5. QED
  <2>1. CASE In!Next
    <3>1. PICK p \in Installer : Prepares(p) \/ Renames(p)
      BY <2>1 DEF In!Next, Prepares, Renames
    <3>2. QED BY <1>3, <1>4, <3>1
  <2>2. QED BY <1>1, <2>1

\* In the composition.
LEMMA SidesKeep == MCSpec => [](In!TypeOK /\ Sides)
<1>1. MCInit => In!TypeOK /\ Sides BY InstallInvInit DEF MCInit, InstallInv
<1>2. In!TypeOK /\ Sides /\ [MCNext]_allVars => In!TypeOK' /\ Sides'
  <2>1. [MCNext]_allVars => [In!Next]_(In!vars)
    BY DEF MCNext, allVars, install, In!vars, In!dirs
  <2>2. QED BY <2>1, SidesNext
<1>3. QED BY <1>1, <1>2, PTL DEF MCSpec

(***************************************************************************)
(* However many install at the same time and whatever fails, what is in    *)
(* place is nothing, what was found there at first or a whole model: what  *)
(* one of them wrote in part is never put there (place, inspect).          *)
(***************************************************************************)
THEOREM NothingInPartsIsPlaced == MCSpec => [](target \in {None, first, File})
<1>1. In!TypeOK /\ Sides => target \in {None, first, File} BY DEF Sides
<1>2. QED BY <1>1, SidesKeep, PTL

(***************************************************************************)
(* Of two that install at the same time, whatever files the model has and  *)
(* whatever fails, neither leaves a model in parts where there was none,   *)
(* and a whole one stays in place or with one that can put it back, that   *)
(* was killed, or that failed twice (place: "all or nothing").  Of three   *)
(* it is not true.                                                         *)
(***************************************************************************)
THEOREM TwoInstallAllOrNothing == ASSUME AtMostTwo PROVE MCSpec => []AllOrNothing
<1>1. MCInit => InstallInv BY InstallInvInit DEF MCInit
<1>2. InstallInv /\ [MCNext]_allVars => InstallInv'
  <2>1. [MCNext]_allVars => [In!Next]_(In!vars)
    BY DEF MCNext, allVars, install, In!vars, In!dirs
  <2>2. QED BY <2>1, InstallInvNext
<1>3. InstallInv => AllOrNothing
  <2> SUFFICES ASSUME InstallInv PROVE AllOrNothing OBVIOUS
  <2>1. target \in {None, first, File} BY DEF InstallInv, Sides
  <2>2. had => \/ target = File
               \/ \E p \in Installer :
                    aside[p] = File /\ (In!Underway(p) \/ stage[p] = "killed" \/ trouble > 1)
    BY DEF InstallInv, WholeStands, HasIt
  <2>3. QED BY <2>1, <2>2 DEF AllOrNothing, In!AllOrNothing, In!Whole
<1>4. QED BY <1>1, <1>2, <1>3, PTL DEF MCSpec

-----------------------------------------------------------------------------
(* Setup: the text of the instruction file.                                *)

Text == Seq(Se!Line)

\* The marker that closes, for the marker that opens.
Pair(s, b, e) == b \in 1..Len(s) /\ e \in 1..Len(s) /\ b < e /\ s[b] = Begin /\ s[e] = End

\* What the file never loses: it has one marker that opens, if any, and behind
\* that one that closes, if any.
Tidy(s) ==
    /\ \A i, j \in 1..Len(s) : s[i] = Begin /\ s[j] = Begin => i = j
    /\ \A b, i, j \in 1..Len(s) : Pair(s, b, i) /\ Pair(s, b, j) => i = j

Blocked(s) == \E b, e \in 1..Len(s) : Pair(s, b, e)

\* In between the two markers, where nothing stays.
Between(s, k) == \E b, e \in 1..Len(s) : Pair(s, b, e) /\ b < k /\ k < e

Stands(s, line) == \E k \in 1..Len(s) : s[k] = line /\ ~Between(s, k)

\* Other lines in the place of those behind i and in front of j.
Splice(s, i, m, j) == SubSeq(s, 1, i) \o m \o SubSeq(s, j, Len(s))

LEMMA LinesDiffer ==
    /\ Begin \in Se!Line /\ Protocol \in Se!Line /\ End \in Se!Line
    /\ Begin # End /\ Begin # Protocol /\ Protocol # End
BY SetupAssumption DEF Se!Line

LEMMA Spliced ==
    ASSUME NEW s \in Text, NEW m \in Text, NEW i \in 0..Len(s), NEW j \in 1..(Len(s) + 1)
    PROVE  LET t == Splice(s, i, m, j) IN
           /\ t \in Text
           /\ Len(t) = i + Len(m) + (Len(s) + 1 - j)
           /\ \A k \in 1..Len(t) :
                t[k] = IF k <= i THEN s[k]
                       ELSE IF k <= i + Len(m) THEN m[k - i] ELSE s[(k - i - Len(m) - 1) + j]
<1> DEFINE p == SubSeq(s, 1, i)
           q == SubSeq(s, j, Len(s))
           u == p \o m
           t == u \o q
<1>1. Len(s) \in Nat /\ Len(m) \in Nat BY DEF Text
<1>2. /\ p \in Text /\ Len(p) = i /\ \A k \in 1..i : p[k] = s[k]
  BY <1>1 DEF Text
<1>3. /\ q \in Text /\ Len(q) = Len(s) + 1 - j
      /\ \A k \in 1..Len(q) : q[k] = s[(k - 1) + j]
  BY <1>1 DEF Text
<1> HIDE DEF p, q
<1>4. /\ u \in Text /\ Len(u) = i + Len(m)
      /\ \A k \in 1..(i + Len(m)) : u[k] = IF k <= i THEN p[k] ELSE m[k - i]
  BY <1>1, <1>2 DEF Text
<1> HIDE DEF u
<1>5. /\ t \in Text /\ Len(t) = (i + Len(m)) + Len(q)
      /\ \A k \in 1..Len(t) :
           t[k] = IF k <= i + Len(m) THEN u[k] ELSE q[k - (i + Len(m))]
  BY <1>1, <1>3, <1>4, SMTT(30) DEF Text
<1> HIDE DEF t
<1>6. Splice(s, i, m, j) = t BY DEF Splice, t, u, p, q
<1>7. ASSUME NEW k \in 1..Len(t)
      PROVE  t[k] = IF k <= i THEN s[k]
                    ELSE IF k <= i + Len(m) THEN m[k - i] ELSE s[(k - i - Len(m) - 1) + j]
  <2>1. CASE k <= i BY <1>1, <1>2, <1>4, <1>5, <2>1
  <2>2. CASE i < k /\ k <= i + Len(m) BY <1>1, <1>4, <1>5, <2>2
  <2>3. CASE i + Len(m) < k
    <3>0. Len(q) \in Nat /\ k \in Nat /\ k <= (i + Len(m)) + Len(q)
      BY <1>1, <1>3, <1>5
    <3>1. k - (i + Len(m)) \in 1..Len(q) BY <1>1, <2>3, <3>0
    <3>2. t[k] = q[k - (i + Len(m))] BY <1>1, <1>5, <2>3
    <3>3. t[k] = s[((k - (i + Len(m))) - 1) + j] BY <1>3, <3>1, <3>2
    <3>4. ((k - (i + Len(m))) - 1) + j = (k - i - Len(m) - 1) + j BY <1>1
    <3>5. QED BY <1>1, <2>3, <3>3, <3>4
  <2>4. QED BY <1>1, <2>1, <2>2, <2>3
<1>8. QED BY <1>1, <1>3, <1>5, <1>6, <1>7

LEMMA FindOnly ==
    ASSUME NEW s \in Text, NEW line, NEW i \in Nat, NEW j \in i..Len(s), s[j] = line,
           \A k \in i..Len(s) : s[k] = line => k = j
    PROVE  Se!Find(s, line, i) = j
<1>1. Len(s) \in Nat BY DEF Text
<1>2. \A k \in i..(j - 1) : s[k] # line BY <1>1
<1>3. j = CHOOSE x \in i..Len(s) : s[x] = line /\ \A k \in i..(x - 1) : s[k] # line
  BY <1>2
<1>4. QED BY <1>3 DEF Se!Find

LEMMA FindNone ==
    ASSUME NEW s, NEW line, NEW i, \A k \in i..Len(s) : s[k] # line
    PROVE  Se!Find(s, line, i) = 0
BY DEF Se!Find

\* What Strip keeps of the lines from i on, f being what it keeps from any later on.
Rest(s, f, i) ==
    LET b == Se!Find(s, Begin, i)
        e == IF b = 0 THEN 0 ELSE Se!Find(s, End, b)
    IN IF e = 0 THEN SubSeq(s, i, Len(s)) ELSE SubSeq(s, i, b - 1) \o f[e + 1]

LEMMA StripUnfolds ==
    ASSUME NEW s, NEW g, g = [i \in 1..(Len(s) + 1) |-> Rest(s, g, i)]
    PROVE  \E f : f = [i \in 1..(Len(s) + 1) |-> Rest(s, f, i)] /\ Se!Strip(s) = f[1]
<1> DEFINE Fits(f) == f = [i \in 1..(Len(s) + 1) |-> Rest(s, f, i)]
           c == CHOOSE f : Fits(f)
<1>1. Se!Strip(s) = c[1] BY DEF Se!Strip, Rest
<1>2. Fits(g) OBVIOUS
<1> HIDE DEF Fits
<1>3. Fits(c) BY <1>2
<1> HIDE DEF c
<1>4. QED BY <1>1, <1>3 DEF Fits

\* Where the first marker that opens is, from i on, and the one that closes it.
Opens(s, i) == Se!Find(s, Begin, i)
Closes(s, i) == IF Opens(s, i) = 0 THEN 0 ELSE Se!Find(s, End, Opens(s, i))

LEMMA ClosesThePair ==
    ASSUME NEW s \in Text, Tidy(s), NEW b \in 1..Len(s), NEW e \in 1..Len(s), Pair(s, b, e),
           NEW i \in 1..b
    PROVE  Opens(s, i) = b /\ Closes(s, i) = e
<1>1. Len(s) \in Nat /\ i \in Nat /\ b \in Nat /\ b # 0 /\ b \in i..Len(s) /\ e \in b..Len(s)
  BY DEF Text, Pair
<1>2. \A k \in i..Len(s) : s[k] = Begin => k = b BY <1>1 DEF Tidy, Pair
<1>3. Opens(s, i) = b BY <1>1, <1>2, FindOnly DEF Opens, Pair
<1>4. ASSUME NEW k \in b..Len(s), s[k] = End PROVE k = e
  <2>1. k # b BY <1>4, LinesDiffer DEF Pair
  <2>2. k \in 1..Len(s) /\ b < k BY <1>1, <2>1
  <2>3. Pair(s, b, k) BY <1>4, <2>2 DEF Pair
  <2>4. QED BY <2>2, <2>3 DEF Tidy
<1>5. Se!Find(s, End, b) = e BY <1>1, <1>4, FindOnly DEF Pair
<1>6. QED BY <1>1, <1>3, <1>5 DEF Closes

LEMMA ClosesNothing ==
    ASSUME NEW s \in Text, Tidy(s), NEW i \in 1..(Len(s) + 1),
           \A b, e \in 1..Len(s) : Pair(s, b, e) => b < i
    PROVE  Closes(s, i) = 0
<1>1. Len(s) \in Nat /\ i \in Nat BY DEF Text
<1>2. CASE \A k \in i..Len(s) : s[k] # Begin BY <1>2, FindNone DEF Opens, Closes
<1>3. CASE \E k \in i..Len(s) : s[k] = Begin
  <2>1. PICK b \in i..Len(s) : s[b] = Begin BY <1>3
  <2>2. b \in Nat /\ b \in 1..Len(s) BY <1>1, <2>1
  <2>3. \A k \in i..Len(s) : s[k] = Begin => k = b BY <1>1, <2>1, <2>2 DEF Tidy
  <2>4. Opens(s, i) = b BY <1>1, <2>1, <2>3, FindOnly DEF Opens
  <2>5. ASSUME NEW k \in b..Len(s) PROVE s[k] # End
    <3>1. k # b => k \in 1..Len(s) /\ b < k BY <1>1, <2>2
    <3>2. s[k] = End => Pair(s, b, k) BY <2>1, <2>2, <3>1, LinesDiffer DEF Pair
    <3>3. ~ (b < i) BY <1>1, <2>1
    <3>4. QED BY <2>2, <3>2, <3>3 DEF Pair
  <2>6. Se!Find(s, End, b) = 0 BY <2>5, FindNone
  <2>7. QED BY <2>4, <2>6 DEF Closes
<1>4. QED BY <1>2, <1>3

LEMMA RestIs ==
    ASSUME NEW s, NEW f, NEW i
    PROVE  Rest(s, f, i) = IF Closes(s, i) = 0 THEN SubSeq(s, i, Len(s))
                           ELSE SubSeq(s, i, Opens(s, i) - 1) \o f[Closes(s, i) + 1]
BY DEF Rest, Opens, Closes

\* What is to be stripped, where nothing or the one block is.
LEMMA StripFits ==
    ASSUME NEW s \in Text, Tidy(s)
    PROVE  Se!Strip(s) = IF Closes(s, 1) = 0 THEN SubSeq(s, 1, Len(s))
                         ELSE SubSeq(s, 1, Opens(s, 1) - 1)
                                \o SubSeq(s, Closes(s, 1) + 1, Len(s))
<1> DEFINE S == 1..(Len(s) + 1)
           Left(i) == IF Closes(s, i) = 0 THEN SubSeq(s, i, Len(s))
                      ELSE SubSeq(s, i, Opens(s, i) - 1) \o SubSeq(s, Closes(s, i) + 1, Len(s))
           g == [i \in S |-> Left(i)]
<1>1. Len(s) \in Nat /\ 1 \in S BY DEF Text
<1>2. ASSUME NEW i \in S, Closes(s, i) # 0
      PROVE  Closes(s, i) + 1 \in S /\ Closes(s, Closes(s, i) + 1) = 0
  <2>1. PICK b, e \in 1..Len(s) : Pair(s, b, e) /\ ~ (b < i) BY <1>2, ClosesNothing
  <2>2. i \in 1..b /\ b \in Nat /\ e \in Nat /\ b < e BY <1>1, <2>1 DEF Pair
  <2>3. Closes(s, i) = e BY <2>1, <2>2, ClosesThePair
  <2>4. e + 1 \in S BY <1>1, <2>1
  <2>5. ASSUME NEW x \in 1..Len(s), NEW y \in 1..Len(s), Pair(s, x, y) PROVE x < e + 1
    <3>1. x = b BY <2>1, <2>5 DEF Tidy, Pair
    <3>2. QED BY <2>2, <3>1
  <2>6. Closes(s, e + 1) = 0 BY <2>4, <2>5, ClosesNothing
  <2>7. QED BY <2>3, <2>4, <2>6
<1>3. ASSUME NEW i \in S PROVE Left(i) = Rest(s, g, i)
  <2>1. CASE Closes(s, i) = 0 BY <2>1, RestIs
  <2>2. CASE Closes(s, i) # 0
    <3>1. Closes(s, i) + 1 \in S /\ Closes(s, Closes(s, i) + 1) = 0 BY <1>2, <2>2
    <3>2. g[Closes(s, i) + 1] = SubSeq(s, Closes(s, i) + 1, Len(s)) BY <3>1
    <3> HIDE DEF g
    <3>3. QED BY <2>2, <3>2, RestIs
  <2>3. QED BY <2>1, <2>2
<1>4. g = [i \in S |-> Rest(s, g, i)] BY <1>3
<1> HIDE DEF g
<1>5. PICK f : f = [i \in S |-> Rest(s, f, i)] /\ Se!Strip(s) = f[1] BY <1>4, StripUnfolds
<1>6. \A i \in S : f[i] = Rest(s, f, i) BY <1>5
<1>7. CASE Closes(s, 1) = 0 BY <1>1, <1>5, <1>6, <1>7, RestIs
<1>8. CASE Closes(s, 1) # 0
  <2>1. Closes(s, 1) + 1 \in S /\ Closes(s, Closes(s, 1) + 1) = 0 BY <1>1, <1>2, <1>8
  <2>2. f[Closes(s, 1) + 1] = SubSeq(s, Closes(s, 1) + 1, Len(s)) BY <1>6, <2>1, RestIs
  <2>3. QED BY <1>1, <1>5, <1>6, <1>8, <2>2, RestIs
<1>9. QED BY <1>7, <1>8

\* Strip takes the one block away with its markers.
LEMMA StripTakesTheBlock ==
    ASSUME NEW s \in Text, Tidy(s), NEW b \in 1..Len(s), NEW e \in 1..Len(s), Pair(s, b, e)
    PROVE  Se!Strip(s) = Splice(s, b - 1, <<>>, e + 1)
<1>1. Len(s) \in Nat /\ 1 \in 1..b /\ e # 0 BY DEF Text
<1>2. Opens(s, 1) = b /\ Closes(s, 1) = e BY <1>1, ClosesThePair
<1>3. Se!Strip(s) = SubSeq(s, 1, b - 1) \o SubSeq(s, e + 1, Len(s)) BY <1>1, <1>2, StripFits
<1>4. SubSeq(s, 1, b - 1) \in Text BY <1>1 DEF Text
<1>5. SubSeq(s, 1, b - 1) \o <<>> = SubSeq(s, 1, b - 1) BY <1>4, ConcatEmptySeq DEF Text
<1>6. QED BY <1>3, <1>5 DEF Splice

\* and leaves alone what has none.
LEMMA StripLeavesTheRest ==
    ASSUME NEW s \in Text, Tidy(s), ~Blocked(s)
    PROVE  Se!Strip(s) = s
<1>1. Len(s) \in Nat /\ 1 \in 1..(Len(s) + 1) BY DEF Text
<1>2. \A b, e \in 1..Len(s) : ~Pair(s, b, e) BY DEF Blocked
<1>3. Closes(s, 1) = 0 BY <1>1, <1>2, ClosesNothing
<1>4. SubSeq(s, 1, Len(s)) = s BY <1>1, SubSeqFull DEF Text
<1>5. QED BY <1>3, <1>4, StripFits

LEMMA HasBlockIsBlocked ==
    ASSUME NEW s \in Text, Tidy(s)
    PROVE  Se!HasBlock(s) <=> Blocked(s)
<1>1. CASE Blocked(s)
  <2>1. PICK b, e \in 1..Len(s) : Pair(s, b, e) BY <1>1 DEF Blocked
  <2>2. <<>> \in Text /\ Len(<<>>) = 0 /\ Len(s) \in Nat BY DEF Text
  <2>3. b - 1 \in 0..Len(s) /\ e + 1 \in 1..(Len(s) + 1) /\ b < e BY <2>1, <2>2 DEF Pair
  <2>4. Se!Strip(s) = Splice(s, b - 1, <<>>, e + 1) BY <2>1, StripTakesTheBlock
  <2>5. Len(Se!Strip(s)) = (b - 1) + Len(<<>>) + (Len(s) + 1 - (e + 1))
    BY <2>2, <2>3, <2>4, Spliced
  <2>6. Len(Se!Strip(s)) # Len(s) BY <2>2, <2>3, <2>5
  <2>7. QED BY <1>1, <2>6 DEF Se!HasBlock
<1>2. CASE ~Blocked(s) BY <1>2, StripLeavesTheRest DEF Se!HasBlock
<1>3. QED BY <1>1, <1>2

\* Lines are taken out, none of the person's that stands somewhere else.
LEMMA CutKeeps ==
    ASSUME NEW s \in Text, Tidy(s), NEW i \in 0..Len(s), NEW j \in (i + 1)..(Len(s) + 1)
    PROVE  LET t == Splice(s, i, <<>>, j) IN
           /\ t \in Text /\ Tidy(t)
           /\ \A k \in 1..Len(s) :
                (k <= i \/ j <= k) /\ ~Between(s, k) => Stands(t, s[k])
           /\ \A b, e \in 1..Len(s) :
                Pair(s, b, e) /\ (b <= i \/ j <= b) /\ (e <= i \/ j <= e) => Blocked(t)
<1> DEFINE t == Splice(s, i, <<>>, j)
           from(k) == IF k <= i THEN k ELSE (k - i - 1) + j
           to(k) == IF k <= i THEN k ELSE k - (j - (i + 1))
<1>1. Len(s) \in Nat /\ <<>> \in Text /\ Len(<<>>) = 0 /\ j \in 1..(Len(s) + 1) BY DEF Text
<1>2. /\ t \in Text /\ Len(t) = i + Len(<<>>) + (Len(s) + 1 - j)
      /\ \A k \in 1..Len(t) :
           t[k] = IF k <= i THEN s[k] ELSE IF k <= i + Len(<<>>) THEN <<>>[k - i]
                  ELSE s[(k - i - Len(<<>>) - 1) + j]
  BY <1>1, Spliced, ZenonT(60)
<1> HIDE DEF t
<1>3. Len(t) = i + (Len(s) + 1 - j) BY <1>1, <1>2
<1>4. ASSUME NEW k \in 1..Len(t) PROVE from(k) \in 1..Len(s) /\ t[k] = s[from(k)]
  <2>1. CASE k <= i BY <1>1, <1>2, <2>1
  <2>2. CASE i < k
    <3>1. ~ (k <= i) /\ ~ (k <= i + Len(<<>>)) BY <1>1, <1>3, <2>2
    <3>2. t[k] = s[(k - i - Len(<<>>) - 1) + j] BY <1>2, <3>1
    <3>3. (k - i - Len(<<>>) - 1) + j = (k - i - 1) + j BY <1>1
    <3>4. QED BY <1>1, <1>3, <2>2, <3>1, <3>2, <3>3
  <2>3. QED BY <1>1, <1>3, <2>1, <2>2
<1>5. \A k, l \in 1..Len(t) : (k < l <=> from(k) < from(l)) /\ (from(k) = from(l) => k = l)
  BY <1>1, <1>3
<1>6. ASSUME NEW k \in 1..Len(s), k <= i \/ j <= k
      PROVE  to(k) \in 1..Len(t) /\ from(to(k)) = k
  BY <1>1, <1>3, <1>6
<1> HIDE DEF from, to
<1>7. \A b, e \in 1..Len(t) : Pair(t, b, e) <=> Pair(s, from(b), from(e))
  BY <1>4, <1>5 DEF Pair
<1>8. Tidy(t)
  <2>1. \A k, l \in 1..Len(t) : t[k] = Begin /\ t[l] = Begin => k = l
    BY <1>4, <1>5 DEF Tidy
  <2>2. \A b, k, l \in 1..Len(t) : Pair(t, b, k) /\ Pair(t, b, l) => k = l
    BY <1>4, <1>5, <1>7 DEF Tidy
  <2>3. QED BY <2>1, <2>2 DEF Tidy
<1>9. ASSUME NEW k \in 1..Len(s), k <= i \/ j <= k, ~Between(s, k) PROVE Stands(t, s[k])
  <2>1. to(k) \in 1..Len(t) /\ t[to(k)] = s[k] BY <1>4, <1>6, <1>9
  <2>2. ASSUME NEW b \in 1..Len(t), NEW e \in 1..Len(t), Pair(t, b, e), b < to(k), to(k) < e
        PROVE  FALSE
    <3>1. Pair(s, from(b), from(e)) /\ from(b) \in 1..Len(s) /\ from(e) \in 1..Len(s)
      BY <1>4, <1>7, <2>2
    <3>2. from(b) < k /\ k < from(e) BY <1>5, <1>6, <1>9, <2>1, <2>2
    <3>3. QED BY <1>9, <3>1, <3>2 DEF Between
  <2>3. QED BY <2>1, <2>2 DEF Stands, Between
<1>10. ASSUME NEW b \in 1..Len(s), NEW e \in 1..Len(s), Pair(s, b, e), b <= i \/ j <= b,
              e <= i \/ j <= e
       PROVE  Blocked(t)
  <2>1. to(b) \in 1..Len(t) /\ to(e) \in 1..Len(t) BY <1>6, <1>10
  <2>2. Pair(t, to(b), to(e)) BY <1>6, <1>7, <1>10, <2>1
  <2>3. QED BY <2>1, <2>2 DEF Blocked
<1>11. QED BY <1>2, <1>8, <1>9, <1>10 DEF t

\* A new line of the person's.
LEMMA AddKeeps ==
    ASSUME NEW s \in Text, Tidy(s), NEW i \in 1..(Len(s) + 1), NEW v \in Se!Line, v \in Nat
    PROVE  LET t == Splice(s, i - 1, <<v>>, i) IN
           /\ t \in Text /\ Tidy(t)
           /\ \A line : Stands(s, line) => Stands(t, line)
           /\ ~Se!Inside(s, i) => Stands(t, v)
           /\ Blocked(s) => Blocked(t)
<1> DEFINE t == Splice(s, i - 1, <<v>>, i)
           from(k) == IF k < i THEN k ELSE k - 1
           to(k) == IF k < i THEN k ELSE k + 1
<1>1. /\ Len(s) \in Nat /\ <<v>> \in Text /\ Len(<<v>>) = 1 /\ i - 1 \in 0..Len(s)
      /\ <<v>>[1] = v
  BY DEF Text
<1>2. /\ t \in Text /\ Len(t) = (i - 1) + Len(<<v>>) + (Len(s) + 1 - i)
      /\ \A k \in 1..Len(t) :
           t[k] = IF k <= i - 1 THEN s[k] ELSE IF k <= (i - 1) + Len(<<v>>) THEN <<v>>[k - (i - 1)]
                  ELSE s[(k - (i - 1) - Len(<<v>>) - 1) + i]
  BY <1>1, Spliced
<1> HIDE DEF t
<1>3. Len(t) = Len(s) + 1 BY <1>1, <1>2
<1>4. ASSUME NEW k \in 1..Len(t), k # i PROVE from(k) \in 1..Len(s) /\ t[k] = s[from(k)]
  <2>1. CASE k < i BY <1>1, <1>2, <1>3, <2>1
  <2>2. CASE i < k
    <3>1. ~ (k <= i - 1) /\ ~ (k <= (i - 1) + Len(<<v>>)) BY <1>1, <1>3, <2>2
    <3>2. t[k] = s[(k - (i - 1) - Len(<<v>>) - 1) + i] BY <1>2, <3>1
    <3>3. (k - (i - 1) - Len(<<v>>) - 1) + i = k - 1 BY <1>1, <1>3
    <3>4. QED BY <1>1, <1>3, <2>2, <3>1, <3>2, <3>3
  <2>3. QED BY <1>1, <1>3, <1>4, <2>1, <2>2
<1>5. i \in 1..Len(t) /\ t[i] = v
  <2>1. i \in 1..Len(t) /\ ~ (i <= i - 1) /\ i <= (i - 1) + Len(<<v>>) /\ i - (i - 1) = 1
    BY <1>1, <1>3
  <2>2. QED BY <1>1, <1>2, <2>1
<1>6. t[i] # Begin /\ t[i] # End BY <1>5, SetupAssumption
<1>7. \A k, l \in 1..Len(t) : k # i /\ l # i =>
        (k < l <=> from(k) < from(l)) /\ (from(k) = from(l) => k = l)
  BY <1>1, <1>3
<1>8. \A k \in 1..Len(s) : to(k) \in 1..Len(t) /\ to(k) # i /\ from(to(k)) = k
  BY <1>1, <1>3
<1>9. \A b, e \in 1..Len(t) : b < i /\ i < e => from(b) < i /\ i <= from(e)
  BY <1>1, <1>3
<1> HIDE DEF from, to
<1>10. \A b, e \in 1..Len(t) :
         Pair(t, b, e) <=> b # i /\ e # i /\ Pair(s, from(b), from(e))
  BY <1>4, <1>6, <1>7 DEF Pair
<1>11. Tidy(t)
  <2>1. \A k, l \in 1..Len(t) : t[k] = Begin /\ t[l] = Begin => k = l
    BY <1>4, <1>6, <1>7 DEF Tidy
  <2>2. \A b, k, l \in 1..Len(t) : Pair(t, b, k) /\ Pair(t, b, l) => k = l
    BY <1>4, <1>7, <1>10 DEF Tidy
  <2>3. QED BY <2>1, <2>2 DEF Tidy
<1>12. ASSUME NEW line, Stands(s, line) PROVE Stands(t, line)
  <2>1. PICK k \in 1..Len(s) : s[k] = line /\ ~Between(s, k) BY <1>12 DEF Stands
  <2>2. to(k) \in 1..Len(t) /\ to(k) # i /\ t[to(k)] = line BY <1>4, <1>8, <2>1
  <2>3. ASSUME NEW b \in 1..Len(t), NEW e \in 1..Len(t), Pair(t, b, e), b < to(k), to(k) < e
        PROVE  FALSE
    <3>1. Pair(s, from(b), from(e)) /\ b # i /\ e # i BY <1>10, <2>3
    <3>2. from(b) \in 1..Len(s) /\ from(e) \in 1..Len(s) BY <1>4, <3>1
    <3>3. from(b) < k /\ k < from(e) BY <1>7, <1>8, <2>2, <2>3, <3>1
    <3>4. QED BY <2>1, <3>1, <3>2, <3>3 DEF Between
  <2>4. QED BY <2>2, <2>3 DEF Stands, Between
<1>13. ASSUME ~Se!Inside(s, i) PROVE Stands(t, v)
  <2>1. ASSUME NEW b \in 1..Len(t), NEW e \in 1..Len(t), Pair(t, b, e), b < i, i < e PROVE FALSE
    <3>1. Pair(s, from(b), from(e)) /\ b # i /\ e # i BY <1>10, <2>1
    <3>2. from(b) \in 1..Len(s) /\ from(e) \in 1..Len(s) BY <1>4, <3>1
    <3>3. from(b) < i /\ i <= from(e) BY <1>9, <2>1
    <3>4. QED BY <1>13, <3>1, <3>2, <3>3 DEF Se!Inside, Pair
  <2>2. QED BY <1>5, <2>1 DEF Stands, Between
<1>14. ASSUME Blocked(s) PROVE Blocked(t)
  <2>1. PICK b, e \in 1..Len(s) : Pair(s, b, e) BY <1>14 DEF Blocked
  <2>2. QED BY <1>8, <1>10, <2>1 DEF Blocked
<1>15. QED BY <1>2, <1>11, <1>12, <1>13, <1>14 DEF t

\* The block goes in, where no other one is left.
LEMMA BlockPlaced ==
    ASSUME NEW s \in Text, NEW i \in 0..Len(s), NEW j \in (i + 1)..(Len(s) + 1),
           \A k \in 1..i : s[k] # Begin, \A k \in j..Len(s) : s[k] # Begin /\ s[k] # End
    PROVE  LET t == Splice(s, i, Se!Block, j) IN
           /\ t \in Text /\ Tidy(t) /\ Blocked(t)
           /\ \A k \in 1..Len(s) : k <= i \/ j <= k => Stands(t, s[k])
<1> DEFINE t == Splice(s, i, Se!Block, j)
<1>1. Len(s) \in Nat /\ j \in 1..(Len(s) + 1) /\ i \in Nat /\ j \in Nat BY DEF Text
<1>2. /\ Se!Block \in Text /\ Len(Se!Block) = 3 /\ Se!Block[1] = Begin
      /\ Se!Block[2] = Protocol /\ Se!Block[3] = End
  BY LinesDiffer DEF Se!Block, Text
<1>3. /\ t \in Text /\ Len(t) = i + Len(Se!Block) + (Len(s) + 1 - j)
      /\ \A k \in 1..Len(t) :
           t[k] = IF k <= i THEN s[k] ELSE IF k <= i + Len(Se!Block) THEN Se!Block[k - i]
                  ELSE s[(k - i - Len(Se!Block) - 1) + j]
  BY <1>1, <1>2, Spliced
<1> HIDE DEF t
<1>4. Len(t) = i + 3 + (Len(s) + 1 - j) BY <1>2, <1>3
<1>5. \A k \in 1..Len(t) : k <= i => t[k] = s[k] BY <1>3
<1>6. t[i + 1] = Begin /\ t[i + 2] = Protocol /\ t[i + 3] = End
  <2>1. \A d \in 1..3 : /\ i + d \in 1..Len(t) /\ ~ (i + d <= i) /\ i + d <= i + Len(Se!Block)
                        /\ (i + d) - i = d
    BY <1>1, <1>2, <1>4
  <2>2. \A d \in 1..3 : t[i + d] = Se!Block[d] BY <1>3, <2>1
  <2>3. QED BY <1>2, <2>2
<1>7. ASSUME NEW k \in 1..Len(t), i + 3 < k
      PROVE  (k - i - 4) + j \in j..Len(s) /\ t[k] = s[(k - i - 4) + j]
  <2>1. ~ (k <= i) /\ ~ (k <= i + Len(Se!Block)) BY <1>1, <1>2, <1>7
  <2>2. t[k] = s[(k - i - Len(Se!Block) - 1) + j] BY <1>3, <2>1
  <2>3. (k - i - Len(Se!Block) - 1) + j = (k - i - 4) + j BY <1>1, <1>2
  <2>4. (k - i - 4) + j \in j..Len(s)
    <3>1. k \in Int /\ k <= i + 3 + (Len(s) + 1 - j) /\ i + 4 <= k BY <1>1, <1>4, <1>7
    <3>2. QED BY <1>1, <3>1
  <2>5. QED BY <2>2, <2>3, <2>4
<1>8. ASSUME NEW k \in 1..Len(t), t[k] = Begin PROVE k = i + 1
  <2>1. k <= i => k \in 1..i BY <1>1
  <2>2. ~ (k <= i) BY <1>5, <1>8, <2>1
  <2>3. ~ (i + 3 < k) BY <1>7, <1>8
  <2>4. k # i + 2 /\ k # i + 3 BY <1>6, <1>8, LinesDiffer
  <2>5. QED BY <1>1, <2>2, <2>3, <2>4
<1>9. ASSUME NEW k \in 1..Len(t), t[k] = End, i + 1 < k PROVE k = i + 3
  <2>1. ~ (i + 3 < k) BY <1>7, <1>9
  <2>2. k # i + 2 BY <1>6, <1>9, LinesDiffer
  <2>3. QED BY <1>1, <1>9, <2>1, <2>2
<1>10. ASSUME NEW b \in 1..Len(t), NEW e \in 1..Len(t), Pair(t, b, e)
       PROVE  b = i + 1 /\ e = i + 3
  <2>1. b = i + 1 /\ i + 1 < e BY <1>8, <1>10 DEF Pair
  <2>2. QED BY <1>9, <1>10, <2>1 DEF Pair
<1>11. Tidy(t) BY <1>8, <1>10 DEF Tidy
<1>12. Blocked(t)
  <2>1. i + 1 \in 1..Len(t) /\ i + 3 \in 1..Len(t) /\ i + 1 < i + 3 BY <1>1, <1>4
  <2>2. Pair(t, i + 1, i + 3) BY <1>6, <2>1 DEF Pair
  <2>3. QED BY <2>1, <2>2 DEF Blocked
<1>13. ASSUME NEW k \in 1..Len(s), k <= i \/ j <= k PROVE Stands(t, s[k])
  <2> DEFINE x == IF k <= i THEN k ELSE k + (i + 4 - j)
  <2>1. x \in 1..Len(t) /\ x # i + 2 /\ (x <= i \/ i + 3 < x) BY <1>1, <1>4, <1>13
  <2>2. t[x] = s[k]
    <3>1. CASE k <= i BY <1>5, <2>1, <3>1
    <3>2. CASE ~ (k <= i)
      <4>1. x = k + (i + 4 - j) /\ i + 3 < x /\ (x - i - 4) + j = k BY <1>1, <1>13, <3>2
      <4>2. QED BY <1>7, <2>1, <4>1
    <3>3. QED BY <3>1, <3>2
  <2>3. ~Between(t, x)
    <3>1. ASSUME NEW b \in 1..Len(t), NEW e \in 1..Len(t), Pair(t, b, e), b < x, x < e
          PROVE  FALSE
      <4>1. b = i + 1 /\ e = i + 3 BY <1>10, <3>1
      <4>2. x \in Nat BY <2>1
      <4> HIDE DEF x
      <4>3. QED BY <1>1, <2>1, <3>1, <4>1, <4>2
    <3> HIDE DEF x
    <3>2. QED BY <3>1 DEF Between
  <2> HIDE DEF x
  <2>4. QED BY <2>1, <2>2, <2>3 DEF Stands
<1>14. QED BY <1>3, <1>11, <1>12, <1>13 DEF t

\* Where a marker that opens is not, nothing is stripped.
LEMMA StripOfPlain ==
    ASSUME NEW s \in Text, \A k \in 1..Len(s) : s[k] # Begin
    PROVE  Se!Strip(s) = s
<1>1. Tidy(s) /\ ~Blocked(s) BY DEF Tidy, Blocked, Pair
<1>2. QED BY <1>1, StripLeavesTheRest

\* Setup: one block, and every line of the person's that stood outside of it.
LEMMA UpsertKeeps ==
    ASSUME NEW s \in Text, Tidy(s)
    PROVE  /\ Se!Upsert(s) \in Text /\ Tidy(Se!Upsert(s)) /\ Blocked(Se!Upsert(s))
           /\ \A n \in Nat : Stands(s, n) => Stands(Se!Upsert(s), n)
<1> DEFINE t == Se!Upsert(s)
           Placed(i, j) ==
             /\ i \in 0..Len(s) /\ j \in (i + 1)..(Len(s) + 1)
             /\ \A k \in 1..i : s[k] # Begin
             /\ \A k \in j..Len(s) : s[k] # Begin /\ s[k] # End
             /\ \A k \in 1..Len(s) : s[k] \in Nat /\ ~Between(s, k) => k <= i \/ j <= k
             /\ t = Splice(s, i, Se!Block, j)
<1>1. Len(s) \in Nat /\ 1 \in 1..(Len(s) + 1) BY DEF Text
<1>2. Begin \notin Nat /\ End \notin Nat BY SetupAssumption
<1>3. ASSUME NEW a \in 1..(Len(s) + 1), \A k \in a..Len(s) : s[k] # Begin
      PROVE  Se!Strip(SubSeq(s, a, Len(s))) = SubSeq(s, a, Len(s))
  <2> DEFINE q == SubSeq(s, a, Len(s))
  <2>1. q \in Text /\ Len(q) = Len(s) + 1 - a /\ \A k \in 1..Len(q) : q[k] = s[(k - 1) + a]
    BY <1>1 DEF Text
  <2> HIDE DEF q
  <2>2. \A k \in 1..Len(q) : (k - 1) + a \in a..Len(s) BY <1>1, <2>1
  <2>3. \A k \in 1..Len(q) : q[k] # Begin BY <1>3, <2>1, <2>2
  <2>4. Se!Strip(q) = q BY <2>1, <2>3, StripOfPlain
  <2>5. QED BY <2>4 DEF q
<1>4. \E i, j \in Nat : Placed(i, j)
  <2>1. CASE \A k \in 1..Len(s) : s[k] # Begin
    <3>1. Se!Find(s, Begin, 1) = 0 BY <2>1, FindNone
    <3>2. t = s \o Se!Block BY <3>1 DEF Se!Upsert
    <3>3. SubSeq(s, 1, Len(s)) = s /\ SubSeq(s, Len(s) + 1, Len(s)) = <<>>
      BY <1>1, SubSeqFull, SubSeqEmpty DEF Text
    <3>4. s \o Se!Block \in Text BY LinesDiffer DEF Se!Block, Text
    <3>5. (s \o Se!Block) \o <<>> = s \o Se!Block BY <3>4, ConcatEmptySeq DEF Text
    <3>6. t = Splice(s, Len(s), Se!Block, Len(s) + 1) BY <3>2, <3>3, <3>5 DEF Splice
    <3>7. Len(s) \in 0..Len(s) /\ Len(s) + 1 \in (Len(s) + 1)..(Len(s) + 1) BY <1>1
    <3>8. (\A k \in (Len(s) + 1)..Len(s) : FALSE) /\ (\A k \in 1..Len(s) : k <= Len(s))
      BY <1>1
    <3> HIDE DEF t
    <3>9. Placed(Len(s), Len(s) + 1) BY <2>1, <3>6, <3>7, <3>8
    <3>10. QED BY <1>1, <3>9
  <2>2. CASE \E b \in 1..Len(s) : s[b] = Begin
    <3>1. PICK b \in 1..Len(s) : s[b] = Begin BY <2>2
    <3>2. b \in Nat /\ b # 0 /\ b - 1 \in Nat BY <1>1
    <3>3. \A k \in 1..Len(s) : s[k] = Begin => k = b BY <3>1 DEF Tidy
    <3>4. Se!Find(s, Begin, 1) = b BY <3>1, <3>3, FindOnly
    <3>5. \A k \in 1..(b - 1) : s[k] # Begin BY <1>1, <3>3
    <3>6. ASSUME NEW e \in 1..Len(s), Pair(s, b, e) PROVE Placed(b - 1, e + 1)
      <4>1. b < e /\ b \in 1..b BY <3>2, <3>6 DEF Pair
      <4>2. Closes(s, 1) = e /\ Opens(s, 1) = b BY <1>1, <3>6, ClosesThePair
      <4>3. Se!Find(s, End, b) = e BY <3>2, <4>2 DEF Closes
      <4>4. \A k \in (e + 1)..Len(s) : k \in 1..Len(s) /\ k # b /\ k # e /\ b < k
        BY <1>1, <4>1
      <4>5. \A k \in (e + 1)..Len(s) : s[k] # Begin /\ s[k] # End
        <5> SUFFICES ASSUME NEW k \in (e + 1)..Len(s) PROVE s[k] # Begin /\ s[k] # End
          OBVIOUS
        <5>1. k \in 1..Len(s) /\ k # b /\ k # e /\ b < k BY <4>4
        <5>2. s[k] = End => Pair(s, b, k) BY <3>1, <5>1 DEF Pair
        <5>3. QED BY <3>3, <3>6, <5>1, <5>2 DEF Tidy
      <4>6. e # 0 /\ e + 1 \in 1..(Len(s) + 1) BY <1>1
      <4>7. Se!Strip(SubSeq(s, e + 1, Len(s))) = SubSeq(s, e + 1, Len(s))
        BY <1>3, <4>5, <4>6
      <4>8. t = Splice(s, b - 1, Se!Block, e + 1)
        BY <3>2, <3>4, <4>3, <4>6, <4>7 DEF Se!Upsert, Splice
      <4>9. ASSUME NEW k \in 1..Len(s), s[k] \in Nat, ~Between(s, k)
            PROVE  k <= b - 1 \/ e + 1 <= k
        <5>1. k # b /\ k # e BY <1>2, <3>6, <4>9 DEF Pair
        <5>2. ~ (b < k /\ k < e) BY <3>6, <4>9 DEF Between
        <5>3. QED BY <3>2, <4>1, <5>1, <5>2
      <4>10. b - 1 \in 0..Len(s) /\ e + 1 \in ((b - 1) + 1)..(Len(s) + 1) BY <1>1, <4>1
      <4> HIDE DEF t
      <4>11. QED BY <3>5, <4>5, <4>8, <4>9, <4>10
    <3>7. ASSUME \A e \in 1..Len(s) : ~Pair(s, b, e) PROVE Placed(b - 1, b + 1)
      <4>1. ASSUME NEW k \in b..Len(s) PROVE s[k] # End
        <5>1. k # b => k \in 1..Len(s) /\ b < k BY <1>1, <3>2
        <5>2. s[k] = End => Pair(s, b, k) BY <3>1, <5>1, LinesDiffer DEF Pair
        <5>3. QED BY <3>1, <3>7, <5>1, <5>2, LinesDiffer
      <4>2. Se!Find(s, End, b) = 0 BY <4>1, FindNone
      <4>3. \A k \in (b + 1)..Len(s) : k \in 1..Len(s) /\ k \in b..Len(s) /\ k # b
        BY <1>1, <3>2
      <4>4. \A k \in (b + 1)..Len(s) : s[k] # Begin /\ s[k] # End BY <3>3, <4>1, <4>3
      <4>5. b + 1 \in 1..(Len(s) + 1) BY <1>1
      <4>6. Se!Strip(SubSeq(s, b + 1, Len(s))) = SubSeq(s, b + 1, Len(s))
        BY <1>3, <4>4, <4>5
      <4>7. t = Splice(s, b - 1, Se!Block, b + 1)
        BY <3>2, <3>4, <4>2, <4>6 DEF Se!Upsert, Splice
      <4>8. ASSUME NEW k \in 1..Len(s), s[k] \in Nat PROVE k <= b - 1 \/ b + 1 <= k
        <5>1. k # b BY <1>2, <3>1, <4>8
        <5>2. QED BY <3>2, <5>1
      <4>9. b - 1 \in 0..Len(s) /\ b + 1 \in ((b - 1) + 1)..(Len(s) + 1) BY <1>1
      <4> HIDE DEF t
      <4>10. QED BY <3>5, <4>4, <4>7, <4>8, <4>9
    <3>8. CASE \E e \in 1..Len(s) : Pair(s, b, e)
      <4>1. PICK e \in 1..Len(s) : Pair(s, b, e) BY <3>8
      <4>2. Placed(b - 1, e + 1) BY <3>6, <4>1
      <4>3. e + 1 \in Nat BY <1>1
      <4> HIDE DEF Placed
      <4>4. QED BY <3>2, <4>2, <4>3
    <3>9. CASE \A e \in 1..Len(s) : ~Pair(s, b, e)
      <4>1. Placed(b - 1, b + 1) BY <3>7, <3>9
      <4>2. b + 1 \in Nat BY <3>2
      <4> HIDE DEF Placed
      <4>3. QED BY <3>2, <4>1, <4>2
    <3>10. QED BY <3>8, <3>9
  <2>3. QED BY <2>1, <2>2
<1> HIDE DEF t
<1>5. PICK i, j \in Nat : Placed(i, j) BY <1>4
<1>6. /\ t \in Text /\ Tidy(t) /\ Blocked(t)
      /\ \A k \in 1..Len(s) : k <= i \/ j <= k => Stands(t, s[k])
  BY <1>5, BlockPlaced
<1>7. ASSUME NEW n \in Nat, Stands(s, n) PROVE Stands(t, n)
  <2>1. PICK k \in 1..Len(s) : s[k] = n /\ ~Between(s, k) BY <1>7 DEF Stands
  <2>2. QED BY <1>5, <1>6, <2>1
<1>8. QED BY <1>6, <1>7 DEF t

\* Uninstall: no block, and every line of the person's that stood outside of it.
LEMMA StripKeeps ==
    ASSUME NEW s \in Text, Tidy(s)
    PROVE  /\ Se!Strip(s) \in Text /\ Tidy(Se!Strip(s))
           /\ \A n \in Nat : Stands(s, n) => Stands(Se!Strip(s), n)
<1>1. CASE ~Blocked(s) BY <1>1, StripLeavesTheRest
<1>2. CASE Blocked(s)
  <2>1. PICK b, e \in 1..Len(s) : Pair(s, b, e) BY <1>2 DEF Blocked
  <2>2. Len(s) \in Nat /\ b < e BY <2>1 DEF Text, Pair
  <2>3. b - 1 \in 0..Len(s) /\ e + 1 \in ((b - 1) + 1)..(Len(s) + 1) BY <2>2
  <2>4. Se!Strip(s) = Splice(s, b - 1, <<>>, e + 1) BY <2>1, StripTakesTheBlock
  <2>5. /\ Se!Strip(s) \in Text /\ Tidy(Se!Strip(s))
        /\ \A k \in 1..Len(s) :
             (k <= b - 1 \/ e + 1 <= k) /\ ~Between(s, k) => Stands(Se!Strip(s), s[k])
    BY <2>3, <2>4, CutKeeps
  <2>6. ASSUME NEW n \in Nat, Stands(s, n) PROVE Stands(Se!Strip(s), n)
    <3>1. PICK k \in 1..Len(s) : s[k] = n /\ ~Between(s, k) BY <2>6 DEF Stands
    <3>2. k # b /\ k # e BY <2>1, <3>1, SetupAssumption DEF Pair
    <3>3. ~ (b < k /\ k < e) BY <2>1, <3>1 DEF Between
    <3>4. k <= b - 1 \/ e + 1 <= k BY <2>2, <3>2, <3>3
    <3>5. QED BY <2>5, <3>1, <3>4
  <2>7. QED BY <2>5, <2>6
<1>3. QED BY <1>1, <1>2

-----------------------------------------------------------------------------
(* Setup: what holds of a run.                                             *)

SetupTypes ==
    /\ Se!TypeOK
    /\ run \in {None} \cup [now : Se!Run, was : Se!Content]

TidyText ==
    /\ Tidy(Se!Lines(instructions)) /\ Tidy(Se!Lines(temp))
    /\ run # None => Tidy(Se!Lines(run.was))

NotesStand == careful => \A n \in notes : Stands(Se!Lines(instructions), n)

Writing == run # None /\ run.now.step \in {"write", "rename"}

\* A run writes what becomes of the file it read, and an uninstall only where
\* no other agent reads the file.
WritesWhatItRead ==
    /\ Writing => /\ careful => run.was = instructions
                  /\ Se!Does("uninstall") => run.was # None /\ readers \cap server = {}
    /\ Se!At("rename") => temp = Se!Desired

\* Past its first step a run has put the server in or taken it out.
ServerFirst ==
    run # None /\ run.now.step # "server" => (Se!Does("setup") <=> Se!Me \in server)

\* An agent that is told is one that names Leteo, and the block is there.
ToldNamed == told \subseteq server
ToldHave == careful /\ ~damaged /\ told \cap readers # {} => Blocked(Se!Lines(instructions))

SetupInv ==
    /\ SetupTypes /\ TidyText /\ NotesStand
    /\ WritesWhatItRead /\ ServerFirst /\ ToldNamed /\ ToldHave

LEMMA LinesAre ==
    ASSUME NEW c \in Se!Content
    PROVE  Se!Lines(c) \in Text /\ (c \in Text => Se!Lines(c) = c)
BY SetupAssumption DEF Se!Lines, Se!Content, Text

LEMMA PlainIsTidy == <<>> \in Text /\ Tidy(<<>>) /\ ~Blocked(<<>>) /\ Len(<<>>) = 0
<1>1. <<>> \in Text /\ Len(<<>>) = 0 BY DEF Text
<1>2. QED BY <1>1 DEF Tidy, Blocked

LEMMA DesiredKeeps ==
    ASSUME SetupTypes, TidyText, run # None, Se!Does("uninstall") => run.was # None
    PROVE  /\ Se!Desired \in Se!Content /\ Tidy(Se!Lines(Se!Desired))
           /\ \A n \in Nat : Stands(Se!Lines(run.was), n) => Stands(Se!Lines(Se!Desired), n)
           /\ Se!Does("setup") => Se!Desired \in Text /\ Blocked(Se!Desired)
<1>1. run.was \in Se!Content /\ Tidy(Se!Lines(run.was)) BY DEF SetupTypes, TidyText
<1>2. Se!Lines(run.was) \in Text BY <1>1, LinesAre
<1>3. Text \subseteq Se!Content /\ None \in Se!Content BY DEF Text, Se!Content
<1>4. run.now.does \in {"setup", "uninstall"} BY DEF SetupTypes, Se!Run
<1>5. CASE Se!Does("setup")
  <2>1. Se!Desired = Se!Upsert(Se!Lines(run.was)) BY <1>5 DEF Se!Desired
  <2>2. /\ Se!Desired \in Text /\ Tidy(Se!Desired) /\ Blocked(Se!Desired)
        /\ \A n \in Nat : Stands(Se!Lines(run.was), n) => Stands(Se!Desired, n)
    BY <1>1, <1>2, <2>1, UpsertKeeps
  <2>3. Se!Lines(Se!Desired) = Se!Desired BY <1>3, <2>2, LinesAre
  <2>4. QED BY <1>3, <2>2, <2>3
<1>6. CASE ~Se!Does("setup")
  <2>1. Se!Does("uninstall") BY <1>4, <1>6 DEF Se!Does
  <2>2. Se!Lines(run.was) = run.was /\ run.was \in Text BY <1>2, <2>1 DEF Se!Lines
  <2>3. /\ Se!Strip(run.was) \in Text /\ Tidy(Se!Strip(run.was))
        /\ \A n \in Nat : Stands(run.was, n) => Stands(Se!Strip(run.was), n)
    BY <1>1, <2>2, StripKeeps
  <2>4. CASE owned /\ Se!Strip(run.was) = <<>>
    <3>1. Se!Desired = None /\ Se!Lines(Se!Desired) = Se!Strip(run.was)
      BY <1>6, <2>4 DEF Se!Desired, Se!Lines
    <3>2. QED BY <1>3, <1>6, <2>2, <2>3, <3>1
  <2>5. CASE ~ (owned /\ Se!Strip(run.was) = <<>>)
    <3>1. Se!Desired = Se!Strip(run.was) BY <1>6, <2>5 DEF Se!Desired
    <3>2. Se!Lines(Se!Desired) = Se!Strip(run.was) BY <1>3, <2>3, <3>1, LinesAre
    <3>3. QED BY <1>3, <1>6, <2>2, <2>3, <3>1, <3>2
  <2>6. QED BY <2>4, <2>5
<1>7. QED BY <1>5, <1>6

LEMMA SetupInvInit == ASSUME Se!Init PROVE SetupInv
<1>1. /\ instructions \in FoundFile /\ temp = None /\ run = None
      /\ server = {} /\ hooks = {} /\ told = {} /\ readers \in SUBSET Agent /\ owned \in BOOLEAN
      /\ notes = Se!Range(Se!Lines(instructions)) \cap Nat
      /\ damaged = FALSE /\ careful \in BOOLEAN /\ lineEdits = 0 /\ runs = 0
  BY DEF Se!Init
<1>2. Se!Lines(None) = <<>> BY DEF Se!Lines
<1>3. /\ <<0>> \in Text /\ Len(<<0>>) = 1 /\ <<0>>[1] = 0 /\ DOMAIN <<0>> = 1..1
  BY SetupAssumption DEF Text, Se!Line
<1>4. 0 # Begin /\ 0 # End BY SetupAssumption
<1>5. Tidy(<<0>>) /\ ~Blocked(<<0>>) BY <1>3, <1>4 DEF Tidy, Blocked, Pair
<1>0. 0 \in 0..MaxLineEdits /\ 0 \in 0..MaxRuns BY SetupAssumption
<1>6. CASE instructions = None
  <2>1. Se!Lines(instructions) = <<>> /\ instructions \in Se!Content BY <1>2, <1>6 DEF Se!Content
  <2>2. notes = {}
    <3>1. Se!Range(<<>>) = {} BY DEF Se!Range, Range
    <3>2. QED BY <1>1, <2>1, <3>1
  <2>3. SetupTypes BY <1>0, <1>1, <2>1, <2>2 DEF SetupTypes, Se!TypeOK, Se!Content
  <2>4. TidyText /\ NotesStand BY <1>1, <1>2, <2>1, <2>2, PlainIsTidy DEF TidyText, NotesStand
  <2>5. WritesWhatItRead /\ ServerFirst /\ ToldNamed /\ ToldHave
    BY <1>1 DEF WritesWhatItRead, Writing, Se!At, ServerFirst, ToldNamed, ToldHave
  <2>6. QED BY <2>3, <2>4, <2>5 DEF SetupInv
<1>7. CASE instructions = <<0>>
  <2>1. Se!Lines(instructions) = <<0>> /\ instructions \in Se!Content
    BY <1>3, <1>7, LinesAre DEF Se!Content, Text
  <2>2. notes = {0}
    <3>1. Se!Range(<<0>>) = {0} BY <1>3 DEF Se!Range, Range
    <3>2. QED BY <1>1, <2>1, <3>1
  <2>3. SetupTypes BY <1>0, <1>1, <2>1, <2>2 DEF SetupTypes, Se!TypeOK, Se!Content
  <2>4. TidyText BY <1>1, <1>2, <1>5, <2>1, PlainIsTidy DEF TidyText
  <2>5. NotesStand BY <1>3, <1>5, <2>1, <2>2 DEF NotesStand, Stands, Between, Blocked
  <2>6. WritesWhatItRead /\ ServerFirst /\ ToldNamed /\ ToldHave
    BY <1>1 DEF WritesWhatItRead, Writing, Se!At, ServerFirst, ToldNamed, ToldHave
  <2>7. QED BY <2>3, <2>4, <2>5, <2>6 DEF SetupInv
<1>8. QED BY <1>1, <1>6, <1>7 DEF FoundFile

\* The steps of a run that leave the files and what the person wrote alone.
LEMMA RunKeeps ==
    ASSUME SetupInv,
           Se!WriteServer \/ Se!ReadFile \/ Se!WriteTemp \/ Se!WriteHooks \/ Se!Stops
             \/ \E does \in {"setup", "uninstall"}, a \in Agent, i \in BOOLEAN :
                  Se!Start(does, a, i)
    PROVE  SetupInv'
<1>1. /\ SetupTypes /\ TidyText /\ NotesStand
      /\ WritesWhatItRead /\ ServerFirst /\ ToldNamed /\ ToldHave
  BY DEF SetupInv
<1>2. CASE \E does \in {"setup", "uninstall"}, a \in Agent, i \in BOOLEAN :
             Se!Start(does, a, i)
  <2>1. PICK does \in {"setup", "uninstall"}, a \in Agent, i \in BOOLEAN : Se!Start(does, a, i)
    BY <1>2
  <2>2. /\ run = None /\ runs < MaxRuns /\ runs' = runs + 1
        /\ run' = [now |-> [does |-> does, agent |-> a, instructions |-> i, step |-> "server"],
                   was |-> None]
        /\ UNCHANGED <<instructions, temp, server, hooks, readers, owned, careful, told,
                       notes, damaged, lineEdits>>
    BY <2>1 DEF Se!Start, Se!config, Se!world, Se!past
  <2>3. /\ run'.now \in Se!Run /\ run'.was \in Se!Content /\ run'.was = None
        /\ run'.now.step = "server" /\ run' \in [now : Se!Run, was : Se!Content]
    BY <2>2 DEF Se!Run, Se!Content
  <2>4. runs' \in 0..MaxRuns
    <3>1. runs \in 0..MaxRuns /\ MaxRuns \in Nat
      BY <1>1, SetupAssumption DEF SetupTypes, Se!TypeOK
    <3>2. QED BY <2>2, <3>1
  <2>5. SetupTypes' BY <1>1, <2>2, <2>3, <2>4 DEF SetupTypes, Se!TypeOK, Se!Content, Se!Run, Se!Line
  <2>6. Se!Lines(None) = <<>> BY DEF Se!Lines
  <2>7. TidyText' BY <1>1, <2>2, <2>3, <2>6, PlainIsTidy DEF TidyText, Se!Lines
  <2>8. NotesStand' /\ ToldNamed' /\ ToldHave'
    BY <1>1, <2>2 DEF NotesStand, ToldNamed, ToldHave, Se!Lines
  <2>9. WritesWhatItRead' /\ ServerFirst'
    BY <2>3 DEF WritesWhatItRead, ServerFirst, Writing, Se!At
  <2>10. QED BY <2>5, <2>7, <2>8, <2>9 DEF SetupInv
<1>3. CASE Se!Stops
  <2>1. /\ run' = None /\ temp' = None
        /\ UNCHANGED <<instructions, server, hooks, readers, owned, careful, told, notes,
                       damaged, lineEdits, runs>>
    BY <1>3 DEF Se!Stops, Se!config, Se!world, Se!past, Se!counts
  <2>2. SetupTypes' BY <1>1, <2>1 DEF SetupTypes, Se!TypeOK, Se!Content, Se!Run, Se!Line
  <2>3. Se!Lines(None) = <<>> BY DEF Se!Lines
  <2>4. TidyText' BY <1>1, <2>1, <2>3, PlainIsTidy DEF TidyText, Se!Lines
  <2>5. NotesStand' /\ ToldNamed' /\ ToldHave'
    BY <1>1, <2>1 DEF NotesStand, ToldNamed, ToldHave, Se!Lines
  <2>6. WritesWhatItRead' /\ ServerFirst'
    BY <2>1 DEF WritesWhatItRead, ServerFirst, Writing, Se!At
  <2>7. QED BY <2>2, <2>4, <2>5, <2>6 DEF SetupInv
<1>4. CASE Se!WriteHooks
  <2>1. /\ run # None /\ run' = None /\ hooks' \in {hooks \ {Se!Me}, hooks, hooks \cup {Se!Me}}
        /\ UNCHANGED <<instructions, temp, server, readers, owned, careful, told, notes,
                       damaged, lineEdits, runs>>
    BY <1>4 DEF Se!WriteHooks, Se!At, Se!world, Se!past, Se!counts
  <2>2. Se!Me \in Agent BY <1>1, <2>1 DEF SetupTypes, Se!Run, Se!Me
  <2>3. hooks' \in SUBSET Agent BY <1>1, <2>1, <2>2 DEF SetupTypes, Se!TypeOK
  <2>4. SetupTypes' BY <1>1, <2>1, <2>3 DEF SetupTypes, Se!TypeOK, Se!Content, Se!Run, Se!Line
  <2>5. TidyText' BY <1>1, <2>1 DEF TidyText, Se!Lines
  <2>6. NotesStand' /\ ToldNamed' /\ ToldHave'
    BY <1>1, <2>1 DEF NotesStand, ToldNamed, ToldHave, Se!Lines
  <2>7. WritesWhatItRead' /\ ServerFirst'
    BY <2>1 DEF WritesWhatItRead, ServerFirst, Writing, Se!At
  <2>8. QED BY <2>4, <2>5, <2>6, <2>7 DEF SetupInv
<1>5. CASE Se!WriteServer
  <2>1. /\ run # None /\ run.now.step = "server"
        /\ server' = IF Se!Does("setup") THEN server \cup {Se!Me} ELSE server \ {Se!Me}
        /\ told' = IF Se!Does("setup") THEN told ELSE told \ {Se!Me}
        /\ \E step \in {"read", "hooks"} : run' = [run EXCEPT !.now.step = step]
        /\ UNCHANGED <<instructions, temp, hooks, readers, owned, careful, notes, damaged,
                       lineEdits, runs>>
    BY <1>5 DEF Se!WriteServer, Se!At, Se!Goes, Se!world, Se!counts
  <2>2. run \in [now : Se!Run, was : Se!Content] BY <1>1, <2>1 DEF SetupTypes
  <2>3. PICK step \in {"read", "hooks"} : run' = [run EXCEPT !.now.step = step] BY <2>1
  <2>4. /\ run' \in [now : Se!Run, was : Se!Content] /\ run'.was = run.was
        /\ run'.now.step = step /\ run'.now.does = run.now.does /\ run'.now.agent = run.now.agent
    BY <2>2, <2>3 DEF Se!Run
  <2>5. Se!Me \in Agent BY <2>2 DEF Se!Run, Se!Me
  <2>6. server' \in SUBSET Agent /\ told' \in SUBSET Agent
    BY <1>1, <2>1, <2>5 DEF SetupTypes, Se!TypeOK
  <2>7. SetupTypes'
    BY <1>1, <2>1, <2>4, <2>6 DEF SetupTypes, Se!TypeOK, Se!Content, Se!Run, Se!Line
  <2>8. TidyText' BY <1>1, <2>1, <2>4 DEF TidyText, Se!Lines
  <2>9. NotesStand' /\ ToldNamed' /\ ToldHave'
    BY <1>1, <2>1 DEF NotesStand, ToldNamed, ToldHave, Se!Lines
  <2>10. WritesWhatItRead' BY <2>3, <2>4 DEF WritesWhatItRead, Writing, Se!At
  <2>11. ServerFirst' BY <2>1, <2>4 DEF ServerFirst, Se!Does, Se!Me
  <2>12. QED BY <2>7, <2>8, <2>9, <2>10, <2>11 DEF SetupInv
<1>6. CASE Se!ReadFile
  <2> DEFINE over == \/ Se!Me \notin readers
                     \/ Se!Does("uninstall") /\ (instructions = None \/ Se!KeptFor(Se!Me) # {})
             step == IF over THEN "hooks" ELSE "write"
  <2>1. /\ run # None /\ run.now.step = "read"
        /\ run' = [run EXCEPT !.was = instructions, !.now.step = step]
        /\ UNCHANGED <<instructions, temp, server, hooks, readers, owned, careful, told, notes,
                       damaged, lineEdits, runs>>
    BY <1>6 DEF Se!ReadFile, Se!At, Se!config, Se!world, Se!past, Se!counts
  <2>2. run \in [now : Se!Run, was : Se!Content] /\ instructions \in Se!Content
    BY <1>1, <2>1 DEF SetupTypes, Se!TypeOK
  <2>3. step \in {"hooks", "write"} /\ (step = "write" => ~over) OBVIOUS
  <2>4. ~over => /\ Se!Me \in readers
                 /\ Se!Does("uninstall") => instructions # None /\ Se!KeptFor(Se!Me) = {}
    OBVIOUS
  <2> HIDE DEF step, over
  <2>5. /\ run' \in [now : Se!Run, was : Se!Content] /\ run'.was = instructions
        /\ run'.now.step = step /\ run'.now.does = run.now.does /\ run'.now.agent = run.now.agent
    BY <2>1, <2>2, <2>3 DEF Se!Run
  <2>6. SetupTypes' BY <1>1, <2>1, <2>5 DEF SetupTypes, Se!TypeOK, Se!Content, Se!Run, Se!Line
  <2>7. TidyText' BY <1>1, <2>1, <2>5 DEF TidyText, Se!Lines
  <2>8. NotesStand' /\ ToldNamed' /\ ToldHave'
    BY <1>1, <2>1 DEF NotesStand, ToldNamed, ToldHave, Se!Lines
  <2>9. ServerFirst' BY <1>1, <2>1, <2>5 DEF ServerFirst, Se!Does, Se!Me
  <2>10. ASSUME ~over, Se!Does("uninstall") PROVE readers \cap server = {}
    <3>1. (readers \ {Se!Me}) \cap server = {} BY <2>4, <2>10 DEF Se!KeptFor
    <3>2. ~Se!Does("setup") BY <2>10 DEF Se!Does
    <3>3. Se!Me \notin server BY <1>1, <2>1, <3>2 DEF ServerFirst
    <3>4. QED BY <3>1, <3>3
  <2>11. WritesWhatItRead'
    <3>1. step # "rename" BY <2>3
    <3>2. step = "write" /\ Se!Does("uninstall") => instructions # None /\ readers \cap server = {}
      BY <2>3, <2>4, <2>10
    <3>3. QED BY <2>1, <2>5, <3>1, <3>2 DEF WritesWhatItRead, Writing, Se!At, Se!Does
  <2>12. QED BY <2>6, <2>7, <2>8, <2>9, <2>11 DEF SetupInv
<1>7. CASE Se!WriteTemp
  <2> DEFINE same == Se!Desired = run.was
             step == IF same THEN "hooks" ELSE "rename"
  <2>1. /\ run # None /\ run.now.step = "write"
        /\ run' = [run EXCEPT !.now.step = step]
        /\ temp' = IF same THEN temp ELSE Se!Desired
        /\ told' = IF Se!Does("setup") /\ same THEN told \cup {Se!Me} ELSE told
        /\ UNCHANGED <<instructions, server, hooks, readers, owned, careful, notes, damaged,
                       lineEdits, runs>>
    BY <1>7 DEF Se!WriteTemp, Se!At, Se!Goes, Se!config, Se!world, Se!counts
  <2>2. run \in [now : Se!Run, was : Se!Content] BY <1>1, <2>1 DEF SetupTypes
  <2>3. /\ careful => run.was = instructions
        /\ Se!Does("uninstall") => run.was # None /\ readers \cap server = {}
    BY <1>1, <2>1 DEF WritesWhatItRead, Writing
  <2>4. /\ Se!Desired \in Se!Content /\ Tidy(Se!Lines(Se!Desired))
        /\ Se!Does("setup") => Se!Desired \in Text /\ Blocked(Se!Desired)
    BY <1>1, <2>1, <2>3, DesiredKeeps
  <2>5. step \in {"hooks", "rename"} /\ (step = "rename" => ~same) OBVIOUS
  <2>6. same => Se!Desired = run.was OBVIOUS
  <2> HIDE DEF same, step
  <2>7. /\ run' \in [now : Se!Run, was : Se!Content] /\ run'.was = run.was
        /\ run'.now.step = step /\ run'.now.does = run.now.does /\ run'.now.agent = run.now.agent
    BY <2>1, <2>2, <2>5 DEF Se!Run
  <2>8. Se!Me \in Agent /\ (Se!Does("setup") => Se!Me \in server)
    BY <1>1, <2>1, <2>2 DEF Se!Run, Se!Me, ServerFirst
  <2>9. temp' \in Se!Content /\ told' \in SUBSET Agent
    BY <1>1, <2>1, <2>4, <2>8 DEF SetupTypes, Se!TypeOK
  <2>10. SetupTypes'
    BY <1>1, <2>1, <2>7, <2>9 DEF SetupTypes, Se!TypeOK, Se!Content, Se!Run, Se!Line
  <2>11. TidyText' BY <1>1, <2>1, <2>4, <2>7 DEF TidyText, Se!Lines
  <2>12. NotesStand' BY <1>1, <2>1 DEF NotesStand, Se!Lines
  <2>13. ToldNamed' BY <1>1, <2>1, <2>8 DEF ToldNamed
  <2>14. ServerFirst' BY <1>1, <2>1, <2>7 DEF ServerFirst, Se!Does, Se!Me
  <2>15. ToldHave'
    <3>1. CASE Se!Does("setup") /\ same
      <4>1. careful => instructions = Se!Desired BY <2>3, <2>6, <3>1
      <4>2. careful => Blocked(Se!Lines(instructions)) BY <2>4, <3>1, <4>1, LinesAre
      <4>3. QED BY <2>1, <4>2 DEF ToldHave, Se!Lines
    <3>2. CASE ~ (Se!Does("setup") /\ same) BY <1>1, <2>1, <3>2 DEF ToldHave, Se!Lines
    <3>3. QED BY <3>1, <3>2
  <2>16. WritesWhatItRead'
    <3>1. Se!Desired' = Se!Desired BY <2>1, <2>7 DEF Se!Desired, Se!Does
    <3>2. step = "rename" => temp' = Se!Desired BY <2>1, <2>5
    <3>3. Se!At("rename")' => temp' = Se!Desired' BY <2>7, <3>1, <3>2 DEF Se!At
    <3>4. /\ (careful => run.was = instructions)'
          /\ (Se!Does("uninstall") => run.was # None /\ readers \cap server = {})'
      BY <2>1, <2>3, <2>7 DEF Se!Does
    <3>5. QED BY <3>3, <3>4 DEF WritesWhatItRead
  <2>17. QED BY <2>10, <2>11, <2>12, <2>13, <2>14, <2>15, <2>16 DEF SetupInv
<1>8. QED BY <1>2, <1>3, <1>4, <1>5, <1>6, <1>7

\* The rename: what was to be written is the file.
LEMMA RenameKeeps ==
    ASSUME SetupInv, Se!Rename
    PROVE  SetupInv'
<1>1. /\ SetupTypes /\ TidyText /\ NotesStand
      /\ WritesWhatItRead /\ ServerFirst /\ ToldNamed /\ ToldHave
  BY DEF SetupInv
<1>2. /\ run # None /\ run.now.step = "rename"
      /\ run' = [run EXCEPT !.now.step = "hooks"]
      /\ instructions' = temp /\ temp' = None
      /\ told' = IF Se!Does("setup") THEN told \cup {Se!Me} ELSE told
      /\ damaged' = (damaged /\ Se!Does("uninstall"))
      /\ UNCHANGED <<server, hooks, readers, owned, careful, notes, lineEdits, runs>>
  BY DEF Se!Rename, Se!At, Se!Goes, Se!config, Se!world, Se!counts
<1>3. run \in [now : Se!Run, was : Se!Content] /\ temp \in Se!Content
  BY <1>1, <1>2 DEF SetupTypes, Se!TypeOK
<1>4. /\ run' \in [now : Se!Run, was : Se!Content] /\ run'.was = run.was
      /\ run'.now.step = "hooks" /\ run'.now.does = run.now.does
      /\ run'.now.agent = run.now.agent
  BY <1>2, <1>3 DEF Se!Run
<1>5. /\ careful => run.was = instructions
      /\ Se!Does("uninstall") => run.was # None /\ readers \cap server = {}
      /\ temp = Se!Desired
  BY <1>1, <1>2 DEF WritesWhatItRead, Writing, Se!At
<1>6. /\ Tidy(Se!Lines(temp))
      /\ \A n \in Nat : Stands(Se!Lines(run.was), n) => Stands(Se!Lines(temp), n)
      /\ Se!Does("setup") => temp \in Text /\ Blocked(temp)
  BY <1>1, <1>2, <1>5, DesiredKeeps
<1>7. Se!Me \in Agent /\ (Se!Does("setup") => Se!Me \in server)
  BY <1>1, <1>2, <1>3 DEF Se!Run, Se!Me, ServerFirst
<1>8. /\ Se!Does("setup") \/ Se!Does("uninstall")
      /\ Se!Does("setup") => ~Se!Does("uninstall")
  BY <1>3 DEF Se!Run, Se!Does
<1>9. told' \in SUBSET Agent /\ damaged' \in BOOLEAN
  BY <1>1, <1>2, <1>7 DEF SetupTypes, Se!TypeOK
<1>10. SetupTypes'
  BY <1>1, <1>2, <1>3, <1>4, <1>9 DEF SetupTypes, Se!TypeOK, Se!Content, Se!Run, Se!Line
<1>11. Se!Lines(None) = <<>> BY DEF Se!Lines
<1>12. TidyText' BY <1>1, <1>2, <1>4, <1>6, <1>11, PlainIsTidy DEF TidyText, Se!Lines
<1>13. NotesStand'
  <2>1. ASSUME careful, NEW n \in notes PROVE Stands(Se!Lines(temp), n)
    <3>1. n \in Nat BY <1>1, SetupAssumption DEF SetupTypes, Se!TypeOK
    <3>2. Stands(Se!Lines(run.was), n) BY <1>1, <1>5, <2>1 DEF NotesStand
    <3>3. QED BY <1>6, <3>1, <3>2
  <2>2. QED BY <1>2, <2>1 DEF NotesStand, Se!Lines
<1>14. WritesWhatItRead' BY <1>4 DEF WritesWhatItRead, Writing, Se!At
<1>15. ServerFirst' BY <1>1, <1>2, <1>4 DEF ServerFirst, Se!Does, Se!Me
<1>16. ToldNamed' BY <1>1, <1>2, <1>7 DEF ToldNamed
<1>17. ToldHave'
  <2>1. CASE Se!Does("setup")
    <3>1. Blocked(Se!Lines(temp)) BY <1>3, <1>6, <2>1, LinesAre
    <3>2. QED BY <1>2, <3>1 DEF ToldHave, Se!Lines
  <2>2. CASE Se!Does("uninstall")
    <3>1. told' \cap readers' = {} BY <1>1, <1>2, <1>5, <1>8, <2>2 DEF ToldNamed
    <3>2. QED BY <3>1 DEF ToldHave
  <2>3. QED BY <1>8, <2>1, <2>2
<1>18. QED BY <1>10, <1>12, <1>13, <1>14, <1>15, <1>16, <1>17 DEF SetupInv

\* The person's hand.
LEMMA PersonKeeps ==
    ASSUME SetupInv, NEW i \in 1..MaxLine, Se!AddLine(i) \/ Se!DropLine(i)
    PROVE  SetupInv'
<1> DEFINE s == Se!Lines(instructions)
<1>1. /\ SetupTypes /\ TidyText /\ NotesStand
      /\ WritesWhatItRead /\ ServerFirst /\ ToldNamed /\ ToldHave
  BY DEF SetupInv
<1>2. /\ lineEdits < MaxLineEdits /\ lineEdits' = lineEdits + 1
      /\ careful => run = None
      /\ UNCHANGED <<temp, server, hooks, run, readers, owned, careful, told, runs>>
  BY DEF Se!AddLine, Se!DropLine, Se!Edits, Se!config, Se!world
<1>3. lineEdits' \in 0..MaxLineEdits /\ lineEdits' \in Nat
  <2>1. lineEdits \in 0..MaxLineEdits /\ MaxLineEdits \in Nat
    BY <1>1, SetupAssumption DEF SetupTypes, Se!TypeOK
  <2>2. QED BY <1>2, <2>1
<1>4. instructions \in Se!Content /\ s \in Text /\ Tidy(s) /\ Len(s) \in Nat
  <2>1. instructions \in Se!Content /\ Tidy(s) BY <1>1 DEF SetupTypes, Se!TypeOK, TidyText
  <2>2. s \in Text BY <2>1, LinesAre
  <2>3. QED BY <2>1, <2>2 DEF Text
<1>5. notes \in SUBSET (0..MaxLineEdits) /\ notes \subseteq Nat
  BY <1>1, SetupAssumption DEF SetupTypes, Se!TypeOK
<1>6. careful => \A n \in notes : Stands(s, n) BY <1>1 DEF NotesStand
<1>7. Text \subseteq Se!Content BY DEF Text, Se!Content
<1> HIDE DEF s
\* What is left to show of either.
<1>8. ASSUME instructions' \in Text, Tidy(instructions'),
             notes' \in SUBSET (0..MaxLineEdits), damaged' \in BOOLEAN,
             careful => \A n \in notes' : Stands(instructions', n),
             careful /\ ~damaged' /\ told \cap readers # {} => Blocked(instructions')
      PROVE  SetupInv'
  <2>1. Se!Lines(instructions)' = instructions'
    <3>1. \A c \in Text : Se!Lines(c) = c BY <1>7, LinesAre
    <3>2. instructions' = None => FALSE BY <1>8, SetupAssumption DEF Text
    <3>3. QED BY <3>2 DEF Se!Lines
  <2>2. SetupTypes'
    BY <1>1, <1>2, <1>3, <1>7, <1>8 DEF SetupTypes, Se!TypeOK, Se!Content, Se!Run, Se!Line
  <2>3. TidyText' BY <1>1, <1>2, <1>8, <2>1 DEF TidyText, Se!Lines
  <2>4. NotesStand' BY <1>2, <1>8, <2>1 DEF NotesStand
  <2>5. ToldHave' BY <1>2, <1>8, <2>1 DEF ToldHave
  <2>6. ToldNamed' /\ ServerFirst' BY <1>1, <1>2 DEF ToldNamed, ServerFirst, Se!Does, Se!Me
  <2>7. WritesWhatItRead'
    <3>1. Se!Desired' = Se!Desired BY <1>2 DEF Se!Desired, Se!Does
    <3>2. QED BY <1>1, <1>2, <3>1 DEF WritesWhatItRead, Writing, Se!At, Se!Does
  <2>8. QED BY <2>2, <2>3, <2>4, <2>5, <2>6, <2>7 DEF SetupInv
<1>9. CASE Se!AddLine(i)
  <2> DEFINE v == lineEdits + 1
  <2>1. /\ i \in 1..(Len(s) + 1) /\ instructions' = Se!InsertAt(s, i, v)
        /\ notes' = IF Se!Inside(s, i) THEN notes ELSE notes \cup {v}
        /\ damaged' = damaged
    BY <1>4, <1>9 DEF Se!AddLine, s
  <2>2. v \in Se!Line /\ v \in Nat /\ v \in 0..MaxLineEdits BY <1>2, <1>3 DEF Se!Line
  <2> HIDE DEF v
  <2>3. instructions' = Splice(s, i - 1, <<v>>, i)
    BY <2>1 DEF Se!InsertAt, Splice
  <2>4. /\ instructions' \in Text /\ Tidy(instructions')
        /\ \A line : Stands(s, line) => Stands(instructions', line)
        /\ ~Se!Inside(s, i) => Stands(instructions', v)
        /\ Blocked(s) => Blocked(instructions')
    BY <1>4, <2>1, <2>2, <2>3, AddKeeps
  <2>5. notes' \in SUBSET (0..MaxLineEdits) BY <1>5, <2>1, <2>2
  <2>6. careful => \A n \in notes' : Stands(instructions', n) BY <1>6, <2>1, <2>4
  <2>7. damaged' \in BOOLEAN BY <1>1, <2>1 DEF SetupTypes, Se!TypeOK
  <2>8. careful /\ ~damaged' /\ told \cap readers # {} => Blocked(instructions')
    BY <1>1, <2>1, <2>4 DEF ToldHave, s
  <2>9. QED BY <1>8, <2>4, <2>5, <2>6, <2>7, <2>8
<1>10. CASE Se!DropLine(i)
  <2>1. /\ i <= Len(s) /\ instructions' = Se!RemoveAt(instructions, i)
        /\ notes' = notes \ {instructions[i]}
        /\ damaged' = (damaged \/ instructions[i] \notin Nat)
    BY <1>10 DEF Se!DropLine, s
  <2>2. i \in 1..Len(s) /\ i - 1 \in 0..Len(s) /\ i + 1 \in ((i - 1) + 1)..(Len(s) + 1)
    BY <1>4, <2>1
  <2>3. s = instructions
    <3>1. s # <<>> BY <2>2, PlainIsTidy
    <3>2. QED BY <3>1 DEF s, Se!Lines
  <2>4. instructions' = Splice(s, i - 1, <<>>, i + 1)
    <3>1. SubSeq(s, 1, i - 1) \in Text BY <1>4, <2>2 DEF Text
    <3>2. SubSeq(s, 1, i - 1) \o <<>> = SubSeq(s, 1, i - 1)
      BY <3>1, ConcatEmptySeq DEF Text
    <3>3. QED BY <2>1, <2>3, <3>2 DEF Se!RemoveAt, Splice
  <2>5. /\ instructions' \in Text /\ Tidy(instructions')
        /\ \A k \in 1..Len(s) :
             (k <= i - 1 \/ i + 1 <= k) /\ ~Between(s, k) => Stands(instructions', s[k])
        /\ \A b, e \in 1..Len(s) :
             Pair(s, b, e) /\ (b <= i - 1 \/ i + 1 <= b) /\ (e <= i - 1 \/ i + 1 <= e)
               => Blocked(instructions')
    BY <1>4, <2>2, <2>4, CutKeeps
  <2>6. \A k \in 1..Len(s) : k # i => k <= i - 1 \/ i + 1 <= k BY <1>4, <2>2
  <2>7. ASSUME careful, NEW n \in notes' PROVE Stands(instructions', n)
    <3>1. n \in notes /\ n # s[i] BY <2>1, <2>3, <2>7
    <3>2. PICK k \in 1..Len(s) : s[k] = n /\ ~Between(s, k)
      BY <1>6, <2>7, <3>1 DEF Stands
    <3>3. k # i BY <3>1, <3>2
    <3>4. QED BY <2>5, <2>6, <3>2, <3>3
  <2>8. ASSUME careful, ~damaged', told \cap readers # {} PROVE Blocked(instructions')
    <3>1. ~damaged /\ s[i] \in Nat BY <2>1, <2>3, <2>8
    <3>2. PICK b, e \in 1..Len(s) : Pair(s, b, e)
      BY <1>1, <2>8, <3>1 DEF ToldHave, Blocked, s
    <3>3. b # i /\ e # i BY <3>1, <3>2, SetupAssumption DEF Pair
    <3>4. QED BY <2>5, <2>6, <3>2, <3>3
  <2>9. notes' \in SUBSET (0..MaxLineEdits) BY <1>5, <2>1
  <2>10. damaged' \in BOOLEAN BY <1>1, <2>1 DEF SetupTypes, Se!TypeOK
  <2>11. QED BY <1>8, <2>5, <2>7, <2>8, <2>9, <2>10
<1>11. QED BY <1>9, <1>10

LEMMA SetupInvNext == ASSUME SetupInv, [Se!Next]_(Se!vars) PROVE SetupInv'
<1>1. CASE Se!Next
  <2>1. CASE Se!Rename BY <2>1, RenameKeeps
  <2>2. CASE \E i \in 1..MaxLine : Se!AddLine(i) \/ Se!DropLine(i) BY <2>2, PersonKeeps
  <2>3. CASE \/ Se!WriteServer \/ Se!ReadFile \/ Se!WriteTemp \/ Se!WriteHooks \/ Se!Stops
             \/ \E does \in {"setup", "uninstall"}, a \in Agent, i \in BOOLEAN :
                  Se!Start(does, a, i)
    BY <2>3, RunKeeps
  <2>4. CASE \E a \in Agent : \/ Se!Start("uninstall", a, TRUE)
                              \/ \E i \in BOOLEAN : Se!Start("setup", a, i)
    BY <2>3, <2>4, RunKeeps
  <2>5. QED BY <1>1, <2>1, <2>2, <2>3, <2>4 DEF Se!Next
<1>2. CASE UNCHANGED Se!vars
  <2>1. UNCHANGED <<instructions, temp, server, hooks, readers, owned, run, told, notes, damaged,
                    careful, lineEdits, runs>>
    BY <1>2 DEF Se!vars, Se!config, Se!world, Se!past, Se!counts
  <2>2. SetupTypes' BY <2>1 DEF SetupInv, SetupTypes, Se!TypeOK, Se!Content, Se!Run, Se!Line
  <2>3. TidyText' /\ NotesStand' BY <2>1 DEF SetupInv, TidyText, NotesStand, Se!Lines
  <2>4. ServerFirst' /\ ToldNamed' /\ ToldHave'
    BY <2>1 DEF SetupInv, ServerFirst, ToldNamed, ToldHave, Se!Does, Se!Me, Se!Lines
  <2>5. WritesWhatItRead'
    <3>1. Se!Desired' = Se!Desired BY <2>1 DEF Se!Desired, Se!Does
    <3>2. QED BY <2>1, <3>1 DEF SetupInv, WritesWhatItRead, Writing, Se!At, Se!Does
  <2>6. QED BY <2>2, <2>3, <2>4, <2>5 DEF SetupInv
<1>3. QED BY <1>1, <1>2

\* In the composition, agents and their file do what Setup says.
LEMMA SetupKeeps == MCSpec => []SetupInv
<1>1. MCInit => SetupInv BY SetupInvInit DEF MCInit
<1>2. SetupInv /\ [MCNext]_allVars => SetupInv'
  <2>1. [MCNext]_allVars => [Se!Next]_(Se!vars)
    BY DEF MCNext, allVars, setup, Se!vars, Se!config, Se!world, Se!past, Se!counts
  <2>2. QED BY <2>1, SetupInvNext
<1>3. QED BY <1>1, <1>2, PTL DEF MCSpec

(***************************************************************************)
(* Whatever a person writes around the block, however often agents are set *)
(* up and taken out and wherever one is cut off, no line of the person's   *)
(* that stands outside of the block is lost, if the person keeps off while *)
(* a run writes; the file may have lost either marker or have one too many *)
(* that closes (upsert_memory_protocol, strip_memory_protocol_blocks,      *)
(* write_then_rename).                                                     *)
(***************************************************************************)
THEOREM NotesStay == MCSpec => []NotesSurvive
<1>1. SetupInv => NotesSurvive
  <2> SUFFICES ASSUME SetupInv, careful, NEW n \in notes
               PROVE  n \in Se!Range(Se!Lines(instructions))
    BY DEF NotesSurvive, Se!NotesSurvive
  <2>1. PICK k \in 1..Len(Se!Lines(instructions)) : Se!Lines(instructions)[k] = n
    BY DEF SetupInv, NotesStand, Stands
  <2>2. Se!Lines(instructions) \in Text
    BY LinesAre DEF SetupInv, SetupTypes, Se!TypeOK
  <2>3. k \in DOMAIN Se!Lines(instructions) BY <2>1, <2>2 DEF Text
  <2>4. QED BY <2>1, <2>3 DEF Se!Range, Range
<1>2. QED BY <1>1, SetupKeeps, PTL

(***************************************************************************)
(* As long as the person leaves the block alone, every agent that was told *)
(* and still names Leteo finds the block in its file, whichever agents     *)
(* share the file and are taken out of it (still_configured_sharer,        *)
(* remove_memory_protocol).                                                *)
(***************************************************************************)
THEOREM InstructionsStay == MCSpec => []InstructedHasBlock
<1>1. SetupInv => InstructedHasBlock
  <2> SUFFICES ASSUME SetupInv, careful, ~damaged, NEW a \in told \cap readers
               PROVE  Se!HasBlock(Se!Lines(instructions))
    BY DEF InstructedHasBlock, Se!InstructedHasBlock
  <2>1. Blocked(Se!Lines(instructions)) /\ Tidy(Se!Lines(instructions))
    BY DEF SetupInv, ToldHave, TidyText
  <2>2. Se!Lines(instructions) \in Text
    BY LinesAre DEF SetupInv, SetupTypes, Se!TypeOK
  <2>3. QED BY <2>1, <2>2, HasBlockIsBlocked
<1>2. QED BY <1>1, SetupKeeps, PTL

-----------------------------------------------------------------------------
(* The types of the other parts.                                           *)

\* After k edits no store has seen a later text or revision.
RowsBy(k) == [text : 0..k, rev : 1..(k + 1)]
SentBy(k) == [op : {"memory", "version"}, text : 0..k, rev : 1..(k + 1)]

NothingLater ==
    /\ row \in [Store -> RowsBy(edits) \cup {None}]
    /\ outbox \in [Store -> Seq(SentBy(edits))]
    /\ log \in Seq(SentBy(edits))

LEMMA WithinBounds ==
    ASSUME NEW k \in 0..MaxEdits
    PROVE  RowsBy(k) \subseteq Hi!Row /\ SentBy(k) \subseteq Hi!Mutation
<1>1. 0..k \subseteq Hi!Text /\ 1..(k + 1) \subseteq Hi!Revision
  BY HistoryAssumption DEF Hi!Text, Hi!Revision
<1>2. QED BY <1>1 DEF RowsBy, SentBy, Hi!Row, Hi!Mutation

LEMMA HistoryTypesInit == ASSUME Hi!Init PROVE Hi!TypeOK /\ NothingLater
<1>1. /\ versions = [n \in Store |-> [r \in Hi!Revision |-> None]]
      /\ outbox = [n \in Store |-> <<>>] /\ log = <<>> /\ cursor = [n \in Store |-> 0]
      /\ edits = 0 /\ concurrent \in BOOLEAN /\ late \in BOOLEAN
  BY DEF Hi!Init
<1>2. 0 \in 0..MaxEdits /\ Hi!First \in RowsBy(0)
  BY HistoryAssumption DEF Hi!First, RowsBy
<1>3. row \in [Store -> RowsBy(0) \cup {None}] /\ enrolled \in [Store -> BOOLEAN]
  BY <1>2 DEF Hi!Init
<1>4. row \in [Store -> Hi!Row \cup {None}] BY <1>2, <1>3, WithinBounds
<1>5. Len(<<>>) = 0 /\ 0 \in 0..0 OBVIOUS
<1>6. Hi!TypeOK BY <1>1, <1>2, <1>3, <1>4, <1>5 DEF Hi!TypeOK
<1>7. NothingLater BY <1>1, <1>3 DEF NothingLater
<1>8. QED BY <1>6, <1>7

\* What is trimmed is still of the revisions, and of texts.
LEMMA SnapshotTyped ==
    ASSUME NEW kept \in [Hi!Revision -> Hi!Text \cup {None}],
           NEW v, v.rev \in Hi!Revision, v.text \in Hi!Text
    PROVE  Hi!Trimmed(Hi!Inserted(kept, v)) \in [Hi!Revision -> Hi!Text \cup {None}]
<1>1. Hi!Inserted(kept, v) \in [Hi!Revision -> Hi!Text \cup {None}] BY DEF Hi!Inserted
<1>2. QED BY <1>1 DEF Hi!Trimmed

LEMMA LaterIsMore ==
    ASSUME NEW k \in Nat
    PROVE  /\ RowsBy(k) \subseteq RowsBy(k + 1) /\ SentBy(k) \subseteq SentBy(k + 1)
           /\ Seq(SentBy(k)) \subseteq Seq(SentBy(k + 1))
<1>1. RowsBy(k) \subseteq RowsBy(k + 1) /\ SentBy(k) \subseteq SentBy(k + 1)
  BY DEF RowsBy, SentBy
<1>2. \A S, T : S \subseteq T => Seq(S) \subseteq Seq(T) OBVIOUS
<1>3. QED BY <1>1, <1>2

LEMMA HistoryTypesNext ==
    ASSUME Hi!TypeOK, NothingLater, [Hi!Next]_(Hi!vars)
    PROVE  Hi!TypeOK' /\ NothingLater'
<1>1. /\ MaxEdits \in Nat /\ edits \in 0..MaxEdits /\ edits \in Nat
      /\ row \in [Store -> RowsBy(edits) \cup {None}]
      /\ outbox \in [Store -> Seq(SentBy(edits))] /\ log \in Seq(SentBy(edits))
      /\ enrolled \in [Store -> BOOLEAN] /\ cursor \in [Store -> 0..Len(log)]
      /\ versions \in [Store -> [Hi!Revision -> Hi!Text \cup {None}]]
      /\ concurrent \in BOOLEAN /\ late \in BOOLEAN /\ Len(log) \in Nat
  BY HistoryAssumption DEF Hi!TypeOK, NothingLater
\* It is enough to stay within the edits.
<1>2. ASSUME edits' \in 0..MaxEdits, NothingLater', cursor' \in [Store -> 0..Len(log')],
             enrolled' \in [Store -> BOOLEAN], UNCHANGED <<concurrent, late>>,
             versions' \in [Store -> [Hi!Revision -> Hi!Text \cup {None}]]
      PROVE  Hi!TypeOK' /\ NothingLater'
  <2>1. RowsBy(edits') \subseteq Hi!Row BY <1>2, WithinBounds
  <2>2. SentBy(edits') \subseteq Hi!Mutation BY <1>2, WithinBounds
  <2>3. \A S, T : S \subseteq T => Seq(S) \subseteq Seq(T) OBVIOUS
  <2>4. Seq(SentBy(edits')) \subseteq Seq(Hi!Mutation) BY <2>2, <2>3
  <2>5. row' \in [Store -> Hi!Row \cup {None}] BY <1>2, <2>1 DEF NothingLater
  <2>6. outbox' \in [Store -> Seq(Hi!Mutation)] /\ log' \in Seq(Hi!Mutation)
    BY <1>2, <2>4 DEF NothingLater
  <2>7. QED BY <1>1, <1>2, <2>5, <2>6 DEF Hi!TypeOK
<1>3. ASSUME NEW r \in RowsBy(edits)
      PROVE  /\ Hi!Memory(r) \in SentBy(edits) /\ Hi!Version(r) \in SentBy(edits)
             /\ r.rev \in Hi!Revision /\ r.text \in Hi!Text
             /\ [text |-> edits + 1, rev |-> r.rev + 1] \in RowsBy(edits + 1)
  BY <1>1 DEF RowsBy, SentBy, Hi!Memory, Hi!Version, Hi!Revision, Hi!Text
<1>4. ASSUME NEW n \in Store, Hi!Edit(n) PROVE Hi!TypeOK' /\ NothingLater'
  <2> DEFINE old == row[n]
             new == [text |-> edits + 1, rev |-> old.rev + 1]
             T == Seq(SentBy(edits + 1))
  <2>1. /\ edits < MaxEdits /\ old # None /\ edits' = edits + 1
        /\ versions' = [versions EXCEPT ![n] = Hi!Trimmed(Hi!Inserted(versions[n], old))]
        /\ row' = [row EXCEPT ![n] = new]
        /\ \E sent \in {<<Hi!Memory(new), Hi!Version(old)>>, <<Hi!Version(old), Hi!Memory(new)>>} :
             outbox' = [outbox EXCEPT ![n] = IF enrolled[n] THEN outbox[n] \o sent ELSE outbox[n]]
        /\ UNCHANGED <<enrolled, log, cursor, concurrent, late>>
    BY <1>4 DEF Hi!Edit, Hi!Snapshot, Hi!Replaced, Hi!world
  <2>2. old \in RowsBy(edits) BY <1>1, <2>1
  <2>3. edits' \in 0..MaxEdits BY <1>1, <2>1
  <2>4. new \in RowsBy(edits + 1) BY <1>3, <2>2
  <2>5. Hi!Memory(new) \in SentBy(edits + 1) /\ Hi!Version(old) \in SentBy(edits + 1)
    <3>1. Hi!Memory(new) \in SentBy(edits + 1)
      BY <1>1, <2>4 DEF Hi!Memory, RowsBy, SentBy
    <3>2. QED BY <1>1, <1>3, <2>2, <3>1, LaterIsMore
  <2>6. versions' \in [Store -> [Hi!Revision -> Hi!Text \cup {None}]]
    <3>1. versions[n] \in [Hi!Revision -> Hi!Text \cup {None}] BY <1>1
    <3>2. old.rev \in Hi!Revision /\ old.text \in Hi!Text BY <1>3, <2>2
    <3>3. Hi!Trimmed(Hi!Inserted(versions[n], old)) \in [Hi!Revision -> Hi!Text \cup {None}]
      BY <3>1, <3>2, SnapshotTyped
    <3>4. QED BY <1>1, <2>1, <3>3
  <2> HIDE DEF old, new
  <2>7. row' \in [Store -> RowsBy(edits + 1) \cup {None}]
    BY <1>1, <2>1, <2>4, LaterIsMore
  <2>8. outbox \in [Store -> T] /\ log \in T BY <1>1, LaterIsMore
  <2>9. outbox' \in [Store -> T]
    <3>1. PICK sent \in {<<Hi!Memory(new), Hi!Version(old)>>, <<Hi!Version(old), Hi!Memory(new)>>} :
            outbox' = [outbox EXCEPT ![n] = IF enrolled[n] THEN outbox[n] \o sent ELSE outbox[n]]
      BY <2>1
    <3>2. sent \in T
      <4>1. \A x, y \in SentBy(edits + 1) : <<x, y>> \in T OBVIOUS
      <4> HIDE DEF T
      <4>2. QED BY <2>5, <4>1
    <3>3. \A s, t \in T : s \o t \in T OBVIOUS
    <3> HIDE DEF T
    <3>4. outbox[n] \in T /\ outbox[n] \o sent \in T BY <2>8, <3>2, <3>3
    <3>5. QED BY <2>8, <3>1, <3>4
  <2>10. NothingLater' BY <2>1, <2>7, <2>8, <2>9 DEF NothingLater
  <2>11. QED BY <1>1, <1>2, <2>1, <2>3, <2>6, <2>10
<1>5. ASSUME NEW n \in Store, Hi!Enroll(n) PROVE Hi!TypeOK' /\ NothingLater'
  <2>1. /\ enrolled' = [enrolled EXCEPT ![n] = TRUE]
        /\ outbox' = [outbox EXCEPT ![n] = IF row[n] = None THEN <<>> ELSE <<Hi!Memory(row[n])>>]
        /\ UNCHANGED <<row, versions, log, cursor, edits, concurrent, late>>
    BY <1>5 DEF Hi!Enroll, Hi!world
  <2>2. row[n] # None => Hi!Memory(row[n]) \in SentBy(edits) BY <1>1, <1>3
  <2>3. (IF row[n] = None THEN <<>> ELSE <<Hi!Memory(row[n])>>) \in Seq(SentBy(edits)) BY <2>2
  <2>4. outbox' \in [Store -> Seq(SentBy(edits))] BY <1>1, <2>1, <2>3
  <2>5. NothingLater' BY <1>1, <2>1, <2>4 DEF NothingLater
  <2>6. enrolled' \in [Store -> BOOLEAN] BY <1>1, <2>1
  <2>7. QED BY <1>1, <1>2, <2>1, <2>5, <2>6
<1>6. ASSUME NEW n \in Store, Hi!Push(n) PROVE Hi!TypeOK' /\ NothingLater'
  <2>1. /\ outbox[n] # <<>> /\ log' = Append(log, Head(outbox[n]))
        /\ outbox' = [outbox EXCEPT ![n] = Tail(outbox[n])]
        /\ UNCHANGED <<row, versions, enrolled, cursor, edits, concurrent, late>>
    BY <1>6 DEF Hi!Push, Hi!world
  <2>2. outbox[n] \in Seq(SentBy(edits)) BY <1>1
  <2>3. Head(outbox[n]) \in SentBy(edits) /\ Tail(outbox[n]) \in Seq(SentBy(edits))
    BY <2>1, <2>2
  <2>4. log' \in Seq(SentBy(edits)) /\ Len(log') = Len(log) + 1 BY <1>1, <2>1, <2>3
  <2>5. outbox' \in [Store -> Seq(SentBy(edits))] BY <1>1, <2>1, <2>3
  <2>6. NothingLater' BY <1>1, <2>1, <2>4, <2>5 DEF NothingLater
  <2>7. cursor' \in [Store -> 0..Len(log')]
    <3>1. \A i \in 0..Len(log) : i \in 0..(Len(log) + 1) BY <1>1
    <3>2. QED BY <1>1, <2>1, <2>4, <3>1
  <2>8. QED BY <1>1, <1>2, <2>1, <2>6, <2>7
<1>7. ASSUME NEW n \in Store, Hi!Pull(n) PROVE Hi!TypeOK' /\ NothingLater'
  <2> DEFINE e == log[cursor[n] + 1]
  <2>1. /\ cursor[n] < Len(log) /\ cursor' = [cursor EXCEPT ![n] = cursor[n] + 1]
        /\ Hi!ApplyMemory(n, e) \/ Hi!ApplyVersion(n, e)
        /\ UNCHANGED <<enrolled, outbox, log, edits, concurrent, late>>
    BY <1>7 DEF Hi!Pull, Hi!world
  <2>2. cursor[n] + 1 \in 1..Len(log) /\ cursor[n] + 1 \in 0..Len(log) BY <1>1, <2>1
  <2>3. e \in SentBy(edits) BY <1>1, <2>2
  <2> HIDE DEF e
  <2>4. /\ [text |-> e.text, rev |-> e.rev] \in RowsBy(edits)
        /\ e.rev \in Hi!Revision /\ e.text \in Hi!Text
    BY <1>1, <2>3 DEF SentBy, RowsBy, Hi!Revision, Hi!Text
  <2>5. row' \in [Store -> RowsBy(edits) \cup {None}]
    BY <1>1, <2>1, <2>4 DEF Hi!ApplyMemory, Hi!ApplyVersion
  <2>6. versions' \in [Store -> [Hi!Revision -> Hi!Text \cup {None}]]
    <3>1. versions[n] \in [Hi!Revision -> Hi!Text \cup {None}] BY <1>1
    <3>2. Hi!Trimmed(Hi!Inserted(versions[n], e)) \in [Hi!Revision -> Hi!Text \cup {None}]
      BY <2>4, <3>1, SnapshotTyped
    <3>3. QED BY <1>1, <2>1, <3>2 DEF Hi!ApplyMemory, Hi!ApplyVersion, Hi!Snapshot
  <2>7. cursor' \in [Store -> 0..Len(log')] BY <1>1, <2>1, <2>2
  <2>8. NothingLater' BY <1>1, <2>1, <2>5 DEF NothingLater
  <2>9. QED BY <1>1, <1>2, <2>1, <2>6, <2>7, <2>8
<1>8. CASE UNCHANGED Hi!vars
  BY <1>8 DEF Hi!vars, Hi!world, Hi!TypeOK, NothingLater
<1>9. QED BY <1>4, <1>5, <1>6, <1>7, <1>8 DEF Hi!Next

(***************************************************************************)
(* The state of the other parts has its types: the rows and the versions   *)
(* that stores exchange, the stamps of prompts, the directories of a model *)
(* and the lines of an instruction file (snapshot_observation_version_tx,  *)
(* apply_prompt_upsert_tx, place, apply_content).                          *)
(***************************************************************************)
THEOREM PartsTypeCorrect ==
    MCSpec => [](Hi!TypeOK /\ Pr!TypeOK /\ Se!TypeOK /\ In!TypeOK)
<1>1. MCSpec => [](Hi!TypeOK /\ NothingLater)
  <2>1. MCInit => Hi!TypeOK /\ NothingLater BY HistoryTypesInit DEF MCInit
  <2>2. Hi!TypeOK /\ NothingLater /\ [MCNext]_allVars => Hi!TypeOK' /\ NothingLater'
    <3>1. [MCNext]_allVars => [Hi!Next]_(Hi!vars)
      BY DEF MCNext, allVars, history, Hi!vars, Hi!world
    <3>2. QED BY <3>1, HistoryTypesNext
  <2>3. QED BY <2>1, <2>2, PTL DEF MCSpec
<1>2. PromptInv => Pr!TypeOK BY DEF PromptInv, PromptTypes
<1>3. SetupInv => Se!TypeOK BY DEF SetupInv, SetupTypes
<1>4. QED BY <1>1, <1>2, <1>3, PromptsKeep, SetupKeeps, SidesKeep, PTL

=============================================================================
