------------------------------- MODULE Schema ------------------------------
(***************************************************************************)
(* Opening a store (src/store/schema.rs): the version a file is stamped    *)
(* with, the copy made before a migration, and the migration itself, by    *)
(* processes of several builds that start at the same time.                *)
(*                                                                         *)
(* The version is read without a lock, the copy is made without one        *)
(* (VACUUM INTO cannot run in a transaction), and the migration reads the  *)
(* version again under the write lock.  One transaction is one step; a     *)
(* copy is begun, and finished or cut off.                                 *)
(*                                                                         *)
(* Versions are numbers: 0 is an unstamped file, 1 the baseline, up to     *)
(* Released the numbers that were spent before a release, above it the     *)
(* migrations.  A build is the newest migration it knows.  A file is       *)
(* Leteo's own or Engram's, told apart by its tables.                      *)
(***************************************************************************)
EXTENDS Naturals, Sequences, FiniteSets

CONSTANTS
    Proc,      \* processes that open the store
    Released,  \* LAST_PRE_RELEASE_VERSION
    Newest,    \* SCHEMA_VERSION of the newest build
    Found,     \* stamps a file may have at first
    Kept,      \* BACKUPS_KEPT
    MaxCuts,   \* bound: processes that are killed
    None

ASSUME VersionAssumption ==
    Released \in Nat \ {0} /\ Newest \in Nat /\ Found \subseteq 0..Newest
ASSUME BoundAssumption == Kept \in Nat /\ MaxCuts \in Nat

Build == (Released + 1)..Newest
Version == 0..Newest

VARIABLES
    ours,      \* are the tables Leteo's?
    stamp,     \* user_version
    applied,   \* the migrations that were run, in order
    copy,      \* the copies beside the store, by the version in their name
    supports,  \* SCHEMA_VERSION of the build a process is of
    pc, seen,  \* where a process is, and the version it read first
    cuts

file == <<ours, stamp, applied>>
process == <<pc, seen>>
vars == <<file, copy, supports, process, cuts>>

\* A copy holds the store at some version, wholly or in part.
Copy == [at : Version, whole : BOOLEAN]

ASSUME NoCopyAssumption == None \notin Copy

Stage == {"off", "copy", "copying", "migrate", "open", "refused", "failed"}

TypeOK ==
    /\ ours \in BOOLEAN
    /\ stamp \in Version
    /\ applied \in Seq(1..Newest)
    /\ copy \in [Version -> Copy \cup {None}]
    /\ supports \in [Proc -> Build]
    /\ pc \in [Proc -> Stage]
    /\ seen \in [Proc -> Version]
    /\ cuts \in 0..MaxCuts

\* A stamp is a number anybody can write; copies of earlier upgrades may be
\* there.
Init ==
    /\ ours \in BOOLEAN
    /\ stamp \in Found
    /\ applied = <<>>
    /\ \E left \in SUBSET {v \in Found : v > 0} :
         copy = [v \in Version |-> IF v \in left THEN [at |-> v, whole |-> TRUE] ELSE None]
    /\ supports \in [Proc -> Build]
    /\ pc = [p \in Proc |-> "off"]
    /\ seen = [p \in Proc |-> 0]
    /\ cuts = 0

Goes(p, from, to) == pc[p] = from /\ pc' = [pc EXCEPT ![p] = to]

-----------------------------------------------------------------------------

\* Mutant: the stamp is enough.
FastPath_AnyTables(p) == stamp = supports[p]

\* prepare_once: nothing to migrate, and the tables are Leteo's.
FastPath(p) == stamp = supports[p] /\ ours

\* The version is read, with no lock.
ReadVersion(p) ==
    /\ Goes(p, "off", IF FastPath(p) THEN "open" ELSE "copy")
    /\ seen' = [seen EXCEPT ![p] = stamp]
    /\ UNCHANGED <<file, copy, supports, cuts>>

\* Mutant: only a store of the build just before is copied.
Worthless_Older(p) == seen[p] = 0 \/ seen[p] # supports[p] - 1

\* backup_before_migrate: a brand-new file has nothing to copy, and a file of
\* a newer build nothing to lose.
Worthless(p) == seen[p] = 0 \/ seen[p] >= supports[p]

\* A copy of that version is there: it stands.
SkipCopy(p) ==
    /\ Worthless(p) \/ copy[seen[p]] # None
    /\ Goes(p, "copy", "migrate")
    /\ UNCHANGED <<file, copy, supports, seen, cuts>>

\* There was none when it looked.
WantCopy(p) ==
    /\ ~Worthless(p) /\ copy[seen[p]] = None
    /\ Goes(p, "copy", "copying")
    /\ UNCHANGED <<file, copy, supports, seen, cuts>>

\* The copies that are more than BACKUPS_KEPT, by version.
Pruned(copies) ==
    [v \in Version |->
       IF Cardinality({u \in Version : u > v /\ copies[u] # None}) >= Kept
       THEN None ELSE copies[v]]

\* VACUUM INTO: one reader's snapshot, and the older copies are pruned.
MakeCopy(p) ==
    /\ copy[seen[p]] = None
    /\ Goes(p, "copying", "migrate")
    /\ copy' = Pruned([copy EXCEPT ![seen[p]] = [at |-> stamp, whole |-> TRUE]])
    /\ UNCHANGED <<file, supports, seen, cuts>>

\* VACUUM INTO refuses a destination that exists by now.
CopyRefused(p) ==
    /\ copy[seen[p]] # None
    /\ Goes(p, "copying", "failed")
    /\ UNCHANGED <<file, copy, supports, seen, cuts>>

\* Killed while it copies: what is written of the copy stays.
CutOff(p) ==
    /\ cuts < MaxCuts /\ cuts' = cuts + 1
    /\ copy[seen[p]] = None
    /\ Goes(p, "copying", "failed")
    /\ copy' = [copy EXCEPT ![seen[p]] = [at |-> stamp, whole |-> FALSE]]
    /\ UNCHANGED <<file, supports, seen>>

\* SchemaTooNew, SchemaFromPreRelease, EngramDatabase.
Refuses(p) == stamp > supports[p] \/ stamp \in 2..Released \/ ~ours

Ascending(from, to) == [i \in 1..(to - from) |-> from + i]

\* Mutant: the version read before the lock decides.
Due_SeenFirst(p) == Ascending(IF seen[p] <= Released THEN Released ELSE seen[p], supports[p])

\* The migrations numbered above the stamp.
Due(p) == Ascending(IF stamp <= Released THEN Released ELSE stamp, supports[p])

\* migrate, in one BEGIN IMMEDIATE: it reads the version again.  An unstamped
\* file is brought to the baseline first.
Migrate(p) ==
    \/ /\ Refuses(p)
       /\ Goes(p, "migrate", "refused")
       /\ UNCHANGED <<file, copy, supports, seen, cuts>>
    \/ /\ ~Refuses(p)
       /\ Goes(p, "migrate", "open")
       /\ applied' = applied \o (IF stamp = 0 THEN <<1>> ELSE <<>>) \o Due(p)
       /\ stamp' = supports[p]
       /\ UNCHANGED <<ours, copy, supports, seen, cuts>>

\* A step of it failed, or the lock was never free: nothing was done.
MigrateFails(p) ==
    /\ cuts < MaxCuts /\ cuts' = cuts + 1
    /\ Goes(p, "migrate", "failed")
    /\ UNCHANGED <<file, copy, supports, seen>>

\* A process ends, and the build may be another one the next time.
Ends(p) ==
    /\ \E from \in {"open", "refused", "failed"} : Goes(p, from, "off")
    /\ \E b \in Build : supports' = [supports EXCEPT ![p] = b]
    /\ UNCHANGED <<file, copy, seen, cuts>>

Next ==
    \E p \in Proc :
        \/ ReadVersion(p) \/ SkipCopy(p) \/ WantCopy(p)
        \/ MakeCopy(p) \/ CopyRefused(p) \/ CutOff(p)
        \/ Migrate(p) \/ MigrateFails(p) \/ Ends(p)

Spec == Init /\ [][Next]_vars

-----------------------------------------------------------------------------
(* Properties.                                                             *)

(***************************************************************************)
(* Whatever builds open a file in whatever order, every migration is run   *)
(* once, in the order of the numbers, and the stamp says which ones were   *)
(* (migrate, prepare_once: the version is read again under the lock).      *)
(***************************************************************************)
EachMigrationOnce ==
    /\ \A i, j \in 1..Len(applied) : i < j => applied[i] < applied[j]
    /\ applied # <<>> => applied[Len(applied)] = stamp

(***************************************************************************)
(* A process that opened the store found it Leteo's and at the version it  *)
(* knows, or left it so (prepare_once, migrate: the fast path skips every  *)
(* other check).                                                           *)
(***************************************************************************)
OpensItsOwn ==
    [][\A p \in Proc : pc[p] # "open" /\ pc'[p] = "open" => ours' /\ stamp' = supports[p]]_vars

\* There is a copy of the store at this version, or newer ones crowded it out.
CopyStands(v) ==
    \/ copy[v] # None /\ copy[v].at = v /\ (copy[v].whole \/ cuts > 0)
    \/ Cardinality({u \in Version : u > v /\ copy[u] # None}) >= Kept

(***************************************************************************)
(* A process that migrates from the version it found leaves a way back:    *)
(* the copy that has its name holds the store at that version, however     *)
(* many processes and builds raced to make it and to migrate.  It is there *)
(* unless newer ones crowded it out, and whole unless its maker was killed *)
(* (backup_before_migrate).  A process that found an older version than it *)
(* migrates from has made no copy of the latter.                           *)
(***************************************************************************)
WayBack ==
    [][\A p \in Proc :
         /\ pc[p] = "migrate" /\ pc'[p] = "open"
         /\ seen[p] = stamp /\ stamp' # stamp /\ stamp > 0
         => CopyStands(stamp)]_vars

=============================================================================
