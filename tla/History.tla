------------------------------ MODULE History ------------------------------
(***************************************************************************)
(* The version history of one memory on several stores                     *)
(* (observation_versions): what an edit keeps of the text it replaces      *)
(* (src/store/observations.rs), and what a pulled edit and a pulled        *)
(* version do (src/store/wire.rs).                                         *)
(*                                                                         *)
(* At first the memory is on every store, or on one that has not enrolled  *)
(* its project.  A text is the number of the edit that made it.  A store   *)
(* pushes its journal in order and applies the log in order, its own       *)
(* mutations included, as in Replicas.                                     *)
(***************************************************************************)
EXTENDS Naturals, Sequences, FiniteSets

CONSTANTS
    Store,
    Retention,  \* OBSERVATION_VERSION_RETENTION
    MaxEdits,   \* bound: edits
    None

VARIABLES
    row,        \* what the memory says on a store, and its revision_count, or None
    enrolled,   \* does a store replicate the project?
    versions,   \* observation_versions, by revision
    outbox,     \* mutations not pushed yet
    log,        \* cloud_mutations
    cursor,     \* last_pulled_seq
    edits,      \* edits so far
    concurrent, \* may a store edit before it knows every edit?
    late        \* was the project enrolled after the memory was there?

world == <<concurrent, late>>
vars == <<row, versions, enrolled, outbox, log, cursor, edits, world>>

Text == 0..MaxEdits
Revision == 1..(MaxEdits + 1)

Row == [text : Text, rev : Revision]
Mutation ==
    [op : {"memory"}, text : Text, rev : Revision]
      \cup [op : {"version"}, text : Text, rev : Revision]

Memory(r) == [op |-> "memory", text |-> r.text, rev |-> r.rev]
Version(r) == [op |-> "version", text |-> r.text, rev |-> r.rev]

TypeOK ==
    /\ row \in [Store -> Row \cup {None}]
    /\ enrolled \in [Store -> BOOLEAN]
    /\ versions \in [Store -> [Revision -> Text \cup {None}]]
    /\ outbox \in [Store -> Seq(Mutation)]
    /\ log \in Seq(Mutation)
    /\ cursor \in [Store -> 0..Len(log)]
    /\ edits \in 0..MaxEdits
    /\ concurrent \in BOOLEAN /\ late \in BOOLEAN

First == [text |-> 0, rev |-> 1]

Init ==
    /\ \/ late = FALSE /\ row = [n \in Store |-> First]
          /\ enrolled = [n \in Store |-> TRUE]
       \/ late = TRUE /\ \E o \in Store :
            /\ row = [n \in Store |-> IF n = o THEN First ELSE None]
            /\ enrolled = [n \in Store |-> n # o]
    /\ versions = [n \in Store |-> [r \in Revision |-> None]]
    /\ outbox = [n \in Store |-> <<>>]
    /\ log = <<>>
    /\ cursor = [n \in Store |-> 0]
    /\ edits = 0
    /\ concurrent \in BOOLEAN

-----------------------------------------------------------------------------

\* The newest versions, by revision.
Trimmed(kept) ==
    [r \in Revision |->
       IF Cardinality({q \in Revision : q > r /\ kept[q] # None}) >= Retention
       THEN None ELSE kept[r]]

\* INSERT OR IGNORE: the version that is there stays.
Inserted(kept, v) == IF kept[v.rev] = None THEN [kept EXCEPT ![v.rev] = v.text] ELSE kept

\* snapshot_observation_version_tx.
Snapshot(n, v) == versions' = [versions EXCEPT ![n] = Trimmed(Inserted(versions[n], v))]

Quiet(n) == outbox[n] = <<>> /\ cursor[n] = Len(log)

\* Mutant: the mutation of a version names the new revision.
Replaced_NewRevision(old) == [text |-> old.text, rev |-> old.rev + 1]

\* The version an edit sends: what it replaced, under its revision.
Replaced(old) == old

\* A save under the same topic_key, which queues the version first, or
\* mem_update, which queues the memory first.  A save of the same words counts
\* as a revision and keeps no version; only edits that change the text are here.
Edit(n) ==
    LET old == row[n]
        new == [text |-> edits + 1, rev |-> old.rev + 1]
    IN
    /\ edits < MaxEdits /\ old # None
    /\ concurrent \/ \A m \in Store : Quiet(m)
    /\ edits' = edits + 1
    /\ Snapshot(n, old)
    /\ row' = [row EXCEPT ![n] = new]
    /\ \E sent \in {<<Memory(new), Version(Replaced(old))>>,
                    <<Version(Replaced(old)), Memory(new)>>} :
         outbox' = [outbox EXCEPT ![n] = IF enrolled[n] THEN @ \o sent ELSE @]
    /\ UNCHANGED <<enrolled, log, cursor, world>>

\* enroll_project: what waits goes, and backfill_project_tx queues the rows.
Enroll(n) ==
    /\ ~enrolled[n]
    /\ enrolled' = [enrolled EXCEPT ![n] = TRUE]
    /\ outbox' = [outbox EXCEPT ![n] = IF row[n] = None THEN <<>> ELSE <<Memory(row[n])>>]
    /\ UNCHANGED <<row, versions, log, cursor, edits, world>>

Push(n) ==
    /\ outbox[n] # <<>>
    /\ log' = Append(log, Head(outbox[n]))
    /\ outbox' = [outbox EXCEPT ![n] = Tail(@)]
    /\ UNCHANGED <<row, versions, enrolled, cursor, edits, world>>

\* apply_observation_upsert_tx: the text and the revision are the payload's,
\* and what they replace is not kept here.
ApplyMemory(n, e) ==
    /\ e.op = "memory"
    /\ row' = [row EXCEPT ![n] = [text |-> e.text, rev |-> e.rev]]
    /\ UNCHANGED versions

\* apply_observation_version_upsert_tx.
ApplyVersion(n, e) ==
    /\ e.op = "version"
    /\ Snapshot(n, e)
    /\ UNCHANGED row

Pull(n) ==
    /\ cursor[n] < Len(log)
    /\ LET e == log[cursor[n] + 1] IN ApplyMemory(n, e) \/ ApplyVersion(n, e)
    /\ cursor' = [cursor EXCEPT ![n] = @ + 1]
    /\ UNCHANGED <<enrolled, outbox, log, edits, world>>

Next == \E n \in Store : Edit(n) \/ Enroll(n) \/ Push(n) \/ Pull(n)

Spec == Init /\ [][Next]_vars

-----------------------------------------------------------------------------
(* Properties.                                                             *)

AllQuiet == \A n \in Store : Quiet(n)

\* Edits made one after the other: text t was replaced at revision t + 1.
Survivor(r) == IF r <= edits /\ r + Retention > edits THEN r - 1 ELSE None

(***************************************************************************)
(* Where edits are made one after the other, on whichever stores, every    *)
(* store ends with the newest versions, each with the text that revision   *)
(* had, in whatever order memories and versions travelled                  *)
(* (snapshot_observation_version_tx, apply_observation_version_upsert_tx). *)
(***************************************************************************)
SerialHistoryKept ==
    ~concurrent /\ ~late /\ AllQuiet =>
        \A n \in Store : versions[n] = [r \in Revision |-> Survivor(r)]

(***************************************************************************)
(* A content-changing write keeps the superseded title and body in         *)
(* observation_versions (CHANGELOG; update_observation): what a local edit *)
(* replaces is among the versions of its store afterwards.                 *)
(***************************************************************************)
EditKeepsReplaced ==
    [][\A n \in Store :
         edits' > edits /\ row'[n] # row[n] => \E r \in Revision : versions'[n][r] = row[n].text]_vars

(***************************************************************************)
(* Enrolling queues everything a project already holds, and versions       *)
(* replicate (backfill_project_tx; CHANGELOG): where one store edited a    *)
(* memory before it enrolled, and nobody does at the same time, the        *)
(* others come to hold the versions it had.                                *)
(***************************************************************************)
HistoryIsBackfilled ==
    ~concurrent /\ AllQuiet /\ (\A n \in Store : enrolled[n]) =>
        \A m, n \in Store : versions[m] = versions[n]

=============================================================================
