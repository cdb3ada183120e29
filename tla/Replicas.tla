------------------------------ MODULE Replicas ------------------------------
(***************************************************************************)
(* Several stores that share sessions and memories through one cloud log   *)
(* (src/store: what each local operation writes and queues, and what        *)
(* applying a pulled mutation does to the tables).                         *)
(*                                                                         *)
(* Every operation is one SQLite transaction: it changes rows and appends  *)
(* to the journal the mutations whose project is enrolled.  A store pushes  *)
(* its journal in order and applies the log in order, its own mutations    *)
(* included, which is what Autosync promises.                              *)
(*                                                                         *)
(* What is abstracted: a memory's text is the set of the edits it was      *)
(* built from, so that a text says which others it knew; prompts,          *)
(* relations and versions travel beside the memories and are left out;     *)
(* every device may sync every project.                                    *)
(***************************************************************************)
EXTENDS Naturals, Sequences, FiniteSets, SequencesExt

CONSTANTS
    Store,     \* the devices
    Project,
    Session,   \* session ids; a manual session's is the same everywhere
    Memory,    \* sync_ids of observations
    HomeOf,    \* the project each session is created for
    Plans,     \* what may be done, and what is replicated at first
    MaxWrites, \* bound: operations
    None       \* no row

AllOps == {"create", "add", "consolidate", "update", "move", "soft delete", "hard delete",
           "delete session", "delete contents", "delete project", "prune",
           "enroll", "unenroll", "merge"}

\* A plan: the operations users make, how many, the sessions they open, and
\* the projects each store replicates at first.
Plan == [ops : SUBSET AllOps, writes : 0..MaxWrites, sessions : SUBSET Session,
         enrolled : [Store -> SUBSET Project]]

Text == SUBSET (1..MaxWrites)

Row == [text : Text, session : Session, project : Project, live : BOOLEAN]

ASSUME HomeAssumption == HomeOf \in [Session -> Project]
ASSUME PlansAssumption == Plans \subseteq Plan /\ MaxWrites \in Nat
ASSUME FiniteAssumption == IsFiniteSet(Session) /\ IsFiniteSet(Memory)
ASSUME NoneAssumption == None \notin Project \cup Session \cup Row

VARIABLES
    plan,      \* which of Plans
    sessions,  \* the project of each session a store holds
    memories,  \* observations, tombstoned ones included
    enrolled,  \* sync_enrolled_projects
    journal,   \* sync_mutations, by seq
    waiting,   \* those that are not acknowledged
    log,       \* cloud_mutations
    cursor,    \* last_pulled_seq
    writes,    \* operations so far; each one's number is the edit it makes
    written,   \* every text that was ever saved, with its memory
    deleted    \* memories somebody asked to delete

tables == <<sessions, memories>>
history == <<writes, written, deleted>>
queue == <<journal, waiting>>
vars == <<plan, tables, enrolled, queue, log, cursor, history>>

(***************************************************************************)
(* A mutation: what it does, to which row, the payload, and the project it *)
(* is queued under.  The five kinds are the session and observation        *)
(* upserts, and their deletes, soft or hard.                               *)
(***************************************************************************)
Mutation ==
    [op : {"session"}, key : Session, body : Project, project : Project]
      \cup [op : {"session gone"}, key : Session, body : {None}, project : Project]
      \cup [op : {"memory"}, key : Memory, body : Row, project : Project]
      \cup [op : {"memory gone", "memory erased"}, key : Memory, body : {None},
            project : Project]

PutSession(s, p) == [op |-> "session", key |-> s, body |-> p, project |-> p]
SessionGone(s, p) == [op |-> "session gone", key |-> s, body |-> None, project |-> p]
PutMemory(m, r) == [op |-> "memory", key |-> m, body |-> r, project |-> r.project]
MemoryGone(m, hard, p) ==
    [op |-> IF hard THEN "memory erased" ELSE "memory gone", key |-> m, body |-> None,
     project |-> p]

Has(n, m) == memories[n][m] # None
Live(n, m) == Has(n, m) /\ memories[n][m].live
HasSession(n, s) == sessions[n][s] # None

SessionsOf(n, p) == {s \in Session : sessions[n][s] = p}
RowsOf(n, p) == {m \in Memory : Has(n, m) /\ memories[n][m].project = p}
RowsIn(n, s) == {m \in Memory : Has(n, m) /\ memories[n][m].session = s}
LiveAmong(n, M) == {m \in M : memories[n][m].live}

-----------------------------------------------------------------------------

Init ==
    /\ plan \in Plans
    /\ sessions = [n \in Store |-> [s \in Session |-> None]]
    /\ memories = [n \in Store |-> [m \in Memory |-> None]]
    /\ enrolled = plan.enrolled
    /\ journal = [n \in Store |-> <<>>]
    /\ waiting = [n \in Store |-> {}]
    /\ log = <<>>
    /\ cursor = [n \in Store |-> 0]
    /\ writes = 0
    /\ written = {}
    /\ deleted = {}

\* A user's operation, and the number of the edit it makes.
Operation(name) ==
    /\ name \in plan.ops
    /\ writes < plan.writes
    /\ writes' = writes + 1

Edit == writes + 1

\* enqueue_serialized_mutation: nothing is queued for a project that is not
\* enrolled.
IfEnrolled(p, projects, es) == IF p \in projects THEN es ELSE <<>>

\* Of the waiting mutations some stay, and es follow them.
Requeue(n, kept, es) ==
    /\ journal' = [journal EXCEPT ![n] = @ \o es]
    /\ waiting' = [waiting EXCEPT ![n] =
                     kept \cup (Len(journal[n]) + 1)..(Len(journal[n]) + Len(es))]

\* Mutant: a row that has a mutation waiting is not queued again.
Queue_Once(n, p, es) ==
    Requeue(n, waiting[n],
            IF \E k \in waiting[n], j \in DOMAIN es : journal[n][k].key = es[j].key
            THEN <<>> ELSE IfEnrolled(p, enrolled[n], es))

Queue(n, p, es) == Requeue(n, waiting[n], IfEnrolled(p, enrolled[n], es))

\* The mutations of a set of rows are queued in whatever order a SELECT gives
\* the rows: one of SetToSeqs.
PutSessions(n, p, q) == {PutSession(s, q) : s \in SessionsOf(n, p)}

SetRow(n, m, r) == memories' = [memories EXCEPT ![n][m] = r]

\* The rows of M leave the store, or are tombstoned.
Gone(n, M, hard) ==
    memories' = [memories EXCEPT ![n] =
        [m \in Memory |-> IF m \notin M THEN @[m]
                          ELSE IF hard THEN None ELSE [@[m] EXCEPT !.live = FALSE]]]

SessionsGone(n, S) ==
    sessions' = [sessions EXCEPT ![n] = [s \in Session |-> IF s \in S THEN None ELSE @[s]]]

-----------------------------------------------------------------------------
(* Sessions and memories (sessions.rs, observations.rs).                   *)

\* create_session inserts or ignores, and queues only a new row.
CreateSession(n, s) ==
    /\ Operation("create")
    /\ s \in plan.sessions
    /\ ~HasSession(n, s)
    /\ sessions' = [sessions EXCEPT ![n][s] = HomeOf[s]]
    /\ Queue(n, HomeOf[s], <<PutSession(s, HomeOf[s])>>)
    /\ UNCHANGED <<memories, enrolled, log, cursor, written, deleted>>

\* A memory that was never there, of session s and project p.
NewMemory(n, m, s, p) ==
    LET r == [text |-> {Edit}, session |-> s, project |-> p, live |-> TRUE] IN
    /\ HasSession(n, s)
    /\ \A t \in written : t[1] # m
    /\ SetRow(n, m, r)
    /\ Queue(n, p, <<PutMemory(m, r)>>)
    /\ written' = written \cup {<<m, r.text>>}
    /\ UNCHANGED <<sessions, enrolled, log, cursor, deleted>>

\* add_observation: the project is the session's, or, when the session is the
\* manual one of a project, that project.
AddObservation(n, m, s) ==
    Operation("add") /\ \E p \in {sessions[n][s], HomeOf[s]} : NewMemory(n, m, s, p)

\* consolidate_observations from the command line: under the project of its
\* first source, whatever session it is written in.
Consolidate(n, m, s) ==
    /\ Operation("consolidate")
    /\ \E o \in Memory : Live(n, o) /\ NewMemory(n, m, s, memories[n][o].project)

\* Mutant: it is deleted wherever it moves from.
LeavesGhost_Always(n, from, to) == from # to

\* A memory that leaves an enrolled project for one that is not is deleted
\* there; its upsert is queued for nobody.
LeavesGhost(n, from, to) == from # to /\ from \in enrolled[n] /\ to \notin enrolled[n]

\* update_observation rewrites what it read in the same transaction, perhaps
\* under another project.
UpdateObservation(n, m, q) ==
    LET old == memories[n][m]
        new == [old EXCEPT !.text = @ \cup {Edit}, !.project = q] IN
    /\ Live(n, m)
    /\ Operation(IF q = old.project THEN "update" ELSE "move")
    /\ SetRow(n, m, new)
    /\ IF LeavesGhost(n, old.project, q)
       THEN Queue(n, old.project, <<MemoryGone(m, FALSE, old.project)>>)
       ELSE Queue(n, q, <<PutMemory(m, new)>>)
    /\ written' = written \cup {<<m, new.text>>}
    /\ UNCHANGED <<sessions, enrolled, log, cursor, deleted>>

\* delete_observation: a soft delete wants a live row, a hard one any.
DeleteObservation(n, m, hard) ==
    /\ Operation(IF hard THEN "hard delete" ELSE "soft delete")
    /\ IF hard THEN Has(n, m) ELSE Live(n, m)
    /\ Gone(n, {m}, hard)
    /\ Queue(n, memories[n][m].project, <<MemoryGone(m, hard, memories[n][m].project)>>)
    /\ deleted' = deleted \cup {m}
    /\ UNCHANGED <<sessions, enrolled, log, cursor, written>>

\* Mutant: only live memories keep their session.
IsEmptySession_LiveOnly(n, s) == LiveAmong(n, RowsIn(n, s)) = {}

\* A tombstoned row still references its session.
IsEmptySession(n, s) == RowsIn(n, s) = {}

\* delete_session refuses one that holds observations.
DeleteSession(n, s) ==
    /\ Operation("delete session")
    /\ HasSession(n, s)
    /\ IsEmptySession(n, s)
    /\ SessionsGone(n, {s})
    /\ Queue(n, sessions[n][s], <<SessionGone(s, sessions[n][s])>>)
    /\ UNCHANGED <<memories, enrolled, log, cursor, written, deleted>>

\* delete_session_and_contents: the deletes of the memories are queued under
\* the project of the session, whatever theirs is; a soft one keeps the
\* session.
DeleteSessionAndContents(n, s, hard) ==
    LET M == IF hard THEN RowsIn(n, s) ELSE LiveAmong(n, RowsIn(n, s))
        home == sessions[n][s] IN
    /\ Operation("delete contents")
    /\ HasSession(n, s)
    /\ Gone(n, M, hard)
    /\ IF hard THEN SessionsGone(n, {s}) ELSE UNCHANGED sessions
    /\ \E es \in SetToSeqs({MemoryGone(m, hard, home) : m \in M}) :
           Queue(n, home, es \o IF hard THEN <<SessionGone(s, home)>> ELSE <<>>)
    /\ deleted' = deleted \cup M
    /\ UNCHANGED <<enrolled, log, cursor, written>>

-----------------------------------------------------------------------------
(* Projects (projects.rs).                                                 *)

\* delete_project: a hard one takes the sessions that are empty after it.
DeleteProject(n, p, hard) ==
    LET M == IF hard THEN RowsOf(n, p) ELSE LiveAmong(n, RowsOf(n, p))
        emptied == IF hard
                   THEN {s \in SessionsOf(n, p) : RowsIn(n, s) \subseteq M}
                   ELSE {} IN
    /\ Operation("delete project")
    /\ SessionsOf(n, p) \cup RowsOf(n, p) # {}
    /\ Gone(n, M, hard)
    /\ SessionsGone(n, emptied)
    /\ \E es \in SetToSeqs({MemoryGone(m, hard, p) : m \in M}),
          fs \in SetToSeqs({SessionGone(s, p) : s \in emptied}) : Queue(n, p, es \o fs)
    /\ deleted' = deleted \cup M
    /\ UNCHANGED <<enrolled, log, cursor, written>>

\* prune_project: the sessions of a project that has no observations.  One
\* that holds an observation of another project makes the DELETE fail.
PruneProject(n, p) ==
    LET S == SessionsOf(n, p) IN
    /\ Operation("prune")
    /\ S # {} /\ RowsOf(n, p) = {}
    /\ \A s \in S : RowsIn(n, s) = {}
    /\ SessionsGone(n, S)
    /\ \E es \in SetToSeqs({SessionGone(s, p) : s \in S}) : Queue(n, p, es)
    /\ UNCHANGED <<memories, enrolled, log, cursor, written, deleted>>

\* Mutant: the DELETE does not ask for the project.
NotOf_Nothing(n, p) == {}

\* DELETE FROM sync_mutations WHERE project = p AND acked_at IS NULL.
NotOf(n, p) == {k \in waiting[n] : journal[n][k].project # p}

\* Mutant: the memories are not queued.
Backfill_SessionsOnly(n, p) == SetToSeqs(PutSessions(n, p, p))

\* Mutant: the other way round.
Backfill_MemoriesFirst(n, p) ==
    {ms \o ss : ss \in SetToSeqs(PutSessions(n, p, p)),
                ms \in SetToSeqs({PutMemory(m, memories[n][m]) : m \in LiveAmong(n, RowsOf(n, p))})}

\* backfill_project_tx: the sessions, then the live memories.
Backfill(n, p) ==
    {ss \o ms : ss \in SetToSeqs(PutSessions(n, p, p)),
                ms \in SetToSeqs({PutMemory(m, memories[n][m]) : m \in LiveAmong(n, RowsOf(n, p))})}

\* enroll_project: what waited for the project goes, all it holds is queued.
Enroll(n, p) ==
    /\ Operation("enroll")
    /\ p \notin enrolled[n]
    /\ enrolled' = [enrolled EXCEPT ![n] = @ \cup {p}]
    /\ \E es \in Backfill(n, p) : Requeue(n, NotOf(n, p), es)
    /\ UNCHANGED <<tables, log, cursor, written, deleted>>

\* unenroll_project: what waits stays.
Unenroll(n, p) ==
    /\ Operation("unenroll")
    /\ p \in enrolled[n]
    /\ enrolled' = [enrolled EXCEPT ![n] = @ \ {p}]
    /\ UNCHANGED <<tables, queue, log, cursor, written, deleted>>

(***************************************************************************)
(* merge_projects, of one source.  The canonical project takes over the    *)
(* enrolment before the rows are queued under it, live memories and then   *)
(* sessions; the source's own waiting mutations go.                        *)
(***************************************************************************)
Merge(n, p, q) ==
    LET moved == [m \in Memory |-> IF m \in RowsOf(n, p)
                                   THEN [memories[n][m] EXCEPT !.project = q]
                                   ELSE memories[n][m]]
        targets == IF p \in enrolled[n] THEN enrolled[n] \cup {q} ELSE enrolled[n] IN
    /\ Operation("merge")
    /\ p # q
    /\ SessionsOf(n, p) \cup RowsOf(n, p) # {}
    /\ memories' = [memories EXCEPT ![n] = moved]
    /\ sessions' = [sessions EXCEPT ![n] =
                      [s \in Session |-> IF @[s] = p THEN q ELSE @[s]]]
    /\ \E ms \in SetToSeqs({PutMemory(m, moved[m]) : m \in LiveAmong(n, RowsOf(n, p))}),
          ss \in SetToSeqs(PutSessions(n, p, q)) :
           Requeue(n, NotOf(n, p), IfEnrolled(q, targets, ms \o ss))
    /\ enrolled' = [enrolled EXCEPT ![n] = targets \ {p}]
    /\ UNCHANGED <<log, cursor, written, deleted>>

-----------------------------------------------------------------------------
(* Replication (wire.rs).                                                  *)

Push(n) ==
    \E k \in waiting[n] :
        /\ \A j \in waiting[n] : k <= j
        /\ log' = Append(log, journal[n][k])
        /\ waiting' = [waiting EXCEPT ![n] = @ \ {k}]
        /\ UNCHANGED <<tables, enrolled, journal, cursor, history>>

\* The foreign key of observations: a row wants its session, and a session
\* that has rows cannot go.
CanApply(n, e) ==
    /\ e.op = "memory" => HasSession(n, e.body.session)
    /\ e.op = "session gone" => RowsIn(n, e.key) = {}

\* Mutant: the UPDATE of a row that is there leaves its project alone.
Upserted_KeepsProject(n, e) ==
    IF Has(n, e.key) THEN [e.body EXCEPT !.project = memories[n][e.key].project] ELSE e.body

\* What an upsert makes of the row; a tombstoned one is live again.
Upserted(n, e) == e.body

\* apply_sync_mutation_tx.  A delete of what is not there does nothing.
Apply(n, e) ==
    CASE e.op = "session" ->
           sessions' = [sessions EXCEPT ![n][e.key] = e.body] /\ UNCHANGED memories
      [] e.op = "session gone" ->
           SessionsGone(n, {e.key}) /\ UNCHANGED memories
      [] e.op = "memory" ->
           SetRow(n, e.key, Upserted(n, e)) /\ UNCHANGED sessions
      [] OTHER ->
           Gone(n, {m \in {e.key} : Has(n, m)}, e.op = "memory erased") /\ UNCHANGED sessions

Advance(n) == cursor[n] + 1

Behind(n) == cursor[n] < Len(log)

\* The next entry is applied and the cursor moves with it, or the pull fails
\* and nothing changes.
Pull(n) ==
    /\ Behind(n)
    /\ CanApply(n, log[cursor[n] + 1])
    /\ Apply(n, log[cursor[n] + 1])
    /\ cursor' = [cursor EXCEPT ![n] = Advance(n)]
    /\ UNCHANGED <<enrolled, queue, log, history>>

-----------------------------------------------------------------------------

Operations(n) ==
    \/ \E s \in Session : \/ CreateSession(n, s)
                          \/ \E m \in Memory : AddObservation(n, m, s) \/ Consolidate(n, m, s)
                          \/ DeleteSession(n, s)
                          \/ \E hard \in BOOLEAN : DeleteSessionAndContents(n, s, hard)
    \/ \E m \in Memory : \/ \E q \in Project : UpdateObservation(n, m, q)
                         \/ \E hard \in BOOLEAN : DeleteObservation(n, m, hard)
    \/ \E p \in Project : \/ \E hard \in BOOLEAN : DeleteProject(n, p, hard)
                          \/ PruneProject(n, p)
                          \/ Enroll(n, p) \/ Unenroll(n, p)
                          \/ \E q \in Project : Merge(n, p, q)

Next == UNCHANGED plan /\ \E n \in Store : Operations(n) \/ Push(n) \/ Pull(n)

Spec == Init /\ [][Next]_vars

-----------------------------------------------------------------------------
(* Properties.                                                             *)

\* Every variable keeps its type and no cursor is past the log.
TypeOK ==
    /\ plan \in Plans
    /\ sessions \in [Store -> [Session -> Project \cup {None}]]
    /\ memories \in [Store -> [Memory -> Row \cup {None}]]
    /\ enrolled \in [Store -> SUBSET Project]
    /\ journal \in [Store -> Seq(Mutation)]
    /\ waiting \in [Store -> SUBSET Nat]
    /\ \A n \in Store : waiting[n] \subseteq DOMAIN journal[n]
    /\ log \in Seq(Mutation)
    /\ cursor \in [Store -> 0..Len(log)]
    /\ writes \in 0..MaxWrites
    /\ written \subseteq Memory \X Text
    /\ deleted \subseteq Memory

(***************************************************************************)
(* A memory a store holds, tombstoned or not, has its session there: no    *)
(* delete of a session, a project or a peer takes it away                  *)
(* (delete_session, delete_project, apply_session_delete_tx).              *)
(***************************************************************************)
LocalReferences ==
    \A n \in Store, m \in Memory : Has(n, m) => HasSession(n, memories[n][m].session)

\* Every store replicates every project from the start, and goes on doing so.
AllShared ==
    /\ plan.enrolled = [n \in Store |-> Project]
    /\ plan.ops \cap {"enroll", "unenroll", "merge"} = {}

\* No memory moves from a project that is replicated to one that is not.
NoGhosts == "move" \notin plan.ops \/ AllShared

\* No memory is written under another project than its session's.
NoneAbroad == "consolidate" \notin plan.ops \/ AllShared

\* Sessions keep their project and are not deleted.
SessionsStay ==
    plan.ops \cap {"delete session", "delete contents", "delete project", "prune", "merge"} = {}

\* Nothing is deleted or moved.
OnlyGrows == plan.ops \subseteq {"create", "add", "update", "enroll", "unenroll"}

(***************************************************************************)
(* What a store pulls it can apply: the session of a memory is there       *)
(* before the memory, whether its peers replicated from the start or a     *)
(* backfill sent what they had.  An entry that cannot be applied is pulled *)
(* again and again, and nothing behind it ever arrives                     *)
(* (backfill_project_tx).                                                  *)
(***************************************************************************)
AppliesCleanly ==
    SessionsStay /\ NoGhosts /\ NoneAbroad =>
        \A n \in Store : Behind(n) => CanApply(n, log[cursor[n] + 1])

Quiet == \A n \in Store : waiting[n] = {} /\ ~Behind(n)

LiveIn(n, P) ==
    {t \in {<<m, memories[n][m]>> : m \in Memory} :
       t[2] # None /\ t[2].live /\ t[2].project \in P}

(***************************************************************************)
(* Stores with nothing left to push or pull hold the same live memories,   *)
(* with the same texts, in every project that both replicate, whether both *)
(* did so from the start or one came late, left and came again             *)
(* (apply_observation_upsert_tx, backfill_project_tx).                     *)
(***************************************************************************)
PeersAgree ==
    (AllShared \/ OnlyGrows) /\ Quiet => \A n, o \in Store :
        LET shared == enrolled[n] \cap enrolled[o] IN LiveIn(n, shared) = LiveIn(o, shared)

(***************************************************************************)
(* A memory nobody asked to delete is live in some store: replication      *)
(* alone never removes the last copy of it (update_observation,            *)
(* apply_observation_delete_tx).                                           *)
(***************************************************************************)
NothingVanishes ==
    \A t \in written : t[1] \notin deleted => \E n \in Store : Live(n, t[1])

(***************************************************************************)
(* NothingVanishes where no memory leaves replication by a move            *)
(* (LeavesGhost, update_observation).                                      *)
(***************************************************************************)
NothingSharedVanishes == NoGhosts => NothingVanishes

(***************************************************************************)
(* An edit is never undone by a text it was made from: once the stores are *)
(* quiet, what they show is not a part of something that was saved later.  *)
(* Of two concurrent edits one is lost, of two consecutive ones neither    *)
(* (apply_observation_upsert_tx).                                          *)
(***************************************************************************)
NotSuperseded ==
    AllShared /\ Quiet => \A n \in Store : \A t \in written :
        Live(n, t[1]) => ~ (memories[n][t[1]].text \subseteq t[2]
                              /\ memories[n][t[1]].text # t[2])

Sent(n, e) == \E k \in waiting[n] : journal[n][k] = e
Logged(e) == \E k \in DOMAIN log : log[k] = e

(***************************************************************************)
(* What a store holds in a project it replicates was sent, or waits to be, *)
(* also after it left and enrolled again: skipping the journal of a        *)
(* project that is not enrolled loses no history                           *)
(* (enqueue_serialized_mutation, enroll_project).                          *)
(***************************************************************************)
HistoryIsSent ==
    "merge" \notin plan.ops =>
    \A n \in Store :
        /\ \A p \in enrolled[n] : \A s \in SessionsOf(n, p) :
             LET e == PutSession(s, p) IN Sent(n, e) \/ Logged(e)
        /\ \A p \in enrolled[n] : \A m \in LiveAmong(n, RowsOf(n, p)) :
             LET e == PutMemory(m, memories[n][m]) IN Sent(n, e) \/ Logged(e)

=============================================================================
