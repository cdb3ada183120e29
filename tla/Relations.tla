----------------------------- MODULE Relations -----------------------------
(***************************************************************************)
(* Verdicts about pairs of memories (src/store/relations.rs) and how they  *)
(* travel between stores (the relation half of src/store/wire.rs and the   *)
(* deferred queue of src/store/replication.rs).                            *)
(*                                                                         *)
(* Every store holds memories and relations.  A search proposes a pair     *)
(* (pending, local to the store), an agent or a model judges it, and the   *)
(* judged row is replicated.  A relation whose memories are not here is    *)
(* set aside and replayed after every pulled mutation, and in batches of   *)
(* their own, where it is given up after some attempts.                    *)
(*                                                                         *)
(* Three things are read in one transaction and used in a later one: the   *)
(* candidates of find_candidates, the pairs of a semantic scan, which      *)
(* waits for a model in between, and the rows of a batch replay.           *)
(*                                                                         *)
(* What is abstracted: all memories are in one project, which every store  *)
(* replicates (Replicas models moves and enrolment); a memory is its row's *)
(* state, a verdict its verb; reasons, confidences and clocks are data.    *)
(***************************************************************************)
EXTENDS Naturals, Sequences

CONSTANTS
    Store,      \* stores that replicate one project
    Memory,
    Starts,     \* the sets of memories every store may hold at first
    Relation,   \* sync ids of relations
    Verb,       \* the verdicts that are recorded
    DeadAfter,  \* DEFERRED_DEAD_THRESHOLD
    MaxOps,     \* bound: operations of agents and models
    MaxReplays, \* bound: batch replays
    None

ASSUME StartAssumption == Starts \subseteq SUBSET Memory
ASSUME VerbAssumption == "supersedes" \in Verb
ASSUME BoundAssumption == {DeadAfter, MaxOps, MaxReplays} \subseteq Nat

VARIABLES
    memory,    \* observations: whether a row is there, and tombstoned
    relation,  \* memory_relations
    deferred,  \* sync_deferred_mutations
    outbox,    \* sync_mutations not pushed yet
    log,       \* the cloud's log
    cursor,    \* last_pulled_seq
    asked,     \* the pair find_candidates is about to file
    scan,      \* the pair a model is being asked about
    replay,    \* what a batch replay listed and has not come to
    overlaps,  \* may a batch replay run beside a pull?
    ops, replays

tables == <<memory, relation, deferred>>
wire == <<outbox, log, cursor>>
inFlight == <<asked, scan, replay>>
vars == <<memory, relation, deferred, outbox, log, cursor, asked, scan, replay,
          overlaps, ops, replays>>

Pair == Memory \X Memory

Verdict == [src : Memory, tgt : Memory, verb : Verb]

Row == [src : Memory, tgt : Memory, verb : Verb \cup {"pending"},
        status : {"pending", "judged", "orphaned"}]

Aside == [of : Verdict, dead : BOOLEAN, tries : Nat]

Mutation ==
    [kind : {"upsert", "soft", "hard"}, mem : Memory] \cup
    [kind : {"relation"}, id : Relation, of : Verdict]

Put(m) == [kind |-> "upsert", mem |-> m]
Judged(r, v) == [kind |-> "relation", id |-> r, of |-> v]

ASSUME NoneAssumption == None \notin Row \cup Aside \cup Pair

-----------------------------------------------------------------------------

Init ==
    /\ \E saved \in Starts : memory =
         [s \in Store |-> [m \in Memory |-> IF m \in saved THEN "live" ELSE "absent"]]
    /\ relation = [s \in Store |-> [r \in Relation |-> None]]
    /\ deferred = [s \in Store |-> [r \in Relation |-> None]]
    /\ outbox = [s \in Store |-> <<>>]
    /\ log = <<>>
    /\ cursor = [s \in Store |-> 0]
    /\ asked = [s \in Store |-> None]
    /\ scan = [s \in Store |-> None]
    /\ replay = [s \in Store |-> {}]
    /\ overlaps \in BOOLEAN
    /\ ops = 0
    /\ replays = 0

Operation == ops < MaxOps /\ ops' = ops + 1

Queue(s, e) == outbox' = [outbox EXCEPT ![s] = Append(@, e)]

Present(s, m) == memory[s][m] # "absent"

\* validate_cross_project_guard: a tombstoned memory is still a row, and
\* nothing asks for two different ones.
Judgeable(s, a, b) == Present(s, a) /\ Present(s, b)

Joins(row, a, b) == {row.src, row.tgt} = {a, b}

Between(s, a, b) == {r \in Relation : relation[s][r] # None /\ Joins(relation[s][r], a, b)}

\* A sync id is random: no store has used it.
Fresh(r) == \A s \in Store : relation[s][r] = None /\ deferred[s][r] = None

-----------------------------------------------------------------------------
(* Memories.                                                               *)

\* Mutant: only relations that start at the memory are marked.
Orphan_SourceOnly(rows, m) ==
    [r \in Relation |->
       IF rows[r] # None /\ rows[r].src = m
       THEN [rows[r] EXCEPT !.status = "orphaned"] ELSE rows[r]]

\* orphan_relations_tx: a memory that is gone for good takes every relation
\* with it, judged or not.
Orphan(rows, m) ==
    [r \in Relation |->
       IF rows[r] # None /\ m \in {rows[r].src, rows[r].tgt}
       THEN [rows[r] EXCEPT !.status = "orphaned"] ELSE rows[r]]

\* What a delete leaves, made here or pulled: a soft one the row.
Deleted(s, m, hard) ==
    /\ memory' = [memory EXCEPT ![s][m] = IF hard THEN "absent" ELSE "deleted"]
    /\ relation' = IF hard THEN [relation EXCEPT ![s] = Orphan(@, m)] ELSE relation

\* update_observation, told by what it queues.
Edit(s, m) ==
    /\ memory[s][m] = "live"
    /\ Operation
    /\ Queue(s, Put(m))
    /\ UNCHANGED <<tables, log, cursor, inFlight, overlaps, replays>>

\* delete_observation.
Delete(s, m, hard) ==
    /\ IF hard THEN Present(s, m) ELSE memory[s][m] = "live"
    /\ Operation
    /\ Deleted(s, m, hard)
    /\ Queue(s, [kind |-> IF hard THEN "hard" ELSE "soft", mem |-> m])
    /\ UNCHANGED <<deferred, log, cursor, inFlight, overlaps, replays>>

-----------------------------------------------------------------------------
(* Proposing and judging.                                                  *)

\* The search of find_candidates: live memories that no relation joins to
\* the one just saved, in either direction.
FindCandidates(s, a, b) ==
    /\ asked[s] = None
    /\ a # b /\ memory[s][a] = "live" /\ memory[s][b] = "live"
    /\ Between(s, a, b) = {}
    /\ Operation
    /\ asked' = [asked EXCEPT ![s] = <<a, b>>]
    /\ UNCHANGED <<tables, wire, scan, replay, overlaps, replays>>

\* Its INSERTs, in a transaction of their own that looks at nothing again.
\* A proposal is not replicated.
FilePending(s, r) ==
    /\ asked[s] # None
    /\ Fresh(r)
    /\ relation' = [relation EXCEPT ![s][r] =
         [src |-> asked[s][1], tgt |-> asked[s][2], verb |-> "pending", status |-> "pending"]]
    /\ asked' = [asked EXCEPT ![s] = None]
    /\ UNCHANGED <<memory, deferred, wire, scan, replay, overlaps, ops, replays>>

\* Mutant: a verdict that replaces another is not sent.
Record_OnlyNew(s, r, v) ==
    /\ relation' = [relation EXCEPT ![s][r] =
         [src |-> v.src, tgt |-> v.tgt, verb |-> v.verb, status |-> "judged"]]
    /\ outbox' = IF relation[s][r] = None
                 THEN [outbox EXCEPT ![s] = Append(@, Judged(r, v))] ELSE outbox

\* A row becomes a verdict and is queued (enqueue_relation_if_enrolled).
Record(s, r, v) ==
    /\ relation' = [relation EXCEPT ![s][r] =
         [src |-> v.src, tgt |-> v.tgt, verb |-> v.verb, status |-> "judged"]]
    /\ outbox' = [outbox EXCEPT ![s] = Append(@, Judged(r, v))]

\* judge_relation (mem_judge): whatever row the id names.
Judge(s, r, verb) ==
    LET row == relation[s][r] IN
    /\ row # None
    /\ Judgeable(s, row.src, row.tgt)
    /\ Operation
    /\ Record(s, r, [src |-> row.src, tgt |-> row.tgt, verb |-> verb])
    /\ UNCHANGED <<memory, deferred, log, cursor, inFlight, overlaps, replays>>

\* judge_relation_tx: a row that joins the pair in either direction gets the
\* verb and keeps its direction; without one a new row is inserted.
JudgePair(s, a, b, verb) ==
    IF Between(s, a, b) = {}
    THEN \E r \in Relation : Fresh(r) /\ Record(s, r, [src |-> a, tgt |-> b, verb |-> verb])
    ELSE \E r \in Between(s, a, b) :
           Record(s, r, [src |-> relation[s][r].src, tgt |-> relation[s][r].tgt,
                         verb |-> verb])

\* judge_by_semantic (mem_compare).  not_conflict records nothing.
Compare(s, a, b, verb) ==
    /\ Judgeable(s, a, b)
    /\ Operation
    /\ JudgePair(s, a, b, verb)
    /\ UNCHANGED <<memory, deferred, log, cursor, inFlight, overlaps, replays>>

Names(e, m) == e.kind # "relation" /\ e.mem = m

\* The id of a new memory is random too.
Unused(m) ==
    /\ \A s \in Store :
         memory[s][m] = "absent" /\ \A p \in DOMAIN outbox[s] : ~Names(outbox[s][p], m)
    /\ \A p \in DOMAIN log : ~Names(log[p], m)

\* consolidate_observations: a new memory that supersedes a live one.
Consolidate(s, n, a, r) ==
    /\ Unused(n)
    /\ memory[s][a] = "live"
    /\ Fresh(r)
    /\ Operation
    /\ memory' = [memory EXCEPT ![s][n] = "live"]
    /\ relation' = [relation EXCEPT ![s][r] =
         [src |-> n, tgt |-> a, verb |-> "supersedes", status |-> "judged"]]
    /\ outbox' = [outbox EXCEPT ![s] =
         @ \o <<Put(n), Judged(r, [src |-> n, tgt |-> a, verb |-> "supersedes"])>>]
    /\ UNCHANGED <<deferred, log, cursor, inFlight, overlaps, replays>>

\* pair_is_judged.
IsJudged(s, a, b) == \E r \in Between(s, a, b) : relation[s][r].status = "judged"

\* collect_pairs of a semantic scan: live memories nobody ruled on.
ScanPair(s, a, b) ==
    /\ scan[s] = None
    /\ a # b /\ memory[s][a] = "live" /\ memory[s][b] = "live"
    /\ ~IsJudged(s, a, b)
    /\ Operation
    /\ scan' = [scan EXCEPT ![s] = <<a, b>>]
    /\ UNCHANGED <<tables, wire, asked, replay, overlaps, replays>>

\* The model's verdict is stored when it comes, or nothing is: not_conflict,
\* a failed comparison, a pair that is no longer there.
ScanVerdict(s) ==
    /\ scan[s] # None
    /\ scan' = [scan EXCEPT ![s] = None]
    /\ \/ /\ Judgeable(s, scan[s][1], scan[s][2])
          /\ \E verb \in Verb : JudgePair(s, scan[s][1], scan[s][2], verb)
       \/ UNCHANGED <<relation, outbox>>
    /\ UNCHANGED <<memory, deferred, log, cursor, asked, replay, overlaps, ops, replays>>

-----------------------------------------------------------------------------
(* Replication.                                                            *)

Push(s) ==
    /\ outbox[s] # <<>>
    /\ log' = Append(log, Head(outbox[s]))
    /\ outbox' = [outbox EXCEPT ![s] = Tail(@)]
    /\ UNCHANGED <<tables, cursor, inFlight, overlaps, ops, replays>>

\* The rows of the two memories are counted, and have to be two.
BothHere(mems, v) ==
    v.src # v.tgt /\ mems[v.src] # "absent" /\ mems[v.tgt] # "absent"

\* apply_relation_upsert_tx of a relation whose memories are here.
Upserted(v) == [src |-> v.src, tgt |-> v.tgt, verb |-> v.verb, status |-> "judged"]

\* ... and of one whose memories are not: the row is inserted, or gets the
\* newer payload and another chance, with the attempts it has had.
SetAside(old, v) ==
    [of |-> v, dead |-> FALSE, tries |-> IF old = None THEN 0 ELSE old.tries]

\* Mutant: the deferred queue is left to the batch replays.
Ready_Never(mems, aside) == {}

\* replay_deferred_relations_tx: the deferred rows, dead ones left out, that
\* can be applied now.  The others are set aside again as they were.
Ready(mems, aside) ==
    {r \in Relation : aside[r] # None /\ ~aside[r].dead /\ BothHere(mems, aside[r].of)}

\* The deferred rows are replayed over the tables a mutation left.
Replayed(s, mems, rows, aside) ==
    /\ memory' = [memory EXCEPT ![s] = mems]
    /\ relation' = [relation EXCEPT ![s] = [r \in Relation |->
         IF r \in Ready(mems, aside) THEN Upserted(aside[r].of) ELSE rows[r]]]
    /\ deferred' = [deferred EXCEPT ![s] = [r \in Relation |->
         IF r \in Ready(mems, aside) THEN None ELSE aside[r]]]

\* apply_sync_mutation_tx.  A delete of what is not here does nothing.
Apply(s, e) ==
    LET mems == memory[s]
        rows == relation[s]
        aside == deferred[s] IN
    \/ /\ e.kind = "upsert"
       /\ Replayed(s, [mems EXCEPT ![e.mem] = "live"], rows, aside)
    \/ /\ e.kind = "soft"
       /\ Replayed(s, [mems EXCEPT ![e.mem] = IF @ = "absent" THEN @ ELSE "deleted"],
                   rows, aside)
    \/ /\ e.kind = "hard"
       /\ Replayed(s, [mems EXCEPT ![e.mem] = "absent"],
                   IF mems[e.mem] = "absent" THEN rows ELSE Orphan(rows, e.mem), aside)
    \/ /\ e.kind = "relation"
       /\ IF BothHere(mems, e.of)
          THEN Replayed(s, mems, [rows EXCEPT ![e.id] = Upserted(e.of)],
                        [aside EXCEPT ![e.id] = None])
          ELSE Replayed(s, mems, rows, [aside EXCEPT ![e.id] = SetAside(@, e.of)])

\* apply_pulled_sync_mutation: the mutation, the replay and the cursor in
\* one transaction.  A cycle replays a batch before it pulls.
Pull(s) ==
    /\ cursor[s] < Len(log)
    /\ overlaps \/ replay[s] = {}
    /\ Apply(s, log[cursor[s] + 1])
    /\ cursor' = [cursor EXCEPT ![s] = @ + 1]
    /\ UNCHANGED <<outbox, log, inFlight, overlaps, ops, replays>>

\* replay_deferred_sync_mutations lists the queue first ...
ListDeferred(s) ==
    /\ replay[s] = {}
    /\ replays < MaxReplays
    /\ replays' = replays + 1
    /\ replay' = [replay EXCEPT ![s] =
         {[id |-> r, row |-> deferred[s][r]] :
            r \in {q \in Relation : deferred[s][q] # None /\ ~deferred[s][q].dead}}]
    /\ UNCHANGED <<tables, wire, asked, scan, overlaps, ops>>

GivenUp(tries) == tries >= DeadAfter

\* ... and tries each row as it was listed in a transaction of its own.  One
\* that is still deferred then has had an attempt more.
ReplayOne(s, i) ==
    /\ replay' = [replay EXCEPT ![s] = @ \ {i}]
    /\ IF BothHere(memory[s], i.row.of)
       THEN /\ relation' = [relation EXCEPT ![s][i.id] = Upserted(i.row.of)]
            /\ deferred' = [deferred EXCEPT ![s][i.id] = None]
       ELSE /\ deferred' = [deferred EXCEPT ![s][i.id] =
                 [of |-> i.row.of, tries |-> i.row.tries + 1,
                  dead |-> GivenUp(i.row.tries + 1)]]
            /\ UNCHANGED relation
    /\ UNCHANGED <<memory, wire, asked, scan, overlaps, ops, replays>>

-----------------------------------------------------------------------------

Next ==
    \/ \E s \in Store, m \in Memory : Edit(s, m) \/ \E hard \in BOOLEAN : Delete(s, m, hard)
    \/ \E s \in Store, a, b \in Memory :
         \/ FindCandidates(s, a, b)
         \/ ScanPair(s, a, b)
         \/ \E verb \in Verb : Compare(s, a, b, verb)
         \/ \E r \in Relation : Consolidate(s, a, b, r)
    \/ \E s \in Store, r \in Relation :
         FilePending(s, r) \/ \E verb \in Verb : Judge(s, r, verb)
    \/ \E s \in Store :
         \/ ScanVerdict(s) \/ Push(s) \/ Pull(s) \/ ListDeferred(s)
         \/ \E i \in replay[s] : ReplayOne(s, i)

Spec == Init /\ [][Next]_vars

\* Fairness: replication goes on, and a model that was asked answers or fails.
FairSpec ==
    Spec /\ \A s \in Store : WF_vars(Push(s)) /\ WF_vars(Pull(s)) /\ WF_vars(ScanVerdict(s))

-----------------------------------------------------------------------------
(* Properties.                                                             *)

\* Every variable keeps its type; what is queued or set aside is a verdict
\* and not a proposal.
TypeOK ==
    /\ memory \in [Store -> [Memory -> {"absent", "live", "deleted"}]]
    /\ relation \in [Store -> [Relation -> Row \cup {None}]]
    /\ deferred \in [Store -> [Relation -> Aside \cup {None}]]
    /\ outbox \in [Store -> Seq(Mutation)]
    /\ log \in Seq(Mutation)
    /\ cursor \in [Store -> 0..Len(log)]
    /\ asked \in [Store -> Pair \cup {None}]
    /\ scan \in [Store -> Pair \cup {None}]
    /\ replay \in [Store -> SUBSET [id : Relation, row : Aside]]
    /\ overlaps \in BOOLEAN
    /\ ops \in Nat /\ replays \in Nat

(***************************************************************************)
(* A verdict is about two memories the store holds: no order of deletes,   *)
(* pulled deletes, verdicts and replays leaves one that claims something   *)
(* about nothing (orphan_relations_tx, validate_cross_project_guard).      *)
(***************************************************************************)
VerdictsJoin ==
    \A s \in Store, r \in Relation :
        relation[s][r] # None /\ relation[s][r].status = "judged" =>
            Present(s, relation[s][r].src) /\ Present(s, relation[s][r].tgt)

(***************************************************************************)
(* A relation that waits has something to wait for: as soon as both of its *)
(* memories are here it is applied, in the transaction that brought the    *)
(* second one (replay_deferred_relations_tx).  Only a row given up stays.  *)
(***************************************************************************)
DeferredWaits ==
    \A s \in Store, r \in Relation :
        deferred[s][r] # None /\ ~deferred[s][r].dead => ~BothHere(memory[s], deferred[s][r].of)

Quiet == \A s \in Store : outbox[s] = <<>> /\ cursor[s] = Len(log) /\ replay[s] = {}

\* The verdict the log ends on for a relation.
IsLast(p, r) ==
    /\ log[p].kind = "relation" /\ log[p].id = r
    /\ \A q \in (p + 1)..Len(log) : log[q].kind = "relation" => log[q].id # r

(***************************************************************************)
(* Stores that have nothing left to send or pull hold the verdict the log  *)
(* ends on wherever they hold its memories, if only as the mark of a       *)
(* memory that was gone for a while: a relation set aside is never         *)
(* replayed over a newer one.  It holds while batch replays and pulls take *)
(* turns, as they do within a cycle (pull_remote).                         *)
(***************************************************************************)
VerdictsFollowLog ==
    Quiet /\ ~overlaps =>
        \A s \in Store, r \in Relation, p \in 1..Len(log) :
            /\ IsLast(p, r)
            /\ BothHere(memory[s], log[p].of)
            /\ deferred[s][r] = None \/ ~deferred[s][r].dead
            => /\ relation[s][r] # None
               /\ relation[s][r].src = log[p].of.src /\ relation[s][r].tgt = log[p].of.tgt
               /\ relation[s][r].verb = log[p].of.verb

\* not_superseded keeps a memory out of every listing.
Hidden(s, m) ==
    \E r \in Relation : relation[s][r] # None /\ relation[s][r].status = "judged"
                        /\ relation[s][r].verb = "supersedes" /\ relation[s][r].tgt = m

(***************************************************************************)
(* The verb "supersedes" is put to the model as "B is the later word on    *)
(* the same point: A is now out of date" (llm.rs, PROMPT): no answer of    *)
(* the model hides the second note of the pair it was asked about.         *)
(***************************************************************************)
LaterWordShows ==
    [][\A s \in Store, b \in Memory :
         (scan[s] # None /\ scan'[s] = None /\ b = scan[s][2]) =>
            (Hidden(s, b)' => Hidden(s, b))]_vars

=============================================================================
