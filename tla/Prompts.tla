------------------------------ MODULE Prompts ------------------------------
(***************************************************************************)
(* Prompts and their tombstones (prompt_deletions) on several stores that  *)
(* share a log: src/store/prompts.rs, the deletes of src/store/projects.rs *)
(* and src/store/sessions.rs, and what pulling does (src/store/wire.rs).   *)
(*                                                                         *)
(* A prompt's row is its created_at and a tombstone its deleted_at, both   *)
(* by the clock of the device that wrote them; whether a pulled prompt is  *)
(* taken for deleted depends on nothing else.  Sessions are left out: they *)
(* are in Replicas.  A store pushes its journal in order and applies the   *)
(* log in order, its own mutations included.                               *)
(***************************************************************************)
EXTENDS Naturals, Sequences, FiniteSets, FiniteSetsExt, SequencesExt

CONSTANTS
    Store,
    Prompt,   \* sync_ids, never used twice
    Skew,     \* how far a clock may be behind
    MaxTime,  \* bound: operations, each a moment of its own
    None

VARIABLES
    prompts,   \* created_at of each prompt a store holds
    gone,      \* prompt_deletions
    behind,    \* how far the clock of a device is behind
    enrolled,  \* does a store replicate the project?
    outbox, log, cursor,
    now,
    born,      \* prompts that were ever added
    unsent     \* prompts that were deleted where the project was not enrolled

rows == <<prompts, gone>>
queue == <<enrolled, outbox>>
past == <<born, unsent>>
vars == <<rows, behind, queue, log, cursor, now, past>>

Stamp == 0..(MaxTime + Skew)
Mutation == [op : {"prompt", "prompt gone"}, key : Prompt, at : Stamp]

TypeOK ==
    /\ prompts \in [Store -> [Prompt -> Stamp \cup {None}]]
    /\ gone \in [Store -> [Prompt -> Stamp \cup {None}]]
    /\ behind \in [Store -> 0..Skew]
    /\ enrolled \in [Store -> BOOLEAN]
    /\ outbox \in [Store -> Seq(Mutation)]
    /\ log \in Seq(Mutation)
    /\ cursor \in [Store -> 0..Len(log)]
    /\ now \in 0..MaxTime
    /\ born \in SUBSET Prompt /\ unsent \in SUBSET born

Init ==
    /\ prompts = [n \in Store |-> [p \in Prompt |-> None]]
    /\ gone = prompts
    /\ behind \in [Store -> 0..Skew]
    /\ enrolled \in [Store -> BOOLEAN]
    /\ outbox = [n \in Store |-> <<>>]
    /\ log = <<>>
    /\ cursor = [n \in Store |-> 0]
    /\ now = 0
    /\ born = {} /\ unsent = {}

Moment == now < MaxTime /\ now' = now + 1

\* What sqlite_now says on a device.
Clock(n) == now + Skew - behind[n]

Put(n, p) == [op |-> "prompt", key |-> p, at |-> prompts[n][p]]
Gone(p, at) == [op |-> "prompt gone", key |-> p, at |-> at]

\* enqueue_mutation: only for a project that is enrolled.
Enqueue(n, es) ==
    /\ outbox' = [outbox EXCEPT ![n] = IF enrolled[n] THEN @ \o es ELSE @]
    /\ UNCHANGED enrolled

HeldBy(n) == {p \in Prompt : prompts[n][p] # None}

-----------------------------------------------------------------------------

\* add_prompt under a fresh sync_id.  An echo of the last one adds nothing.
Add(n, p) ==
    /\ p \notin born /\ born' = born \cup {p}
    /\ Moment
    /\ prompts' = [prompts EXCEPT ![n][p] = Clock(n)]
    /\ Enqueue(n, <<[op |-> "prompt", key |-> p, at |-> Clock(n)]>>)
    /\ UNCHANGED <<gone, behind, log, cursor, unsent>>

\* What is deleted before the project is enrolled is not told to anybody.
Untold(n, held) ==
    /\ unsent' = IF enrolled[n] THEN unsent ELSE unsent \cup held
    /\ UNCHANGED born

\* delete_prompt.
Delete(n, p) ==
    /\ prompts[n][p] # None
    /\ Moment
    /\ prompts' = [prompts EXCEPT ![n][p] = None]
    /\ gone' = [gone EXCEPT ![n][p] = Clock(n)]
    /\ Enqueue(n, <<Gone(p, Clock(n))>>)
    /\ Untold(n, {p})
    /\ UNCHANGED <<behind, log, cursor>>

\* Mutant: a project's prompts are deleted without a word.
DeleteAll_Silent(n) ==
    /\ HeldBy(n) # {}
    /\ Moment
    /\ prompts' = [prompts EXCEPT ![n] = [p \in Prompt |-> None]]
    /\ Enqueue(n, <<>>)
    /\ Untold(n, HeldBy(n))
    /\ UNCHANGED <<gone, behind, log, cursor>>

\* delete_project, prune_project and a session deleted with its contents: the
\* deletes are queued, and no tombstone is left here.
DeleteAll(n) ==
    LET held == SetToSeq(HeldBy(n)) IN
    /\ held # <<>>
    /\ Moment
    /\ prompts' = [prompts EXCEPT ![n] = [p \in Prompt |-> None]]
    /\ Enqueue(n, [i \in DOMAIN held |-> Gone(held[i], Clock(n))])
    /\ Untold(n, HeldBy(n))
    /\ UNCHANGED <<gone, behind, log, cursor>>

\* enroll_project: what waits goes, and the prompts that are here are queued.
Enroll(n) ==
    LET held == SetToSeq(HeldBy(n)) IN
    /\ ~enrolled[n]
    /\ enrolled' = [enrolled EXCEPT ![n] = TRUE]
    /\ outbox' = [outbox EXCEPT ![n] = [i \in DOMAIN held |-> Put(n, held[i])]]
    /\ UNCHANGED <<rows, behind, log, cursor, now, past>>

\* merge_projects sends every prompt again, under the project's new name.
Merge(n) ==
    LET held == SetToSeq(HeldBy(n)) IN
    /\ held # <<>>
    /\ Moment
    /\ Enqueue(n, [i \in DOMAIN held |-> Put(n, held[i])])
    /\ UNCHANGED <<rows, behind, log, cursor, past>>

-----------------------------------------------------------------------------

Push(n) ==
    /\ outbox[n] # <<>>
    /\ log' = Append(log, Head(outbox[n]))
    /\ outbox' = [outbox EXCEPT ![n] = Tail(@)]
    /\ UNCHANGED <<rows, behind, enrolled, cursor, now, past>>

\* A prompt that is no younger than its tombstone.
TakenForDeleted(n, e) == gone[n][e.key] # None /\ e.at <= gone[n][e.key]

\* apply_prompt_upsert_tx.
ApplyPrompt(n, e) ==
    /\ e.op = "prompt"
    /\ IF TakenForDeleted(n, e)
       THEN UNCHANGED rows
       ELSE /\ prompts' = [prompts EXCEPT ![n][e.key] = e.at]
            /\ gone' = [gone EXCEPT ![n][e.key] = None]

\* Mutant: no tombstone for a prompt that is not here.
ApplyDelete_OfHeld(n, e) ==
    /\ e.op = "prompt gone"
    /\ prompts' = [prompts EXCEPT ![n][e.key] = None]
    /\ gone' = IF prompts[n][e.key] = None THEN gone ELSE [gone EXCEPT ![n][e.key] = e.at]

\* apply_prompt_delete_tx: the row goes and the tombstone is written, row or not.
ApplyDelete(n, e) ==
    /\ e.op = "prompt gone"
    /\ prompts' = [prompts EXCEPT ![n][e.key] = None]
    /\ gone' = [gone EXCEPT ![n][e.key] = e.at]

Pull(n) ==
    /\ cursor[n] < Len(log)
    /\ LET e == log[cursor[n] + 1] IN ApplyPrompt(n, e) \/ ApplyDelete(n, e)
    /\ cursor' = [cursor EXCEPT ![n] = @ + 1]
    /\ UNCHANGED <<behind, queue, log, now, past>>

Next ==
    \E n \in Store :
        \/ \E p \in Prompt : Add(n, p) \/ Delete(n, p)
        \/ DeleteAll(n) \/ Enroll(n) \/ Merge(n)
        \/ Push(n) \/ Pull(n)

Spec == Init /\ [][Next]_vars

-----------------------------------------------------------------------------
(* Properties.                                                             *)

\* A store has nothing to send and nothing to take.
Quiet(n) == outbox[n] = <<>> /\ cursor[n] = Len(log)

AllQuiet == \A n \in Store : enrolled[n] /\ Quiet(n)

TrueClocks == \A n \in Store : behind[n] = 0

(***************************************************************************)
(* A prompt whose delete reached the log is on no store that has seen the  *)
(* delete, whatever enrolment or merge sends it once more, so long as no   *)
(* clock is behind (apply_prompt_upsert_tx, apply_prompt_delete_tx).       *)
(***************************************************************************)
DeletedStaysDeleted ==
    TrueClocks =>
        \A n \in Store : \A i \in 1..cursor[n] :
            log[i].op = "prompt gone" => prompts[n][log[i].key] = None

(***************************************************************************)
(* Stores that have sent and taken everything hold the same prompts,       *)
(* however wrong their clocks are (apply_prompt_upsert_tx compares two     *)
(* stamps that both travelled); but a delete made before the project was   *)
(* enrolled is not sent with it (backfill_project_tx).                     *)
(***************************************************************************)
SamePrompts ==
    AllQuiet =>
        \A m, n \in Store : \A p \in Prompt \ unsent : prompts[m][p] = prompts[n][p]

=============================================================================
