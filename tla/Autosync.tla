------------------------------ MODULE Autosync ------------------------------
(***************************************************************************)
(* Background replication of ONE local store with the cloud               *)
(* (src/cloud/autosync.rs over the journal, lease and cursor kept by       *)
(* src/store/replication.rs).                                              *)
(*                                                                         *)
(* Several processes -- MCP servers, `leteo serve`, `leteo cloud sync` --  *)
(* open the same SQLite file, and each runs the same cycle: skip while     *)
(* backing off, take the lease, push the journal in batches, pull the      *)
(* cloud log page by page, release the lease, record the outcome.  Every   *)
(* store call is one SQLite transaction and is one action here; every HTTP *)
(* call is an await between two of them, where the process can be          *)
(* cancelled, time out or die.                                             *)
(*                                                                         *)
(* What is abstracted: the journal holds only rows of allowed projects;    *)
(* a mutation is the memory it rewrites and its journal sequence, and      *)
(* applying it is "last applied wins", which is what the apply path does   *)
(* for a memory (StoreReplica models it in detail); clocks are two flags,  *)
(* `leaseLive` and `backoff`, that flip when the time has passed; the      *)
(* cloud log is read in the order it was committed (CloudLog models        *)
(* PostgreSQL's commit order).                                             *)
(***************************************************************************)
EXTENDS Naturals, Sequences, FiniteSets

CONSTANTS
    Worker,        \* processes that replicate this store
    Memory,        \* memories the journal talks about
    PushBatch,     \* AutosyncConfig::push_batch_size
    PullBatch,     \* AutosyncConfig::pull_batch_size
    MaxEdits,      \* bound: local writes
    MaxPeer,       \* bound: mutations other devices push
    MaxFaults,     \* bound: timeouts, lost responses, crashes, shutdowns
    LateRequests,  \* may a request outlive the client that abandoned it?
    LeaseOutlives, \* is lease_ttl longer than every cycle that runs under it?
    None           \* no lease owner; no version of a memory

ASSUME BatchAssumption == PushBatch \in Nat \ {0} /\ PullBatch \in Nat \ {0}
ASSUME BoundAssumption == MaxEdits \in Nat /\ MaxPeer \in Nat /\ MaxFaults \in Nat
ASSUME SwitchAssumption == LateRequests \in BOOLEAN /\ LeaseOutlives \in BOOLEAN
ASSUME NoneAssumption == None \notin Worker

Dead == "dead"     \* a lease owner whose process is gone (ids are never reused)

ASSUME DeadAssumption == Dead \notin Worker /\ Dead # None

VARIABLES
    journal,     \* sync_mutations, indexed by seq: the memory each row rewrites
    acked,       \* seqs with acked_at set, which pruning may delete from then on
    row,         \* the version each memory currently holds
    cursor,      \* sync_state.last_pulled_seq
    leaseOwner,  \* sync_state.lease_owner
    leaseLive,   \* sync_state.lease_until > now
    backoff,     \* sync_state.backoff_until > now
    pc,          \* where each worker's cycle is
    batch,       \* the seqs a worker listed and is pushing
    since,       \* the `cursor` local of pull_remote
    pageEnd,     \* last position of the page being applied
    more,        \* has_more of that page
    late,        \* pushes whose client stopped waiting for them
    cloud,       \* cloud_mutations: the entry at each seq
    faults       \* how many faults have happened

storeVars  == <<journal, acked, row, cursor>>
leaseVars  == <<leaseOwner, leaseLive, backoff>>
workerVars == <<pc, batch, since, pageEnd, more>>
vars == <<journal, acked, row, cursor, leaseOwner, leaseLive, backoff,
          pc, batch, since, pageEnd, more, late, cloud, faults>>

Phase == {"idle", "ready", "push", "pushing", "accepted", "ack", "pull",
          "pulling", "apply", "succeeded", "healthy", "failed", "unwell"}

\* The phases between acquire_sync_lease and release_sync_lease.
InCycle == {"push", "pushing", "accepted", "ack", "pull", "pulling", "apply",
            "succeeded", "failed"}

(***************************************************************************)
(* A mutation as the cloud stores it: own ones carry the seq of the        *)
(* journal row, those of other devices a number of their own.              *)
(***************************************************************************)
Entry == [mem : Memory, src : {"own", "peer"}, seq : Nat \ {0}]

ASSUME NoVersionAssumption == None \notin Entry

Own(i) == [mem |-> journal[i], src |-> "own", seq |-> i]

Seqs == 1..Len(journal)

(***************************************************************************)
(* list_pending_sync_mutations: the unacknowledged rows in seq order, at   *)
(* most PushBatch of them.                                                 *)
(***************************************************************************)
Pending == Seqs \ acked

\* Mutant: the newest rows are taken instead of the oldest.
NextBatch_NewestFirst ==
    {i \in Pending : Cardinality({j \in Pending : j > i}) < PushBatch}

NextBatch == {i \in Pending : Cardinality({j \in Pending : j < i}) < PushBatch}

\* Mutant: the batch goes out newest first.
InOrder_Descending(S) ==
    {s \in [1..Cardinality(S) -> S] :
       /\ \A i \in S : \E k \in DOMAIN s : s[k] = i
       /\ \A k, l \in DOMAIN s : k < l => s[k] > s[l]}

InOrder(S) == {s \in [1..Cardinality(S) -> S] :
                 /\ \A i \in S : \E k \in DOMAIN s : s[k] = i
                 /\ \A k, l \in DOMAIN s : k < l => s[k] < s[l]}

\* What local_mutation_entry sends for the rows of a batch, in its order.
Entries(b) == [k \in DOMAIN b |-> Own(b[k])]

-----------------------------------------------------------------------------

Init ==
    /\ journal = <<>>
    /\ acked = {}
    /\ row = [m \in Memory |-> None]
    /\ cursor = 0
    /\ leaseOwner = None
    /\ leaseLive = FALSE
    /\ backoff = FALSE
    /\ pc = [w \in Worker |-> "idle"]
    /\ batch = [w \in Worker |-> <<>>]
    /\ since = [w \in Worker |-> 0]
    /\ pageEnd = [w \in Worker |-> 0]
    /\ more = [w \in Worker |-> FALSE]
    /\ late = {}
    /\ cloud = <<>>
    /\ faults = 0

Goto(w, phase) == pc' = [pc EXCEPT ![w] = phase]

\* The locals of push_pending and pull_remote end with the call.
Forget(w) ==
    /\ batch' = [batch EXCEPT ![w] = <<>>]
    /\ since' = [since EXCEPT ![w] = 0]
    /\ pageEnd' = [pageEnd EXCEPT ![w] = 0]
    /\ more' = [more EXCEPT ![w] = FALSE]

(***************************************************************************)
(* A local write: the row and its journal entry in one transaction.  seq   *)
(* is AUTOINCREMENT: the number of a pruned row is never used again.         *)
(***************************************************************************)
Edit(m) ==
    /\ Len(journal) < MaxEdits
    /\ journal' = Append(journal, m)
    /\ row' = [row EXCEPT ![m] = [mem |-> m, src |-> "own", seq |-> Len(journal) + 1]]
    /\ UNCHANGED <<acked, cursor, leaseVars, workerVars, late, cloud, faults>>

-----------------------------------------------------------------------------
(* run_cycle: the way in.                                                  *)

\* get_sync_state and the backoff test: a cycle inside its backoff is skipped.
ReadState(w) ==
    /\ pc[w] = "idle"
    /\ ~backoff
    /\ Goto(w, "ready")
    /\ UNCHANGED <<storeVars, leaseVars, batch, since, pageEnd, more, late, cloud, faults>>

\* Mutant: the UPDATE has no condition.
LeaseFree_Always(w) == TRUE

\* Mutant: the expiry is not looked at.
LeaseFree_NoExpiry(w) == leaseOwner \in {None, w}

\* acquire_sync_lease, whose UPDATE matches a row nobody holds, that this
\* owner holds, or whose lease has run out.
LeaseFree(w) == leaseOwner \in {None, w} \/ ~leaseLive

AcquireLease(w) ==
    /\ pc[w] = "ready"
    /\ LeaseFree(w)
    /\ leaseOwner' = w
    /\ leaseLive' = TRUE
    /\ Goto(w, "push")
    /\ UNCHANGED <<storeVars, backoff, batch, since, pageEnd, more, late, cloud, faults>>

LeaseRefused(w) ==
    /\ pc[w] = "ready"
    /\ ~LeaseFree(w)
    /\ Goto(w, "idle")
    /\ UNCHANGED <<storeVars, leaseVars, batch, since, pageEnd, more, late, cloud, faults>>

-----------------------------------------------------------------------------
(* push_pending.                                                           *)

NothingToPush(w) ==
    /\ pc[w] = "push"
    /\ Pending = {}
    /\ Goto(w, "pull")
    /\ UNCHANGED <<storeVars, leaseVars, batch, since, pageEnd, more, late, cloud, faults>>

\* List a batch and POST it.
SendBatch(w) ==
    /\ pc[w] = "push"
    /\ Pending # {}
    /\ \E b \in InOrder(NextBatch) : batch' = [batch EXCEPT ![w] = b]
    /\ Goto(w, "pushing")
    /\ UNCHANGED <<storeVars, leaseVars, since, pageEnd, more, late, cloud, faults>>

\* The server inserts the whole batch in one transaction (insert_mutations)
\* and answers with one seq per entry.  It looks for no earlier copy.
CloudAccepts(w) ==
    /\ pc[w] = "pushing"
    /\ cloud' = cloud \o Entries(batch[w])
    /\ Goto(w, "accepted")
    /\ UNCHANGED <<storeVars, leaseVars, batch, since, pageEnd, more, late, faults>>

\* accepted_seqs has the length of the batch.
ResponseArrives(w) ==
    /\ pc[w] = "accepted"
    /\ Goto(w, "ack")
    /\ UNCHANGED <<storeVars, leaseVars, batch, since, pageEnd, more, late, cloud, faults>>

\* Mutant: everything listed as pending now is marked.
AckedBy_AllPending(w) == Seqs

\* Mutant: the server's accepted_seqs are taken for the local ones.
AckedBy_ServerSeqs(w) == {Len(cloud) - Len(batch[w]) + k : k \in DOMAIN batch[w]}

AckedBy(w) == {batch[w][k] : k \in DOMAIN batch[w]}

\* ack_sync_mutation_seqs: marks the rows of the batch (and prunes rows
\* acknowledged long ago, which no step reads again).  A short batch was
\* the last one.
AckBatch(w) ==
    /\ pc[w] = "ack"
    /\ acked' = acked \cup AckedBy(w)
    /\ Goto(w, IF Len(batch[w]) < PushBatch THEN "pull" ELSE "push")
    /\ batch' = [batch EXCEPT ![w] = <<>>]
    /\ UNCHANGED <<journal, row, cursor, leaseVars, since, pageEnd, more, late,
                   cloud, faults>>

-----------------------------------------------------------------------------
(* pull_remote.                                                            *)

\* last_pulled_seq is read once, before the first page.
ReadCursor(w) ==
    /\ pc[w] = "pull"
    /\ since' = [since EXCEPT ![w] = cursor]
    /\ Goto(w, "pulling")
    /\ UNCHANGED <<storeVars, leaseVars, batch, pageEnd, more, late, cloud, faults>>

\* list_mutations_since: the entries after `since`, in order, at most
\* PullBatch of them; one row more than that is fetched to tell has_more.
HasMore(w) == Len(cloud) > since[w] + PullBatch

\* Mutant: the row fetched only to tell has_more is cut off a short page too.
LastOfPage_CutShort(w) ==
    IF HasMore(w) THEN since[w] + PullBatch
    ELSE IF Len(cloud) > since[w] THEN Len(cloud) - 1 ELSE since[w]

LastOfPage(w) == IF HasMore(w) THEN since[w] + PullBatch ELSE Len(cloud)

PageArrives(w) ==
    /\ pc[w] = "pulling"
    /\ more' = [more EXCEPT ![w] = HasMore(w)]
    /\ pageEnd' = [pageEnd EXCEPT ![w] = LastOfPage(w)]
    /\ Goto(w, "apply")
    /\ UNCHANGED <<storeVars, leaseVars, batch, since, late, cloud, faults>>

\* Mutant: the cursor is not read again.
AlreadyApplied_NotReRead(pos) == FALSE

AlreadyApplied(pos) == pos <= cursor

\* Mutant: entries this store pushed are taken for applied.
Applied_SkipsEcho(e) ==
    IF e.src = "own" THEN row ELSE [row EXCEPT ![e.mem] = e]

\* apply_sync_mutation_tx: the entry replaces what the memory held.
Applied(e) == [row EXCEPT ![e.mem] = e]

\* apply_pulled_sync_mutation: one transaction that re-reads the stored
\* cursor, skips what is at or behind it, and otherwise applies the mutation
\* and moves the cursor together.
ApplyNext(w) ==
    LET pos == since[w] + 1 IN
    /\ pc[w] = "apply"
    /\ pos <= pageEnd[w]
    /\ since' = [since EXCEPT ![w] = pos]
    /\ IF AlreadyApplied(pos)
       THEN UNCHANGED <<row, cursor>>
       ELSE /\ row' = Applied(cloud[pos])
            /\ cursor' = pos
    /\ UNCHANGED <<journal, acked, leaseVars, pc, batch, pageEnd, more, late,
                   cloud, faults>>

\* continue_pulling: another page while has_more.
PageDone(w) ==
    /\ pc[w] = "apply"
    /\ since[w] = pageEnd[w]
    /\ \/ more[w] /\ Goto(w, "pulling") /\ UNCHANGED <<batch, since, pageEnd, more>>
       \/ ~more[w] /\ Goto(w, "succeeded") /\ Forget(w)
    /\ UNCHANGED <<storeVars, leaseVars, late, cloud, faults>>

-----------------------------------------------------------------------------
(* run_cycle: the way out.  release_sync_lease comes first and only the    *)
(* owner's own lease is cleared; the outcome is recorded after it.         *)

Release(w) ==
    IF leaseOwner = w
    THEN leaseOwner' = None /\ leaseLive' = FALSE
    ELSE UNCHANGED <<leaseOwner, leaseLive>>

ReleaseLease(w) ==
    /\ \/ pc[w] = "succeeded" /\ Goto(w, "healthy")
       \/ pc[w] = "failed" /\ Goto(w, "unwell")
    /\ Release(w)
    /\ UNCHANGED <<storeVars, backoff, batch, since, pageEnd, more, late, cloud, faults>>

\* mark_sync_healthy clears the backoff, mark_sync_failure sets it.
MarkOutcome(w) ==
    /\ \/ pc[w] = "healthy" /\ backoff' = FALSE
       \/ pc[w] = "unwell" /\ backoff' = TRUE
    /\ Goto(w, "idle")
    /\ UNCHANGED <<storeVars, leaseOwner, leaseLive, batch, since, pageEnd, more, late,
                   cloud, faults>>

-----------------------------------------------------------------------------
(* Faults, each drawn from the budget.                                     *)

Fault == faults < MaxFaults /\ faults' = faults + 1

\* A request given up before it was served is either gone or still on its
\* way to the server.
Abandon(w) ==
    IF pc[w] = "pushing" /\ LateRequests
    THEN \/ late' = late \cup {[id |-> faults, entries |-> batch[w]]}
         \/ UNCHANGED late
    ELSE UNCHANGED late

\* A request times out, is refused, or its answer is lost; or a store call
\* of the cycle fails.
CycleFails(w) ==
    /\ Fault
    /\ pc[w] \in InCycle \ {"succeeded", "failed"}
    /\ Abandon(w)
    /\ Goto(w, "failed")
    /\ Forget(w)
    /\ UNCHANGED <<storeVars, leaseVars, cloud>>

\* release_sync_lease fails: the cycle's outcome is recorded all the same and
\* the lease is left to expire.
ReleaseFails(w) ==
    /\ Fault
    /\ \/ pc[w] = "succeeded" /\ Goto(w, "healthy")
       \/ pc[w] = "failed" /\ Goto(w, "unwell")
    /\ UNCHANGED <<storeVars, leaseVars, batch, since, pageEnd, more, late, cloud>>

\* A store call outside the cycle fails: run_cycle returns the error at once
\* and the outcome is not recorded.
StoreCallFails(w) ==
    /\ Fault
    /\ pc[w] \in {"ready", "healthy", "unwell"}
    /\ Goto(w, "idle")
    /\ UNCHANGED <<storeVars, leaseVars, batch, since, pageEnd, more, late, cloud>>

\* run drops the cycle's future at an await and then releases the lease; the
\* process that replaces this one starts over.
Shutdown(w) ==
    /\ Fault
    /\ pc[w] \in {"pushing", "accepted", "pulling"}
    /\ Abandon(w)
    /\ Release(w)
    /\ Goto(w, "idle")
    /\ Forget(w)
    /\ UNCHANGED <<storeVars, backoff, cloud>>

\* The process dies anywhere; nobody releases its lease.
Crash(w) ==
    /\ Fault
    /\ pc[w] # "idle"
    /\ Abandon(w)
    /\ leaseOwner' = IF leaseOwner = w THEN Dead ELSE leaseOwner
    /\ Goto(w, "idle")
    /\ Forget(w)
    /\ UNCHANGED <<storeVars, leaseLive, backoff, cloud>>

\* lease_until passes.  Nothing renews a lease, so a cycle of many pages can
\* outlive it unless LeaseOutlives.
LeaseExpires ==
    /\ leaseLive
    /\ LeaseOutlives => ~ \E w \in Worker : leaseOwner = w /\ pc[w] \in InCycle
    /\ leaseLive' = FALSE
    /\ UNCHANGED <<storeVars, leaseOwner, backoff, workerVars, late, cloud, faults>>

BackoffElapses ==
    /\ backoff
    /\ backoff' = FALSE
    /\ UNCHANGED <<storeVars, leaseOwner, leaseLive, workerVars, late, cloud, faults>>

-----------------------------------------------------------------------------
(* The rest of the world.                                                  *)

\* A request nobody waits for any more reaches the server.
LateArrival(r) ==
    /\ late' = late \ {r}
    /\ cloud' = cloud \o Entries(r.entries)
    /\ UNCHANGED <<storeVars, leaseVars, workerVars, faults>>

PeerEntries == {p \in 1..Len(cloud) : cloud[p].src = "peer"}

\* Another device pushes.
PeerPush(m) ==
    /\ Cardinality(PeerEntries) < MaxPeer
    /\ cloud' = Append(cloud, [mem |-> m, src |-> "peer",
                               seq |-> Cardinality(PeerEntries) + 1])
    /\ UNCHANGED <<storeVars, leaseVars, workerVars, late, faults>>

-----------------------------------------------------------------------------

CycleStep(w) ==
    \/ ReadState(w) \/ AcquireLease(w) \/ LeaseRefused(w)
    \/ NothingToPush(w) \/ SendBatch(w) \/ ResponseArrives(w) \/ AckBatch(w)
    \/ ReadCursor(w) \/ PageArrives(w) \/ ApplyNext(w) \/ PageDone(w)
    \/ ReleaseLease(w) \/ MarkOutcome(w)

Next ==
    \/ \E m \in Memory : Edit(m) \/ PeerPush(m)
    \/ \E w \in Worker : \/ CycleStep(w) \/ CloudAccepts(w)
                         \/ CycleFails(w) \/ ReleaseFails(w) \/ StoreCallFails(w)
                         \/ Shutdown(w) \/ Crash(w)
    \/ LeaseExpires
    \/ BackoffElapses
    \/ \E r \in late : LateArrival(r)

Spec == Init /\ [][Next]_vars

(***************************************************************************)
(* Fairness: `run` starts a cycle at every tick for as long as the process *)
(* lives, a started cycle runs on, a server that was reached answers, and  *)
(* time passes.  Faults are finitely many, and nothing makes one happen.   *)
(***************************************************************************)
Fairness ==
    /\ \A w \in Worker : WF_vars(CycleStep(w)) /\ WF_vars(CloudAccepts(w))
    /\ WF_vars(LeaseExpires)
    /\ WF_vars(BackoffElapses)

FairSpec == Spec /\ Fairness

-----------------------------------------------------------------------------
(* Properties.                                                             *)

Position == 1..Len(cloud)

InCloud(i) == \E p \in Position : cloud[p] = Own(i)

\* Every variable keeps its type; the cursor and the pages a worker holds
\* stay within the log, and what was listed for a push stays in the journal.
TypeOK ==
    /\ journal \in Seq(Memory)
    /\ acked \subseteq Seqs
    /\ row \in [Memory -> Entry \cup {None}]
    /\ cursor \in 0..Len(cloud)
    /\ leaseOwner \in Worker \cup {None, Dead}
    /\ leaseLive \in BOOLEAN
    /\ backoff \in BOOLEAN
    /\ pc \in [Worker -> Phase]
    /\ batch \in [Worker -> Seq(Seqs)]
    /\ since \in [Worker -> Nat]
    /\ pageEnd \in [Worker -> 0..Len(cloud)]
    /\ more \in [Worker -> BOOLEAN]
    /\ late \subseteq [id : Nat, entries : Seq(Seqs)]
    /\ cloud \in Seq(Entry)
    /\ faults \in Nat

(***************************************************************************)
(* No write is lost: a journal row is acknowledged -- and may from then on *)
(* be pruned -- only when the cloud has it, whatever was cancelled, timed  *)
(* out, or ran twice (ack_sync_mutation_seqs).                             *)
(***************************************************************************)
NoLostWrite == \A i \in acked : InCloud(i)

(***************************************************************************)
(* What was journaled first reaches the cloud first.  Retries and late     *)
(* requests repeat entries, but no entry appears before every earlier row  *)
(* of the journal has appeared.  A peer relies on it: a session has the    *)
(* lower sequence than the memories that reference it                      *)
(* (backfill_project_tx).                                                  *)
(***************************************************************************)
CausalDelivery ==
    \A p \in Position : cloud[p].src = "own" =>
        \A i \in 1..(cloud[p].seq - 1) : \E q \in 1..(p - 1) : cloud[q] = Own(i)

\* e is the last of the first n cloud entries to touch m, or nothing did.
IsLatest(e, m, n) ==
    \/ /\ e = None
       /\ \A p \in 1..n : cloud[p].mem # m
    \/ \E p \in 1..n : /\ cloud[p] = e
                       /\ cloud[p].mem = m
                       /\ \A q \in (p + 1)..n : cloud[q].mem # m

Quiet == Pending = {} /\ cursor = Len(cloud)

(***************************************************************************)
(* Once the store has nothing left to push or pull, every memory holds     *)
(* what the cloud log says last: a local edit made while older entries     *)
(* were being pulled over it comes back as the store's own echo            *)
(* (pull_remote filters nothing out).  Two stores that both went quiet     *)
(* therefore agree.                                                        *)
(***************************************************************************)
ConvergesOnLog == Quiet => \A m \in Memory : IsLatest(row[m], m, Len(cloud))

(***************************************************************************)
(* The pull applies every cloud entry exactly once and in order, also when *)
(* two processes whose cycles overlap apply pages of their own             *)
(* (apply_pulled_sync_mutation re-reads the cursor in its transaction).    *)
(***************************************************************************)
AppliesEachOnce ==
    [][cursor' # cursor =>
         /\ cursor' = cursor + 1
         /\ row' = [row EXCEPT ![cloud[cursor'].mem] = cloud[cursor']]]_vars

(***************************************************************************)
(* The whole of the above as a specification: with its workers, leases,    *)
(* requests and faults hidden, replication does nothing that Delivery does *)
(* not allow (run_cycle).                                                  *)
(***************************************************************************)
Promise == INSTANCE Delivery WITH log <- cloud, confirmed <- acked, applied <- cursor

KeepsPromise == Promise!Spec

(***************************************************************************)
(* While a lease outlives the cycle it was taken for, two processes never  *)
(* replicate one store at the same time (acquire_sync_lease).              *)
(***************************************************************************)
OneCycle ==
    LeaseOutlives =>
        \A v, w \in Worker : pc[v] \in InCycle /\ pc[w] \in InCycle => v = w

(***************************************************************************)
(* A quiet store that nobody else writes to holds its newest edit of every *)
(* memory: a retry that puts an older one behind it in the log repeats the *)
(* newer one too (push_pending).  That takes one cycle at a time, and no   *)
(* request that arrives after its client gave it up.                       *)
(***************************************************************************)
NewestEditSurvives ==
    LeaseOutlives /\ ~LateRequests /\ Quiet /\ PeerEntries = {} =>
        \A i \in Seqs : row[journal[i]] # None /\ row[journal[i]].seq >= i

(***************************************************************************)
(* Every local write is eventually pushed and acknowledged: no sequence of *)
(* faults, refused leases and backoffs leaves a row waiting for ever (run).*)
(***************************************************************************)
EditsAreDelivered == \A i \in 1..MaxEdits : i \in Seqs ~> i \in acked

(***************************************************************************)
(* When writes stop, the store ends up quiet for good: everything pushed   *)
(* and the whole log pulled (pull_remote pages until has_more is false).   *)
(***************************************************************************)
EndsQuiet == <>[]Quiet

=============================================================================
