------------------------------ MODULE CloudLog ------------------------------
(***************************************************************************)
(* The cloud service: its mutation log, the two handlers that append to it *)
(* (push_mutations and push_chunk of src/cloud/cloudserver/mod.rs over     *)
(* src/cloud/cloudstore/mod.rs) and the devices that page through it.      *)
(*                                                                         *)
(* The handlers run concurrently, each in a PostgreSQL transaction of its  *)
(* own at READ COMMITTED.  What that means here: a row's seq is taken from *)
(* the sequence when the row is inserted, before the transaction commits,  *)
(* and is not given back; a row is seen by others from the commit on; and  *)
(* INSERT ... ON CONFLICT DO NOTHING waits for the open transaction that   *)
(* inserted the same key.                                                  *)
(*                                                                         *)
(* What is abstracted: an item is a session or a memory (an observation or *)
(* a prompt) and its upsert.  Deletes and relations travel as listed items *)
(* do.  A chunk is told by the handler, the project, the items and which   *)
(* of them it lists, as its hash is.  Tokens and grants do not change      *)
(* during a run.                                                           *)
(***************************************************************************)
EXTENDS Naturals, Sequences, FiniteSets

CONSTANTS
    Device,         \* clients that push and pull
    Project,        \* projects, ordered as their names are
    Item,           \* sessions and memories, ordered as their ids are
    ProjectOf,      \* the project of each item
    SessionOf,      \* the session a memory references; None for a session
    Granted,        \* the projects each device may sync (the principal's grants)
    Handler,        \* the kinds of push request devices make
    PoolSizes,      \* what CloudConfig::max_pool may be
    PageSize,       \* the `limit` of a pull
    MaxBatch,       \* bound: items in one request
    MaxRequests,    \* bound: push requests
    MaxAborts,      \* bound: transactions rolled back
    MaxPauses,      \* bound: times a project is paused
    None

ASSUME OrderAssumption == Project \subseteq Nat /\ Item \subseteq Nat /\ None \notin Item
ASSUME ItemAssumption ==
    /\ ProjectOf \in [Item -> Project]
    /\ SessionOf \in [Item -> Item \cup {None}]
    /\ \A i \in Item : SessionOf[i] # None =>
         SessionOf[SessionOf[i]] = None /\ ProjectOf[SessionOf[i]] = ProjectOf[i]
ASSUME GrantAssumption == Granted \in [Device -> SUBSET Project]

ASSUME HandlerAssumption == Handler \subseteq {"mutations", "chunk"}
ASSUME SizeAssumption ==
    /\ PoolSizes \cup {PageSize, MaxBatch} \subseteq Nat \ {0}
    /\ {MaxRequests, MaxAborts, MaxPauses} \subseteq Nat

VARIABLES
    pool,     \* max_pool, as this server was configured
    nextSeq,  \* the BIGSERIAL behind cloud_mutations.seq
    log,      \* cloud_mutations, committed
    keys,     \* cloud_chunks and cloud_project_sessions, committed
    paused,   \* projects whose sync_enabled is false
    stage,    \* where each device's push request is
    via,      \* which kind of request it is
    batch,    \* the items it carries
    listed,   \* how many of them a chunk lists; the rest are in its mutations
    rows,     \* rows its transaction inserted
    held,     \* keys its transaction inserted
    todo,     \* keys it has yet to insert
    sent,     \* mutations a device pushed and had accepted
    cursor,   \* the device's last_pulled_seq
    pulled,   \* the rows the device applied
    requests, aborts, pauses

requestVars == <<stage, via, batch, listed, rows, held, todo>>
deviceVars == <<sent, cursor, pulled>>
bounds == <<requests, aborts, pauses>>
vars == <<pool, nextSeq, log, keys, paused, stage, via, batch, listed, rows, held, todo,
          sent, cursor, pulled, requests, aborts, pauses>>

\* No request; admitted and waiting for a connection; in its transaction.
Stage == {"idle", "waiting", "open"}

\* A row of cloud_mutations.  `via` and `by` say where it came from.
Row == [seq : Nat, item : Item, via : Handler, by : Device]

SessionItems == {i \in Item : SessionOf[i] = None}

Distinct(b) == \A k, l \in DOMAIN b : k # l => b[k] # b[l]

Batches == {b \in UNION {[1..n -> Item] : n \in 1..MaxBatch} : Distinct(b)}

ItemsOf(b) == {b[k] : k \in DOMAIN b}

\* What a chunk lists comes first.  An item that it lists and whose upsert it
\* also has among its mutations is a listed one.
Listed(b, n) == {b[k] : k \in 1..n}

\* The items of a project in the order a batch has them.
OrderIn(p, b) ==
    LET own == {i \in ItemsOf(b) : ProjectOf[i] = p} IN
    {x \in own \X own : \E k, l \in DOMAIN b : k <= l /\ b[k] = x[1] /\ b[l] = x[2]}

(***************************************************************************)
(* The primary keys of cloud_chunks and cloud_project_sessions: project,   *)
(* which of the two tables, and what it is about.                          *)
(***************************************************************************)
ChunkKey(h, p, b, n) == <<p, 0, <<h, OrderIn(p, b), Listed(b, n)>>>>
SessionKey(s) == <<ProjectOf[s], 1, s>>

Key == (Project \X {0} \X (Handler \X (SUBSET (Item \X Item)) \X (SUBSET Item)))
         \cup (Project \X {1} \X Item)

Known == {s \in SessionItems : SessionKey(s) \in keys}

-----------------------------------------------------------------------------

Init ==
    /\ pool \in PoolSizes
    /\ nextSeq = 1
    /\ log = {}
    /\ keys = {}
    /\ paused = {}
    /\ stage = [d \in Device |-> "idle"]
    /\ via = [d \in Device |-> None]
    /\ batch = [d \in Device |-> <<>>]
    /\ listed = [d \in Device |-> 0]
    /\ rows = [d \in Device |-> {}]
    /\ held = [d \in Device |-> {}]
    /\ todo = [d \in Device |-> {}]
    /\ sent = [d \in Device |-> {}]
    /\ cursor = [d \in Device |-> 0]
    /\ pulled = [d \in Device |-> {}]
    /\ requests = 0
    /\ aborts = 0
    /\ pauses = 0

Goto(d, s) == stage' = [stage EXCEPT ![d] = s]

\* The request is answered and its handler returns.
Return(d) ==
    /\ Goto(d, "idle")
    /\ via' = [via EXCEPT ![d] = None]
    /\ batch' = [batch EXCEPT ![d] = <<>>]
    /\ listed' = [listed EXCEPT ![d] = 0]
    /\ rows' = [rows EXCEPT ![d] = {}]
    /\ held' = [held EXCEPT ![d] = {}]
    /\ todo' = [todo EXCEPT ![d] = {}]

-----------------------------------------------------------------------------
(* The two push handlers.                                                  *)

(***************************************************************************)
(* A device pushes mutations in the order of its journal: a session before *)
(* the memories of it, unless the device has pushed or pulled it before    *)
(* (Autosync!CausalDelivery).  A chunk can name anything; the rows of what *)
(* it lists are written sessions first (materialize_chunk_mutations).      *)
(***************************************************************************)
Holds(d) == sent[d] \cup {r.item : r \in pulled[d]}

InJournalOrder(d, b) ==
    \A k \in DOMAIN b : SessionOf[b[k]] \in
        {None} \cup Holds(d) \cup {b[l] : l \in 1..(k - 1)}

InTableOrder(b, n) ==
    \A k, l \in 1..n : k < l /\ b[l] \in SessionItems => b[k] \in SessionItems

OneProject(b) == \A i, j \in ItemsOf(b) : ProjectOf[i] = ProjectOf[j]

CanSend(d, h, b, n) ==
    IF h = "mutations" THEN n = 0 /\ InJournalOrder(d, b)
    ELSE n <= Len(b) /\ InTableOrder(b, n) /\ OneProject(b)

\* authorize_project for every entry, then ensure_not_paused for every
\* project, all before anything is written.  A request that fails either is
\* refused and changes nothing.
Admit(d, h, b, n) ==
    /\ stage[d] = "idle"
    /\ requests < MaxRequests
    /\ requests' = requests + 1
    /\ CanSend(d, h, b, n)
    /\ \A i \in ItemsOf(b) : ProjectOf[i] \in Granted[d] \ paused
    /\ Goto(d, "waiting")
    /\ via' = [via EXCEPT ![d] = h]
    /\ batch' = [batch EXCEPT ![d] = b]
    /\ listed' = [listed EXCEPT ![d] = n]
    /\ UNCHANGED <<pool, nextSeq, log, keys, paused, rows, held, todo, deviceVars, aborts, pauses>>

\* Mutant: the references of a chunk are not looked at.
RefersToKnown_Unchecked(d) == TRUE

\* validate_session_references against known_session_ids, which push_chunk
\* reads before the transaction; mutation pushes are not asked.  A session
\* the chunk itself has counts, in its listing or in its mutations.
RefersToKnown(d) ==
    via[d] # "mutations" =>
        \A i \in ItemsOf(batch[d]) : SessionOf[i] \in {None} \cup Known \cup ItemsOf(batch[d])

\* A transaction holds a pool connection from begin to commit.
Open == {d \in Device : stage[d] = "open"}

\* The keys the request writes: a chunk per project and the sessions in it,
\* listed or among its mutations (index_chunk_sessions).
RequestKeys(d) ==
    {ChunkKey(via[d], p, batch[d], listed[d]) : p \in {ProjectOf[i] : i \in ItemsOf(batch[d])}}
      \cup {SessionKey(s) : s \in ItemsOf(batch[d]) \cap SessionItems}

Begin(d) ==
    /\ stage[d] = "waiting"
    /\ Cardinality(Open) < pool
    /\ RefersToKnown(d)
    /\ Goto(d, "open")
    /\ todo' = [todo EXCEPT ![d] = RequestKeys(d)]
    /\ UNCHANGED <<pool, nextSeq, log, keys, paused, via, batch, listed, rows, held, deviceVars,
                   bounds>>

RefuseReferences(d) ==
    /\ stage[d] = "waiting"
    /\ ~RefersToKnown(d)
    /\ Return(d)
    /\ UNCHANGED <<pool, nextSeq, log, keys, paused, deviceVars, bounds>>

Inserted(d) == Cardinality(rows[d])

Entry(d) == batch[d][Inserted(d) + 1]

\* materialize_chunk_mutations makes a row of each item a chunk lists, and
\* none of an upsert that stands only in its mutations.
Due(d) == IF via[d] = "mutations" THEN Len(batch[d]) ELSE listed[d]

\* insert_mutations writes the rows and then the keys, write_chunk the keys
\* and then the rows.
RowsTurn(d) == Inserted(d) < Due(d) /\ (via[d] = "mutations" \/ todo[d] = {})
KeysTurn(d) == todo[d] # {} /\ (via[d] # "mutations" \/ Inserted(d) = Due(d))

\* insert_mutations_tx: one INSERT ... RETURNING seq per entry, in order.
InsertRow(d) ==
    /\ stage[d] = "open"
    /\ RowsTurn(d)
    /\ rows' = [rows EXCEPT ![d] = @ \cup
                  {[seq |-> nextSeq, item |-> Entry(d),
                    via |-> via[d], by |-> d]}]
    /\ nextSeq' = nextSeq + 1
    /\ UNCHANGED <<pool, log, keys, paused, stage, via, batch, listed, held, todo,
                   deviceVars, bounds>>

(***************************************************************************)
(* Keys are inserted project by project (a BTreeMap), in each the chunk    *)
(* and then its sessions in order (a BTreeSet).                            *)
(***************************************************************************)
Before(k, l) ==
    \/ k[1] < l[1]
    \/ k[1] = l[1] /\ k[2] < l[2]
    \/ k[1] = l[1] /\ k[2] = 1 /\ l[2] = 1 /\ k[3] < l[3]

\* Mutant: the projects and sessions of a request are kept in a hash map.
Upcoming_AnyOrder(d) == IF KeysTurn(d) THEN todo[d] ELSE {}

Upcoming(d) ==
    IF KeysTurn(d) THEN {k \in todo[d] : \A l \in todo[d] : l = k \/ Before(k, l)} ELSE {}

\* ON CONFLICT DO NOTHING: someone's uncommitted key makes the INSERT wait.
Blocked(d, k) == \E e \in Device \ {d} : k \in held[e]

\* Mutant: write_chunk does not look at whether its insert did anything.
AlreadyWritten_Ignored(d, k) == FALSE

\* write_chunk finds its chunk in the table.
AlreadyWritten(d, k) == via[d] # "mutations" /\ k[2] = 0 /\ k \in keys

InsertKey(d, k) ==
    /\ stage[d] = "open"
    /\ k \in Upcoming(d)
    /\ ~Blocked(d, k)
    /\ ~AlreadyWritten(d, k)
    /\ held' = [held EXCEPT ![d] = IF k \in keys THEN @ ELSE @ \cup {k}]
    /\ todo' = [todo EXCEPT ![d] = @ \ {k}]
    /\ UNCHANGED <<pool, nextSeq, log, keys, paused, stage, via, batch, listed, rows, deviceVars,
                   bounds>>

\* A chunk that is already there is answered as accepted, nothing is written.
ChunkKnown(d, k) ==
    /\ stage[d] = "open"
    /\ k \in Upcoming(d)
    /\ ~Blocked(d, k)
    /\ AlreadyWritten(d, k)
    /\ Return(d)
    /\ UNCHANGED <<pool, nextSeq, log, keys, paused, deviceVars, bounds>>

\* The mutations that the answer acknowledges.
Accepted(d) == IF via[d] = "mutations" THEN ItemsOf(batch[d]) ELSE {}

\* Everything the transaction wrote appears at once.
Commit(d) ==
    /\ stage[d] = "open"
    /\ ~RowsTurn(d) /\ ~KeysTurn(d)
    /\ log' = log \cup rows[d]
    /\ keys' = keys \cup held[d]
    /\ sent' = [sent EXCEPT ![d] = @ \cup Accepted(d)]
    /\ Return(d)
    /\ UNCHANGED <<pool, nextSeq, paused, cursor, pulled, bounds>>

\* A statement fails or the handler is dropped: the transaction is rolled
\* back, the sequence numbers stay used.
Abort(d) ==
    /\ stage[d] = "open"
    /\ aborts < MaxAborts
    /\ aborts' = aborts + 1
    /\ Return(d)
    /\ UNCHANGED <<pool, nextSeq, log, keys, paused, deviceVars, requests, pauses>>

-----------------------------------------------------------------------------
(* Pulling, and the operator.                                              *)

Visible(d) == {r \in log : r.seq > cursor[d] /\ ProjectOf[r.item] \in Granted[d]}

\* The first n visible rows after the cursor.
FirstRows(d, n) == {r \in Visible(d) : Cardinality({q \in Visible(d) : q.seq < r.seq}) < n}

\* list_mutations_since reads one row more than a page, and cuts it off.
Page(d) == FirstRows(d, PageSize)

\* Mutant: latest_sequence is taken before the row too many is cut off.
Latest_Uncut(d) == FirstRows(d, PageSize + 1)

\* The rows whose last one is the page's latest_sequence.
Latest(d) == Page(d)

\* One page is pulled, and the cursor left at its latest_sequence (Autosync
\* models the client's half step by step, Replicas whether rows apply).
Pull(d) ==
    /\ Page(d) # {}
    /\ pulled' = [pulled EXCEPT ![d] = @ \cup Page(d)]
    /\ \E r \in Latest(d) : /\ \A q \in Latest(d) : q.seq <= r.seq
                            /\ cursor' = [cursor EXCEPT ![d] = r.seq]
    /\ UNCHANGED <<pool, nextSeq, log, keys, paused, requestVars, sent, bounds>>

\* set_project_sync_enabled.
Pause(p) ==
    /\ p \notin paused
    /\ pauses < MaxPauses
    /\ pauses' = pauses + 1
    /\ paused' = paused \cup {p}
    /\ UNCHANGED <<pool, nextSeq, log, keys, requestVars, deviceVars, requests, aborts>>

Resume(p) ==
    /\ p \in paused
    /\ paused' = paused \ {p}
    /\ UNCHANGED <<pool, nextSeq, log, keys, requestVars, deviceVars, bounds>>

-----------------------------------------------------------------------------

Serve(d) ==
    \/ Begin(d) \/ RefuseReferences(d) \/ InsertRow(d) \/ Commit(d)
    \/ \E k \in todo[d] : InsertKey(d, k) \/ ChunkKnown(d, k)

Next ==
    \/ \E d \in Device : \/ \E h \in Handler, b \in Batches, n \in 0..MaxBatch : Admit(d, h, b, n)
                         \/ Serve(d) \/ Abort(d) \/ Pull(d)
    \/ \E p \in Project : Pause(p) \/ Resume(p)

Spec == Init /\ [][Next]_vars

\* Fairness: a handler that can take its next step takes it.
FairSpec == Spec /\ \A d \in Device : WF_vars(Serve(d))

-----------------------------------------------------------------------------
(* Properties.                                                             *)

\* Every variable keeps its type, and the numbers in use were handed out.
TypeOK ==
    /\ pool \in PoolSizes
    /\ nextSeq \in Nat \ {0}
    /\ log \subseteq Row /\ \A r \in log : r.seq < nextSeq
    /\ keys \subseteq Key
    /\ paused \subseteq Project
    /\ stage \in [Device -> Stage]
    /\ via \in [Device -> Handler \cup {None}]
    /\ batch \in [Device -> Batches \cup {<<>>}]
    /\ listed \in [Device -> 0..MaxBatch]
    /\ rows \in [Device -> SUBSET Row]
    /\ held \in [Device -> SUBSET Key] /\ todo \in [Device -> SUBSET Key]
    /\ sent \in [Device -> SUBSET Item]
    /\ cursor \in [Device -> Nat] /\ \A d \in Device : cursor[d] < nextSeq
    /\ pulled \in [Device -> SUBSET log]

(***************************************************************************)
(* What the cursor passed was applied: no row of a granted project lies    *)
(* behind a device's cursor without having been pulled.  The device never  *)
(* asks for what is behind its cursor again (list_mutations_since).        *)
(***************************************************************************)
NothingSkipped ==
    \A d \in Device : \A r \in log :
        r.seq <= cursor[d] /\ ProjectOf[r.item] \in Granted[d] => r \in pulled[d]

\* What a device's cursor passed although the device never got it.
Skipped(d) ==
    {r \in log : r.seq <= cursor[d] /\ ProjectOf[r.item] \in Granted[d] /\ r \notin pulled[d]}

(***************************************************************************)
(* A row that is in the log is never passed over, by whatever page, grants *)
(* or pauses: what a device misses was committed behind its cursor, after  *)
(* the device got a row that was numbered later (list_mutations_since).    *)
(***************************************************************************)
OnlyOvertakenSkipped ==
    [][\A d \in Device : \A r \in Skipped(d)' \ Skipped(d) :
           r \notin log /\ \E q \in pulled[d] : q.seq > r.seq]_vars

(***************************************************************************)
(* A chunk is written once: however often and concurrently it is pushed,   *)
(* the log has what it lists once for each different chunk (write_chunk).  *)
(***************************************************************************)
ChunkRowsOnce ==
    \A i \in Item :
        Cardinality({r \in log : r.item = i /\ r.via = "chunk"}) <=
        Cardinality({k \in keys : k[2] = 0 /\ k[3][1] = "chunk" /\ i \in k[3][3]})

\* A stored chunk has an item among its mutations only.
Carries(k, i) == k[2] = 0 /\ k[3][1] = "chunk" /\ <<i, i>> \in k[3][2] /\ i \notin k[3][3]

(***************************************************************************)
(* Where a puller finds the session of a memory it is sent: at an earlier  *)
(* place of the log.  The one exception is a session that some chunk has   *)
(* only among its mutations: the chunk is stored, and its session counts   *)
(* as known for ever after, without a row (validate_session_references,    *)
(* index_chunk_sessions, materialize_chunk_mutations).                     *)
(***************************************************************************)
ReferencesServed ==
    \A r \in log : SessionOf[r.item] # None =>
        \/ \E q \in log : q.item = SessionOf[r.item] /\ q.seq < r.seq
        \/ \E k \in keys : Carries(k, SessionOf[r.item])

(***************************************************************************)
(* Every request is answered: no wait for a connection of the pool or for  *)
(* another transaction's key is for ever (push_mutations, push_chunk).     *)
(***************************************************************************)
RequestsAnswered == \A d \in Device : stage[d] # "idle" ~> stage[d] = "idle"

=============================================================================
