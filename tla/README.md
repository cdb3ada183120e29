# Leteo: a TLA+ model

Leteo keeps the memories of coding agents in a local SQLite file and replicates
them between machines through a cloud service over PostgreSQL. This directory
models the parts where the steps of several actors meet, or where one actor may
be cut off between two steps, checks the models with TLC on small instances and
proves the main results with TLAPS for every value of the constants.

Line numbers below and in `PROJECT.json` are those of the files under `src/`.

## 1. Inventory

### The parts, their state and what they promise

| Component | State it keeps | Operations that change it | Correct when |
|---|---|---|---|
| **Background replication** `cloud/autosync.rs` | where a cycle is, the batch on its way, the local `cursor`, the failure count | `run` ticks, `run_cycle`, `push_pending`, `pull_remote`, shutdown | nothing acknowledged is missing from the cloud; the log is applied once and in order; one cycle at a time while the lease holds; it ends up quiet |
| **Journal, lease, cursor** `store/replication.rs` | `sync_mutations`, `sync_state` (lease, cursor, backoff), deferred mutations | enqueue, list pending, acknowledge, acquire/release lease, mark healthy/failed, apply pulled, defer and replay | a row is pruned only once acknowledged; the cursor never passes what was not applied; a deferred mutation is applied when it can be |
| **Applying mutations** `store/wire.rs` | all memory tables | upsert and delete of sessions, observations, prompts and relations; backfill | stores that applied the same log agree; references of a row exist |
| **Observations** `store/observations.rs` | observations, versions, topic keys, review clocks | add, update, topic upsert, consolidate, delete, restore | one live row per topic key; versions ordered; every change journaled in its transaction |
| **Sessions and prompts** `store/sessions.rs`, `store/prompts.rs` | sessions, prompts, prompt tombstones | create, end, add, delete | no row without its session; a deleted prompt does not come back |
| **Relations** `store/relations.rs`, `llm.rs` | relations between memories and their judgement, the deferred queue | propose, judge, compare, scan with a model, consolidate, replay | a verdict joins two memories that are here; one that waits is applied when it can be; quiet stores hold the newest |
| **Projects** `store/projects.rs` | enrolled projects | enrol (backfill), unenrol, merge, prune, delete | enrolling sends all that is there, in an order that can be applied |
| **Schema** `store/schema.rs`, `store/mod.rs` | the schema version, copies of older files | open, copy, migrate, prune | each migration runs once and in order, whatever builds race; an upgrade leaves a way back |
| **Semantic staging** `store/semantic_stage.rs`, `semantic/` | vectors and what they were computed from, the model's files | embed after a save, backfill, install a model | a vector is never used for another text; every memory gets one; the model is whole or not there |
| **Diagnostics** `store/diagnostics.rs` | none of its own | doctor repairs | a repair changes what it reports |
| **Cloud handlers** `cloud/cloudserver/` | none between requests | `push_mutations`, `push_chunk`, `pull_mutations`, pause, grants | nothing is written that was not authorised; references of chunks are known |
| **Cloud store** `cloud/cloudstore/mod.rs` | `cloud_mutations`, `cloud_chunks`, `cloud_project_sessions`, controls, principals | insert mutations, write chunk, list since, set controls | rows appear whole; a chunk is written once; a reader's cursor passes no row it did not see |
| **Cloud client** `cloud/remote.rs`, `client.rs`, `config.rs` | connection settings | one request per call, with a timeout | an answer of another shape than the request is an error |
| **Sync payloads** `sync/` | chunk files and their hashes | export, import | the same content has the same hash |
| **Hooks and spool** `hooks/` | a spool directory of captures | keep beside a busy store, claim, replay, sweep, cap | a capture that is kept is stored in the end, and replayed by one process at a time |
| **MCP server, project detection** `mcp/`, `project.rs` | what the server found in its directory, once | save, capture, start and end a session, merge; detection | a conversation's memories stay in its project; a refusal can be cleared |
| **Setup, atomic replace** `setup/`, `files.rs` | MCP configurations and instruction files of other programs | set up, uninstall; write a temporary file, rename | what a person wrote survives; an agent that is set up has its instructions |
| CLI, TUI, importers, exporters, translations | none of their own | one store call or one file per command | -- |

### How they interact

Several processes open one SQLite file: an MCP server per agent, `leteo serve`,
the command line, hooks. They share nothing but that file; a write and its
journal row are one transaction (`enqueue_serialized_mutation`, wire.rs). Each
long-lived process runs the replication loop of `autosync.rs` under a lease
kept in the same file. The loop talks HTTP to the cloud service, whose handlers
run concurrently, each in one PostgreSQL transaction of a pool. Devices meet
only in the cloud's log: what one pushes the others pull, its own rows
included, and apply with `apply_pulled_sync_mutation`.

### What is hard

* two processes replicating one store, whose leases can expire under them
  (nothing renews a lease);
* requests that time out, are dropped at shutdown, lose their answer or land
  late, and the retries that follow;
* sequence numbers drawn inside transactions that commit in another order;
* keys that concurrent transactions insert and wait for;
* foreign keys of a replica, when what is referenced arrives later or never;
* concurrent edits, deletes, moves and enrolments on several stores;
* values read in one transaction and used in another: the candidates of a
  relation, the pairs a model is asked about, the key a vector is kept under;
* processes that share a directory: spool entries and their claims, the model's
  files, an instruction file a person edits too;
* directories that change their name, and several processes that work out a project
  from what was recorded there;
* processes of several builds that open one file, and kills between any steps.

`PROJECT.json` lists each of these at its line under "hazards", with the
properties that cover it.

## 2. Plan

The modules, ordered by how much of the program's promise hangs on each. All of
them are written and checked.

| Module | Models | Checked by | Proofs |
|---|---|---|---|
| `Delivery` | what replication promises one store (abstract) | `autosync_overlap` | `AutosyncProofs` (refinement) |
| `Autosync` | the replication cycle | `MCAutosync` | `AutosyncProofs` |
| `CloudLog` | the cloud service's log | `MCCloudLog` | `CloudLogProofs` |
| `Replicas` | sessions and memories of several stores | `MCReplicas` | `ReplicasProofs` |
| `Relations` | verdicts and the deferred queue | `MCRelations` | `RelationsProofs` |
| `Spool` | captures beside a busy store | `MCBackground` | `SpoolProofs` |
| `Filing` | under which project a memory is filed | `MCFiling` | `FilingProofs` |
| `Vectors` | the vectors of the semantic stage | `MCBackground` | `VectorsProofs` |
| `Schema` | opening, copying and migrating a file | `MCParts` | `PartsProofs` |
| `History` | the versions of a memory | `MCParts`, `history` | `PartsProofs` |
| `Prompts` | prompts and tombstones | `MCParts` | `PartsProofs` |
| `Setup` | instruction files and their replacement | `MCParts` | `PartsProofs` |
| `Install` | the model's directory | `MCParts` | `PartsProofs` |

How they compose. `Autosync` implements `Delivery` (`Promise == INSTANCE
Delivery WITH ...`, property `KeepsPromise`). What `Delivery` promises one store
is what `Replicas`, `Relations`, `History` and `Prompts` take as their `Push`
and `Pull`: a journal that reaches the log in order, and a log applied entry by
entry, own entries included. Each of those four follows one kind of row; a
mutation of one kind reads the rows of another only where a module has both
(sessions and memories, memories and relations). `MCBackground` runs the two
background workers of a store side by side in one behaviour of TLC, `MCParts`
the five parts that share no state with anything above: the part that takes
steps is chosen at the start, and the others rest in one of their initial
states, so the instance is the sum of the parts and not their product. `Replicas`
chooses a plan at the start: which operations are made, in which sessions, and
what each store replicates at first. Its properties say of which plans they
speak, so that one run checks them all and the theorems are about every plan.
`Filing` is what happens before `AddObservation` of `Replicas` and `Captures` of
`Spool`, which take project and session as given.

What a next step would take: prompts and versions in one module with memories, so
that a merge sends all three; and grants that change under a running replication.

## 3. Modules

### `Delivery` -- what replication promises a store

The journal, the log, the rows known to be in the log and how much of it was
applied, with no workers, leases or requests: `Write`, `Deliver`, `Receive`,
`Confirm`, `Apply`. `Autosync` implements it.

### `Autosync` -- the replication cycle of one store

One action per store call (a SQLite transaction) or HTTP call; between any two
of them the process can be cancelled, time out or die.

| Variable | In the code |
|---|---|
| `journal`, `acked` | rows of `sync_mutations`, and those with `acked_at` |
| `row` | the version each memory holds |
| `cursor` | `sync_state.last_pulled_seq` |
| `leaseOwner`, `leaseLive` | `lease_owner`, and `lease_until > now` |
| `backoff` | `backoff_until > now` |
| `pc`, `batch`, `since`, `pageEnd`, `more` | the awaits of `run_cycle` and the locals of `push_pending` and `pull_remote` |
| `late` | pushes whose client gave up and that the server may still read |
| `cloud` | `cloud_mutations` in the order it was committed |

Actions follow `run_cycle`: `ReadState`, `AcquireLease`/`LeaseRefused`,
`NothingToPush`, `SendBatch`, `CloudAccepts`, `ResponseArrives`, `AckBatch`,
`ReadCursor`, `PageArrives`, `ApplyNext`, `PageDone`, `ReleaseLease`,
`MarkOutcome`; `CycleFails`, `ReleaseFails`, `StoreCallFails`, `Shutdown` and
`Crash` are what can cut it short, at the places where the code can be cut.

Abstracted: applying a mutation replaces what the memory held; the two clocks
are flags that flip when the time has passed, so every length of lease, backoff
and cycle is covered; all journal rows are of projects the principal may sync.

### `CloudLog` -- the cloud service

| Variable | In the code |
|---|---|
| `nextSeq` | the `BIGSERIAL` of `cloud_mutations` |
| `log` | committed rows of `cloud_mutations` |
| `keys` | committed primary keys of `cloud_chunks` and `cloud_project_sessions` |
| `paused` | projects whose `sync_enabled` is false |
| `stage`, `via`, `batch`, `listed`, `rows`, `held`, `todo` | each device's request, how much of a chunk is in its listings, and its open transaction |
| `sent`, `cursor`, `pulled` | what a device had accepted, its `last_pulled_seq`, what it applied |

A push is admitted (`Admit`: authorisation and pause, before anything is
written), waits for a connection, begins (`Begin`, or `RefuseReferences`),
inserts rows and keys one statement at a time (`InsertRow`, `InsertKey`,
`ChunkKnown`) in the order of its handler, and ends with `Commit` or `Abort`.
`Pull` is one page. `pool` is the size of the connection pool, one of
`PoolSizes`, chosen at the start. PostgreSQL enters through three facts about READ COMMITTED:
numbers are drawn at the insert and not given back, rows are seen from the
commit on, and `ON CONFLICT DO NOTHING` waits for the open transaction that
inserted the same key.

A chunk names items in its listings or among its mutations only (`listed`). Both are
indexed as known and count when references are validated (`RequestKeys`,
`RefersToKnown`); rows are made of the listings (`Due`). `sent` is what the answer
to a push of mutations acknowledged (`Accepted`), which is what a device may refer
to in the next one.

Abstracted: an item is a session or a memory and its upsert; the hash of a chunk is
the handler, project, items and listings it was made from; grants do not change.

### `Replicas` -- several stores over one log

Where `Autosync` sees one store and treats a mutation as "a version of a
memory", `Replicas` takes in-order delivery for granted and follows what the
mutations do to the tables, and what each operation of a user queues.

| Variable | In the code |
|---|---|
| `sessions`, `memories` | the rows of `sessions` and `observations`, tombstones included |
| `enrolled` | `sync_enrolled_projects` |
| `journal`, `waiting` | `sync_mutations` by `seq`, and the rows of it with no `acked_at` |
| `log`, `cursor` | `cloud_mutations`, `last_pulled_seq` |
| `plan` | what the users of these stores do (not in the code) |
| `writes`, `written`, `deleted` | history: operations, texts ever saved, memories somebody deleted |

| Action | In the code |
|---|---|
| `CreateSession`, `DeleteSession`, `DeleteSessionAndContents` | the functions of those names, `sessions.rs` |
| `AddObservation`, `UpdateObservation`, `DeleteObservation` | `add_observation`, `update_observation_with_replaced` (with the move to another project and the delete it leaves behind), `delete_observation`, `observations.rs` |
| `Consolidate` | `consolidate_observations` as the command line calls it: the new memory is in the first source's project, its session is the directory's |
| `DeleteProject`, `PruneProject`, `Enroll`, `Unenroll`, `Merge` | the functions of those names, `projects.rs`; `Enroll` with `backfill_project_tx` |
| `Push` | a push and its acknowledgement |
| `Pull` | `apply_pulled_sync_mutation` with `apply_sync_mutation_tx`; `CanApply` is the foreign key of `observations` |

Each action is one SQLite transaction, as in the code. What is queued is
filtered by enrolment (`IfEnrolled`), numbered and left waiting (`Requeue`);
enrolling and merging drop what waits for a project (`NotOf`). Rows that a
SELECT returns without an order are queued in any order.

Abstracted: the text of a memory is the set of edits it was built from, which
is what tells an older text from a newer and from a concurrent one; topic
upserts and deduplicated writes are updates; a merge has one source; prompts,
relations and versions travel beside the memories and are left out.

### `Relations` -- verdicts between memories

| Variable | In the code |
|---|---|
| `memory`, `relation`, `deferred` | `observations` (row there, tombstoned), `memory_relations`, `sync_deferred_mutations` |
| `outbox`, `log`, `cursor` | as above |
| `asked`, `scan`, `replay` | what `find_candidates`, a semantic scan and `replay_deferred_sync_mutations` read in one transaction and use in a later one |

`FindCandidates` and `FilePending` are the two transactions of
`find_candidates`; `Judge`, `Compare` and `ScanPair`/`ScanVerdict` are
`judge_relation`, `judge_by_semantic` and the scan of `llm.rs`; `Consolidate`
supersedes; `Delete` orphans. `Pull` applies a mutation and replays what was
deferred in the same transaction, `ListDeferred` and `ReplayOne` are the batch
replay, which gives a row up after `DeadAfter` attempts. `overlaps` says whether
a batch replay may run beside a pull, as the command line allows
(cli/mod.rs:1326); a cycle of `autosync.rs` does the two in turn.

### `Spool` -- captures beside a busy store

A capture's file is known by the name it has (`file`), since every rename is one
step; `marker` are the claim markers of drains, `byHandle` says whether a rename
moves the file it opened, as on Windows, where two drains could once both win.
Actions follow a hook (`Open`, `EnsureSession`, `Captures`, `Write`, `Publish`,
`EnforceCap`) and a drain (`List`, `Mark`, `Rename`, `Move`, `Unmark`, `Read`,
`Ensure`, `Replay`, `Remove`, `Return`); `Crash` and `Age` (a week goes by) may
come between any two. `stored`, `told` and `dropped` are history.

### `Filing` -- under which project a memory is filed

MCP servers and hooks that share one store work out a project, open a session and
file, in transactions of their own.

| Variable | In the code |
|---|---|
| `looks` | what `detect_project` finds in a directory: a plain folder, one that could not be read (a guess), several repositories, or a name from its origin or config |
| `found` | `CURRENT_PROJECT`: a server detects once |
| `session`, `opened` | `sessions`, and their order by `started_at` |
| `filed` | project and session of memories and prompts, with the directory of the call |
| `job` | what a call has worked out and not yet written |

`SaveIn`, `SaveManually`, `SaveSilently`, `SaveUnder` and `CaptureFollows` are the
branches of `write_session`, `resolve_write_project` and `passive_capture_project`;
`Start` and `StartSilently` are `mem_session_start`; `SessionStarts`, `Compacted` and
`PromptOrCapture` are the events of `run_event`, whose decisions are `Guessed` and
`Owned`; `AskToFold` and `FoldFolder` are the question and the merge of
`migrate_directory_project`, two transactions; `OpenSession` is `create_session`,
`WriteRow` the save itself, `Move` the project a `mem_update` names. `Change` is the
world: a repository gains or renames its origin, a scan runs out of time. `Stop` kills
a process between its writes.

Nothing locks a session between the read of its project and the filing under it, and
the model adds nothing of the kind: any open, merge, fold or move of another process
may come in between. A conversation can then be split (section 6), and
`SplitOnlyWhenOvertaken` says by what: a memory that is moved, or a call that was
overtaken in that gap by another process. Everything else, merges and folds among
it, leaves a whole conversation whole.

Abstracted: names are normalised ones, a directory is its repository's root, hooks
are given no project by their agent, projects are not deleted, sessions arrive
from no other store, and a user's choice comes with the token that was issued
for it.

### `Vectors` -- what a vector was made from

`Save` and `Pulled` write texts; `ListWritten` (`embed_written`) and `ListStale`
(`backfill_step`) say what is stale and under which key, `ReadText` reads the
text later, `KeepVector` stores the vector under the key read first, `GiveUp`
drops the rest of a job on a held lock or a text the tokenizer fails on.

### `Schema` -- opening a file

`ReadVersion`, `SkipCopy`/`WantCopy`/`MakeCopy`/`CopyRefused` and `Migrate` are
the transactions of `prepare_once`, `backup_before_migrate` and `migrate`, by
processes of several builds (`supports`); `CutOff` and `MigrateFails` are a kill
and an error; `Ends` starts a process anew, perhaps of another build.

### `History`, `Prompts`

`History` is one memory on several stores: `Edit` snapshots what it replaces and
queues memory and version in either order, as its two callers do; `ApplyMemory`
and `ApplyVersion` are what pulling does. `Prompts` is prompts with their
tombstones under clocks that may be behind: `Add`, `Delete`, `DeleteAll`,
`Enroll`, `Merge`, `ApplyPrompt`, `ApplyDelete`.

### `Setup`, `Install`

`Setup` is one instruction file of lines, a person who edits it, and setups and
uninstalls of agents that may share it, cut off anywhere (`Stops`): server entry,
`ReadFile`, `WriteTemp`, `Rename`, hooks. `Strip` and `Upsert` are the functions
of setup/mod.rs on lines. `Install` is the model's directory and each
installer's own: write, inspect, move the old one aside, swap, put back.

### The proof modules

The theorems and proofs. `MC*` modules hold the values TLC needs.

## 4. Runs

| Run | What it shows |
|---|---|
| `autosync_overlap` | two processes, leases that expire under a cycle, requests that land late: no write lost, order kept, each entry applied once, quiet stores agree, and every step is one of `Delivery` or none |
| `autosync_exclusive` | when the lease outlives the cycle and abandoned requests are gone: one cycle at a time and no older edit comes back, whatever crashes or fails; under fairness every edit is acknowledged and the store ends up quiet |
| `cloudlog_serve` | pools of one and of two connections, rollbacks and pauses: what a device misses was committed behind its cursor and nothing else is passed over, a chunk's rows are written once, the session of a memory has an earlier place unless a chunk carries it among its mutations only, and every request is answered |
| `cloudlog_race` | *violation*: with two connections a reader passes a row that commits late |
| `replicas` | two stores under five plans. Both replicate everything, with concurrent edits, moves and deletes, of memories alone or of sessions and projects too; one enrols late, leaves and enrols again, with nothing moved or deleted, or with everything but merges; every operation is made, merges included. Pulls apply, quiet stores agree, nothing vanishes, no text is undone by one it was made from, and what is replicated is told, under each plan for which the property says so; under all five no memory is without its session |
| `replicas_move_out` | *violation*: a memory that moves out of a replicated project is deleted by its own echo |
| `relations` | two stores that propose, judge, compare, scan, consolidate, delete and replay: a verdict joins two memories that are here, what is deferred waits for something, quiet stores hold the verdict the log ends on |
| `background` | `Spool` and `Vectors`: one replay at a time, a kept capture is not lost and is stored in the end; a vector that counts as current is of the memory's text, and every memory gets one |
| `parts` | `Schema`, `History`, `Prompts`, `Setup`, `Install`: migrations once and in order, a file opened at its version, a way back; versions and prompts agree; a deleted prompt stays deleted; notes survive and instructions stay; the model is whole or not there |
| `filing` | two servers, one of them told its project, and a hook, in two directories named alike, one of which changes: only a move or an overtaken call splits a conversation over two projects, and what a refusal offers is accepted |
| `filing_folds` | *violation*: a session start folds what another directory of the same name recorded |
| `history` | *violation*: an edit after a pulled one replaces a text that no version keeps |

### Bounds

Autosync: two workers are enough for every overlap, since a third can only
repeat what the second does to the first. Batches and pages of one or two rows make a
short batch, a full batch, a page with and without `has_more` all occur with two
or three edits. One or two faults give a fault in a cycle and one in its retry.
The proofs do not depend on any of these bounds.

CloudLog: two devices with one request each overlap in every way; a third item
in a second project makes requests that share one key, two keys or none, and
two projects are what a cycle of waits needs. The pool is one connection, which
`LETEO_CLOUD_MAX_POOL` allows, or two; the default is 10.

Replicas: two stores, two projects, and four or five operations in all. Four
are what a memory in a session of another project, and a delete or merge of
one of them, take; five allow two edits on each store of a memory that exists.
Each property names the plans it speaks of (`AllShared`, `NoGhosts`, `NoneAbroad`,
`SessionsStay`, `OnlyGrows`), and each condition is needed: section 6 lists what
TLC finds without it. `MCPlans` has a plan for each condition and one for
everything, so that each property is checked in at least two plans whose
operations it allows. Memories are symmetric, stores are not, since they enrol
differently. The proofs depend on neither the bounds nor the choice of plans.

Filing: the least in which everything can go wrong: two directories named alike,
two projects, one agent's conversation, one change of what a directory looks
like, and three calls: one that records, one that folds, merges, moves or renames, and
one that files. The proofs do not depend on these numbers.

Relations: two memories, one relation and three operations: a verdict, the
delete of one of its memories and another verdict. `DeadAfter` is 1 (5 in the
code), which gives a row up at its first failed batch replay.

Background: two processes and two captures of two learnings, one of which the
store may refuse, a cap of one entry, two troubles (a busy answer, a deadline or
a crash each): a crash in the claim and a busy replay after it. Vectors: two
memories, three texts, a budget of one memory per step.

Parts: two builds of three migrations beyond the released ones and four stamps a
file may carry; a retention of two versions and three edits; clocks behind by up
to two moments of four; two agents, one shared file, two edits of the person and
three runs; two installers, two model files, two failures. The bounds the code
has (retention 20, three copies) are constants of the modules.

`CHECK_DEADLOCK FALSE` in the CloudLog, Replicas, Relations, Filing, Parts and
History configurations: operations are bounded, and parts that have done them all have
nothing left to do. The waits that would be real deadlocks are `RequestsAnswered`
in CloudLog and `AppliesCleanly` in Replicas. Autosync and Background never stop
and are checked for deadlock.

### Fairness

`Autosync`: `run` starts a cycle on every tick as long as the process lives and
a cycle that has started goes on (`WF` of `CycleStep`); a server that was reached
answers (`CloudAccepts`; if it does not, the client's timeout is a fault of the
budget); time passes (`LeaseExpires`, `BackoffElapses`). Faults have no
fairness and a finite budget: with unlimited faults nothing can be promised.
Weak fairness is enough because nothing another worker does disables a step for
ever: a refused lease is a step too. Liveness is checked where leases outlive
their cycles, crashed owners included; overlapping cycles are checked for safety.

`CloudLog`: handlers are async tasks that go on when they can (`Serve`). Weak fairness of `Serve` is not given while a key blocks
it: that the wait ends is what `RequestsAnswered` shows.

`Spool`: a process that runs goes on, and hooks keep coming (`Step` or `Drain` of
each process): every event of an agent is a hook, and each ends with a drain.
Busy answers, deadlines and crashes have no fairness. `Vectors`: a job that has
started goes on, and the thread of `bootstrap.rs` looks again after every pause
(`Work` of each worker). That the model is installed and loaded is not assumed:
`AllCovered` starts where it is.

## 5. Proofs

`AutosyncProofs`, for every set of workers and memories, every batch and
page size and every number of edits and faults. The assumptions are the named
`ASSUME`s of `Autosync`: batch sizes are positive, `None` and the dead owner are
no workers.

* `TypeCorrect`: `Spec => []TypeOK`. The type invariant bounds cursor, page and
  batches by the log and the journal, which the other proofs use.
* `OneCycleAtATime`: `Spec => []OneCycle`. Inductive through `HoldsLease`: while
  leases outlive cycles, a worker inside a cycle is the owner of a live lease.
  `OneCycle` alone is not inductive: nothing in it stops a second acquisition.
* `NothingIsLost` and `DeliveryIsCausal`: `Spec => []NoLostWrite`,
  `Spec => []CausalDelivery`. Both are part of one invariant, `PushInv`, because
  each needs the other. A batch is a run of consecutive pending rows, so the rows
  below it are acknowledged, and what is acknowledged is stored. It says: own
  entries are journal rows (`EntriesAreRows`), order holds (`CausalDelivery`), every
  request on its way -- the late ones included -- has each earlier row of the
  journal before it, in the cloud or in its own batch (`RequestsCausal`), and an
  answered batch is stored (`AnsweredStored`).
* `PromiseKept`: `Spec => KeepsPromise`: every behaviour is one of `Delivery`,
  with the log, the acknowledged rows and the cursor as what is promised. Each
  step maps to a step of `Delivery` or none (`DeliverStep`): that an accepted
  batch is a legal `Deliver` is `RequestsCausal`, that an acknowledgement is a
  legal `Confirm` is `AnsweredStored`.
* `EachEntryAppliedOnce`: `Spec => AppliesEachOnce`. From `Behind`: a worker inside
  a page is never ahead of the stored cursor, so the position it applies when it
  is not skipped is the next one, though another worker may have moved the cursor.
* `QuietStoresAgree`: `Spec => []ConvergesOnLog`. From `RowsFollowLog`: every row
  holds the last entry of the applied part of the log that touches it, or a
  local edit that is still `Ahead` of the cursor, pending or stored further on.
* `NewestEditIsKept`: `Spec => []NewestEditSurvives`, where leases outlive cycles, no
  request arrives after its client gave it up and nobody else writes. From
  `RetryInv`: a batch is a front part of what is pending and repeats every row
  that is stored and not acknowledged, so that an older row behind a newer one in the
  log is followed by the newer one again. With `ConvergesOnLog` the last word about a memory is its newest
  edit. Both conditions are needed (section 6).

`ReplicasProofs`, for every set of stores and projects, every finite set of
sessions and memories, every set of plans and any number of operations. The
assumptions are those of `Replicas`: sessions have a project, there are finitely
many rows to queue at once, and `None` is no project, session or row. Every safety
property of the run is a theorem. The operations are first brought to a few shapes
(`OperationsAre`): one row is written and told (`Writes`), rows and sessions go and
are told (`Deletes`), a merge, an enrolment; what a set of rows queues in any order
is known by what is `Among` it.

* `TypeCorrect`: `Spec => []TypeOK`. Its weight is in the queue: what the
  operations compute from tables and queue in any order are mutations, so what
  arrives at another store is one of the five kinds its handler expects
  (`MutationKinds`).
* `ReferencesHold`: `Spec => []LocalReferences`. Inductive with `TypeOK` alone,
  since each transaction restores it: rows are only written under a session that
  is there (`RowSet`), and sessions only go when all their rows, tombstoned or of
  another project, are gone or go with them (`SessionsGoneWithRows`). A store that
  pulls what it cannot apply keeps its tables as they are.
* `HistoryReachesTheLog`: `Spec => []HistoryIsSent`. Inductive with `FormedInv`, that an
  upsert is queued under the project it carries: otherwise the enrolment of one
  project could drop what another waits to tell.
* `NothingSharedIsLost`: `Spec => []NothingSharedVanishes`. From `GoneAreAsked`: what is
  queued or logged as gone was deleted by somebody. A ghost is the one delete
  nobody asked for, and `NoGhosts` excludes it.
* `PullsNeverStick`: `Spec => []AppliesCleanly`. From `JournalsOrdered` and `LogOrdered`:
  before every memory that waits or is logged there is its session, in the same
  journal or in the log; with `SessionsSeen`, that what is logged below a cursor
  is a session the store holds. `AllPlain` keeps every memory in the project its
  session was created for, which is why a backfill of one project sends both.
* `QuietPeersAgree`: `Spec => []PeersAgree`. From `UpToDate`: of each memory a store holds
  what the last entry of the log about it says, or something about it is
  outstanding there. Where stores come and go, a backfill repeats older rows, and
  `Grown` says why none of them is missed: rows are live, stay in their project and
  were heard of by every store that is past their entry.
* `QuietTextsAreNewest`: `Spec => []NotSuperseded`. From `TextsInv`: an edit is the newest of
  one entry and never of two (`EachOnce`), and that entry comes before all others
  whose text knows of it, in the log (`LogTexts`) and from log to journals
  (`WaitTexts`); what a row knows of has been told (`RowTexts`). Of the last entry about
  a memory, which a quiet store shows, no later text can then know.

`PartsProofs`, about the five parts of `MCParts`, for any number of processes, stores,
prompts, agents and edits of a file, any builds, retention and bounds. The assumptions
are the named `ASSUME`s of `Schema` and `MCParts`: there is a released version, numbers
are numbers, the markers and the protocol's line are three lines that no person writes,
and `None` is no copy, stamp, text, row, directory or file content. A step of `MCParts`
is one of the part or leaves it alone, so an invariant of the part's specification is
one of `MCSpec`.

* `TypeCorrect`: `Spec => []TypeOK`, of `Schema`.
* `MigrationsInOrder`: `Spec => []EachMigrationOnce`, through `Stamped` (what was
  run lies above the released versions) and `AscendingExtends` (a run of
  migrations appended to an increasing sequence below it is one).
* `OpenedAtItsVersion`: `Spec => OpensItsOwn`, since the version is read again
  under the lock and the fast path asks for Leteo's tables.
* `MigrationLeavesCopy`: `Spec => WayBack`. The invariant has `Known` (no process
  saw a version newer than the file's), `Named` (a copy with the name of the
  file's version, or of a later one, is of that version: a name can lag behind
  only after the file went on) and `Copied`. That pruning may take the copy only
  when enough newer ones stand is `PrunedKeepsNewest`: the greatest of the
  newer copies pruning would remove has fewer than `Kept` above it.
* `DeletedPromptsStay`: `MCSpec => []DeletedStaysDeleted`. The property alone says
  nothing of what is still on its way. `OfThePast`: nothing speaks of a prompt that was
  not written, or of a later moment than now allows. `OneMoment`: rows, journals and log
  agree when a prompt was written. `DeletedLater`: with no clock behind, what buries a
  prompt is later than that moment. So `Remembered` holds: who has taken the delete
  does not hold the prompt and keeps a tombstone, which every upsert of it is older than.
* `QuietStoresHoldSamePrompts`: `MCSpec => []SamePrompts`, whatever the clocks say. From
  `HeldAreSent` (what a store holds is in the log or in its journal) and
  `PromptsFollow`: a store with nothing outstanding about a prompt holds it exactly if
  the log writes it after the last delete, with a later stamp. The log is one, so the
  stores agree; `OneMoment` makes what they hold equal too.
* `SerialVersionsKept`: `MCSpec => []SerialHistoryKept`. From `InTurn`: after k edits one
  after the other, every store has row and versions as after k of them, or as after
  k - 1 with the memory, or the version, of the last edit still to apply; and nothing
  else is on its way. `KeptOnceMore` is the lemma about `Trimmed` and `Inserted` that
  makes it inductive: a version that arrives for the second time changes nothing.
* `NotesStay`: `MCSpec => []NotesSurvive`. The function `Strip` calls itself, once for
  every block it meets; what it returns for every text is induction over the text. But
  `Tidy` is an invariant: since the person writes no markers, and the file found at
  first has none, it never has two that open, nor two that close behind that one, even
  where the person deletes a marker and a setup opens a block again. For such a text
  `StripFits` gives the recursive function outright and unfolds it twice: it takes the
  one block away or nothing, and `Upsert` puts a block between what stood on either
  side. `NotesStand` then is what no step breaks: every note has a place that is not
  between the markers. `WritesWhatItRead` adds that what is renamed is made from what
  the file still says, while the person keeps off.
* `InstructionsStay`: `MCSpec => []InstructedHasBlock`, from the same invariant:
  an uninstall writes only where no agent that names Leteo reads the file
  (`WritesWhatItRead`), a run passes its first step before it writes (`ServerFirst`),
  and so one that was told names Leteo (`ToldNamed`), and it has a block (`ToldHave`)
  that a line of the person's in it does not close.
* `NothingInPartsIsPlaced`: what is in place is nothing, what was found or a whole
  model, for any number of installers; from `Sides`, which says of an installer's
  stage what its own two directories hold.
* `TwoInstallAllOrNothing`: for at most two installers, `MCSpec => []AllOrNothing`. From
  `PlacedByTheOther` (while one has the old model aside, only the other can have put
  anything in place, and is through), `NewAreInstalled` (a whole model that was not
  there at first was put there by one that is through) and `WhyPutBack` (who puts back
  had a rename fail, or found a model there). The number of installers is a
  hypothesis because of three it is false (section 6).
* `PartsTypeCorrect`: the state of `History`, `Prompts`, `Setup` and `Install` has its
  types. That revisions stay within the edits made is `NothingLater`, of the rows and of
  everything on its way: an edit takes the next revision of the row it finds, which a
  pull may have set back, and a pull none that was not sent.

`SpoolProofs`, for any processes, captures and learnings, every cap and bound, and
renames that move a name or an opened file. The assumptions are the operator
`Assumptions`, a hypothesis of each theorem: captures are numbers, and no process
has the name of an unclaimed file. `Calm` is the frame lemma: a step that only
takes files away and goes on within its part keeps all of the invariant.

* `TypeCorrect`: `Spec => []TypeOK`.
* `ReplayedByOne`: `Spec => []OneReplay`. It is not inductive: what excludes two
  replays is decided when the entry is claimed. The invariant says that a capture
  that is still being written is its writer's alone (`Alone`, `Owned`), that the
  marker stands while a drain is inside `claim`, so that two are in it only where
  the file is gone (`Marked`, `OneClaim`), that a claimed file has its holder's name
  or is gone (`Held`), and that nobody is about to move a file that was claimed
  (`NoneMoves`).
* `NothingKeptIsLost`: `Spec => []KeptIsKept`. With `KInv`: a capture is `Safe` from the
  cap on, and one about to be removed is stored or refused.

`RelationsProofs`, for any stores, memories, relations and any number of
operations and batch replays. The assumptions are those of `Relations`.

* `TypeCorrect`: `Spec => []TypeOK`.
* `VerdictsAboutMemories`: `Spec => []VerdictsJoin`. Inductive with the types: every
  path that writes a verdict looks for both memories in its own transaction,
  and every hard delete orphans.
* `QuietStoresHoldTheVerdict`: `Spec => []VerdictsFollowLog`. From `VerdictInv`: once
  nothing about a relation is outstanding at a store, the last entry about it is
  what the row says or what is set aside there, and nothing older is listed by a
  batch replay (`LastTaken`); and what was sent stands in some store's table (`SentIsHeld`). That
  a quiet store has nothing set aside that could be applied is `DeferredWaits`.
* `NothingWaitsForNothing`: `Spec => []DeferredWaits`. A memory that is made new
  replays nothing, so the invariant needs `NewIsNew`: what is sent or set aside
  names memories that were somewhere, and a new one was nowhere.

`CloudLogProofs`, for any devices, items, projects and requests, and pools of any
size. The assumptions are the named `ASSUME`s of `CloudLog`.

* `TypeCorrect`: `Spec => []TypeOK`.
* `SessionsAreServed`: `Spec => []ReferencesServed`. Not inductive: what a memory's
  place rests on is settled when its request is admitted or begins. From `Sound`: what
  an open transaction inserted is a beginning of its request (`InLine`); the
  session of each item is logged, at an earlier place of the request, or in the
  mutations of a chunk, this one or a stored one (`Backed`, `Carried`); and so the
  rows in the log follow their sessions, or are carried (`Follow`).
* `LossesAreOvertaken`: `Spec => OnlyOvertakenSkipped`. A page is a beginning of what is
  visible (`PageIsBeginning`), so a pull passes nothing over (`PullSkipsNothing`); a
  cursor that is not at the start is the number of a row the device got (`Places`), so
  what a commit leaves behind it was overtaken (`CommitOvertaken`).
* `ChunkIsWrittenOnce`: `Spec => []ChunkRowsOnce`, whatever the pool. From
  `KeysApart`: a key is committed or held by one open transaction, never both, and
  a chunk's transaction holds its key or has yet to insert it.

`VectorsProofs`, for any finite set of memories, any texts, budget and bounds. The
assumptions are the operator `Assumptions`, a hypothesis of each theorem.

* `TypeCorrect`: `Spec => []TypeOK`.
* `VectorsAreCurrent`: `Spec => []CurrentIsOfText`. From `InOrder`: where texts do not
  come back they are written in ascending order, what a worker read first is no
  later than what it reads next, and neither is later than what the memory says.
  A vector with the memory's key then lies between two equal texts. `VectorsBesideTheSpool` (in
  `SpoolProofs`) carries it over to `MCBackground`: each step of the two components
  together is a step of `Vectors` or leaves it alone.

`FilingProofs`, for any directories, names, servers and hooks, any number of calls,
changes and kills. The assumptions are the named `ASSUME`s of `Filing`. `NextCases`
says that a step begins a call, with what was worked out, or is one of the others.

* `TypeCorrect`: `Spec => []TypeOK`.
* `DriftIsResolved`: `Spec => []DriftCanBeResolved`. From `There`: a session that was
  opened is never removed by a merge or a fold, so the name it carries now is one
  `project_exists` knows. The mutant asks for memories only, and fails where a
  conversation was opened and has saved nothing yet.
* `SplitsAreOvertaken`: `Spec => SplitOnlyWhenOvertaken`. A call begins with its
  session's project, and as long as sessions keep their projects it is not led astray
  (`NoneAstray`); a hook's own fold takes its session to the name it files under
  (`FoldKeepsOwn`). Merges and folds rename a session and its rows alike
  (`SplitMerge`), and else a conversation stays whole unless a row is filed under
  another name (`StaysWhole`). What is left is the two ways the property names.

Only model-checked: `EditsAreDelivered`, `EndsQuiet`, `RequestsAnswered`,
`KeptIsStored` and `AllCovered`, since liveness under fairness is out of the prover's
reach. What `Strip` makes of a text with several blocks is not proved either: that
would be induction over the text, and no text the model reaches has two. `AllOrNothing`
is proved for two installers; of three its second half is false, and its first half is
`NothingInPartsIsPlaced`.

## 6. What the runs found

Places where the code does something else than its documentation or comments
say; each is a violation run and is quoted in `PROJECT.json`.

1. `cloudlog_race`: ordering by `seq` does not make the server immune to the
   loss `pull_remote` describes, since numbers are drawn before commit.
2. `replicas_move_out`: the delete that is meant for the peers deletes the
   memory at home.
3. `filing_folds`: that one session was recorded here makes the fold take all that
   was recorded under the folder's name, in whatever directory.
4. `history`: the revision a version is keyed by goes back when a peer's edit is
   pulled, and the next edit's version is ignored.

The models show more of the kind, each by one change of a configuration (or of
the property named). They bound what the passing runs may assume:

| Change | What TLC then finds |
|---|---|
| `autosync_overlap` with `NewestEditSurvives` | a push dropped at shutdown lands after a newer one and brings an older edit back (autosync.rs:229 says that dropping is safe) |
| `cloudlog_serve` without the exception in `ReferencesServed` | a chunk has a session among its mutations and lists a memory of it: the session is known to the server and in no row of the log, and pullers get the memory alone (cloudstore/mod.rs:1057) |
| `replicas` without `NoGhosts` in `AppliesCleanly` | the upsert of a memory that moves into an enrolled project does not carry its session, and the peer's pull is stuck (observations.rs:850) |
| `replicas` without `NoneAbroad` in `AppliesCleanly` | `leteo consolidate` in another directory files under a session of that directory's project, which the peers of the memory's project may never hear of (cli/mod.rs:547, observations.rs:584) |
| `replicas` without `SessionsStay` in `AppliesCleanly` | a session deleted here and used there: neither store can apply the other's mutation (wire.rs:247); and a merge queues memories before their sessions (projects.rs:791) |
| `replicas` with merges in `HistoryIsSent` | a merge that enrols its target queues what moved and not what the target already held (projects.rs:767) |
| `replicas` without `AllShared \/ OnlyGrows` in `PeersAgree` | what is deleted while a project is left is no row any more when it is enrolled again, and no delete is sent (projects.rs:341). And with five operations: memories of another project are deleted under the project of the session, which may not be replicated (sessions.rs:378) |
| `replicas` without `AllShared` in `NotSuperseded` | the backfill of a project that is enrolled again sends rows as they are here, over newer ones (projects.rs:341) |
| `filing_folds` with `FoldsIntoDetected` | the fold goes "into the detected project" (hooks/session.rs:62), but its target is what the hook settled on: the project of the session it was given, or for a guess the newest other project recorded here. One conversation about something else, and the directory's own project is folded into it |
| `filing` with `FiledWithItsSession` | "a session owns its project for the rest of the conversation" (mcp/mod.rs:336), but a save reads the session's project in one transaction and files in a later one, which only asks whether the session exists (mcp/mod.rs:194): another process merges that project in between, the session has the new name and the memory the old one |
| `relations` with `LaterWordShows` | a model is asked whether "B is the later word" (llm.rs:71), and its "supersedes" hides B, since the target of a relation is what listings leave out (relations.rs:76) |
| `relations` with four operations and without `~overlaps` in `VerdictsFollowLog` | a batch replay beside a pull (cli/mod.rs:1326) puts an older verdict over a newer one |
| `background` without `~reverts` in `CurrentIsOfText` | a text that is changed back between the key and the read leaves a vector of the other text, current for ever (semantic_stage.rs:333) |
| `background` without `toxic` in `AllCovered` | a text the tokenizer fails on keeps the older memories without vectors (semantic_stage.rs:194) |
| `background` without `Stranded` in `KeptIsStored` | a drain killed between claim and replay leaves an entry nobody finds until the sweep deletes it (spool.rs:211) |
| `parts` with `HistoryIsBackfilled` | enrolling queues no versions, though it "queues everything a project already holds" (wire.rs:915) |
| `parts` without `TrueClocks` in `DeletedStaysDeleted` | a merge or a backfill brings a deleted prompt back when the deleting clock was behind (wire.rs:485) |
| `parts` with three builds racing | a copy named after one version holds a later one (schema.rs:408); `WayBack` speaks of who migrates what it found |
| `parts` without the guard on `cuts` in `CopyStands` | a copy cut off in the middle stands for the whole one from then on |
| `parts` with three installers | a partial old model put back by one keeps a whole one from being put in place by another (install.rs:238) |
| `parts` with a file of two opening markers and notes between them | the notes go with the block (setup/mod.rs:1169) |

Seen while reading the code, and kept by the models as it is: a relation found
in either direction keeps its direction when it is judged again
(relations.rs:326); a memory may be compared with itself; a semantic verdict
overwrites one that was made while the model was asked (llm.rs:249); a batch
replay never tries a row again that was given up; a second opener fails while
the first one copies (`CopyRefused`), where the comment of `prepare` says that it
waits (schema.rs:186); a hook whose session could not be created and whose store
is free again loses its capture (`Fails`), where the comment in hooks/mod.rs:727
says that a busy store is no loss any more; a capture in a drifted directory goes to the newest *other* project recorded there,
though mcp/mod.rs:384 says "the most recent one recorded there" and the detected one
may be more recent; setting up an agent whose hooks are
refused, or taking one out whose file cannot be read, leaves half of it done.

## 7. Not modelled

Search, ranking, recall, statistics and the dashboards only read; their scores
are floating point. The TUI, translations, exporters and the rendering of each
agent's configuration are formatting. Authentication is a constant (`Granted`):
hashing, cookies and revocation are not followed. How git, the scan for
repositories and the configuration find a name is read from the file system; what
may come of it is `Filing`. The MCP server's other tools are calls of the store
operations that are modelled. The repairs of `doctor` are the
store's own operations run from a command. What each migration does to the tables
is data; that it runs, once and in order, is `Schema`.

Limits of what is modelled, at their lines in "hazards" of `PROJECT.json`: a
project paused between the check and the transaction (cloudserver/mod.rs:276), a
grant that comes after a cursor has passed (cloudstore/mod.rs:319), a backfill over
a newer edit (projects.rs:341), the order in which a merge queues (projects.rs:791)
and a session deleted here and used there (sessions.rs:286) have no property that a
run checks. The length of a backoff (autosync.rs:430), the
timeout of a model (llm.rs:307) and one refused project that refuses a whole
batch (cloudserver/mod.rs:268) are data or constants here.

`TypeOK` is an invariant of `autosync_overlap` and a theorem of `Autosync`,
`Replicas`, `Schema`, `Spool`, `Relations`, `CloudLog`, `Vectors` and `Filing`; the other
modules' `TypeOK` documents their variables.
