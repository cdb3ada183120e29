------------------------------ MODULE Vectors ------------------------------
(***************************************************************************)
(* The vectors of the semantic stage (src/store/semantic_stage.rs): one    *)
(* for each memory, made after a save by the process that saved, and in    *)
(* the background by the thread of src/cli/bootstrap.rs, on the model of   *)
(* src/semantic/mod.rs.                                                    *)
(*                                                                         *)
(* Three reads and writes are statements of their own, with other writers  *)
(* between them: which memories are stale and under which key, the text    *)
(* of one, and the row that keeps its vector under the key read first.     *)
(*                                                                         *)
(* A text is its source key: two texts the hash cannot tell apart make     *)
(* the same vector.  A vector is the text it was made from.  One memory at *)
(* a time stands for a chunk of CHUNK.                                     *)
(***************************************************************************)
EXTENDS Naturals, Sequences, FiniteSets, SequencesExt

CONSTANTS
    Memory,    \* 1..n, by id
    Text,      \* 1..n, in the order they are first written
    Budget,    \* memories of one backfill step
    MaxEdits,  \* bound: saves, pulled writes and deletes
    MaxBusy,   \* bound: writes that do not get the lock in WRITE_PATIENCE
    None

Worker == {"written", "backfill"}

VARIABLES
    text,       \* what a memory says, or None without a row
    visible,    \* live and not superseded
    vector,     \* observation_vectors
    reverts,    \* may a memory say again what it said before?
    toxic,      \* texts the tokenizer fails on
    installed,  \* is the model on disk?
    loaded,     \* ... and in this process?
    stale,      \* what a worker found stale and has not come to
    batch,      \* the memory it read, its key and its text
    wrote,      \* the memory whose save embed_written follows
    edits, busy

rows == <<text, visible, vector>>
model == <<installed, loaded>>
job == <<stale, batch, wrote>>
vars == <<rows, reverts, toxic, model, job, edits, busy>>

Stored == [key : Text, of : Text]

TypeOK ==
    /\ text \in [Memory -> Text \cup {None}]
    /\ visible \in [Memory -> BOOLEAN]
    /\ vector \in [Memory -> Stored \cup {None}]
    /\ reverts \in BOOLEAN /\ toxic \in SUBSET Text
    /\ installed \in BOOLEAN /\ loaded \in BOOLEAN
    /\ stale \in [Worker -> Seq([mem : Memory, key : Text])]
    /\ batch \in [Worker -> [mem : Memory, key : Text, of : Text] \cup {None}]
    /\ wrote \in Memory \cup {None}
    /\ edits \in 0..MaxEdits /\ busy \in 0..MaxBusy

Init ==
    /\ text = [m \in Memory |-> None]
    /\ visible = [m \in Memory |-> TRUE]
    /\ vector = [m \in Memory |-> None]
    /\ reverts \in BOOLEAN
    /\ toxic \in {{}} \cup {{t} : t \in Text}
    /\ installed = FALSE /\ loaded = FALSE
    /\ stale = [w \in Worker |-> <<>>]
    /\ batch = [w \in Worker |-> None]
    /\ wrote = None
    /\ edits = 0 /\ busy = 0

-----------------------------------------------------------------------------
(* The memories.                                                           *)

Edited == edits < MaxEdits /\ edits' = edits + 1

\* A new text, or where it may, an earlier one again.
Writable(m, t) == t = edits + 1 \/ (reverts /\ t <= edits /\ t # text[m])

Writes(m, t) ==
    /\ Writable(m, t)
    /\ Edited
    /\ text' = [text EXCEPT ![m] = t]
    /\ UNCHANGED <<visible, vector>>

\* add_observation, update_observation and consolidate_observations of this
\* process: a committed save, and then embed_written.
Save(m, t) ==
    /\ wrote = None /\ stale["written"] = <<>> /\ batch["written"] = None
    /\ Writes(m, t)
    /\ wrote' = m
    /\ UNCHANGED <<reverts, toxic, model, stale, batch, busy>>

\* A write of another process or a pulled one: it embeds nothing here.
Pulled(m, t) ==
    /\ Writes(m, t)
    /\ UNCHANGED <<reverts, toxic, model, job, busy>>

\* A row and its vector go (ON DELETE CASCADE), or it is hidden for good.
Leave(m) ==
    /\ text[m] # None
    /\ Edited
    /\ \/ text' = [text EXCEPT ![m] = None] /\ vector' = [vector EXCEPT ![m] = None]
          /\ UNCHANGED visible
       \/ visible' = [visible EXCEPT ![m] = FALSE] /\ UNCHANGED <<text, vector>>
    /\ UNCHANGED <<reverts, toxic, model, job, busy>>

-----------------------------------------------------------------------------
(* The model.                                                              *)

\* leteo model install.
Install ==
    /\ installed' = TRUE
    /\ UNCHANGED <<rows, reverts, toxic, loaded, job, edits, busy>>

\* A search loads the model.
Search ==
    /\ installed
    /\ loaded' = TRUE
    /\ UNCHANGED <<rows, reverts, toxic, installed, job, edits, busy>>

-----------------------------------------------------------------------------
(* A worker.                                                               *)

Idle(w) == stale[w] = <<>> /\ batch[w] = None

\* Mutant: a vector once made counts as current.
IsCurrent_Once(m) == vector[m] # None

\* A vector made under the key the row has now.
IsCurrent(m) == vector[m] # None /\ vector[m].key = text[m]

IsStale(m) == text[m] # None /\ visible[m] /\ ~IsCurrent(m)

\* embed_written: the model is loaded, and the saved memory is stale_among.
ListWritten ==
    /\ wrote # None
    /\ wrote' = None
    /\ loaded' = installed
    /\ stale' = [stale EXCEPT !["written"] =
         IF installed /\ IsStale(wrote) THEN <<[mem |-> wrote, key |-> text[wrote]]>> ELSE <<>>]
    /\ UNCHANGED <<rows, reverts, toxic, installed, batch, edits, busy>>

\* stale_any: the newest first, as many as the budget allows.
StaleAny ==
    {q \in SetToSeqs({m \in Memory : IsStale(m)
                        /\ Cardinality({n \in Memory : n >= m /\ IsStale(n)}) <= Budget}) :
       \A i, j \in DOMAIN q : i < j => q[i] > q[j]}

\* backfill_step: it never loads the model.
ListStale ==
    /\ Idle("backfill")
    /\ loaded /\ installed
    /\ \E found \in StaleAny :
         stale' = [stale EXCEPT !["backfill"] =
           [i \in DOMAIN found |-> [mem |-> found[i], key |-> text[found[i]]]]]
    /\ UNCHANGED <<rows, reverts, toxic, model, batch, wrote, edits, busy>>

\* embed_and_keep reads the text of what was found stale; a memory that is
\* gone meanwhile is passed over.
ReadText(w) ==
    LET next == Head(stale[w]) IN
    /\ stale[w] # <<>> /\ batch[w] = None
    /\ stale' = [stale EXCEPT ![w] = Tail(@)]
    /\ batch' = [batch EXCEPT ![w] =
         IF text[next.mem] = None THEN None
         ELSE [mem |-> next.mem, key |-> next.key, of |-> text[next.mem]]]
    /\ UNCHANGED <<rows, reverts, toxic, model, wrote, edits, busy>>

\* Mutant: the vector is kept under the key the row has by now.
KeptKey_Now(b) == text[b.mem]

KeptKey(b) == b.key

\* keep_vectors: replaced where the row exists.
KeepVector(w) ==
    LET b == batch[w] IN
    /\ b # None /\ b.of \notin toxic
    /\ vector' = [vector EXCEPT ![b.mem] =
         IF text[b.mem] = None THEN None ELSE [key |-> KeptKey(b), of |-> b.of]]
    /\ batch' = [batch EXCEPT ![w] = None]
    /\ UNCHANGED <<text, visible, reverts, toxic, model, stale, wrote, edits, busy>>

\* A tokenizer that failed or a lock that was held: the rest of the job is
\* dropped with it.
GiveUp(w) ==
    /\ batch[w] # None
    /\ \/ batch[w].of \in toxic /\ UNCHANGED busy
       \/ batch[w].of \notin toxic /\ busy < MaxBusy /\ busy' = busy + 1
    /\ batch' = [batch EXCEPT ![w] = None]
    /\ stale' = [stale EXCEPT ![w] = <<>>]
    /\ UNCHANGED <<rows, reverts, toxic, model, wrote, edits>>

\* What a worker does next.
Work(w) ==
    \/ w = "written" /\ ListWritten
    \/ w = "backfill" /\ ListStale
    \/ ReadText(w) \/ KeepVector(w) \/ GiveUp(w)

Next ==
    \/ \E m \in Memory :
         Leave(m) \/ \E t \in Text : Save(m, t) \/ Pulled(m, t)
    \/ Install \/ Search
    \/ \E w \in Worker : Work(w)

Spec == Init /\ [][Next]_vars

\* Fairness: the thread looks again and again, and a job goes on.
Fairness == \A w \in Worker : WF_vars(Work(w))

FairSpec == Spec /\ Fairness

-----------------------------------------------------------------------------
(* Properties.                                                             *)

(***************************************************************************)
(* A vector that counts as current was made from what the memory says:     *)
(* the key is read before the text, so an edit between the two only makes  *)
(* the vector stale.  It takes an edit that comes back to an earlier text  *)
(* to break this (embed_and_keep, SOURCE_KEY).                             *)
(***************************************************************************)
CurrentIsOfText ==
    ~reverts =>
        \A m \in Memory : vector[m] # None /\ vector[m].key = text[m] => vector[m].of = text[m]

\* Nothing to find here, or it can be found by meaning.
Covered(m) ==
    \/ text[m] = None \/ ~visible[m]
    \/ vector[m] # None /\ vector[m].key = text[m]

(***************************************************************************)
(* Once the model is up in a process, every memory that can be found gets  *)
(* a vector of its current text, whoever wrote it and whichever writes     *)
(* lost the lock; unless the tokenizer fails on one of them, which keeps   *)
(* the older ones waiting (backfill_step).                                 *)
(***************************************************************************)
AllCovered ==
    loaded ~> (\A m \in Memory : Covered(m)) \/ (\E m \in Memory : text[m] \in toxic)

=============================================================================
