------------------------------ MODULE MCParts ------------------------------
(***************************************************************************)
(* Five parts that share no state, for TLC: opening a store (Schema), the  *)
(* versions of a memory (History), prompts (Prompts), agents and their     *)
(* instruction file (Setup) and the model (Install).  Each is in an        *)
(* initial state, and one of them takes steps.                             *)
(***************************************************************************)
EXTENDS Schema

CONSTANTS
    Store, Retention, MaxEdits,                                \* History
    Prompt, Skew, MaxTime,                                     \* Prompts
    Agent, MaxLineEdits, MaxRuns, MaxLine, Begin, Protocol, End, \* Setup
    Installer, File, MaxTrouble                                \* Install

VARIABLES
    part,
    row, enrolled, versions, outbox, log, cursor, edits, concurrent, late,
    prompts, gone, behind, joined, pending, shared, taken, now, born, unsent,
    instructions, temp, server, hooks, readers, owned, run, told, notes, damaged, careful,
    lineEdits, runs,
    target, staging, aside, stage, hadOne, first, had, trouble

\* No instruction file, or one with a line of the person's.
FoundFile == {None, <<0>>}

Hi == INSTANCE History
Pr == INSTANCE Prompts WITH enrolled <- joined, outbox <- pending, log <- shared, cursor <- taken
Se == INSTANCE Setup WITH MaxEdits <- MaxLineEdits, edits <- lineEdits,
                        file <- instructions
In == INSTANCE Install WITH pc <- stage

ASSUME HistoryAssumption ==
    Retention \in Nat /\ MaxEdits \in Nat /\ None \notin Hi!Text /\ None \notin Hi!Row
ASSUME PromptAssumption == Skew \in Nat /\ MaxTime \in Nat /\ None \notin Pr!Stamp
ASSUME SetupAssumption ==
    /\ MaxLineEdits \in Nat /\ MaxRuns \in Nat
    /\ Begin # Protocol /\ Begin # End /\ Protocol # End
    /\ Begin \notin Nat /\ Protocol \notin Nat /\ End \notin Nat
    /\ None \notin Seq(Se!Line)
ASSUME InstallAssumption == MaxTrouble \in Nat /\ \A d \in SUBSET File : d # None

history == <<row, enrolled, versions, outbox, log, cursor, edits, concurrent, late>>
prompting == <<prompts, gone, behind, joined, pending, shared, taken, now, born, unsent>>
setup == <<instructions, temp, server, hooks, readers, owned, run, told, notes, damaged, careful,
           lineEdits, runs>>
install == <<target, staging, aside, stage, hadOne, first, had, trouble>>
allVars == <<part, vars, history, prompting, setup, install>>

\* A part that takes no steps is in one of its initial states.
SchemaRests ==
    /\ ours /\ stamp = 0
    /\ \A v \in Version : copy[v] = None
    /\ \A p \in Proc : supports[p] = Newest
HistoryRests == ~late /\ ~concurrent
PromptsRest == \A n \in Store : behind[n] = 0 /\ joined[n]
SetupRests == instructions = None /\ readers = {} /\ ~owned /\ careful
InstallRests == target = None

MCInit ==
    /\ part \in {"schema", "history", "prompts", "setup", "install"}
    /\ Init /\ (part = "schema" \/ SchemaRests)
    /\ Hi!Init /\ (part = "history" \/ HistoryRests)
    /\ Pr!Init /\ (part = "prompts" \/ PromptsRest)
    /\ Se!Init /\ (part = "setup" \/ SetupRests)
    /\ In!Init /\ (part = "install" \/ InstallRests)

MCNext ==
    /\ UNCHANGED part
    /\ \/ part = "schema" /\ Next /\ UNCHANGED <<history, prompting, setup, install>>
       \/ part = "history" /\ Hi!Next /\ UNCHANGED <<vars, prompting, setup, install>>
       \/ part = "prompts" /\ Pr!Next /\ UNCHANGED <<vars, history, setup, install>>
       \/ part = "setup" /\ Se!Next /\ UNCHANGED <<vars, history, prompting, install>>
       \/ part = "install" /\ In!Next /\ UNCHANGED <<vars, history, prompting, setup>>

MCSpec == MCInit /\ [][MCNext]_allVars

-----------------------------------------------------------------------------
(* The properties of the modules, stated there; those of Schema keep their names. *)

(***************************************************************************)
(* Edits one after the other leave the same newest versions on every store *)
(* (snapshot_observation_version_tx).                                      *)
(***************************************************************************)
SerialHistoryKept == Hi!SerialHistoryKept

(***************************************************************************)
(* A deleted prompt does not come back while clocks are right              *)
(* (apply_prompt_upsert_tx).                                               *)
(***************************************************************************)
DeletedStaysDeleted == Pr!DeletedStaysDeleted

(***************************************************************************)
(* Stores that have exchanged everything hold the same prompts             *)
(* (apply_prompt_upsert_tx, apply_prompt_delete_tx).                       *)
(***************************************************************************)
SamePrompts == Pr!SamePrompts

(***************************************************************************)
(* What a person wrote around the block survives (upsert_memory_protocol). *)
(***************************************************************************)
NotesSurvive == Se!NotesSurvive

(***************************************************************************)
(* An agent that is set up keeps the block in its file                     *)
(* (still_configured_sharer).                                              *)
(***************************************************************************)
InstructedHasBlock == Se!InstructedHasBlock

(***************************************************************************)
(* The model in place is never in parts, and not lost (place).             *)
(***************************************************************************)
AllOrNothing == In!AllOrNothing

=============================================================================
