---------------------------- MODULE MCBackground ---------------------------
(***************************************************************************)
(* The work that is done behind a person's back on one device, for TLC:    *)
(* Spool and Vectors.  They share no state.  Both are in an initial state, *)
(* and one of them takes steps.                                            *)
(***************************************************************************)
EXTENDS Spool

CONSTANTS Memory, Text, Budget, MaxEdits, MaxBusy \* Vectors

VARIABLES
    part,
    text, visible, vector, reverts, toxic, installed, loaded, stale, batch, wrote,
    edits, busy

Ve == INSTANCE Vectors

vectors == <<text, visible, vector, reverts, toxic, installed, loaded, stale, batch,
             wrote, edits, busy>>
allVars == <<part, vars, vectors>>

MCInit ==
    /\ Init /\ Ve!Init
    /\ \/ part = "spool" /\ ~reverts /\ toxic = {}
       \/ part = "vectors" /\ byHandle /\ refused = {} /\ session

\* A step of the part that was chosen.
InSpool(A) == part = "spool" /\ A /\ UNCHANGED <<part, vectors>>
InVectors(A) == part = "vectors" /\ A /\ UNCHANGED <<part, vars>>

MCNext == InSpool(Next) \/ InVectors(Ve!Next)

\* The fairness of the two modules, for the one that takes steps.
MCFairness ==
    /\ \A p \in Proc : WF_allVars(InSpool(Step(p) \/ Drain(p)))
    /\ \A w \in Ve!Worker : WF_allVars(InVectors(Ve!Work(w)))

MCSpec == MCInit /\ [][MCNext]_allVars /\ MCFairness

-----------------------------------------------------------------------------
(* The properties of Vectors, stated there; those of Spool keep their names. *)

(***************************************************************************)
(* A vector that counts as current is of the memory's text                 *)
(* (embed_and_keep).                                                       *)
(***************************************************************************)
CurrentIsOfText == Ve!CurrentIsOfText

(***************************************************************************)
(* Once the model is up, every memory gets a vector of its current text    *)
(* (backfill_step).                                                        *)
(***************************************************************************)
AllCovered == Ve!AllCovered

=============================================================================
