------------------------------ MODULE Install ------------------------------
(***************************************************************************)
(* Putting the model of the semantic search in place                       *)
(* (src/semantic/install.rs): verified files are written to a directory of *)
(* the installer's own, checked there, and renamed over the one that is    *)
(* there, which is moved aside first.                                      *)
(*                                                                         *)
(* A directory is the set of the model's files that it holds as this build *)
(* accepts them; a file cut short, of another build or not there is not in *)
(* the set.  Installers run at the same time, each under a process number  *)
(* of its own; every step may fail, and an installer may be killed.        *)
(***************************************************************************)
EXTENDS Naturals

CONSTANTS
    Installer,
    File,       \* MODEL_FILES
    MaxTrouble, \* bound: writes, renames and downloads that fail, and kills
    None

VARIABLES
    target,   \* <data dir>/model, or None
    staging,  \* model.new-<pid>
    aside,    \* model.old-<pid>
    pc,
    hadOne,   \* what target.exists() said
    first,    \* what was there in the beginning
    had,      \* was the whole model ever in place?
    trouble

dirs == <<target, staging, aside>>
vars == <<dirs, pc, hadOne, first, had, trouble>>

Directory == (SUBSET File) \cup {None}
Whole == File

TypeOK ==
    /\ target \in Directory /\ first \in Directory
    /\ staging \in [Installer -> Directory] /\ aside \in [Installer -> Directory]
    /\ pc \in [Installer -> {"off", "write", "inspect", "look", "aside", "swap", "put back",
                             "clear", "done", "killed"}]
    /\ hadOne \in [Installer -> BOOLEAN]
    /\ had \in BOOLEAN
    /\ trouble \in 0..MaxTrouble

Init ==
    /\ target \in Directory
    /\ staging = [p \in Installer |-> None]
    /\ aside = staging
    /\ pc = [p \in Installer |-> "off"]
    /\ hadOne = [p \in Installer |-> FALSE]
    /\ first = target
    /\ had = (target = Whole)
    /\ trouble = 0

-----------------------------------------------------------------------------

Trouble == trouble < MaxTrouble /\ trouble' = trouble + 1

Goes(p, from, to) == pc[p] = from /\ pc' = [pc EXCEPT ![p] = to]

Puts(content) ==
    /\ target' = content
    /\ had' = (had \/ content = Whole)

\* from_directory or from_release: all the files are at hand and each has its
\* pinned hash; otherwise nothing is done.
Obtain(p) ==
    /\ Goes(p, "off", "write")
    /\ staging' = [staging EXCEPT ![p] = {}]
    /\ UNCHANGED <<target, aside, hadOne, first, had, trouble>>

\* fs::write of a file; a bad one may leave no error behind.
WriteFile(p, f) ==
    /\ pc[p] = "write" /\ f \notin staging[p]
    /\ staging' = [staging EXCEPT ![p] = @ \cup {f}]
    /\ UNCHANGED <<target, aside, pc, hadOne, first, had, trouble>>

Written(p) ==
    /\ \/ staging[p] = Whole /\ UNCHANGED trouble
       \/ staging[p] # Whole /\ Trouble
    /\ Goes(p, "write", "inspect")
    /\ UNCHANGED <<dirs, hadOne, first, had>>

\* An error while writing takes the directory away.
WriteFails(p) ==
    /\ Trouble
    /\ Goes(p, "write", "done")
    /\ staging' = [staging EXCEPT ![p] = None]
    /\ UNCHANGED <<target, aside, hadOne, first, had>>

\* inspect of the files that were written.
Verified(p) == staging[p] = Whole

Inspect(p) ==
    /\ \/ Verified(p) /\ Goes(p, "inspect", "look") /\ UNCHANGED staging
       \/ ~Verified(p) /\ Goes(p, "inspect", "done")
          /\ staging' = [staging EXCEPT ![p] = None]
    /\ UNCHANGED <<target, aside, hadOne, first, had, trouble>>

Look(p) ==
    /\ Goes(p, "look", IF target = None THEN "swap" ELSE "aside")
    /\ hadOne' = [hadOne EXCEPT ![p] = target # None]
    /\ UNCHANGED <<dirs, first, had, trouble>>

\* The one that is there is moved aside; where that fails, also because
\* another installer has just done so, the written directory is left behind.
MoveAside(p) ==
    /\ \/ target # None
          /\ Goes(p, "aside", "swap")
          /\ aside' = [aside EXCEPT ![p] = target]
          /\ target' = None
          /\ UNCHANGED trouble
       \/ /\ IF target = None THEN UNCHANGED trouble ELSE Trouble
          /\ Goes(p, "aside", "done")
          /\ UNCHANGED <<target, aside>>
    /\ UNCHANGED <<staging, hadOne, first, had>>

\* A rename puts a directory where none is, or an empty one.
Free == target \in {None, {}}

Swap(p) ==
    /\ \/ /\ Free
          /\ Goes(p, "swap", "clear")
          /\ Puts(staging[p])
          /\ staging' = [staging EXCEPT ![p] = None]
          /\ UNCHANGED trouble
       \/ /\ IF Free THEN Trouble ELSE UNCHANGED trouble
          /\ Goes(p, "swap", "put back")
          /\ UNCHANGED <<target, staging, had>>
    /\ UNCHANGED <<aside, hadOne, first>>

\* Mutant: a failed rename is reported, and that is all.
PutBack_Never(p) ==
    /\ Goes(p, "put back", "done")
    /\ staging' = [staging EXCEPT ![p] = None]
    /\ UNCHANGED <<target, aside, hadOne, first, had, trouble>>

\* What was moved aside is put back, or that fails too.
PutBack(p) ==
    /\ Goes(p, "put back", "done")
    /\ \/ /\ hadOne[p] /\ Free
          /\ Puts(aside[p])
          /\ aside' = [aside EXCEPT ![p] = None]
          /\ UNCHANGED trouble
       \/ /\ IF hadOne[p] /\ Free THEN Trouble ELSE UNCHANGED trouble
          /\ UNCHANGED <<target, aside, had>>
    /\ staging' = [staging EXCEPT ![p] = None]
    /\ UNCHANGED <<hadOne, first>>

Clear(p) ==
    /\ Goes(p, "clear", "done")
    /\ aside' = [aside EXCEPT ![p] = None]
    /\ UNCHANGED <<target, staging, hadOne, first, had, trouble>>

Killed(p) ==
    /\ pc[p] \notin {"off", "done", "killed"}
    /\ Trouble
    /\ pc' = [pc EXCEPT ![p] = "killed"]
    /\ UNCHANGED <<dirs, hadOne, first, had>>

Next ==
    \E p \in Installer :
        \/ Obtain(p) \/ (\E f \in File : WriteFile(p, f)) \/ Written(p) \/ WriteFails(p)
        \/ Inspect(p) \/ Look(p) \/ MoveAside(p) \/ Swap(p) \/ PutBack(p) \/ Clear(p)
        \/ Killed(p)

Spec == Init /\ [][Next]_vars

-----------------------------------------------------------------------------
(* Properties.                                                             *)

\* The model is out of place for the moment, or was left so.
Underway(p) == pc[p] \in {"swap", "put back"}

(***************************************************************************)
(* Whatever fails and whoever else installs, the model in place is what    *)
(* was found there or a whole one, and once there was a whole one it is in *)
(* place, or between the two renames of an installer, or set aside by one  *)
(* that was killed there or failed twice (place: "all or nothing").        *)
(***************************************************************************)
AllOrNothing ==
    /\ target \in {None, first, Whole}
    /\ had => \/ target = Whole
              \/ \E p \in Installer :
                   aside[p] = Whole /\ (Underway(p) \/ pc[p] = "killed" \/ trouble > 1)
              \/ \E p \in Installer : Underway(p) /\ staging[p] = Whole

=============================================================================
