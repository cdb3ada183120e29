------------------------------- MODULE Spool -------------------------------
(***************************************************************************)
(* The captures kept beside a busy store (src/hooks/spool.rs), the hook    *)
(* that writes them (the SubagentStop event of src/hooks/mod.rs, the open  *)
(* that fails in src/cli/mod.rs) and the drains that replay them.          *)
(*                                                                         *)
(* Processes share one directory and one store.  A capture is the text a   *)
(* subagent ended with; in the store it is some learnings, each saved in   *)
(* a transaction of its own.  In the directory it is at most one file,     *)
(* known here by the name it has: a temporary name, an entry's name        *)
(* ("json"), or the name of the process that claimed it.                   *)
(*                                                                         *)
(* Everything a process does to the directory is a step, and it can die    *)
(* between any two.  The order of the entries' names is the order of       *)
(* Capture.  An answer "busy", a deadline that is over and a crash are     *)
(* counted together by MaxTrouble.                                         *)
(***************************************************************************)
EXTENDS Naturals, FiniteSets

CONSTANTS
    Proc,        \* processes: hooks, doctor --repair
    Capture,     \* 1..n, in the order of their names in the directory
    Learnings,   \* learnings of one capture
    Refusable,   \* bound: captures that the store may refuse
    Cap,         \* SPOOL_CAP
    MaxTrouble,  \* bound: busy answers, deadlines and crashes
    None

VARIABLES
    byHandle,  \* does a rename move the file it opened, as on Windows?
    refused,   \* captures the store will not take, whoever brings them
    file,      \* the name a capture's file has, or "none"
    marker,    \* captures whose claim marker exists
    stored,    \* learnings of a capture in the store
    session,   \* has the session of the captures a row?
    told,      \* what the agent was told of a capture
    old,       \* captures past SPOOL_RETENTION_DAYS
    dropped,   \* captures the cap dropped
    pc,        \* where a process is
    on,        \* the capture it works on
    todo,      \* the entries it listed and has not come to
    trouble

directory == <<file, marker, old, dropped>>
store == <<stored, session>>
process == <<pc, on, todo>>
world == <<byHandle, refused>>
vars == <<world, directory, store, told, process, trouble>>

Stage == {"off", "dead",                                           \* not running
          "open", "session", "capture", "write", "publish", "cap", \* SubagentStop
          "list", "next", "rename", "move", "won", "missed",       \* a drain claims
          "read", "ensure", "replay", "remove"}                    \* ... and replays

TypeOK ==
    /\ byHandle \in BOOLEAN
    /\ refused \in SUBSET Refusable
    /\ file \in [Capture -> {"none", "tmp", "json"} \cup Proc]
    /\ marker \in SUBSET Capture
    /\ stored \in [Capture -> 0..Learnings]
    /\ session \in BOOLEAN
    /\ told \in [Capture -> {"nothing", "stored", "kept", "lost"}]
    /\ old \in SUBSET Capture
    /\ dropped \in SUBSET Capture
    /\ pc \in [Proc -> Stage]
    /\ on \in [Proc -> Capture \cup {None}]
    /\ todo \in [Proc -> SUBSET Capture]
    /\ trouble \in 0..MaxTrouble

Init ==
    /\ byHandle \in BOOLEAN
    /\ refused \in SUBSET Refusable
    /\ file = [c \in Capture |-> "none"]
    /\ marker = {}
    /\ stored = [c \in Capture |-> 0]
    /\ session \in BOOLEAN
    /\ told = [c \in Capture |-> "nothing"]
    /\ old = {}
    /\ dropped = {}
    /\ pc = [p \in Proc |-> "off"]
    /\ on = [p \in Proc |-> None]
    /\ todo = [p \in Proc |-> {}]
    /\ trouble = 0

-----------------------------------------------------------------------------

Trouble == trouble < MaxTrouble /\ trouble' = trouble + 1

\* A process goes from one stage to another.
Goes(p, from, to) == pc[p] = from /\ pc' = [pc EXCEPT ![p] = to]

\* ... and what it worked on is over.
Ends(p, from, to) == Goes(p, from, to) /\ on' = [on EXCEPT ![p] = None] /\ UNCHANGED todo

Stays == UNCHANGED <<on, todo>>

Entries == {c \in Capture : file[c] = "json"}

\* sweep: whatever is past its retention goes, a claimed file and a marker too.
Swept == [c \in Capture |-> IF c \in old THEN "none" ELSE file[c]]

Sweep == file' = Swept /\ marker' = marker \ old

\* A capture no process has come with yet.
New(c) == told[c] = "nothing" /\ \A p \in Proc : on[p] # c

-----------------------------------------------------------------------------
(* The hook of a subagent that stopped.                                    *)

\* hook subagent-stop, with the text on its standard input.
Stop(p, c) ==
    /\ New(c)
    /\ Goes(p, "off", "open")
    /\ on' = [on EXCEPT ![p] = c]
    /\ UNCHANGED <<world, directory, store, told, todo, trouble>>

\* Store::open.  Where it is busy the hook spools and is done.
Open(p) ==
    /\ Goes(p, "open", "session")
    /\ Stays
    /\ UNCHANGED <<world, directory, store, told, trouble>>

OpenBusy(p) ==
    /\ Trouble
    /\ Goes(p, "open", "write")
    /\ Stays
    /\ UNCHANGED <<world, directory, store, told>>

\* ensure_session: a session that could not be made is a warning.
EnsureSession(p) ==
    /\ Goes(p, "session", "capture")
    /\ Stays
    /\ \/ session' = TRUE /\ UNCHANGED trouble
       \/ ~session /\ Trouble /\ UNCHANGED session
    /\ UNCHANGED <<world, directory, stored, told>>

\* One learning of passive_capture is saved; those that are there already are
\* passed over.
Saves(c) ==
    /\ session /\ c \notin refused /\ stored[c] < Learnings
    /\ stored' = [stored EXCEPT ![c] = @ + 1]
    /\ UNCHANGED session

Fails(c) == stored[c] < Learnings /\ (~session \/ c \in refused)

\* passive_capture from the hook itself.
Captures(p) ==
    LET c == on[p] IN
    /\ pc[p] = "capture"
    /\ \/ /\ Saves(c)
          /\ UNCHANGED <<world, directory, told, process, trouble>>
       \/ /\ stored[c] = Learnings
          /\ told' = [told EXCEPT ![c] = "stored"]
          /\ Ends(p, "capture", "list")
          /\ UNCHANGED <<world, directory, store, trouble>>
       \/ /\ Fails(c)
          /\ told' = [told EXCEPT ![c] = "lost"]
          /\ Ends(p, "capture", "list")
          /\ UNCHANGED <<world, directory, store, trouble>>

CapturesBusy(p) ==
    /\ pc[p] = "capture" /\ stored[on[p]] < Learnings
    /\ Trouble
    /\ Goes(p, "capture", "write")
    /\ Stays
    /\ UNCHANGED <<world, directory, store, told>>

\* spool: sweep, then write a temporary file ...
Write(p) ==
    /\ Goes(p, "write", "publish")
    /\ file' = [Swept EXCEPT ![on[p]] = "tmp"]
    /\ marker' = marker \ old
    /\ Stays
    /\ UNCHANGED <<world, old, dropped, store, told, trouble>>

\* ... rename it into place ...
Publish(p) ==
    /\ Goes(p, "publish", "cap") /\ file[on[p]] # "none"
    /\ file' = [file EXCEPT ![on[p]] = "json"]
    /\ Stays
    /\ UNCHANGED <<world, marker, old, dropped, store, told, trouble>>

\* ... which fails where it was swept meanwhile.
PublishFails(p) ==
    /\ pc[p] = "publish" /\ file[on[p]] = "none"
    /\ Ends(p, "publish", "off")
    /\ told' = [told EXCEPT ![on[p]] = "lost"]
    /\ UNCHANGED <<world, directory, store, trouble>>

\* The entries that are more than the cap, oldest first.
Surplus == {c \in Entries : Cardinality({d \in Entries : d >= c}) > Cap}

\* enforce_cap, after which the agent is told its capture is kept.  A hook
\* whose open was busy is done; one that had the store goes on to its drain.
EnforceCap(p) ==
    /\ \E next \in {"off", "list"} : Ends(p, "cap", next)
    /\ file' = [c \in Capture |-> IF c \in Surplus THEN "none" ELSE file[c]]
    /\ dropped' = dropped \cup Surplus
    /\ told' = [told EXCEPT ![on[p]] = "kept"]
    /\ UNCHANGED <<world, marker, old, store, trouble>>

-----------------------------------------------------------------------------
(* A drain.                                                                *)

\* Any other hook that ends, or doctor --repair: only the drain matters.
Drain(p) ==
    /\ Goes(p, "off", "list")
    /\ Stays
    /\ UNCHANGED <<world, directory, store, told, trouble>>

\* sweep and entries.
List(p) ==
    /\ Goes(p, "list", "next")
    /\ Sweep
    /\ todo' = [todo EXCEPT ![p] = Entries \ old]
    /\ UNCHANGED <<world, old, dropped, store, told, on, trouble>>

\* Nothing is left, or the deadline is over.
Done(p) ==
    /\ Goes(p, "next", "off")
    /\ \/ todo[p] = {} /\ UNCHANGED trouble
       \/ todo[p] # {} /\ Trouble
    /\ todo' = [todo EXCEPT ![p] = {}]
    /\ UNCHANGED <<world, directory, store, told, on>>

Oldest(p, c) == c \in todo[p] /\ \A d \in todo[p] : c <= d

\* Mutant: the rename alone claims.
Mark_Never(p, c) ==
    /\ Oldest(p, c)
    /\ todo' = [todo EXCEPT ![p] = @ \ {c}]
    /\ Goes(p, "next", "rename")
    /\ on' = [on EXCEPT ![p] = c]
    /\ UNCHANGED <<world, directory, store, told, trouble>>

\* claim: create_new of the marker, which another drainer may hold.
Mark(p, c) ==
    /\ Oldest(p, c)
    /\ todo' = [todo EXCEPT ![p] = @ \ {c}]
    /\ IF c \in marker
       THEN Goes(p, "next", "next") /\ UNCHANGED <<on, marker>>
       ELSE /\ Goes(p, "next", "rename")
            /\ on' = [on EXCEPT ![p] = c]
            /\ marker' = marker \cup {c}
    /\ UNCHANGED <<world, file, old, dropped, store, told, trouble>>

\* claim: the rename finds the entry or does not.  Where a rename moves the
\* file it opened, it has only opened it so far.
Rename(p) ==
    LET c == on[p] IN
    /\ pc[p] = "rename"
    /\ IF file[c] = "json"
       THEN Goes(p, "rename", IF byHandle THEN "move" ELSE "won")
       ELSE Goes(p, "rename", "missed")
    /\ file' = IF file[c] = "json" /\ ~byHandle THEN [file EXCEPT ![c] = p] ELSE file
    /\ Stays
    /\ UNCHANGED <<world, marker, old, dropped, store, told, trouble>>

\* The opened file gets the claimed name, whatever it is called by now.
Move(p) ==
    LET c == on[p] IN
    /\ pc[p] = "move"
    /\ Goes(p, "move", IF file[c] = "none" THEN "missed" ELSE "won")
    /\ file' = IF file[c] = "none" THEN file ELSE [file EXCEPT ![c] = p]
    /\ Stays
    /\ UNCHANGED <<world, marker, old, dropped, store, told, trouble>>

\* Mutant: the marker stays when the rename failed.
Unmark_Won(p) ==
    /\ \/ Goes(p, "won", "read") /\ Stays /\ marker' = marker \ {on[p]}
       \/ Ends(p, "missed", "next") /\ UNCHANGED marker
    /\ UNCHANGED <<world, file, old, dropped, store, told, trouble>>

\* claim: the marker goes after the rename, also after one that failed.
Unmark(p) ==
    /\ marker' = marker \ {on[p]}
    /\ \/ Goes(p, "won", "read") /\ Stays
       \/ Ends(p, "missed", "next")
    /\ UNCHANGED <<world, file, old, dropped, store, told, trouble>>

\* drain: the claimed entry is read; one that was swept meanwhile is not there.
Read(p) ==
    /\ pc[p] = "read"
    /\ \/ file[on[p]] = p /\ Goes(p, "read", "ensure") /\ Stays
       \/ file[on[p]] # p /\ Ends(p, "read", "next")
    /\ UNCHANGED <<world, directory, store, told, trouble>>

\* create_session from the entry.
Ensure(p) ==
    /\ Goes(p, "ensure", "replay")
    /\ session' = TRUE
    /\ Stays
    /\ UNCHANGED <<world, directory, stored, told, trouble>>

\* passive_capture from the entry; one the store refuses is dropped.
Replay(p) ==
    LET c == on[p] IN
    /\ pc[p] = "replay"
    /\ \/ Saves(c) /\ UNCHANGED process
       \/ (stored[c] = Learnings \/ Fails(c)) /\ Goes(p, "replay", "remove") /\ Stays
          /\ UNCHANGED store
    /\ UNCHANGED <<world, directory, told, trouble>>

\* The claimed file is removed.
Remove(p) ==
    /\ Ends(p, "remove", "next")
    /\ file' = IF file[on[p]] = p THEN [file EXCEPT ![on[p]] = "none"] ELSE file
    /\ UNCHANGED <<world, marker, old, dropped, store, told, trouble>>

\* Mutant: a busy store is a failure like any other.
Return_Drops(p) ==
    /\ \E from \in {"ensure", "replay"} : Goes(p, from, "off")
    /\ Trouble
    /\ file' = [file EXCEPT ![on[p]] = "none"]
    /\ on' = [on EXCEPT ![p] = None]
    /\ todo' = [todo EXCEPT ![p] = {}]
    /\ UNCHANGED <<world, marker, old, dropped, store, told>>

\* The store is busy: the entry gets its name back and the drain is over.
Return(p) ==
    /\ \/ Goes(p, "ensure", "off")
       \/ Goes(p, "replay", "off") /\ stored[on[p]] < Learnings
    /\ Trouble
    /\ file' = IF file[on[p]] = p THEN [file EXCEPT ![on[p]] = "json"] ELSE file
    /\ on' = [on EXCEPT ![p] = None]
    /\ todo' = [todo EXCEPT ![p] = {}]
    /\ UNCHANGED <<world, marker, old, dropped, store, told>>

-----------------------------------------------------------------------------

\* The process is killed; what it had in the directory stays.  Somebody is
\* left to go on.
Crash(p) ==
    /\ pc[p] \notin {"off", "dead"}
    /\ \E q \in Proc \ {p} : pc[q] # "dead"
    /\ Trouble
    /\ pc' = [pc EXCEPT ![p] = "dead"]
    /\ todo' = [todo EXCEPT ![p] = {}]
    /\ UNCHANGED <<world, directory, store, told, on>>

\* A week goes by.
Age(c) ==
    /\ c \notin old /\ (file[c] # "none" \/ c \in marker)
    /\ \A p \in Proc : on[p] = c => pc[p] = "dead"
    /\ old' = old \cup {c}
    /\ UNCHANGED <<world, file, marker, dropped, store, told, process, trouble>>

\* What a process that runs does next.
Step(p) ==
    \/ Open(p) \/ EnsureSession(p) \/ Captures(p)
    \/ Write(p) \/ Publish(p) \/ PublishFails(p) \/ EnforceCap(p)
    \/ List(p) \/ Done(p) \/ (\E c \in Capture : Mark(p, c))
    \/ Rename(p) \/ Move(p) \/ Unmark(p)
    \/ Read(p) \/ Ensure(p) \/ Replay(p) \/ Remove(p)

Next ==
    \/ \E p \in Proc :
         \/ Step(p) \/ Drain(p)
         \/ OpenBusy(p) \/ CapturesBusy(p) \/ Return(p) \/ Crash(p)
         \/ \E c \in Capture : Stop(p, c)
    \/ \E c \in Capture : Age(c)

Spec == Init /\ [][Next]_vars

\* Fairness: a process that runs goes on, and hooks keep coming to their end.
Fairness == \A p \in Proc : WF_vars(Step(p) \/ Drain(p))

FairSpec == Spec /\ Fairness

-----------------------------------------------------------------------------
(* Properties.                                                             *)

Replaying(p) == pc[p] \in {"ensure", "replay", "remove"}

(***************************************************************************)
(* No two drains replay one entry at the same time, wherever a rename      *)
(* moves what it opened (claim, the race of #293).                         *)
(***************************************************************************)
OneReplay ==
    \A p, q \in Proc : Replaying(p) /\ Replaying(q) /\ on[p] = on[q] => p = q

(***************************************************************************)
(* A capture the agent was told is kept is in the store or still in the    *)
(* directory, until it is past its retention, dropped by the cap or the    *)
(* store refuses it: no order of writes, claims, drains, busy answers and  *)
(* crashes removes the only copy (spool, drain).                           *)
(***************************************************************************)
KeptIsKept ==
    \A c \in Capture :
        told[c] = "kept" =>
            file[c] # "none" \/ stored[c] = Learnings
            \/ c \in refused \cup old \cup dropped

\* What a process that died took with it.
Stranded(c) == \E p \in Proc : pc[p] = "dead" /\ on[p] = c

(***************************************************************************)
(* A capture that is kept is stored once the store answers again, also     *)
(* behind one that it refuses; a claim is given up in the end, whether     *)
(* it succeeded or not.  What a killed drain had claimed is not found      *)
(* again (drain).                                                          *)
(***************************************************************************)
KeptIsStored ==
    \A c \in Capture :
        told[c] = "kept" ~>
            stored[c] = Learnings \/ Stranded(c) \/ c \in refused \cup old \cup dropped

=============================================================================
