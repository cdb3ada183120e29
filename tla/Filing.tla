------------------------------- MODULE Filing -------------------------------
(***************************************************************************)
(* Under which project a memory is filed (src/mcp, src/hooks,              *)
(* src/project.rs).  MCP servers and hooks are processes that share a      *)
(* store.  Each works out a project from what its directory looks like,    *)
(* from the sessions recorded there and from the session it is given; then *)
(* it opens that session and files what it has.  Reading, folding, opening *)
(* and filing are transactions of their own, so other processes come       *)
(* between them.                                                           *)
(*                                                                         *)
(* What is abstracted: names are normalised ones and a directory is its    *)
(* repository's root; the payload of a hook names no project; a user's     *)
(* choice comes with the token of the refusal that asked for it; the store *)
(* is never busy; sessions are ordered by their creation.                  *)
(***************************************************************************)
EXTENDS Naturals, Sequences

CONSTANTS
    Dir,
    Name,       \* projects
    Folder,     \* the name each directory has as a folder
    Looks,      \* what detection may find in each, a set
    Children,   \* the projects of the repositories inside it, a set
    Server,     \* MCP servers
    At,         \* the directory each is launched in
    Default,    \* the project each is told to use, if any
    Hook,       \* processes that run lifecycle events
    Chat,       \* session ids that agents choose
    MaxCalls,   \* bound: calls and events
    MaxChanges, \* bound: changes of what a directory looks like
    None

Process == Server \cup Hook

\* A session is an agent's, or the one for a project's unnamed saves (manual_session_id).
Session == Chat \cup Name

\* A directory looks like a plain folder or one without an origin; like one whose
\* scan, remote or self could not be read; like one that holds several
\* repositories; or has the name its origin or its config gives it.
Look == {"folder", "unsure", "workspace"} \cup Name

Opened == [project : Name, dir : Dir, ended : BOOLEAN]

Job ==
    [stage : {"fold", "merge", "open", "file"}, id : Session, project : Name, dir : Dir,
     detected : Name \cup {None}, files : BOOLEAN]

ASSUME PlaceAssumption ==
    /\ Folder \in [Dir -> Name] /\ At \in [Server -> Dir]
    /\ Looks \in [Dir -> SUBSET Look] /\ Children \in [Dir -> SUBSET Name]
ASSUME DefaultAssumption == Default \in [Server -> Name \cup {None}]
ASSUME IdAssumption ==
    Server \cap Hook = {} /\ Chat \cap Name = {} /\ None \notin Session \cup Opened \cup Job
ASSUME LookAssumption == {"folder", "unsure", "workspace", None} \cap Name = {}
ASSUME BoundAssumption == MaxCalls \in Nat /\ MaxChanges \in Nat

VARIABLES
    looks,   \* what detection can find in each directory
    found,   \* what each server found there, once (CURRENT_PROJECT)
    session, \* the sessions table
    opened,  \* its ids, oldest first
    filed,   \* memories and prompts: project, session and directory of the call
    job,     \* what each process is in the middle of
    calls, changes

vars == <<looks, found, session, opened, filed, job, calls, changes>>
rows == <<session, opened, filed>>

TypeOK ==
    /\ looks \in [Dir -> Look]
    /\ found \in [Server -> Look \cup {None}]
    /\ session \in [Session -> Opened \cup {None}]
    /\ opened \in Seq(Session)
    /\ filed \subseteq [project : Name, session : Session, from : Dir]
    /\ job \in [Process -> Job \cup {None}]
    /\ calls \in 0..MaxCalls /\ changes \in 0..MaxChanges

Init ==
    /\ looks \in {l \in [Dir -> Look] : \A d \in Dir : l[d] \in Looks[d]}
    /\ found = [s \in Server |-> None]
    /\ session = [i \in Session |-> None]
    /\ opened = <<>>
    /\ filed = {}
    /\ job = [p \in Process |-> None]
    /\ calls = 0 /\ changes = 0

-----------------------------------------------------------------------------
(* What a directory is called, and what is recorded there.                 *)

\* The detected name; None when the directory is ambiguous.
Detected(d, look) ==
    CASE look = "workspace" -> None
      [] look \in Name -> look
      [] OTHER -> Folder[d]

\* A server detects once, a hook each time.
Seen(s) == IF found[s] = None THEN looks[At[s]] ELSE found[s]
Remember(s) == found' = [found EXCEPT ![s] = Seen(s)]

Exists(i) == session[i] # None

\* The sessions recorded in d under other projects than n, by age.
Recorded(d, n) ==
    {k \in DOMAIN opened : session[opened[k]].dir = d /\ session[opened[k]].project # n}

NamesRecorded(d, n) == {session[opened[k]].project : k \in Recorded(d, n)}

\* The project of the newest of them: one, if there are any.
NewestRecorded(d, n) ==
    {session[opened[k]].project : k \in {j \in Recorded(d, n) : \A i \in Recorded(d, n) : i <= j}}

\* Mutant: only what holds a memory counts.
ProjectExists_Memories(n) == \E f \in filed : f.project = n

ProjectExists(n) ==
    \/ \E i \in Session : Exists(i) /\ session[i].project = n
    \/ \E f \in filed : f.project = n

\* The directory's sessions are under another name than it has now.
Drifted(d, n) == n # None /\ Recorded(d, n) # {}

\* What a caller that names a project may name.
MayName(s, n) ==
    LET name == Detected(At[s], Seen(s)) IN
      IF name = None THEN n \in Children[At[s]]
      ELSE n = name \/ n = Default[s] \/ ProjectExists(n)

-----------------------------------------------------------------------------
(* A call, up to its first write.                                          *)

MayBegin(p) == job[p] = None /\ calls < MaxCalls

BeginCall(p, stage, i, n, d, name, files) ==
    /\ MayBegin(p)
    /\ calls' = calls + 1
    /\ job' = [job EXCEPT ![p] = [stage |-> stage, id |-> i, project |-> n, dir |-> d,
                                  detected |-> name, files |-> files]]
    /\ UNCHANGED <<looks, rows, changes>>

\* A save or a capture that names a session files under that session's project;
\* a capture detects all the same.
SaveIn(s, i) ==
    /\ Exists(i) /\ ~session[i].ended
    /\ BeginCall(s, "file", i, session[i].project, At[s], None, TRUE)
    /\ UNCHANGED found \/ Remember(s)

\* One that names no session goes to the manual session of its project.
SaveManually(s, n) ==
    BeginCall(s, "open", n, n, At[s], Detected(At[s], Seen(s)), TRUE) /\ Remember(s)

\* A save that names nothing is refused where the directory drifted.
SaveSilently(s) ==
    LET name == Detected(At[s], Seen(s)) IN
      IF Default[s] # None THEN SaveManually(s, Default[s])
      ELSE name # None /\ ~Drifted(At[s], name) /\ SaveManually(s, name)

SaveUnder(s, n) == MayName(s, n) /\ SaveManually(s, n)

\* A capture cannot be asked: where the directory drifted it follows the history.
CaptureFollows(s) ==
    LET name == Detected(At[s], Seen(s)) IN
      /\ Default[s] = None /\ Drifted(At[s], name)
      /\ \E n \in NewestRecorded(At[s], name) : MayName(s, n) /\ SaveManually(s, n)

\* A conversation begins under the name its agent gives, or the detected one; in
\* the directory its agent gives, or the server's.
Start(s, c, n, d) ==
    /\ ~Exists(c)
    /\ IF d = None
       THEN BeginCall(s, "open", c, n, At[s], Detected(At[s], Seen(s)), FALSE) /\ Remember(s)
       ELSE BeginCall(s, "open", c, n, d, Detected(d, looks[d]), FALSE) /\ UNCHANGED found

StartSilently(s, c, d) ==
    LET name == IF d = None THEN Detected(At[s], Seen(s)) ELSE Detected(d, looks[d])
        place == IF d = None THEN At[s] ELSE d IN
      IF Default[s] # None THEN Start(s, c, Default[s], d)
      ELSE name # None /\ ~Drifted(place, name) /\ Start(s, c, name, d)

\* mem_current_project, and every call that is refused.
CurrentProject(s) ==
    /\ job[s] = None /\ found[s] = None
    /\ Remember(s)
    /\ UNCHANGED <<looks, rows, job, calls, changes>>

\* Mutant: a hook believes its directory before the session.
Owned_ByDirectory(i, n) == n

\* An existing session owns its project.
Owned(i, n) == IF Exists(i) THEN session[i].project ELSE n

\* What a hook takes its directory for: the history outranks a guess.
Guessed(d) ==
    LET name == Detected(d, looks[d]) IN
      IF looks[d] = "unsure" /\ Drifted(d, name) THEN NewestRecorded(d, name) ELSE {name}

\* A lifecycle event in d, of conversation c or of none.
Event(h, d, c, stage, files) ==
    /\ \E n \in Guessed(d) :
         LET i == IF c = None THEN n ELSE c IN
           /\ i # None /\ (n # None \/ Exists(i))
           /\ BeginCall(h, stage, i, Owned(i, n), d, Detected(d, looks[d]), files)
    /\ UNCHANGED found

SessionStarts(h, d, c) == Event(h, d, c, "fold", FALSE)
Compacted(h, d, c) == Event(h, d, c, "open", FALSE)
PromptOrCapture(h, d, c) == Event(h, d, c, "open", TRUE)

-----------------------------------------------------------------------------
(* The writes.                                                             *)

Goto(p, stage) == job' = [job EXCEPT ![p].stage = stage]
Done(p) == job' = [job EXCEPT ![p] = None]

\* Mutant: sessions stay under the old name.
Merged_Memories(from, to) ==
    /\ filed' = {[f EXCEPT !.project = IF @ = from THEN to ELSE @] : f \in filed}
    /\ UNCHANGED session

\* merge_projects: whatever is under one name goes under another.
Merged(from, to) ==
    /\ filed' = {[f EXCEPT !.project = IF @ = from THEN to ELSE @] : f \in filed}
    /\ session' = [i \in Session |->
                     IF Exists(i) /\ session[i].project = from
                     THEN [session[i] EXCEPT !.project = to] ELSE session[i]]

RecordedHere(d) == \E i \in Session : Exists(i) /\ session[i].project = Folder[d]
                                                /\ session[i].dir = d

\* migrate_directory_project asks, and merges in a transaction of its own.
AskToFold(h) ==
    /\ job[h] # None /\ job[h].stage = "fold"
    /\ IF job[h].project # Folder[job[h].dir] /\ RecordedHere(job[h].dir)
       THEN Goto(h, "merge") ELSE Goto(h, "open")
    /\ UNCHANGED <<looks, found, rows, calls, changes>>

FoldFolder(h) ==
    /\ job[h] # None /\ job[h].stage = "merge"
    /\ Merged(Folder[job[h].dir], job[h].project)
    /\ Goto(h, "open")
    /\ UNCHANGED <<looks, found, opened, calls, changes>>

\* INSERT OR IGNORE: a session that is there stays as it is.
OpenSession(p) ==
    /\ job[p] # None /\ job[p].stage = "open"
    /\ IF Exists(job[p].id) THEN UNCHANGED <<session, opened>>
       ELSE /\ session' = [session EXCEPT ![job[p].id] =
                             [project |-> job[p].project, dir |-> job[p].dir, ended |-> FALSE]]
            /\ opened' = Append(opened, job[p].id)
    /\ IF job[p].files THEN Goto(p, "file") ELSE Done(p)
    /\ UNCHANGED <<looks, found, filed, calls, changes>>

WriteRow(p) ==
    /\ job[p] # None /\ job[p].stage = "file"
    /\ filed' = filed \cup {[project |-> job[p].project, session |-> job[p].id,
                             from |-> job[p].dir]}
    /\ Done(p)
    /\ UNCHANGED <<looks, found, session, opened, calls, changes>>

\* mem_session_end, or a hook whose agent stops.
EndSession(p, i) ==
    /\ MayBegin(p) /\ Exists(i)
    /\ calls' = calls + 1
    /\ session' = [session EXCEPT ![i].ended = TRUE]
    /\ UNCHANGED <<looks, found, opened, filed, job, changes>>

\* mem_merge_projects and the consolidation a user asks for.
Merge(s, from, to) ==
    /\ MayBegin(s) /\ from # to /\ ProjectExists(from)
    /\ Merged(from, to)
    /\ calls' = calls + 1
    /\ UNCHANGED <<looks, found, opened, job, changes>>

\* mem_update of a memory's project.  What is filed says nothing of how many
\* memories it is, so others may stay.
Move(s, f, n) ==
    /\ MayBegin(s) /\ Detected(At[s], Seen(s)) # None /\ MayName(s, n) /\ n # f.project
    /\ Remember(s)
    /\ calls' = calls + 1
    /\ \E others \in {{}, {f}} : filed' = (filed \ {f}) \cup others \cup {[f EXCEPT !.project = n]}
    /\ UNCHANGED <<looks, session, opened, job, changes>>

-----------------------------------------------------------------------------
(* What happens around the store.                                          *)

\* A repository gains, loses or renames its origin; a scan runs out of time.
Change(d, look) ==
    /\ look # looks[d] /\ changes < MaxChanges
    /\ changes' = changes + 1
    /\ looks' = [looks EXCEPT ![d] = look]
    /\ UNCHANGED <<found, rows, job, calls>>

\* A process stops wherever it is; a new server detects anew.
Stop(p) ==
    /\ job[p] # None \/ (p \in Server /\ found[p] # None)
    /\ Done(p)
    /\ found' = IF p \in Server THEN [found EXCEPT ![p] = None] ELSE found
    /\ UNCHANGED <<looks, rows, calls, changes>>

Serve(s) ==
    \/ \E i \in Session : SaveIn(s, i)
    \/ SaveSilently(s)
    \/ \E n \in Name : SaveUnder(s, n)
    \/ CaptureFollows(s)
    \/ \E c \in Chat, d \in Dir \cup {None} : StartSilently(s, c, d)
    \/ \E c \in Chat, d \in Dir \cup {None} : \E n \in Name : Start(s, c, n, d)
    \/ CurrentProject(s)
    \/ \E n, m \in Name : Merge(s, n, m)
    \/ \E f \in filed, n \in Name : Move(s, f, n)

Run(h) ==
    \/ \E d \in Dir, c \in Chat \cup {None} : SessionStarts(h, d, c)
    \/ \E d \in Dir, c \in Chat \cup {None} : Compacted(h, d, c)
    \/ \E d \in Dir, c \in Chat \cup {None} : PromptOrCapture(h, d, c)
    \/ AskToFold(h)
    \/ FoldFolder(h)

Next ==
    \/ \E s \in Server : Serve(s)
    \/ \E h \in Hook : Run(h)
    \/ \E p \in Process : OpenSession(p) \/ WriteRow(p) \/ Stop(p)
    \/ \E p \in Process, i \in Session : EndSession(p, i)
    \/ \E d \in Dir : \E look \in Looks[d] : Change(d, look)

Spec == Init /\ [][Next]_vars

-----------------------------------------------------------------------------
(* Properties.                                                             *)

\* A conversation's memories are in one project, its own.
Whole(i) == \A f \in filed : f.session = i => f.project = session[i].project

\* What a call has worked out is not what its conversation is filed under now.
Astray(p) ==
    /\ job[p] # None /\ job[p].id \in Chat /\ Exists(job[p].id)
    /\ job[p].project # session[job[p].id].project

Splitting ==
    \A c \in Chat : Whole(c) /\ ~Whole(c)' =>
        \/ \E p \in Process : WriteRow(p) /\ Astray(p) /\ job[p].id = c
        \/ \E s \in Server, f \in filed, n \in Name : Move(s, f, n) /\ f.session = c

GoingAstray ==
    \A p \in Process : ~Astray(p) /\ Astray(p)' =>
        \/ \E q \in Process \ {p} : OpenSession(q)
        \/ \E h \in Hook \ {p} : FoldFolder(h)
        \/ \E s \in Server \ {p}, n, m \in Name : Merge(s, n, m)

(***************************************************************************)
(* What splits a conversation: a memory of it that is moved, or a call     *)
(* that files under what it read before another process opened or renamed  *)
(* its session.  No merge, no fold, no change of directory and no call     *)
(* that is left alone does (write_session, run_event, merge_projects).     *)
(***************************************************************************)
SplitOnlyWhenOvertaken == [][Splitting /\ GoingAstray]_vars

(***************************************************************************)
(* "A session owns its project for the rest of the conversation: a later   *)
(* `mem_save` carrying that id returns the session's project" (mcp).       *)
(***************************************************************************)
FiledWithItsSession ==
    [][\A p \in Process : WriteRow(p) /\ job[p].id \in Chat =>
         job[p].project = session[job[p].id].project]_vars

(***************************************************************************)
(* A refusal because the directory drifted can be cleared: each project it *)
(* offers is accepted when the caller names it, and a capture, that can    *)
(* name none, is not refused (resolve_write_project).                      *)
(***************************************************************************)
DriftCanBeResolved ==
    \A s \in Server :
        LET name == Detected(At[s], Seen(s)) IN
          Drifted(At[s], name) =>
            \A n \in NamesRecorded(At[s], name) \cup {name} : MayName(s, n)

(***************************************************************************)
(* "Only fold in memories that were actually recorded from this directory" *)
(* (migrate_directory_project).                                            *)
(***************************************************************************)
FoldsOnlyOwn ==
    [][\A h \in Hook : FoldFolder(h) =>
         \A f \in filed : f.project = Folder[job[h].dir] => f.from = job[h].dir]_vars

(***************************************************************************)
(* "Folds memories saved under the plain directory name into the detected  *)
(* project" (migrate_directory_project).                                   *)
(***************************************************************************)
FoldsIntoDetected ==
    [][\A h \in Hook : FoldFolder(h) => job[h].project = job[h].detected]_vars

=============================================================================
