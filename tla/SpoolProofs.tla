----------------------------- MODULE SpoolProofs ---------------------------
(***************************************************************************)
(* Proofs about Spool, for any number of processes and captures: its types *)
(* (TypeOK), that no entry is replayed by two drains at once (OneReplay)   *)
(* and that none is lost (KeptIsKept); and that what VectorsProofs shows   *)
(* of the vectors holds with the spool beside them (MCBackground).         *)
(*                                                                         *)
(* OneReplay is not inductive.  It rests on who may touch an entry:        *)
(*   - a capture that is still being written is its writer's alone,        *)
(*   - two drains are inside claim for one entry only where its file is    *)
(*     gone, for the marker stands as long as one of them is there,        *)
(*   - a claimed file has its holder's name or is gone,                    *)
(*   - nobody is about to move a file that has been claimed already.       *)
(* Most steps only take files away and let processes go on in the part     *)
(* they have: Calm says that of a step, and such a step keeps all of it.   *)
(***************************************************************************)
EXTENDS MCBackground, TLAPS

VP == INSTANCE VectorsProofs

\* A process is no name of a file that is not claimed; None is no capture.
Assumptions ==
    /\ Capture \subseteq Nat
    /\ Learnings \in Nat
    /\ MaxTrouble \in Nat
    /\ None \notin Capture
    /\ {"none", "tmp", "json"} \cap Proc = {}

-----------------------------------------------------------------------------
(* The parts a process has in the life of an entry.                        *)

Early == {"open", "session", "capture", "write", "publish"}
Writing == Early \cup {"cap"}
Claiming == {"rename", "move", "won", "missed"}
After == {"read", "ensure", "replay", "remove"}
Holding == After \cup {"won"}
Working == Writing \cup Claiming \cup After

Busy == \A p \in Proc : pc[p] \in Working => on[p] \in Capture

Untouched(c) ==
    file[c] = "none" /\ \A q \in Proc : on[q] # c /\ c \notin todo[q]

Writes(p, c) == on[p] = c /\ pc[p] \in Writing \cup {"dead"}

Owned ==
    \A c \in Capture :
        told[c] = "nothing" => Untouched(c) \/ \E p \in Proc : Writes(p, c)

Alone ==
    \A p \in Proc : pc[p] \in Early =>
        /\ file[on[p]] \in {"none", "tmp"}
        /\ \A q \in Proc : (q # p => on[q] # on[p]) /\ on[p] \notin todo[q]

Marked ==
    \A p \in Proc : pc[p] \in Claiming => on[p] \in marker \/ file[on[p]] = "none"

OneClaim ==
    \A p, q \in Proc :
        pc[p] \in Claiming /\ pc[q] \in Claiming /\ on[p] = on[q] /\ p # q
            => file[on[p]] = "none"

Held == \A p \in Proc : pc[p] \in Holding => file[on[p]] \in {p, "none"}

NoneMoves ==
    \A p, q \in Proc :
        pc[p] \in After /\ pc[q] = "move" /\ on[p] = on[q] => file[on[p]] = "none"

IInv ==
    TypeOK /\ Busy /\ Owned /\ Alone /\ Marked /\ OneClaim /\ Held /\ NoneMoves /\ OneReplay

-----------------------------------------------------------------------------
(* Types.                                                                  *)

(***************************************************************************)
(* A step of a process keeps the types.                                    *)
(***************************************************************************)
LEMMA TypeSteps ==
    ASSUME Assumptions, TypeOK, NEW p \in Proc,
           Step(p) \/ Drain(p) \/ OpenBusy(p) \/ CapturesBusy(p) \/ Return(p) \/ Crash(p)
    PROVE  TypeOK'
<1> USE DEF TypeOK, Stage, Stays, world, directory, store, process
<1>1. CASE Open(p) BY <1>1 DEF Open, Goes
<1>2. CASE EnsureSession(p)
  <2>1. session' \in BOOLEAN BY <1>2 DEF EnsureSession
  <2>2. trouble' \in 0..MaxTrouble BY <1>2 DEF EnsureSession, Trouble, Assumptions
  <2>3. QED BY <1>2, <2>1, <2>2 DEF EnsureSession, Goes
<1>3. CASE Captures(p)
  <2>1. stored' \in [Capture -> 0..Learnings] /\ session' = session
    BY <1>3 DEF Captures, Saves, Assumptions
  <2>2. told' \in [Capture -> {"nothing", "stored", "kept", "lost"}] BY <1>3 DEF Captures
  <2>3. /\ pc' \in [Proc -> Stage] /\ on' \in [Proc -> Capture \cup {None}]
        /\ todo' \in [Proc -> SUBSET Capture]
    BY <1>3 DEF Captures, Ends, Goes
  <2>4. QED BY <1>3, <2>1, <2>2, <2>3 DEF Captures
<1>4. CASE Write(p) BY <1>4 DEF Write, Swept, Goes
<1>5. CASE Publish(p) BY <1>5 DEF Publish, Goes
<1>6. CASE PublishFails(p) BY <1>6 DEF PublishFails, Ends, Goes
<1>7. CASE EnforceCap(p)
  <2>1. dropped' \in SUBSET Capture BY <1>7 DEF EnforceCap, Surplus, Entries
  <2>2. file' \in [Capture -> {"none", "tmp", "json"} \cup Proc] BY <1>7 DEF EnforceCap
  <2>3. /\ pc' \in [Proc -> Stage] /\ on' \in [Proc -> Capture \cup {None}] /\ todo' = todo
    BY <1>7 DEF EnforceCap, Ends, Goes
  <2>4. QED BY <1>7, <2>1, <2>2, <2>3 DEF EnforceCap
<1>8. CASE List(p) BY <1>8 DEF List, Sweep, Swept, Entries, Goes
<1>9. CASE Done(p) BY <1>9 DEF Done, Trouble, Goes, Assumptions
<1>10. CASE \E c \in Capture : Mark(p, c) BY <1>10 DEF Mark, Oldest, Goes
<1>11. CASE Rename(p) BY <1>11 DEF Rename, Goes
<1>12. CASE Move(p) BY <1>12 DEF Move, Goes
<1>13. CASE Unmark(p) BY <1>13 DEF Unmark, Ends, Goes
<1>14. CASE Read(p) BY <1>14 DEF Read, Ends, Goes
<1>15. CASE Ensure(p) BY <1>15 DEF Ensure, Goes
<1>16. CASE Replay(p)
  <2>1. stored' \in [Capture -> 0..Learnings] /\ session' = session
    BY <1>16 DEF Replay, Saves, Assumptions
  <2>2. /\ pc' \in [Proc -> Stage] /\ on' \in [Proc -> Capture \cup {None}]
        /\ todo' \in [Proc -> SUBSET Capture]
    BY <1>16 DEF Replay, Goes
  <2>3. QED BY <1>16, <2>1, <2>2 DEF Replay
<1>17. CASE Remove(p) BY <1>17 DEF Remove, Ends, Goes
<1>18. CASE Drain(p) BY <1>18 DEF Drain, Goes
<1>19. CASE OpenBusy(p) BY <1>19 DEF OpenBusy, Trouble, Goes, Assumptions
<1>20. CASE CapturesBusy(p) BY <1>20 DEF CapturesBusy, Trouble, Goes, Assumptions
<1>21. CASE Return(p)
  <2>1. trouble' \in 0..MaxTrouble BY <1>21 DEF Return, Trouble, Assumptions
  <2>2. file' \in [Capture -> {"none", "tmp", "json"} \cup Proc] BY <1>21 DEF Return
  <2>3. /\ pc' \in [Proc -> Stage] /\ on' \in [Proc -> Capture \cup {None}]
        /\ todo' \in [Proc -> SUBSET Capture]
    BY <1>21 DEF Return, Goes
  <2>4. QED BY <1>21, <2>1, <2>2, <2>3 DEF Return
<1>22. CASE Crash(p) BY <1>22 DEF Crash, Trouble, Assumptions
<1>23. QED
  BY <1>1, <1>2, <1>3, <1>4, <1>5, <1>6, <1>7, <1>8, <1>9, <1>10, <1>11, <1>12, <1>13,
     <1>14, <1>15, <1>16, <1>17, <1>18, <1>19, <1>20, <1>21, <1>22 DEF Step

(***************************************************************************)
(* Every step keeps the types.                                             *)
(***************************************************************************)
LEMMA TypeNext == ASSUME Assumptions, TypeOK, [Next]_vars PROVE TypeOK'
<1>1. CASE UNCHANGED vars
  BY <1>1 DEF TypeOK, vars, world, directory, store, process
<1>2. ASSUME NEW p \in Proc, NEW c \in Capture, Stop(p, c) PROVE TypeOK'
  BY <1>2 DEF Stop, Goes, TypeOK, Stage, world, directory, store
<1>3. ASSUME NEW c \in Capture, Age(c) PROVE TypeOK'
  BY <1>3 DEF Age, TypeOK, world, store, process
<1>4. QED BY <1>1, <1>2, <1>3, TypeSteps, Zenon DEF Next

-----------------------------------------------------------------------------
(* Steps that take no part in an entry and give no file.                   *)

\* A process that is in one of these parts was in it before.
Follows(from, to) ==
    /\ to \in Early => from \in Early
    /\ to \in Claiming => from \in Claiming
    /\ to = "move" => from = "move"
    /\ to \in After => from \in After
    /\ to \in Holding => from \in Holding
    /\ to \in {"ensure", "replay", "remove"} => from \in {"ensure", "replay", "remove"}
    /\ to \in Working => from \in Working

Keeps(p) ==
    /\ on'[p] \in {on[p], None}
    /\ pc'[p] \in Working => on'[p] = on[p] /\ Follows(pc[p], pc'[p])
    /\ todo'[p] \subseteq todo[p] \cup Entries

Calm ==
    /\ \A c \in Capture :
         /\ file'[c] \in {file[c], "none"}
         /\ \/ c \in marker => c \in marker'
            \/ file'[c] = "none"
            \/ \A p \in Proc : pc'[p] \in Claiming => on'[p] # c
         /\ told'[c] = "nothing" =>
              /\ told[c] = "nothing"
              /\ \A p \in Proc : Writes(p, c) => Writes(p, c)'
    /\ \A p \in Proc : Keeps(p)

(***************************************************************************)
(* Such a step keeps everything OneReplay rests on.                        *)
(***************************************************************************)
LEMMA CalmKeeps == ASSUME Assumptions, IInv, TypeOK', Calm PROVE IInv'
<1> USE DEF IInv, Calm, Keeps, Follows
<1>1. Busy' BY DEF Busy
<1>2. Owned'
  <2> SUFFICES ASSUME NEW c \in Capture, told'[c] = "nothing"
               PROVE  Untouched(c)' \/ \E p \in Proc : Writes(p, c)'
    BY DEF Owned
  <2>1. CASE Untouched(c)
    <3>1. file'[c] = "none" BY <2>1 DEF Untouched
    <3>2. ASSUME NEW q \in Proc PROVE on'[q] # c /\ c \notin todo'[q]
      BY <2>1 DEF Untouched, Entries, Assumptions
    <3>3. QED BY <3>1, <3>2 DEF Untouched
  <2>2. ASSUME NEW p \in Proc, Writes(p, c) PROVE Writes(p, c)'
    BY <2>2
  <2>3. QED BY <2>1, <2>2 DEF Owned
<1>3. Alone'
  <2> SUFFICES ASSUME NEW p \in Proc, pc'[p] \in Early
               PROVE  /\ file'[on'[p]] \in {"none", "tmp"}
                      /\ \A q \in Proc :
                           (q # p => on'[q] # on'[p]) /\ on'[p] \notin todo'[q]
    BY DEF Alone
  <2>1. pc[p] \in Early /\ on'[p] = on[p] /\ on[p] \in Capture
    BY DEF Working, Writing, Busy
  <2>2. file[on[p]] \in {"none", "tmp"} BY <2>1 DEF Alone
  <2>3. on[p] \notin Entries BY <2>2 DEF Entries
  <2>4. ASSUME NEW q \in Proc PROVE (q # p => on'[q] # on'[p]) /\ on'[p] \notin todo'[q]
    BY <2>1, <2>3 DEF Alone, Assumptions
  <2>5. QED BY <2>1, <2>2, <2>4
<1>4. \A p \in Proc : pc'[p] \in Claiming \/ pc'[p] \in Holding =>
        on'[p] = on[p] /\ on[p] \in Capture /\ file'[on[p]] \in {file[on[p]], "none"}
  BY DEF Busy, Working, Holding, Claiming
<1>5. Marked'
  <2> SUFFICES ASSUME NEW p \in Proc, pc'[p] \in Claiming
               PROVE  on'[p] \in marker' \/ file'[on'[p]] = "none"
    BY DEF Marked
  <2>1. pc[p] \in Claiming BY DEF Working
  <2>2. QED BY <2>1, <1>4 DEF Marked
<1>6. OneClaim' BY <1>4 DEF OneClaim, Working
<1>7. Held' BY <1>4 DEF Held, Working, Holding, Claiming
<1>8. NoneMoves' BY <1>4 DEF NoneMoves, Working, Claiming, Holding
<1>9. OneReplay' BY DEF OneReplay, Replaying, Working, After
<1>10. QED BY <1>1, <1>2, <1>3, <1>5, <1>6, <1>7, <1>8, <1>9

(***************************************************************************)
(* The steps that are calm.                                                *)
(***************************************************************************)
LEMMA CalmSteps ==
    ASSUME Assumptions, IInv, TypeOK', NEW p \in Proc,
           \/ Open(p) \/ OpenBusy(p) \/ EnsureSession(p) \/ Captures(p) \/ CapturesBusy(p)
           \/ PublishFails(p) \/ EnforceCap(p) \/ Drain(p) \/ List(p) \/ Done(p)
           \/ Ensure(p) \/ Replay(p) \/ Remove(p) \/ Crash(p)
    PROVE  Calm
<1> USE DEF Calm, Keeps, Follows, Writes, Early, Writing, Claiming, After, Holding, Working,
            IInv, TypeOK, Stays, world, directory, store, process
<1>1. CASE Open(p) BY <1>1 DEF Open, Goes
<1>2. CASE OpenBusy(p) BY <1>2 DEF OpenBusy, Goes
<1>3. CASE EnsureSession(p) BY <1>3 DEF EnsureSession, Goes
<1>4. CASE Captures(p)
  <2>1. CASE Saves(on[p]) /\ UNCHANGED <<world, directory, told, process, trouble>>
    BY <2>1
  <2>2. ASSUME NEW said \in {"stored", "lost"}, told' = [told EXCEPT ![on[p]] = said],
               Ends(p, "capture", "list"), UNCHANGED <<world, directory, store, trouble>>
        PROVE  Calm
    BY <2>2 DEF Ends, Goes
  <2>3. QED BY <1>4, <2>1, <2>2, Zenon DEF Captures
<1>5. CASE CapturesBusy(p) BY <1>5 DEF CapturesBusy, Goes
<1>6. CASE PublishFails(p) BY <1>6 DEF PublishFails, Ends, Goes
<1>7. CASE EnforceCap(p) BY <1>7 DEF EnforceCap, Ends, Goes
<1>8. CASE Drain(p) BY <1>8 DEF Drain, Goes
<1>9. CASE List(p) BY <1>9 DEF List, Sweep, Swept, Goes
<1>10. CASE Done(p) BY <1>10 DEF Done, Goes
<1>11. CASE Ensure(p) BY <1>11 DEF Ensure, Goes
<1>12. CASE Replay(p) BY <1>12 DEF Replay, Goes
<1>13. CASE Remove(p) BY <1>13 DEF Remove, Ends, Goes
<1>14. CASE Crash(p) BY <1>14 DEF Crash
<1>15. QED
  BY <1>1, <1>2, <1>3, <1>4, <1>5, <1>6, <1>7, <1>8, <1>9, <1>10, <1>11, <1>12, <1>13, <1>14

-----------------------------------------------------------------------------
(* The steps that are not.  Each conjunct of IInv is a step of the proof.  *)

(***************************************************************************)
(* A hook comes with a capture nobody has seen.                            *)
(***************************************************************************)
LEMMA StopKeeps ==
    ASSUME Assumptions, IInv, TypeOK', NEW p \in Proc, NEW c \in Capture, Stop(p, c)
    PROVE  IInv'
<1> USE DEF IInv, TypeOK, Stop, Goes, world, directory, store,
            Early, Writing, Claiming, After, Holding, Working
<1>1. Busy' BY DEF Busy
<1>2. Untouched(c) BY DEF Owned, New, Writes
<1>3. Owned'
  <2> SUFFICES ASSUME NEW d \in Capture, told'[d] = "nothing"
               PROVE  Untouched(d)' \/ \E w \in Proc : Writes(w, d)'
    BY DEF Owned
  <2>1. CASE d = c BY <2>1 DEF Writes
  <2>2. CASE d # c
    <3>1. Untouched(d) => Untouched(d)' BY <2>2 DEF Untouched
    <3>2. \A w \in Proc : Writes(w, d) => Writes(w, d)' BY <2>2 DEF Writes
    <3>3. QED BY <3>1, <3>2 DEF Owned
  <2>3. QED BY <2>1, <2>2
<1>4. Alone' BY <1>2 DEF Alone, Untouched
<1>5. Marked' BY DEF Marked
<1>6. OneClaim' BY DEF OneClaim
<1>7. Held' BY DEF Held
<1>8. NoneMoves' BY DEF NoneMoves
<1>9. OneReplay' BY DEF OneReplay, Replaying
<1>10. QED BY <1>1, <1>3, <1>4, <1>5, <1>6, <1>7, <1>8, <1>9

(***************************************************************************)
(* A hook writes the file of its capture; nobody else has to do with it.   *)
(***************************************************************************)
LEMMA WriteKeeps ==
    ASSUME Assumptions, IInv, TypeOK', NEW p \in Proc, Write(p) \/ Publish(p)
    PROVE  IInv'
<1> USE DEF IInv, TypeOK, Early, Writing, Claiming, After, Holding, Working
<1>1. /\ on[p] \in Capture /\ pc[p] \in Early /\ on' = on /\ todo' = todo /\ told' = told
      /\ \A q \in Proc : q # p => on[q] # on[p] /\ pc'[q] = pc[q]
  BY DEF Busy, Alone, Write, Publish, Goes, Stays, store
<1>2. \A c \in Capture : c # on[p] =>
        file'[c] \in {file[c], "none"} /\ (c \in marker => c \in marker' \/ file'[c] = "none")
  <2>1. CASE Write(p) BY <1>1, <2>1 DEF Write, Swept
  <2>2. CASE Publish(p) BY <1>1, <2>2 DEF Publish
  <2>3. QED BY <2>1, <2>2
<1>3. pc'[p] \in {"publish", "cap"} /\ (pc'[p] = "publish" => file'[on[p]] = "tmp")
  BY <1>1 DEF Write, Publish, Swept, Goes
<1>4. \A q \in Proc : q # p /\ pc[q] \in Working =>
        /\ on[q] \in Capture /\ file'[on[q]] \in {file[on[q]], "none"}
        /\ on[q] \in marker => on[q] \in marker' \/ file'[on[q]] = "none"
  BY <1>1, <1>2 DEF Busy
<1>5. Busy' BY <1>1 DEF Busy
<1>6. Owned'
  <2> SUFFICES ASSUME NEW d \in Capture, told'[d] = "nothing"
               PROVE  Untouched(d)' \/ \E w \in Proc : Writes(w, d)'
    BY DEF Owned
  <2>1. ASSUME Untouched(d) PROVE Untouched(d)'
    <3>1. d # on[p] BY <2>1 DEF Untouched
    <3>2. file'[d] = "none" BY <2>1, <3>1, <1>2 DEF Untouched
    <3>3. QED BY <2>1, <3>2, <1>1 DEF Untouched
  <2>2. \A w \in Proc : Writes(w, d) => Writes(w, d)' BY <1>1, <1>3 DEF Writes
  <2>3. QED BY <2>1, <2>2, <1>1 DEF Owned
<1>7. Alone'
  <2> SUFFICES ASSUME NEW q \in Proc, pc'[q] \in Early
               PROVE  /\ file'[on'[q]] \in {"none", "tmp"}
                      /\ \A r \in Proc :
                           (r # q => on'[r] # on'[q]) /\ on'[q] \notin todo'[r]
    BY DEF Alone
  <2>1. pc[q] \in Early BY <1>1
  <2>2. file'[on[q]] \in {"none", "tmp"}
    BY <1>1, <1>3, <1>4, <2>1 DEF Alone
  <2>3. QED BY <1>1, <2>1, <2>2 DEF Alone
<1>8. Marked' BY <1>1, <1>3, <1>4 DEF Marked
<1>9. OneClaim' BY <1>1, <1>3, <1>4 DEF OneClaim
<1>10. Held' BY <1>1, <1>3, <1>4 DEF Held
<1>11. NoneMoves' BY <1>1, <1>3, <1>4 DEF NoneMoves
<1>12. OneReplay' BY <1>1, <1>3 DEF OneReplay, Replaying
<1>13. QED BY <1>5, <1>6, <1>7, <1>8, <1>9, <1>10, <1>11, <1>12

(***************************************************************************)
(* The marker is made, where nobody else is inside claim for the entry.    *)
(***************************************************************************)
LEMMA MarkKeeps ==
    ASSUME Assumptions, IInv, TypeOK', NEW p \in Proc, NEW c \in Capture, Mark(p, c)
    PROVE  IInv'
<1> USE DEF IInv, TypeOK, Early, Writing, Claiming, After, Holding, Working
<1>1. CASE c \in marker
  <2>1. Calm
    BY <1>1 DEF Mark, Goes, Calm, Keeps, Follows, Writes, store
  <2>2. QED BY <2>1, CalmKeeps
<1>2. CASE c \notin marker
  <2>1. /\ pc[p] = "next" /\ pc' = [pc EXCEPT ![p] = "rename"]
        /\ on' = [on EXCEPT ![p] = c] /\ todo' = [todo EXCEPT ![p] = @ \ {c}]
        /\ marker' = marker \cup {c} /\ file' = file /\ told' = told /\ c \in todo[p]
    BY <1>2 DEF Mark, Goes, Oldest, store
  <2>2. \A q \in Proc : pc[q] \in Claiming /\ on[q] = c => file[c] = "none"
    BY <1>2 DEF Marked
  <2>3. \A q \in Proc : pc[q] \in Early => on[q] # c
    BY <2>1 DEF Alone
  <2>4. Busy' BY <2>1 DEF Busy
  <2>5. Owned'
    <3> SUFFICES ASSUME NEW d \in Capture, told'[d] = "nothing"
                 PROVE  Untouched(d)' \/ \E w \in Proc : Writes(w, d)'
      BY DEF Owned
    <3>1. Untouched(d) => Untouched(d)' BY <2>1 DEF Untouched
    <3>2. \A w \in Proc : Writes(w, d) => Writes(w, d)' BY <2>1 DEF Writes
    <3>3. QED BY <3>1, <3>2, <2>1 DEF Owned
  <2>6. Alone' BY <2>1, <2>3 DEF Alone
  <2>7. Marked' BY <2>1 DEF Marked
  <2>8. OneClaim' BY <2>1, <2>2 DEF OneClaim
  <2>9. Held' BY <2>1 DEF Held
  <2>10. NoneMoves' BY <2>1 DEF NoneMoves
  <2>11. OneReplay' BY <2>1 DEF OneReplay, Replaying
  <2>12. QED BY <2>4, <2>5, <2>6, <2>7, <2>8, <2>9, <2>10, <2>11
<1>3. QED BY <1>1, <1>2

(***************************************************************************)
(* The rename, which opens the file or renames it at once.                 *)
(***************************************************************************)
LEMMA RenameKeeps ==
    ASSUME Assumptions, IInv, TypeOK', NEW p \in Proc, Rename(p) \/ Move(p)
    PROVE  IInv'
<1> USE DEF IInv, TypeOK, Early, Writing, Claiming, After, Holding, Working
<1>1. /\ pc[p] \in {"rename", "move"} /\ on[p] \in Capture /\ on' = on /\ todo' = todo
      /\ told' = told /\ marker' = marker
      /\ \A q \in Proc : q # p => pc'[q] = pc[q]
  BY DEF Rename, Move, Goes, Stays, Busy, store
<1>2. \/ pc'[p] = "missed" /\ file' = file
      \/ pc'[p] = "move" /\ file' = file /\ file[on[p]] = "json"
      \/ /\ pc'[p] = "won" /\ file' = [file EXCEPT ![on[p]] = p] /\ file[on[p]] # "none"
         /\ pc[p] = "rename" => file[on[p]] = "json"
  BY DEF Rename, Move, Goes
<1>3. \A q \in Proc : q # p /\ on[q] = on[p] /\ pc[q] \in Claiming => file[on[p]] = "none"
  BY <1>1 DEF OneClaim
<1>4. \A q \in Proc : q # p /\ on[q] = on[p] => pc[q] \notin Early
  BY <1>1 DEF Alone
<1>5. \A q \in Proc : q # p /\ on[q] = on[p] /\ pc[q] \in After /\ pc'[p] # "missed"
        => file[on[p]] = "none"
  <2>1. ASSUME NEW q \in Proc, q # p, on[q] = on[p], pc[q] \in After, file[on[p]] = "json"
        PROVE  FALSE
    BY <2>1, <1>1 DEF Held, Assumptions
  <2>2. QED BY <2>1, <1>1, <1>2 DEF NoneMoves
<1>6. \A q \in Proc : pc[q] \in Working => on[q] \in Capture
  BY DEF Busy
<1>7. \A d \in Capture : d # on[p] => file'[d] = file[d]
  BY <1>1, <1>2
<1>8. Busy' BY <1>1, <1>6 DEF Busy
<1>9. Owned'
  <2> SUFFICES ASSUME NEW d \in Capture, told'[d] = "nothing"
               PROVE  Untouched(d)' \/ \E w \in Proc : Writes(w, d)'
    BY DEF Owned
  <2>1. Untouched(d) => Untouched(d)' BY <1>1, <1>7 DEF Untouched
  <2>2. \A w \in Proc : Writes(w, d) => Writes(w, d)' BY <1>1 DEF Writes
  <2>3. QED BY <2>1, <2>2, <1>1 DEF Owned
<1>10. Alone'
  <2> SUFFICES ASSUME NEW q \in Proc, pc'[q] \in Early
               PROVE  /\ file'[on'[q]] \in {"none", "tmp"}
                      /\ \A r \in Proc :
                           (r # q => on'[r] # on'[q]) /\ on'[q] \notin todo'[r]
    BY DEF Alone
  <2>1. q # p /\ pc[q] \in Early /\ on[q] # on[p] BY <1>1, <1>2, <1>4
  <2>2. QED BY <1>1, <1>6, <1>7, <2>1 DEF Alone
<1>11. Marked'
  BY <1>1, <1>2, <1>6, <1>7 DEF Marked
<1>12. OneClaim'
  BY <1>1, <1>2, <1>3, <1>6, <1>7 DEF OneClaim
<1>13. Held'
  BY <1>1, <1>2, <1>3, <1>5, <1>6, <1>7 DEF Held
<1>14. NoneMoves'
  BY <1>1, <1>2, <1>3, <1>5, <1>6, <1>7 DEF NoneMoves
<1>15. OneReplay' BY <1>1, <1>2 DEF OneReplay, Replaying
<1>16. QED BY <1>8, <1>9, <1>10, <1>11, <1>12, <1>13, <1>14, <1>15

(***************************************************************************)
(* The marker goes: whoever else is inside claim for the entry finds       *)
(* nothing there.                                                          *)
(***************************************************************************)
LEMMA UnmarkKeeps ==
    ASSUME Assumptions, IInv, TypeOK', NEW p \in Proc, Unmark(p)
    PROVE  IInv'
<1> USE DEF IInv, TypeOK, Early, Writing, Claiming, After, Holding, Working
<1>1. /\ pc[p] \in {"won", "missed"} /\ on[p] \in Capture /\ file' = file /\ todo' = todo
      /\ told' = told /\ marker' = marker \ {on[p]}
      /\ \A q \in Proc : q # p => pc'[q] = pc[q] /\ on'[q] = on[q]
  BY DEF Unmark, Goes, Ends, Stays, Busy, store
<1>2. \/ pc[p] = "won" /\ pc'[p] = "read" /\ on'[p] = on[p]
      \/ pc'[p] = "next" /\ on'[p] = None
  BY DEF Unmark, Goes, Ends, Stays
<1>3. \A q \in Proc : q # p /\ on[q] = on[p] /\ pc[q] \in Claiming => file[on[p]] = "none"
  BY <1>1 DEF OneClaim
<1>4. Busy' BY <1>1, <1>2 DEF Busy
<1>5. Owned'
  <2> SUFFICES ASSUME NEW d \in Capture, told'[d] = "nothing"
               PROVE  Untouched(d)' \/ \E w \in Proc : Writes(w, d)'
    BY DEF Owned
  <2>1. Untouched(d) => Untouched(d)' BY <1>1, <1>2 DEF Untouched, Assumptions
  <2>2. \A w \in Proc : Writes(w, d) => Writes(w, d)' BY <1>1 DEF Writes
  <2>3. QED BY <2>1, <2>2, <1>1 DEF Owned
<1>6. Alone'
  <2> SUFFICES ASSUME NEW q \in Proc, pc'[q] \in Early
               PROVE  /\ file'[on'[q]] \in {"none", "tmp"}
                      /\ \A r \in Proc :
                           (r # q => on'[r] # on'[q]) /\ on'[q] \notin todo'[r]
    BY DEF Alone
  <2>1. q # p /\ pc[q] \in Early /\ on[q] \in Capture BY <1>1, <1>2 DEF Busy
  <2>2. QED BY <1>1, <1>2, <2>1 DEF Alone, Assumptions
<1>7. Marked' BY <1>1, <1>2, <1>3 DEF Marked
<1>8. OneClaim' BY <1>1, <1>2 DEF OneClaim
<1>9. Held' BY <1>1, <1>2 DEF Held
<1>10. NoneMoves' BY <1>1, <1>2, <1>3 DEF NoneMoves
<1>11. OneReplay' BY <1>1, <1>2 DEF OneReplay, Replaying
<1>12. QED BY <1>4, <1>5, <1>6, <1>7, <1>8, <1>9, <1>10, <1>11

(***************************************************************************)
(* A drain replays the file that still has its name: no other does.        *)
(***************************************************************************)
LEMMA ReadKeeps ==
    ASSUME Assumptions, IInv, TypeOK', NEW p \in Proc, Read(p)
    PROVE  IInv'
<1> USE DEF IInv, TypeOK, Early, Writing, Claiming, After, Holding, Working
<1>1. CASE file[on[p]] # p
  <2>1. Calm
    BY <1>1 DEF Read, Ends, Goes, Calm, Keeps, Follows, Writes, directory, store
  <2>2. QED BY <2>1, CalmKeeps
<1>2. CASE file[on[p]] = p
  <2>1. /\ pc[p] = "read" /\ pc' = [pc EXCEPT ![p] = "ensure"]
        /\ on' = on /\ todo' = todo /\ file' = file /\ marker' = marker /\ told' = told
    BY <1>2 DEF Read, Goes, Stays, directory, store
  <2>2. \A q \in Proc : pc[q] \in Holding /\ on[q] = on[p] => q = p
    BY <1>2 DEF Held, Assumptions
  <2>3. Busy' BY <2>1 DEF Busy
  <2>4. Owned'
    <3>1. \A d \in Capture : Untouched(d) => Untouched(d)' BY <2>1 DEF Untouched
    <3>2. \A d \in Capture, w \in Proc : Writes(w, d) => Writes(w, d)' BY <2>1 DEF Writes
    <3>3. QED BY <3>1, <3>2, <2>1 DEF Owned
  <2>5. Alone' BY <2>1 DEF Alone
  <2>6. Marked' BY <2>1 DEF Marked
  <2>7. OneClaim' BY <2>1 DEF OneClaim
  <2>8. Held' BY <2>1 DEF Held
  <2>9. NoneMoves' BY <2>1 DEF NoneMoves
  <2>10. OneReplay' BY <2>1, <2>2 DEF OneReplay, Replaying
  <2>11. QED BY <2>3, <2>4, <2>5, <2>6, <2>7, <2>8, <2>9, <2>10
<1>3. QED BY <1>1, <1>2

(***************************************************************************)
(* An entry that gets its name back had the name of the one that gives it, *)
(* so nobody else held it or was inside claim for it without the marker.   *)
(***************************************************************************)
LEMMA ReturnKeeps ==
    ASSUME Assumptions, IInv, TypeOK', NEW p \in Proc, Return(p)
    PROVE  IInv'
<1> USE DEF IInv, TypeOK, Early, Writing, Claiming, After, Holding, Working
<1>1. /\ pc[p] \in After /\ on[p] \in Capture /\ pc'[p] = "off" /\ on'[p] = None
      /\ todo' = [todo EXCEPT ![p] = {}] /\ told' = told /\ marker' = marker
      /\ \A q \in Proc : q # p => pc'[q] = pc[q] /\ on'[q] = on[q]
  BY DEF Return, Goes, Busy, store
<1>2. \A d \in Capture : file'[d] = IF d = on[p] /\ file[d] = p THEN "json" ELSE file[d]
  BY <1>1 DEF Return
<1>3. ASSUME NEW q \in Proc, q # p, pc[q] \in Working
      PROVE  /\ on[q] \in Capture
             /\ file'[on[q]] # file[on[q]] => on[q] = on[p] /\ file[on[q]] = p
  BY <1>3, <1>2 DEF Busy
<1>4. Busy' BY <1>1 DEF Busy
<1>5. Owned'
  <2> SUFFICES ASSUME NEW d \in Capture, told'[d] = "nothing"
               PROVE  Untouched(d)' \/ \E w \in Proc : Writes(w, d)'
    BY DEF Owned
  <2>1. Untouched(d) => Untouched(d)' BY <1>1, <1>2 DEF Untouched, Assumptions
  <2>2. \A w \in Proc : Writes(w, d) => Writes(w, d)' BY <1>1 DEF Writes
  <2>3. QED BY <2>1, <2>2, <1>1 DEF Owned
<1>6. Alone'
  <2> SUFFICES ASSUME NEW q \in Proc, pc'[q] \in Early
               PROVE  /\ file'[on'[q]] \in {"none", "tmp"}
                      /\ \A r \in Proc :
                           (r # q => on'[r] # on'[q]) /\ on'[q] \notin todo'[r]
    BY DEF Alone
  <2>1. q # p /\ pc[q] \in Early /\ on[q] \in Capture /\ on[q] # on[p]
    BY <1>1 DEF Busy, Alone
  <2>2. file'[on[q]] = file[on[q]] BY <2>1, <1>2
  <2>3. QED BY <1>1, <2>1, <2>2 DEF Alone, Assumptions
<1>7. Marked'
  <2> SUFFICES ASSUME NEW q \in Proc, pc'[q] \in Claiming
               PROVE  on'[q] \in marker' \/ file'[on'[q]] = "none"
    BY DEF Marked
  <2>1. q # p /\ pc[q] \in Claiming BY <1>1
  <2>2. QED BY <1>1, <1>3, <2>1 DEF Marked, Assumptions
<1>8. OneClaim'
  <2> SUFFICES ASSUME NEW q \in Proc, NEW r \in Proc, pc'[q] \in Claiming,
                      pc'[r] \in Claiming, on'[q] = on'[r], q # r
               PROVE  file'[on'[q]] = "none"
    BY DEF OneClaim
  <2>1. q # p /\ r # p /\ pc[q] \in Claiming /\ pc[r] \in Claiming BY <1>1
  <2>2. file[on[q]] = "none" BY <1>1, <2>1 DEF OneClaim
  <2>3. QED BY <1>1, <1>3, <2>1, <2>2 DEF Assumptions
<1>9. Held'
  <2> SUFFICES ASSUME NEW q \in Proc, pc'[q] \in Holding
               PROVE  file'[on'[q]] \in {q, "none"}
    BY DEF Held
  <2>1. q # p /\ pc[q] \in Holding BY <1>1
  <2>2. file[on[q]] \in {q, "none"} BY <2>1 DEF Held
  <2>3. QED BY <1>1, <1>3, <2>1, <2>2 DEF Assumptions
<1>10. NoneMoves'
  <2> SUFFICES ASSUME NEW q \in Proc, NEW r \in Proc, pc'[q] \in After, pc'[r] = "move",
                      on'[q] = on'[r]
               PROVE  file'[on'[q]] = "none"
    BY DEF NoneMoves
  <2>1. q # p /\ r # p /\ pc[q] \in After /\ pc[r] = "move" BY <1>1
  <2>2. file[on[q]] = "none" BY <1>1, <2>1 DEF NoneMoves
  <2>3. QED BY <1>1, <1>3, <2>1, <2>2 DEF Assumptions
<1>11. OneReplay' BY <1>1 DEF OneReplay, Replaying
<1>12. QED BY <1>4, <1>5, <1>6, <1>7, <1>8, <1>9, <1>10, <1>11

(***************************************************************************)
(* A week that goes by changes no entry.                                   *)
(***************************************************************************)
LEMMA IdleKeeps ==
    ASSUME Assumptions, IInv, TypeOK', UNCHANGED vars \/ \E c \in Capture : Age(c)
    PROVE  IInv'
<1>1. Calm
  BY DEF IInv, TypeOK, Age, vars, directory, store, process, Calm, Keeps, Follows, Writes,
         Early, Writing, Claiming, After, Holding, Working
<1>2. QED BY <1>1, CalmKeeps

(***************************************************************************)
(* Every step keeps IInv.                                                  *)
(***************************************************************************)
LEMMA IInvNext == ASSUME Assumptions, IInv, [Next]_vars PROVE IInv'
<1>1. TypeOK' BY TypeNext DEF IInv
<1>2. CASE UNCHANGED vars BY <1>1, <1>2, IdleKeeps
<1>3. ASSUME NEW c \in Capture, Age(c) PROVE IInv' BY <1>1, <1>3, IdleKeeps
<1>4. ASSUME NEW p \in Proc, NEW c \in Capture, Stop(p, c) PROVE IInv'
  BY <1>1, <1>4, StopKeeps
<1>5. ASSUME NEW p \in Proc,
             Step(p) \/ Drain(p) \/ OpenBusy(p) \/ CapturesBusy(p) \/ Return(p) \/ Crash(p)
      PROVE  IInv'
  <2>1. CASE \/ Open(p) \/ OpenBusy(p) \/ EnsureSession(p) \/ Captures(p) \/ CapturesBusy(p)
             \/ PublishFails(p) \/ EnforceCap(p) \/ Drain(p) \/ List(p) \/ Done(p)
             \/ Ensure(p) \/ Replay(p) \/ Remove(p) \/ Crash(p)
    BY <1>1, <2>1, CalmSteps, CalmKeeps
  <2>2. CASE Write(p) \/ Publish(p) BY <1>1, <2>2, WriteKeeps
  <2>3. CASE \E c \in Capture : Mark(p, c) BY <1>1, <2>3, MarkKeeps
  <2>4. CASE Rename(p) \/ Move(p) BY <1>1, <2>4, RenameKeeps
  <2>5. CASE Unmark(p) BY <1>1, <2>5, UnmarkKeeps
  <2>6. CASE Read(p) BY <1>1, <2>6, ReadKeeps
  <2>7. CASE Return(p) BY <1>1, <2>7, ReturnKeeps
  <2>8. QED BY <1>5, <2>1, <2>2, <2>3, <2>4, <2>5, <2>6, <2>7 DEF Step
<1>6. QED BY <1>2, <1>3, <1>4, <1>5, Zenon DEF Next

-----------------------------------------------------------------------------
(* What was kept is not lost.                                              *)

\* KeptIsKept says this of a capture the agent was told is kept.
Safe(c) == file[c] # "none" \/ stored[c] = Learnings \/ c \in refused \cup old \cup dropped

\* A file is only removed once the store has what is in it or has refused it.
KInv ==
    /\ \A c \in Capture : told[c] = "kept" => Safe(c)
    /\ \A p \in Proc :
         /\ pc[p] = "cap" => Safe(on[p])
         /\ pc[p] \in {"replay", "remove"} => session
         /\ pc[p] = "remove" => stored[on[p]] = Learnings \/ on[p] \in refused

(***************************************************************************)
(* No step of a process takes away what makes a capture safe.              *)
(***************************************************************************)
LEMMA SafeStays ==
    ASSUME Assumptions, IInv, KInv, NEW p \in Proc,
           Step(p) \/ Drain(p) \/ OpenBusy(p) \/ CapturesBusy(p) \/ Return(p) \/ Crash(p),
           NEW c \in Capture, Safe(c)
    PROVE  Safe(c)'
<1> USE DEF IInv, TypeOK, Safe, world, directory, store
<1>1. refused' = refused /\ old' = old /\ dropped \subseteq dropped'
  BY DEF Step, Open, OpenBusy, EnsureSession, Captures, CapturesBusy, Write, Publish,
         PublishFails, EnforceCap, Drain, List, Done, Mark, Rename, Move, Unmark, Read, Ensure,
         Replay, Remove, Return, Crash
<1>2. stored[c] = Learnings => stored'[c] = Learnings
  <2>1. CASE Captures(p) BY <2>1 DEF Captures, Saves, Assumptions
  <2>2. CASE Replay(p) BY <2>2 DEF Replay, Saves, Assumptions
  <2>3. QED
    BY <2>1, <2>2
    DEF Step, Open, OpenBusy, EnsureSession, CapturesBusy, Write, Publish, PublishFails,
        EnforceCap, Drain, List, Done, Mark, Rename, Move, Unmark, Read, Ensure, Remove, Return,
        Crash
<1>3. CASE Write(p) BY <1>1, <1>2, <1>3 DEF Write, Swept
<1>4. CASE Publish(p) BY <1>1, <1>2, <1>4 DEF Publish
<1>5. CASE EnforceCap(p) BY <1>1, <1>2, <1>5 DEF EnforceCap
<1>6. CASE List(p) BY <1>1, <1>2, <1>6 DEF List, Sweep, Swept
<1>7. CASE Rename(p) BY <1>1, <1>2, <1>7 DEF Rename, Assumptions
<1>8. CASE Move(p) BY <1>1, <1>2, <1>8 DEF Move, Assumptions
<1>9. CASE Return(p) BY <1>1, <1>2, <1>9 DEF Return
<1>10. CASE Remove(p)
  <2>1. pc[p] = "remove" BY <1>10 DEF Remove, Ends, Goes
  <2>2. stored[on[p]] = Learnings \/ on[p] \in refused BY <2>1 DEF KInv
  <2>3. QED BY <1>1, <1>2, <1>10, <2>2 DEF Remove
<1>11. CASE file' = file BY <1>1, <1>2, <1>11
<1>12. QED
  BY <1>3, <1>4, <1>5, <1>6, <1>7, <1>8, <1>9, <1>10, <1>11
  DEF Step, Open, OpenBusy, EnsureSession, Captures, CapturesBusy, PublishFails, Drain, Done,
      Mark, Unmark, Read, Ensure, Replay, Crash

(***************************************************************************)
(* A step of a process keeps KInv.                                         *)
(***************************************************************************)
LEMMA KInvSteps ==
    ASSUME Assumptions, IInv, KInv, NEW p \in Proc,
           Step(p) \/ Drain(p) \/ OpenBusy(p) \/ CapturesBusy(p) \/ Return(p) \/ Crash(p)
    PROVE  KInv'
<1> USE DEF IInv, TypeOK, KInv, world, directory, store, process, Stays
<1>1. \A c \in Capture : Safe(c) => Safe(c)' BY SafeStays
<1>2. \A q \in Proc : q # p => pc'[q] = pc[q] /\ on'[q] = on[q]
  BY DEF Step, Open, OpenBusy, EnsureSession, Captures, CapturesBusy, Write, Publish,
         PublishFails, EnforceCap, Drain, List, Done, Mark, Rename, Move, Unmark, Read, Ensure,
         Replay, Remove, Return, Crash, Goes, Ends
<1>3. session => session'
  BY DEF Step, Open, OpenBusy, EnsureSession, Captures, CapturesBusy, Write, Publish,
         PublishFails, EnforceCap, Drain, List, Done, Mark, Rename, Move, Unmark, Read, Ensure,
         Replay, Remove, Return, Crash, Saves
<1>4. refused' = refused /\ \A c \in Capture : stored[c] = Learnings => stored'[c] = Learnings
  <2>1. CASE Captures(p) BY <2>1 DEF Captures, Saves, Assumptions
  <2>2. CASE Replay(p) BY <2>2 DEF Replay, Saves, Assumptions
  <2>3. QED
    BY <2>1, <2>2
    DEF Step, Open, OpenBusy, EnsureSession, CapturesBusy, Write, Publish, PublishFails,
        EnforceCap, Drain, List, Done, Mark, Rename, Move, Unmark, Read, Ensure, Remove, Return,
        Crash
<1>5. \A q \in Proc : pc[q] \in Working => on[q] \in Capture BY DEF Busy
<1>6. \A c \in Capture : told'[c] = "kept" => Safe(c)'
  <2>1. CASE EnforceCap(p)
    <3>1. pc[p] = "cap" /\ on[p] \in Capture
      BY <2>1, <1>5 DEF EnforceCap, Ends, Goes, Working, Writing
    <3>2. \A c \in Capture : c = on[p] => Safe(c)'
      BY <1>1, <3>1
    <3>3. QED BY <1>1, <2>1, <3>2 DEF EnforceCap
  <2>2. CASE PublishFails(p) BY <1>1, <2>2 DEF PublishFails
  <2>3. CASE Captures(p) BY <1>1, <2>3 DEF Captures
  <2>4. QED
    BY <1>1, <2>1, <2>2, <2>3
    DEF Step, Open, OpenBusy, EnsureSession, CapturesBusy, Write, Publish, Drain, List, Done,
        Mark, Rename, Move, Unmark, Read, Ensure, Replay, Remove, Return, Crash
<1>7. \A q \in Proc : pc'[q] = "cap" => Safe(on[q])' /\ on'[q] = on[q]
  <2> SUFFICES ASSUME NEW q \in Proc, pc'[q] = "cap" PROVE Safe(on[q])' /\ on'[q] = on[q]
    OBVIOUS
  <2>1. CASE pc[q] = "cap" /\ on'[q] = on[q]
    BY <1>1, <1>5, <2>1 DEF Working, Writing
  <2>2. CASE q = p /\ Publish(p)
    BY <1>5, <2>2 DEF Publish, Goes, Safe, Working, Writing, Early
  <2>3. QED
    BY <1>2, <2>1, <2>2
    DEF Step, Open, OpenBusy, EnsureSession, Captures, CapturesBusy, Write,
        PublishFails, EnforceCap, Drain, List, Done, Mark, Rename, Move, Unmark, Read, Ensure,
        Replay, Remove, Return, Crash, Goes, Ends
<1>8. \A q \in Proc : pc'[q] \in {"replay", "remove"} =>
        /\ session'
        /\ pc'[q] = "remove" => stored'[on'[q]] = Learnings \/ on'[q] \in refused'
  <2> SUFFICES ASSUME NEW q \in Proc, pc'[q] \in {"replay", "remove"}
               PROVE  /\ session'
                      /\ pc'[q] = "remove" => stored'[on'[q]] = Learnings \/ on'[q] \in refused'
    OBVIOUS
  <2>1. CASE pc[q] = pc'[q] /\ on'[q] = on[q]
    BY <1>3, <1>4, <1>5, <2>1 DEF Working, After
  <2>2. CASE q = p /\ Ensure(p) BY <2>2 DEF Ensure, Goes
  <2>3. CASE q = p /\ Replay(p) /\ pc'[q] # pc[q]
    BY <2>3, <1>3 DEF Replay, Goes, Fails
  <2>4. QED
    BY <1>2, <2>1, <2>2, <2>3
    DEF Step, Open, OpenBusy, EnsureSession, Captures, CapturesBusy, Write, Publish,
        PublishFails, EnforceCap, Drain, List, Done, Mark, Rename, Move, Unmark, Read,
        Replay, Remove, Return, Crash, Goes, Ends
<1>9. QED BY <1>6, <1>7, <1>8

(***************************************************************************)
(* Every step keeps KInv.                                                  *)
(***************************************************************************)
LEMMA KInvNext == ASSUME Assumptions, IInv, KInv, [Next]_vars PROVE KInv'
<1>1. CASE UNCHANGED vars
  BY <1>1 DEF KInv, Safe, vars, world, directory, store, process
<1>2. ASSUME NEW c \in Capture, Age(c) PROVE KInv'
  BY <1>2 DEF Age, KInv, Safe, world, store, process
<1>3. ASSUME NEW p \in Proc, NEW c \in Capture, Stop(p, c) PROVE KInv'
  BY <1>3 DEF Stop, Goes, KInv, Safe, world, directory, store, IInv, TypeOK
<1>4. QED BY <1>1, <1>2, <1>3, KInvSteps, Zenon DEF Next

-----------------------------------------------------------------------------
(* The theorems.                                                           *)

(***************************************************************************)
(* TypeOK holds for any number of processes, captures and learnings.       *)
(***************************************************************************)
THEOREM TypeCorrect == ASSUME Assumptions PROVE Spec => []TypeOK
<1>1. Init => TypeOK BY DEF Assumptions, Init, TypeOK, Stage
<1>2. TypeOK /\ [Next]_vars => TypeOK' BY TypeNext, Assumptions
<1>3. QED BY <1>1, <1>2, PTL DEF Spec

(***************************************************************************)
(* No two of any number of drains replay one entry at the same time, also  *)
(* where a rename moves the file it opened (claim).                        *)
(***************************************************************************)
THEOREM ReplayedByOne == ASSUME Assumptions PROVE Spec => []OneReplay
<1>1. Init => IInv
  BY DEF Assumptions, Init, IInv, TypeOK, Stage, Busy, Owned, Untouched, Alone, Marked, OneClaim,
         Held, NoneMoves, OneReplay, Replaying, Early, Writing, Claiming, After, Holding, Working
<1>2. IInv /\ [Next]_vars => IInv' BY IInvNext, Assumptions
<1>3. IInv => OneReplay BY DEF IInv
<1>4. QED BY <1>1, <1>2, <1>3, PTL DEF Spec

(***************************************************************************)
(* A capture the agent was told is kept stays in the directory or in the   *)
(* store, whatever processes write, claim, return and die, until it is     *)
(* past its retention, dropped by the cap or refused (spool, drain).       *)
(***************************************************************************)
THEOREM NothingKeptIsLost == ASSUME Assumptions PROVE Spec => []KeptIsKept
<1> DEFINE Inv == IInv /\ KInv
<1>1. Init => Inv
  <2>1. Init => IInv
    BY DEF Assumptions, Init, IInv, TypeOK, Stage, Busy, Owned, Untouched, Alone, Marked,
           OneClaim, Held, NoneMoves, OneReplay, Replaying, Early, Writing, Claiming, After,
           Holding, Working
  <2>2. Init => KInv BY DEF Init, KInv
  <2>3. QED BY <2>1, <2>2
<1>2. Inv /\ [Next]_vars => Inv' BY IInvNext, KInvNext, Assumptions
<1>3. Inv => KeptIsKept BY DEF KInv, Safe, KeptIsKept
<1> HIDE DEF Inv
<1>4. QED BY <1>1, <1>2, <1>3, PTL DEF Spec

(***************************************************************************)
(* A vector that counts as current is of the memory's text, also with the  *)
(* spool's processes at work beside the two workers that keep vectors:     *)
(* every step of the two together is one of Vectors or none                *)
(* (embed_and_keep).                                                       *)
(***************************************************************************)
THEOREM VectorsBesideTheSpool == ASSUME VP!Assumptions PROVE MCSpec => []CurrentIsOfText
<1>1. MCInit => VP!Init BY DEF MCInit, Ve!Init, Ve!Worker, VP!Init, VP!Worker
<1>2. [MCNext]_allVars => [VP!Next]_(VP!vars)
  <2>1. ASSUME NEW m \in Memory, NEW t \in Text PROVE Ve!Writes(m, t) => VP!Writes(m, t)
    BY DEF Ve!Writes, Ve!Writable, Ve!Edited, VP!Writes, VP!Writable, VP!Edited
  <2>2. ASSUME NEW m \in Memory, NEW t \in Text
        PROVE  (Ve!Save(m, t) => VP!Save(m, t)) /\ (Ve!Pulled(m, t) => VP!Pulled(m, t))
    BY <2>1 DEF Ve!Save, Ve!Pulled, Ve!model, Ve!job, VP!Save, VP!Pulled, VP!model, VP!job
  <2>3. ASSUME NEW m \in Memory PROVE Ve!Leave(m) => VP!Leave(m)
    BY DEF Ve!Leave, Ve!Edited, Ve!model, Ve!job, VP!Leave, VP!Edited, VP!model, VP!job
  <2>4. (Ve!Install => VP!Install) /\ (Ve!Search => VP!Search)
    BY DEF Ve!Install, Ve!Search, Ve!rows, Ve!job, VP!Install, VP!Search, VP!rows, VP!job
  <2>5. \A m : Ve!IsStale(m) = VP!IsStale(m)
    BY DEF Ve!IsStale, Ve!IsCurrent, VP!IsStale, VP!IsCurrent
  <2>6. Ve!ListWritten => VP!ListWritten
    BY <2>5 DEF Ve!ListWritten, Ve!rows, VP!ListWritten, VP!rows
  <2>7. Ve!ListStale => VP!ListStale
    <3>1. Ve!StaleAny = VP!StaleAny
      <4>1. \A S : Ve!Cardinality(S) = VP!Cardinality(S) BY DEF Ve!Cardinality, VP!Cardinality
      <4>2. \A S : Ve!SetToSeqs(S) = VP!SetToSeqs(S) BY <4>1 DEF Ve!SetToSeqs, VP!SetToSeqs
      <4>3. \A m : {n \in Memory : n >= m /\ Ve!IsStale(n)}
                  = {n \in Memory : n >= m /\ VP!IsStale(n)}
        BY <2>5
      <4>4. {m \in Memory : /\ Ve!IsStale(m)
                            /\ Ve!Cardinality({n \in Memory : n >= m /\ Ve!IsStale(n)}) <= Budget}
            = {m \in Memory : /\ VP!IsStale(m)
                              /\ VP!Cardinality({n \in Memory : n >= m /\ VP!IsStale(n)}) <= Budget}
        BY <2>5, <4>1, <4>3
      <4>5. QED BY <4>2, <4>4 DEF Ve!StaleAny, VP!StaleAny
    <3>2. Ve!Idle("backfill") => VP!Idle("backfill") BY DEF Ve!Idle, VP!Idle
    <3>3. QED
      BY <3>1, <3>2 DEF Ve!ListStale, Ve!rows, Ve!model, VP!ListStale, VP!rows, VP!model
  <2>8. ASSUME NEW w \in {"written", "backfill"}
        PROVE  /\ Ve!ReadText(w) => VP!ReadText(w)
               /\ Ve!KeepVector(w) => VP!KeepVector(w)
               /\ Ve!GiveUp(w) => VP!GiveUp(w)
    BY DEF Ve!ReadText, Ve!KeepVector, Ve!KeptKey, Ve!GiveUp, Ve!rows, Ve!model,
           VP!ReadText, VP!KeepVector, VP!KeptKey, VP!GiveUp, VP!rows, VP!model
  <2>9. ASSUME NEW w \in {"written", "backfill"} PROVE Ve!Work(w) => VP!Work(w)
    BY <2>6, <2>7, <2>8 DEF Ve!Work, VP!Work
  <2>10. Ve!Next => VP!Next
    BY <2>2, <2>3, <2>4, <2>9 DEF Ve!Next, VP!Next, Ve!Worker, VP!Worker
  <2>11. QED
    BY <2>10 DEF MCNext, InSpool, InVectors, allVars, vectors, VP!vars, VP!rows, VP!model,
                 VP!job
<1>3. MCSpec => VP!Spec BY <1>1, <1>2, PTL DEF MCSpec, VP!Spec
<1>4. VP!CurrentIsOfText => CurrentIsOfText
  BY DEF VP!CurrentIsOfText, CurrentIsOfText, Ve!CurrentIsOfText
<1>5. VP!Spec => []VP!CurrentIsOfText BY VP!VectorsAreCurrent
<1>6. QED BY <1>3, <1>4, <1>5, PTL

=============================================================================
