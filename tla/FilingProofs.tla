---------------------------- MODULE FilingProofs ----------------------------
(***************************************************************************)
(* Proofs about Filing, for any directories, names, servers, hooks and     *)
(* bounds: its type invariant, that a refusal can be cleared, and what     *)
(* splits a conversation.                                                  *)
(***************************************************************************)
EXTENDS Filing, TLAPS

Stages == {"fold", "merge", "open", "file"}

\* A call begins, with what it has worked out.
Begins ==
    \E p \in Process, stage \in Stages, i \in Session, n \in Name, d \in Dir,
       name \in Name \cup {None}, files \in BOOLEAN :
         /\ BeginCall(p, stage, i, n, d, name, files)
         /\ i \in Chat /\ Exists(i) => n = session[i].project
         /\ stage = "file" => Exists(i)

FoundTyped == found' \in [Server -> Look \cup {None}]

LEMMA SeenTyped ==
    ASSUME TypeOK, NEW s \in Server
    PROVE  /\ Seen(s) \in Look \cup {None} /\ At[s] \in Dir
           /\ Remember(s) => FoundTyped
BY PlaceAssumption DEF TypeOK, Seen, Remember, FoundTyped

LEMMA DetectedTyped ==
    ASSUME NEW d \in Dir, NEW look PROVE Detected(d, look) \in Name \cup {None}
BY PlaceAssumption DEF Detected

\* The id of a manual session is no agent's.
LEMMA SaveManuallyBegins ==
    ASSUME TypeOK, NEW s \in Server, NEW n \in Name, SaveManually(s, n)
    PROVE  Begins /\ FoundTyped
<1>1. At[s] \in Dir /\ Detected(At[s], Seen(s)) \in Name \cup {None}
  BY SeenTyped, DetectedTyped
<1>2. s \in Process /\ n \in Session /\ n \notin Chat /\ "open" \in Stages /\ TRUE \in BOOLEAN
  BY IdAssumption DEF Process, Session, Stages
<1>3. BeginCall(s, "open", n, n, At[s], Detected(At[s], Seen(s)), TRUE) BY DEF SaveManually
<1>4. FoundTyped BY SeenTyped DEF SaveManually
<1>5. QED BY <1>1, <1>2, <1>3, <1>4 DEF Begins

LEMMA StartBegins ==
    ASSUME TypeOK, NEW s \in Server, NEW c \in Chat, NEW n \in Name,
           NEW d \in Dir \cup {None}, Start(s, c, n, d)
    PROVE  Begins /\ FoundTyped
<1>1. s \in Process /\ c \in Session /\ "open" \in Stages /\ FALSE \in BOOLEAN /\ ~Exists(c)
  BY DEF Process, Session, Stages, Start
<1>2. CASE d = None
  <2>1. At[s] \in Dir /\ Detected(At[s], Seen(s)) \in Name \cup {None}
    BY SeenTyped, DetectedTyped
  <2>2. BeginCall(s, "open", c, n, At[s], Detected(At[s], Seen(s)), FALSE) /\ Remember(s)
    BY <1>2 DEF Start
  <2>3. QED BY <1>1, <2>1, <2>2, SeenTyped DEF Begins
<1>3. CASE d # None
  <2>1. d \in Dir /\ Detected(d, looks[d]) \in Name \cup {None} BY <1>3, DetectedTyped
  <2>2. BeginCall(s, "open", c, n, d, Detected(d, looks[d]), FALSE) /\ found' = found
    BY <1>3 DEF Start
  <2>3. QED BY <1>1, <2>1, <2>2 DEF Begins, FoundTyped, TypeOK
<1>4. QED BY <1>2, <1>3

\* What a hook takes its directory for is a name or nothing.
LEMMA GuessedTyped ==
    ASSUME TypeOK, \A k \in DOMAIN opened : Exists(opened[k]), NEW d \in Dir
    PROVE  Guessed(d) \subseteq Name \cup {None}
<1>1. \A k \in DOMAIN opened : session[opened[k]] \in Opened
  BY DEF TypeOK, Exists
<1>2. \A n : NewestRecorded(d, n) \subseteq Name
  BY <1>1 DEF NewestRecorded, Recorded, Opened
<1>3. Detected(d, looks[d]) \in Name \cup {None} BY DetectedTyped
<1>4. QED BY <1>2, <1>3 DEF Guessed

LEMMA EventBegins ==
    ASSUME TypeOK, \A k \in DOMAIN opened : Exists(opened[k]), NEW h \in Hook, NEW d \in Dir,
           NEW c \in Chat \cup {None}, NEW stage \in {"fold", "open"}, NEW files \in BOOLEAN,
           Event(h, d, c, stage, files)
    PROVE  Begins /\ FoundTyped
<1> DEFINE i(n) == IF c = None THEN n ELSE c
<1>1. PICK n \in Guessed(d) :
        /\ i(n) # None /\ (n # None \/ Exists(i(n)))
        /\ BeginCall(h, stage, i(n), Owned(i(n), n), d, Detected(d, looks[d]), files)
  BY DEF Event
<1>2. n \in Name \cup {None} BY GuessedTyped
<1>3. i(n) \in Session BY <1>1, <1>2 DEF Session
<1>4. Owned(i(n), n) \in Name BY <1>1, <1>2, <1>3 DEF Owned, TypeOK, Exists, Opened
<1>5. Exists(i(n)) => Owned(i(n), n) = session[i(n)].project BY DEF Owned
<1>6. h \in Process /\ stage \in Stages /\ stage # "file" BY DEF Process, Stages
<1>7. Detected(d, looks[d]) \in Name \cup {None} BY DetectedTyped
<1>8. Begins
  <2> HIDE DEF i
  <2>1. QED BY <1>1, <1>3, <1>4, <1>5, <1>6, <1>7 DEF Begins
<1>9. FoundTyped BY DEF Event, FoundTyped, TypeOK
<1>10. QED BY <1>8, <1>9

\* Whatever begins a call.
LEMMA ServeBegins ==
    ASSUME TypeOK, \A k \in DOMAIN opened : Exists(opened[k]), NEW s \in Server, Serve(s),
           ~CurrentProject(s), \A n, m \in Name : ~Merge(s, n, m),
           \A f \in filed, n \in Name : ~Move(s, f, n)
    PROVE  Begins /\ FoundTyped
<1>1. CASE \E i \in Session : SaveIn(s, i)
  <2>1. PICK i \in Session : SaveIn(s, i) BY <1>1
  <2>2. session[i].project \in Name /\ Exists(i) BY <2>1 DEF SaveIn, Exists, TypeOK, Opened
  <2>3. s \in Process /\ At[s] \in Dir BY SeenTyped DEF Process
  <2>4. BeginCall(s, "file", i, session[i].project, At[s], None, TRUE) BY <2>1 DEF SaveIn
  <2>5. FoundTyped BY <2>1, SeenTyped DEF SaveIn, FoundTyped, TypeOK
  <2>6. QED BY <2>2, <2>3, <2>4, <2>5 DEF Begins, Stages
<1>2. CASE SaveSilently(s)
  <2>1. Detected(At[s], Seen(s)) \in Name \cup {None} BY SeenTyped, DetectedTyped
  <2>2. \E n \in Name : SaveManually(s, n)
    BY <1>2, <2>1, DefaultAssumption DEF SaveSilently
  <2>3. QED BY <2>2, SaveManuallyBegins
<1>3. CASE \E n \in Name : SaveUnder(s, n)
  BY <1>3, SaveManuallyBegins DEF SaveUnder
<1>4. CASE CaptureFollows(s)
  <2>1. PICK n \in NewestRecorded(At[s], Detected(At[s], Seen(s))) : SaveManually(s, n)
    BY <1>4 DEF CaptureFollows
  <2>2. \A k \in DOMAIN opened : session[opened[k]] \in Opened BY DEF TypeOK, Exists
  <2>3. n \in Name BY <2>2 DEF NewestRecorded, Recorded, Opened
  <2>4. QED BY <2>1, <2>3, SaveManuallyBegins
<1>5. CASE \E c \in Chat, d \in Dir \cup {None} : StartSilently(s, c, d)
  <2>1. PICK c \in Chat, d \in Dir \cup {None} : StartSilently(s, c, d) BY <1>5
  <2>2. Detected(At[s], Seen(s)) \in Name \cup {None} BY SeenTyped, DetectedTyped
  <2>3. d # None => Detected(d, looks[d]) \in Name \cup {None} BY DetectedTyped
  <2>4. \E n \in Name : Start(s, c, n, d)
    BY <2>1, <2>2, <2>3, DefaultAssumption DEF StartSilently
  <2>5. QED BY <2>4, StartBegins
<1>6. CASE \E c \in Chat, d \in Dir \cup {None} : \E n \in Name : Start(s, c, n, d)
  BY <1>6, StartBegins
<1>7. QED BY <1>1, <1>2, <1>3, <1>4, <1>5, <1>6 DEF Serve

LEMMA RunBegins ==
    ASSUME TypeOK, \A k \in DOMAIN opened : Exists(opened[k]), NEW h \in Hook, Run(h),
           ~AskToFold(h), ~FoldFolder(h)
    PROVE  Begins /\ FoundTyped
BY EventBegins DEF Run, SessionStarts, Compacted, PromptOrCapture

-----------------------------------------------------------------------------
(* Every step begins a call or is one of the others.                       *)

Others ==
    \/ \E s \in Server : CurrentProject(s)
    \/ \E s \in Server, n, m \in Name : Merge(s, n, m)
    \/ \E s \in Server, f \in filed, n \in Name : Move(s, f, n)
    \/ \E h \in Hook : AskToFold(h) \/ FoldFolder(h)
    \/ \E p \in Process : OpenSession(p) \/ WriteRow(p) \/ Stop(p)
    \/ \E p \in Process, i \in Session : EndSession(p, i)
    \/ \E d \in Dir : \E look \in Looks[d] : Change(d, look)

\* What a row or a call is about is there.
There ==
    /\ \A k \in DOMAIN opened : Exists(opened[k])
    /\ \A p \in Process : job[p] # None /\ job[p].stage = "file" => Exists(job[p].id)
    /\ \A f \in filed : Exists(f.session)

LEMMA NextCases ==
    ASSUME TypeOK, There, Next PROVE (Begins /\ FoundTyped) \/ Others
<1>1. \A k \in DOMAIN opened : Exists(opened[k]) BY DEF There
<1>2. CASE \E s \in Server : Serve(s)
  BY <1>1, <1>2, ServeBegins DEF Others
<1>3. CASE \E h \in Hook : Run(h)
  BY <1>1, <1>3, RunBegins DEF Others
<1>4. QED BY <1>2, <1>3 DEF Next, Others

\* A merge renames, and nothing else.
LEMMA MergedRows ==
    ASSUME TypeOK, NEW from, NEW to \in Name, Merged(from, to)
    PROVE  /\ session' \in [Session -> Opened \cup {None}]
           /\ \A i \in Session : Exists(i)' <=> Exists(i)
           /\ \A i \in Session : Exists(i) =>
                session'[i].project = IF session[i].project = from
                                      THEN to ELSE session[i].project
           /\ filed' \subseteq [project : Name, session : Session, from : Dir]
           /\ \A f \in filed' : \E g \in filed :
                /\ f.session = g.session
                /\ f.project = IF g.project = from THEN to ELSE g.project
<1>1. \A i \in Session : Exists(i) =>
        /\ session[i] \in Opened
        /\ [session[i] EXCEPT !.project = to] \in Opened
        /\ [session[i] EXCEPT !.project = to].project = to
  BY DEF TypeOK, Exists, Opened
<1>2. \A i \in Session :
        session'[i] = IF Exists(i) /\ session[i].project = from
                      THEN [session[i] EXCEPT !.project = to] ELSE session[i]
  BY DEF Merged
<1>3. session' \in [Session -> Opened \cup {None}]
  <2>1. \A i \in Session : session'[i] \in Opened \cup {None}
    BY <1>1, <1>2 DEF TypeOK
  <2>2. session' = [i \in Session |-> session'[i]] BY DEF Merged
  <2>3. QED BY <2>1, <2>2
<1>4. \A i \in Session : Exists(i)' <=> Exists(i)
  BY <1>1, <1>2, IdAssumption DEF Exists
<1>5. \A i \in Session : Exists(i) =>
        session'[i].project = IF session[i].project = from THEN to ELSE session[i].project
  BY <1>1, <1>2
<1>6. \A f \in filed' : \E g \in filed :
        f = [g EXCEPT !.project = IF @ = from THEN to ELSE @]
  BY DEF Merged
<1>7. \A f \in filed' : \E g \in filed :
        /\ f \in [project : Name, session : Session, from : Dir]
        /\ f.session = g.session
        /\ f.project = IF g.project = from THEN to ELSE g.project
  BY <1>6 DEF TypeOK
<1>8. QED BY <1>3, <1>4, <1>5, <1>7

\* The two ways to merge.
LEMMA MergeMerges ==
    ASSUME TypeOK,
           (\E s \in Server, n, m \in Name : Merge(s, n, m)) \/ (\E h \in Hook : FoldFolder(h))
    PROVE  /\ \E from, to \in Name : Merged(from, to)
           /\ UNCHANGED <<looks, found, opened, changes>>
           /\ \/ UNCHANGED job /\ calls' = calls + 1 /\ calls < MaxCalls
              \/ /\ \E h \in Hook : job[h] # None /\ job[h].stage = "merge" /\ Goto(h, "open")
                 /\ calls' = calls
<1>1. CASE \E s \in Server, n, m \in Name : Merge(s, n, m)
  BY <1>1 DEF Merge, MayBegin
<1>2. ASSUME NEW h \in Hook, FoldFolder(h)
      PROVE  /\ \E from, to \in Name : Merged(from, to)
             /\ UNCHANGED <<looks, found, opened, changes, calls>>
             /\ job[h] # None /\ job[h].stage = "merge" /\ Goto(h, "open")
  <2>1. job[h] \in Job BY <1>2 DEF FoldFolder, TypeOK, Process
  <2>2. job[h].project \in Name /\ Folder[job[h].dir] \in Name
    BY <2>1, PlaceAssumption DEF Job
  <2>3. QED BY <1>2, <2>2 DEF FoldFolder
<1>3. QED BY <1>1, <1>2

\* A move renames one memory, and nothing else.
LEMMA MovedRows ==
    ASSUME TypeOK, NEW s \in Server, NEW f \in filed, NEW n \in Name, Move(s, f, n)
    PROVE  \A g \in filed' : g \in filed \/ (g.session = f.session /\ g.project = n)
<1>1. [f EXCEPT !.project = n].session = f.session /\ [f EXCEPT !.project = n].project = n
  BY DEF TypeOK
<1>2. QED BY <1>1 DEF Move

LEMMA GotoTyped ==
    ASSUME TypeOK, NEW p \in Process, job[p] # None, NEW stage \in Stages, Goto(p, stage)
    PROVE  /\ job' \in [Process -> Job \cup {None}]
           /\ job'[p].stage = stage /\ job'[p].id = job[p].id /\ job'[p].project = job[p].project
           /\ job'[p] # None
           /\ \A q \in Process : q # p => job'[q] = job[q]
<1>1. job[p] \in Job BY DEF TypeOK
<1>2. [job[p] EXCEPT !.stage = stage] \in Job BY <1>1 DEF Job, Stages
<1>3. job'[p] = [job[p] EXCEPT !.stage = stage] BY DEF Goto, TypeOK
<1>4. QED BY <1>1, <1>2, <1>3, IdAssumption DEF Goto, TypeOK, Job

-----------------------------------------------------------------------------
(* Types, and that whatever is mentioned exists.                           *)

LEMMA InitTyped == Init => TypeOK /\ There
<1> SUFFICES ASSUME Init PROVE TypeOK /\ There OBVIOUS
<1>1. looks \in [Dir -> Look] BY PlaceAssumption DEF Init
<1>2. TypeOK BY <1>1, BoundAssumption DEF Init, TypeOK
<1>3. There BY DEF Init, There
<1>4. QED BY <1>2, <1>3

LEMMA TypeStep ==
    ASSUME TypeOK, There, [Next]_vars PROVE TypeOK'
<1> USE DEF TypeOK
<1>1. CASE UNCHANGED vars BY <1>1 DEF vars, rows
<1>2. CASE Begins /\ FoundTyped
  <2>1. PICK p \in Process, stage \in Stages, i \in Session, n \in Name, d \in Dir,
             name \in Name \cup {None}, files \in BOOLEAN :
          BeginCall(p, stage, i, n, d, name, files)
    BY <1>2 DEF Begins
  <2>2. [stage |-> stage, id |-> i, project |-> n, dir |-> d,
         detected |-> name, files |-> files] \in Job
    BY DEF Job, Stages
  <2>3. job' \in [Process -> Job \cup {None}] BY <2>1, <2>2 DEF BeginCall
  <2>4. calls' \in 0..MaxCalls BY <2>1, BoundAssumption DEF BeginCall, MayBegin
  <2>5. QED BY <1>2, <2>1, <2>3, <2>4 DEF BeginCall, rows, FoundTyped
<1>3. CASE Others
  <2>1. CASE \E s \in Server : CurrentProject(s)
    BY <2>1, SeenTyped DEF CurrentProject, rows, FoundTyped
  <2>2. CASE (\E s \in Server, n, m \in Name : Merge(s, n, m)) \/ (\E h \in Hook : FoldFolder(h))
    <3>1. PICK from \in Name, to \in Name : Merged(from, to) BY <2>2, MergeMerges
    <3>2. session' \in [Session -> Opened \cup {None}]
          /\ filed' \subseteq [project : Name, session : Session, from : Dir]
      BY <3>1, MergedRows
    <3>3. UNCHANGED <<looks, found, opened, changes>> BY <2>2, MergeMerges
    <3>4. job' \in [Process -> Job \cup {None}] /\ calls' \in 0..MaxCalls
      <4>1. CASE UNCHANGED job /\ calls' = calls + 1 /\ calls < MaxCalls
        BY <4>1, BoundAssumption
      <4>2. CASE (\E h \in Hook : job[h] # None /\ job[h].stage = "merge" /\ Goto(h, "open"))
                 /\ calls' = calls
        BY <4>2, GotoTyped DEF Process, Stages
      <4>3. QED BY <2>2, <4>1, <4>2, MergeMerges
    <3>5. QED BY <3>2, <3>3, <3>4
  <2>3. CASE \E h \in Hook : AskToFold(h)
    BY <2>3, GotoTyped DEF AskToFold, rows, Process, Stages
  <2>4. CASE \E p \in Process : OpenSession(p)
    <3>1. PICK p \in Process : OpenSession(p) BY <2>4
    <3>2. job[p] \in Job BY <3>1 DEF OpenSession
    <3>3. [project |-> job[p].project, dir |-> job[p].dir, ended |-> FALSE] \in Opened
          /\ job[p].id \in Session
      BY <3>2 DEF Job, Opened
    <3>4. session' \in [Session -> Opened \cup {None}] /\ opened' \in Seq(Session)
      <4>1. CASE Exists(job[p].id) BY <3>1, <4>1 DEF OpenSession
      <4>2. CASE ~Exists(job[p].id)
        <5>1. session' \in [Session -> Opened \cup {None}]
          BY <3>1, <3>3, <4>2 DEF OpenSession
        <5>2. opened' = Append(opened, job[p].id) BY <3>1, <4>2 DEF OpenSession
        <5>3. Append(opened, job[p].id) \in Seq(Session) BY <3>3
        <5>4. QED BY <5>1, <5>2, <5>3
      <4>3. QED BY <4>1, <4>2
    <3>5. job' \in [Process -> Job \cup {None}]
      BY <3>1, GotoTyped DEF OpenSession, Done, Stages
    <3>6. QED BY <3>1, <3>4, <3>5 DEF OpenSession
  <2>5. CASE \E p \in Process : WriteRow(p)
    <3>1. PICK p \in Process : WriteRow(p) BY <2>5
    <3>2. job[p] \in Job BY <3>1 DEF WriteRow
    <3>3. filed' \subseteq [project : Name, session : Session, from : Dir]
      BY <3>1, <3>2 DEF WriteRow, Job
    <3>4. QED BY <3>1, <3>3 DEF WriteRow, Done
  <2>6. CASE \E p \in Process : Stop(p)
    BY <2>6 DEF Stop, Done, rows
  <2>7. CASE \E p \in Process, i \in Session : EndSession(p, i)
    <3>1. PICK p \in Process, i \in Session : EndSession(p, i) BY <2>7
    <3>2. [session[i] EXCEPT !.ended = TRUE] \in Opened
      BY <3>1 DEF EndSession, Exists, Opened
    <3>3. session' \in [Session -> Opened \cup {None}] BY <3>1, <3>2 DEF EndSession
    <3>4. calls' \in 0..MaxCalls BY <3>1, BoundAssumption DEF EndSession, MayBegin
    <3>5. QED BY <3>1, <3>3, <3>4 DEF EndSession
  <2>8. CASE \E d \in Dir : \E look \in Looks[d] : Change(d, look)
    <3>1. PICK d \in Dir : \E l \in Looks[d] : Change(d, l) BY <2>8
    <3>2. PICK look \in Looks[d] : Change(d, look) BY <3>1
    <3>3. look \in Look BY PlaceAssumption
    <3>4. QED BY <3>2, <3>3, BoundAssumption DEF Change, rows
  <2>9. CASE \E s \in Server, f \in filed, n \in Name : Move(s, f, n)
    <3>1. PICK s \in Server, f \in filed, n \in Name : Move(s, f, n) BY <2>9
    <3>2. [f EXCEPT !.project = n] \in [project : Name, session : Session, from : Dir] OBVIOUS
    <3>3. filed' \subseteq [project : Name, session : Session, from : Dir] BY <3>1, <3>2 DEF Move
    <3>4. FoundTyped BY <3>1, SeenTyped DEF Move
    <3>5. calls' \in 0..MaxCalls BY <3>1, BoundAssumption DEF Move, MayBegin
    <3>6. QED BY <3>1, <3>3, <3>4, <3>5 DEF Move, FoundTyped
  <2>10. QED BY <1>3, <2>1, <2>2, <2>3, <2>4, <2>5, <2>6, <2>7, <2>8, <2>9 DEF Others
<1>4. QED BY <1>1, <1>2, <1>3, NextCases

\* Once there, a session stays.
LEMMA SessionsStay ==
    ASSUME TypeOK, There, [Next]_vars PROVE \A i \in Session : Exists(i) => Exists(i)'
<1>1. CASE UNCHANGED vars BY <1>1 DEF vars, rows, Exists
<1>2. CASE Begins BY <1>2 DEF Begins, BeginCall, rows, Exists
<1>3. CASE Others
  <2>1. CASE (\E s \in Server, n, m \in Name : Merge(s, n, m)) \/ (\E h \in Hook : FoldFolder(h))
    BY <2>1, MergeMerges, MergedRows
  <2>2. CASE \E p \in Process : OpenSession(p)
    <3>1. PICK p \in Process : OpenSession(p) BY <2>2
    <3>2. \A i \in Session : session'[i] = session[i] \/ ~Exists(i)
      BY <3>1 DEF OpenSession, TypeOK
    <3>3. QED BY <3>2 DEF Exists
  <2>3. CASE \E p \in Process, i \in Session : EndSession(p, i)
    <3>1. PICK p \in Process, i \in Session : EndSession(p, i) BY <2>3
    <3>2. [session[i] EXCEPT !.ended = TRUE] \in Opened
      BY <3>1 DEF EndSession, Exists, Opened, TypeOK
    <3>3. \A j \in Session : session'[j] \in Opened \/ session'[j] = session[j]
      BY <3>1, <3>2 DEF EndSession, TypeOK
    <3>4. QED BY <3>3, IdAssumption DEF Exists
  <2>4. QED
    BY <1>3, <2>1, <2>2, <2>3
    DEF Others, CurrentProject, AskToFold, Move, WriteRow, Stop, Change, rows, Exists
<1>4. QED BY <1>1, <1>2, <1>3, NextCases

LEMMA ThereStep ==
    ASSUME TypeOK, There, [Next]_vars PROVE There'
<1> DEFINE Ready == \A p \in Process : job[p] # None /\ job[p].stage = "file" => Exists(job[p].id)
<1>1. \A i \in Session : session[i] # None => session'[i] # None
  BY SessionsStay DEF Exists
<1>2. /\ \A k \in DOMAIN opened : opened[k] \in Session
      /\ \A f \in filed : f.session \in Session
      /\ \A p \in Process : job[p] # None => job[p].id \in Session
  BY DEF TypeOK, Job
<1>3. opened' = opened => \A k \in DOMAIN opened' : Exists(opened[k])'
  BY <1>1, <1>2 DEF There, Exists
<1>4. filed' = filed => \A f \in filed' : Exists(f.session)'
  BY <1>1, <1>2 DEF There, Exists
<1>5. job' = job => Ready' BY <1>1, <1>2 DEF There, Exists
<1>6. ASSUME NEW p \in Process, \A q \in Process : q # p => job'[q] = job[q],
             job'[p] # None /\ job'[p].stage = "file" => session'[job'[p].id] # None
      PROVE  Ready'
  BY <1>1, <1>2, <1>6 DEF There, Exists
<1>7. ASSUME NEW p \in Process, Done(p) PROVE Ready'
  BY <1>6, <1>7 DEF Done, TypeOK
<1>8. CASE UNCHANGED vars BY <1>8, <1>3, <1>4, <1>5 DEF vars, rows, There
<1>9. CASE Begins
  <2>1. PICK p \in Process, stage \in Stages, i \in Session, n \in Name, d \in Dir,
             name \in Name \cup {None}, files \in BOOLEAN :
          BeginCall(p, stage, i, n, d, name, files) /\ (stage = "file" => Exists(i))
    BY <1>9 DEF Begins
  <2>2. job'[p] = [stage |-> stage, id |-> i, project |-> n, dir |-> d,
                   detected |-> name, files |-> files]
        /\ \A q \in Process : q # p => job'[q] = job[q]
    BY <2>1 DEF BeginCall, TypeOK
  <2>3. Ready'
    <3>1. stage = "file" => session'[i] # None BY <1>1, <2>1 DEF Exists
    <3>2. QED BY <1>6, <2>2, <3>1
  <2>4. QED BY <1>3, <1>4, <2>1, <2>3 DEF BeginCall, rows, There
<1>10. CASE Others
  <2>1. CASE (\E s \in Server, n, m \in Name : Merge(s, n, m)) \/ (\E h \in Hook : FoldFolder(h))
    <3>1. PICK from \in Name, to \in Name : Merged(from, to) BY <2>1, MergeMerges
    <3>2. \A f \in filed' : \E g \in filed : f.session = g.session BY <3>1, MergedRows
    <3>3. \A f \in filed' : Exists(f.session)' BY <1>1, <1>2, <3>2 DEF There, Exists
    <3>4. opened' = opened BY <2>1, MergeMerges
    <3>5. Ready'
      <4>1. CASE \E h \in Hook : job[h] # None /\ Goto(h, "open")
        <5>1. PICK h \in Hook : job[h] # None /\ Goto(h, "open") BY <4>1
        <5>2. h \in Process /\ "open" \in Stages BY DEF Process, Stages
        <5>3. QED BY <1>6, <5>1, <5>2, GotoTyped
      <4>2. CASE UNCHANGED job BY <4>2, <1>5
      <4>3. QED BY <2>1, <4>1, <4>2, MergeMerges
    <3>6. QED BY <1>3, <3>3, <3>4, <3>5 DEF There
  <2>2. CASE \E h \in Hook : AskToFold(h)
    <3>1. PICK h \in Hook : AskToFold(h) BY <2>2
    <3>2. PICK stage \in {"merge", "open"} : Goto(h, stage) BY <3>1 DEF AskToFold
    <3>3. h \in Process /\ stage \in Stages /\ job[h] # None BY <3>1 DEF AskToFold, Process, Stages
    <3>4. Ready' BY <1>6, <3>2, <3>3, GotoTyped
    <3>5. QED BY <1>3, <1>4, <3>1, <3>4 DEF AskToFold, rows, There
  <2>3. CASE \E p \in Process : OpenSession(p)
    <3>1. PICK p \in Process : OpenSession(p) BY <2>3
    <3>2. session'[job[p].id] # None
      <4>1. job[p] \in Job BY <3>1 DEF OpenSession, TypeOK
      <4>2. [project |-> job[p].project, dir |-> job[p].dir, ended |-> FALSE] \in Opened
        BY <4>1 DEF Job, Opened
      <4>3. QED BY <1>1, <1>2, <3>1, <4>2, IdAssumption DEF OpenSession, TypeOK, Exists
    <3>3. Ready'
      <4>1. CASE Goto(p, "file")
        BY <1>6, <3>1, <3>2, <4>1, GotoTyped DEF OpenSession, Stages
      <4>2. QED BY <1>7, <3>1, <4>1 DEF OpenSession
    <3>4. \A k \in DOMAIN opened' : Exists(opened[k])'
      <4>1. CASE opened' = opened BY <4>1, <1>3
      <4>2. CASE opened' = Append(opened, job[p].id)
        <5>1. \A k \in DOMAIN opened' : opened'[k] = job[p].id
                \/ (k \in DOMAIN opened /\ opened'[k] = opened[k])
          BY <4>2, <1>2, <3>1 DEF TypeOK, OpenSession
        <5>2. \A k \in DOMAIN opened : session'[opened[k]] # None BY <1>1, <1>2 DEF There, Exists
        <5>3. QED BY <5>1, <5>2, <3>2 DEF Exists
      <4>3. QED BY <3>1, <4>1, <4>2 DEF OpenSession
    <3>5. QED BY <1>4, <3>1, <3>3, <3>4 DEF OpenSession, There
  <2>4. CASE \E p \in Process : WriteRow(p)
    <3>1. PICK p \in Process : WriteRow(p) BY <2>4
    <3>2. \A f \in filed' : Exists(f.session) /\ f.session \in Session
      BY <3>1, <1>2 DEF WriteRow, There
    <3>3. \A f \in filed' : Exists(f.session)' BY <1>1, <3>2 DEF Exists
    <3>4. QED BY <1>3, <1>7, <3>1, <3>3 DEF WriteRow, There
  <2>5. CASE \E p \in Process : Stop(p)
    BY <1>3, <1>4, <1>7, <2>5 DEF Stop, rows, There
  <2>6. CASE \E p \in Process, i \in Session : EndSession(p, i)
    BY <1>3, <1>4, <1>5, <2>6 DEF EndSession, There
  <2>7. CASE \E s \in Server, f \in filed, n \in Name : Move(s, f, n)
    <3>1. PICK s \in Server, f \in filed, n \in Name : Move(s, f, n) BY <2>7
    <3>2. \A g \in filed' : \E e \in filed : g.session = e.session BY <3>1, MovedRows
    <3>3. \A g \in filed' : Exists(g.session)' BY <1>1, <1>2, <3>2 DEF There, Exists
    <3>4. QED BY <1>3, <1>5, <3>1, <3>3 DEF Move, There
  <2>8. QED
    BY <1>3, <1>4, <1>5, <1>10, <2>1, <2>2, <2>3, <2>4, <2>5, <2>6, <2>7
    DEF Others, CurrentProject, Change, rows, There
<1>11. QED BY <1>8, <1>9, <1>10, NextCases

LEMMA TypedAndThere == Spec => [](TypeOK /\ There)
<1>1. Init => TypeOK /\ There BY InitTyped
<1>2. TypeOK /\ There /\ [Next]_vars => (TypeOK /\ There)' BY TypeStep, ThereStep
<1>3. QED BY <1>1, <1>2, PTL DEF Spec

(***************************************************************************)
(* Every row and call has its type, whatever processes do and wherever     *)
(* they stop (store/sessions.rs, store/projects.rs).                       *)
(***************************************************************************)
THEOREM TypeCorrect == Spec => []TypeOK
BY TypedAndThere, PTL

(***************************************************************************)
(* A refusal because the directory drifted can be cleared: a name it       *)
(* offers is that of a session, so a caller may give it                    *)
(* (resolve_write_project).                                                *)
(***************************************************************************)
THEOREM DriftIsResolved == Spec => []DriftCanBeResolved
<1>1. TypeOK /\ There => DriftCanBeResolved
  <2> SUFFICES ASSUME TypeOK, There, NEW s \in Server,
                      Drifted(At[s], Detected(At[s], Seen(s))),
                      NEW n \in NamesRecorded(At[s], Detected(At[s], Seen(s)))
                                  \cup {Detected(At[s], Seen(s))}
               PROVE  MayName(s, n)
    BY DEF DriftCanBeResolved
  <2> DEFINE name == Detected(At[s], Seen(s))
  <2>1. name # None BY DEF Drifted
  <2>2. CASE n = name BY <2>1, <2>2 DEF MayName
  <2>3. CASE n \in NamesRecorded(At[s], name)
    <3>1. PICK k \in DOMAIN opened : session[opened[k]].project = n
      BY <2>3 DEF NamesRecorded, Recorded
    <3>2. Exists(opened[k]) /\ opened[k] \in Session BY DEF There, TypeOK
    <3>3. ProjectExists(n) BY <3>1, <3>2 DEF ProjectExists
    <3>4. QED BY <2>1, <3>3 DEF MayName
  <2>4. QED BY <2>2, <2>3
<1>2. QED BY <1>1, TypedAndThere, PTL

-----------------------------------------------------------------------------
(* What splits a conversation.                                             *)

SameProjects ==
    \A i \in Session : Exists(i)' => Exists(i) /\ session'[i].project = session[i].project

\* A call that goes on, or ends, keeps its session and its project.
GoesOn(p) ==
    \/ job'[p] = None
    \/ job[p] # None /\ job'[p].id = job[p].id /\ job'[p].project = job[p].project

LEMMA NoneAstray ==
    ASSUME SameProjects, NEW p \in Process, GoesOn(p), Astray(p)' PROVE Astray(p)
<1>1. job'[p] # None /\ job'[p].id \in Chat /\ Exists(job[p].id)'
      /\ job'[p].project # session'[job'[p].id].project
  BY DEF Astray, Exists, GoesOn
<1>2. job[p] # None /\ job'[p].id = job[p].id /\ job'[p].project = job[p].project
  BY <1>1 DEF GoesOn
<1>3. QED BY <1>1, <1>2 DEF SameProjects, Astray, Session

\* A conversation stays whole unless it gets a row.
LEMMA StaysWhole ==
    ASSUME There', SameProjects, NEW c \in Chat, Whole(c), ~Whole(c)'
    PROVE  \E f \in filed' : f \notin filed /\ f.session = c /\ f.project # session[c].project
<1>1. PICK f \in filed' : f.session = c /\ f.project # session'[c].project BY DEF Whole
<1>2. Exists(c)' BY <1>1 DEF There, Exists
<1>3. session'[c].project = session[c].project BY <1>2 DEF SameProjects, Session
<1>4. f \notin filed BY <1>1, <1>3 DEF Whole
<1>5. QED BY <1>1, <1>3, <1>4

LEMMA SplitMerge ==
    ASSUME TypeOK, There, NEW from \in Name, NEW to \in Name, Merged(from, to),
           NEW c \in Chat, Whole(c)
    PROVE  Whole(c)'
<1>1. SUFFICES ASSUME NEW f \in filed', f.session = c PROVE f.project = session'[c].project
  BY DEF Whole
<1>2. PICK g \in filed : f.session = g.session
                         /\ f.project = IF g.project = from THEN to ELSE g.project
  BY MergedRows
<1>3. Exists(c) /\ g.project = session[c].project BY <1>1, <1>2 DEF There, Whole
<1>4. QED BY <1>2, <1>3, MergedRows DEF Session

\* The call that folds is not led astray: it folds into its own project.
LEMMA FoldKeepsOwn ==
    ASSUME TypeOK, NEW h \in Hook, FoldFolder(h), Astray(h)' PROVE Astray(h)
<1> DEFINE from == Folder[job[h].dir]
           to == job[h].project
           i == job[h].id
<1>1. h \in Process /\ "open" \in Stages /\ job[h] # None BY DEF Process, Stages, FoldFolder
<1>2. job'[h].id = i /\ job'[h].project = to /\ job'[h] # None
  BY <1>1, GotoTyped DEF FoldFolder
<1>3. from \in Name /\ to \in Name /\ i \in Session
  BY <1>1, PlaceAssumption DEF TypeOK, Job
<1>4. Merged(from, to) BY DEF FoldFolder
<1>5. Exists(i) BY <1>2, <1>3, <1>4, MergedRows DEF Astray, Exists
<1>6. session'[i].project = IF session[i].project = from THEN to ELSE session[i].project
  BY <1>3, <1>4, <1>5, MergedRows
<1>7. to # session'[i].project /\ i \in Chat BY <1>2 DEF Astray
<1>8. QED BY <1>1, <1>5, <1>6, <1>7 DEF Astray

LEMMA SplitStep ==
    ASSUME TypeOK, There, There', Next PROVE Splitting /\ GoingAstray
<1>1. ASSUME SameProjects, \A p \in Process : GoesOn(p) PROVE GoingAstray
  BY <1>1, NoneAstray DEF GoingAstray
<1>2. ASSUME SameProjects, filed' = filed PROVE Splitting
  BY <1>2, StaysWhole DEF Splitting
<1>3. session' = session => SameProjects BY DEF SameProjects, Exists
<1>4. job' = job => \A p \in Process : GoesOn(p) BY DEF GoesOn
<1>5. CASE Begins
  <2>1. PICK p \in Process, stage \in Stages, i \in Session, n \in Name, d \in Dir,
             name \in Name \cup {None}, files \in BOOLEAN :
          /\ BeginCall(p, stage, i, n, d, name, files)
          /\ i \in Chat /\ Exists(i) => n = session[i].project
    BY <1>5 DEF Begins
  <2>2. job'[p].id = i /\ job'[p].project = n /\ \A q \in Process : q # p => job'[q] = job[q]
    BY <2>1 DEF BeginCall, TypeOK
  <2>3. UNCHANGED <<session, filed>> BY <2>1 DEF BeginCall, rows
  <2>4. \A q \in Process : Astray(q)' => Astray(q)
    BY <2>1, <2>2, <2>3 DEF Astray, Exists
  <2>5. QED BY <1>2, <1>3, <2>3, <2>4 DEF GoingAstray
<1>6. CASE Others
  <2>1. CASE \E s \in Server, n, m \in Name : Merge(s, n, m)
    <3>1. PICK s \in Server, n \in Name, m \in Name : Merge(s, n, m) BY <2>1
    <3>2. Splitting BY <3>1, SplitMerge DEF Merge, Splitting
    <3>3. job'[s] = None BY <3>1 DEF Merge, MayBegin
    <3>4. \A p \in Process : Astray(p)' => s \in Server \ {p} BY <3>3 DEF Astray
    <3>5. QED BY <3>1, <3>2, <3>4 DEF GoingAstray
  <2>2. CASE \E h \in Hook : FoldFolder(h)
    <3>1. PICK h \in Hook : FoldFolder(h) BY <2>2
    <3>2. PICK from \in Name, to \in Name : Merged(from, to) BY <2>2, MergeMerges
    <3>3. Splitting BY <3>2, SplitMerge DEF Splitting
    <3>4. \A p \in Process : ~Astray(p) /\ Astray(p)' => h \in Hook \ {p}
      BY <3>1, FoldKeepsOwn
    <3>5. QED BY <3>1, <3>3, <3>4 DEF GoingAstray
  <2>3. CASE \E h \in Hook : AskToFold(h)
    <3>1. PICK h \in Hook : AskToFold(h) BY <2>3
    <3>2. PICK stage \in {"merge", "open"} : Goto(h, stage) BY <3>1 DEF AskToFold
    <3>3. h \in Process /\ stage \in Stages /\ job[h] # None
      BY <3>1 DEF AskToFold, Process, Stages
    <3>4. \A p \in Process : GoesOn(p) BY <3>2, <3>3, GotoTyped DEF GoesOn
    <3>5. UNCHANGED <<session, filed>> BY <3>1 DEF AskToFold, rows
    <3>6. QED BY <1>1, <1>2, <1>3, <3>4, <3>5
  <2>4. CASE \E p \in Process : OpenSession(p)
    <3>1. PICK p \in Process : OpenSession(p) BY <2>4
    <3>2. job[p] # None /\ job[p].id \in Session /\ filed' = filed
      BY <3>1 DEF OpenSession, TypeOK, Job
    <3>3. \A q \in Process : GoesOn(q)
      <4>1. CASE Goto(p, "file") BY <3>2, <4>1, GotoTyped DEF GoesOn, Stages
      <4>2. CASE Done(p) BY <4>2 DEF Done, GoesOn, TypeOK
      <4>3. QED BY <3>1, <4>1, <4>2 DEF OpenSession
    <3>4. CASE Exists(job[p].id)
      BY <1>1, <1>2, <1>3, <3>1, <3>2, <3>3, <3>4 DEF OpenSession
    <3>5. CASE ~Exists(job[p].id)
      <4>1. /\ session'[job[p].id].project = job[p].project
            /\ \A i \in Session : i # job[p].id => session'[i] = session[i]
        BY <3>1, <3>2, <3>5 DEF OpenSession, TypeOK
      <4>2. \A f \in filed : f.session \in Session /\ f.session # job[p].id
        BY <3>5 DEF There, TypeOK
      <4>3. \A c \in Chat : Whole(c) => Whole(c)' BY <3>2, <4>1, <4>2 DEF Whole, Session
      <4>4. ~Astray(p)' BY <3>3, <4>1 DEF Astray, GoesOn
      <4>5. \A q \in Process : Astray(q)' => p \in Process \ {q} BY <4>4
      <4>6. QED BY <3>1, <4>3, <4>5 DEF Splitting, GoingAstray
    <3>6. QED BY <3>4, <3>5
  <2>5. CASE \E p \in Process : WriteRow(p)
    <3>1. PICK p \in Process : WriteRow(p) BY <2>5
    <3>2. session' = session /\ \A q \in Process : GoesOn(q)
      BY <3>1 DEF WriteRow, Done, GoesOn, TypeOK
    <3>3. ASSUME NEW c \in Chat, Whole(c), ~Whole(c)' PROVE Astray(p) /\ job[p].id = c
      <4>1. PICK f \in filed' : f \notin filed /\ f.session = c
                                /\ f.project # session[c].project
        BY <1>3, <3>2, <3>3, StaysWhole
      <4>2. f.session = job[p].id /\ f.project = job[p].project BY <3>1, <4>1 DEF WriteRow
      <4>3. Exists(job[p].id) /\ job[p] # None BY <3>1 DEF There, WriteRow
      <4>4. QED BY <4>1, <4>2, <4>3 DEF Astray
    <3>4. QED BY <1>1, <1>3, <3>1, <3>2, <3>3 DEF Splitting
  <2>6. CASE \E s \in Server, f \in filed, n \in Name : Move(s, f, n)
    <3>1. PICK s \in Server, f \in filed, n \in Name : Move(s, f, n) BY <2>6
    <3>2. UNCHANGED <<session, job>> BY <3>1 DEF Move
    <3>3. ASSUME NEW c \in Chat, Whole(c), ~Whole(c)' PROVE f.session = c
      BY <1>3, <3>1, <3>2, <3>3, StaysWhole, MovedRows
    <3>4. QED BY <1>1, <1>3, <1>4, <3>1, <3>2, <3>3 DEF Splitting
  <2>7. CASE \E p \in Process : Stop(p)
    <3>1. UNCHANGED <<session, filed>> BY <2>7 DEF Stop, rows
    <3>2. \A q \in Process : GoesOn(q) BY <2>7 DEF Stop, Done, GoesOn, TypeOK
    <3>3. QED BY <1>1, <1>2, <1>3, <3>1, <3>2
  <2>8. CASE \E p \in Process, i \in Session : EndSession(p, i)
    <3>1. PICK p \in Process, i \in Session : EndSession(p, i) BY <2>8
    <3>2. session[i] \in Opened BY <3>1 DEF EndSession, Exists, TypeOK
    <3>3. [session[i] EXCEPT !.ended = TRUE].project = session[i].project BY <3>2 DEF Opened
    <3>4. \A j \in Session : session'[j] # None =>
            session[j] # None /\ session'[j].project = session[j].project
      BY <3>1, <3>2, <3>3, IdAssumption DEF EndSession, TypeOK
    <3>5. SameProjects BY <3>4 DEF SameProjects, Exists
    <3>6. UNCHANGED <<filed, job>> BY <3>1 DEF EndSession
    <3>7. QED BY <1>1, <1>2, <1>4, <3>5, <3>6
  <2>9. CASE UNCHANGED <<session, filed, job>> BY <1>1, <1>2, <1>3, <1>4, <2>9
  <2>10. QED
    BY <1>6, <2>1, <2>2, <2>3, <2>4, <2>5, <2>6, <2>7, <2>8, <2>9
    DEF Others, CurrentProject, Change, rows
<1>7. QED BY <1>5, <1>6, NextCases

(***************************************************************************)
(* For any number of processes and calls, a conversation is split only by  *)
(* a memory that is moved or by a call whose session another process       *)
(* opened or renamed under it (write_session, run_event, merge_projects).  *)
(***************************************************************************)
THEOREM SplitsAreOvertaken == Spec => SplitOnlyWhenOvertaken
<1>1. TypeOK /\ There /\ (TypeOK /\ There)' /\ [Next]_vars => [Splitting /\ GoingAstray]_vars
  BY SplitStep
<1>2. QED BY <1>1, TypedAndThere, PTL DEF Spec, SplitOnlyWhenOvertaken

=============================================================================
