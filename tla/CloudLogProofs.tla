--------------------------- MODULE CloudLogProofs --------------------------
(***************************************************************************)
(* Proofs about the cloud's log (CloudLog), for any number of devices,     *)
(* projects, items and requests, and any pool.                             *)
(*                                                                         *)
(* Three invariants carry them.  Sound says what a request has inserted,   *)
(* and that a memory's session is in the log before it or in a chunk's     *)
(* mutations.  Places says that numbers are used once and every cursor is  *)
(* the place of a row its device got.  Chunks says who may insert which    *)
(* key.                                                                    *)
(***************************************************************************)
EXTENDS CloudLog, FiniteSetTheorems, TLAPS

-----------------------------------------------------------------------------
(* Requests.                                                               *)

LEMMA BatchFacts ==
    ASSUME NEW b \in Batches
    PROVE  /\ Len(b) \in Nat \ {0} /\ DOMAIN b = 1..Len(b)
           /\ \A k \in 1..Len(b) : b[k] \in Item
           /\ ItemsOf(b) = {b[k] : k \in 1..Len(b)} /\ ItemsOf(b) \subseteq Item
           /\ \A k, l \in 1..Len(b) : k # l => b[k] # b[l]
<1>1. PICK n \in 1..MaxBatch : b \in [1..n -> Item]
  BY DEF Batches
<1>2. n \in Nat \ {0} BY SizeAssumption
<1>3. Len(b) = n /\ DOMAIN b = 1..n BY <1>1, <1>2
<1>4. Distinct(b) BY DEF Batches
<1>5. QED BY <1>1, <1>2, <1>3, <1>4 DEF ItemsOf, Distinct

Logged == {q.item : q \in log}

\* The items some stored chunk has among its mutations only.
Carried == {i \in Item : \E k \in keys : Carries(k, i)}

\* The items a request's chunk has among its mutations only.
OwnCarried(d) ==
    IF via[d] = "mutations" THEN {} ELSE ItemsOf(batch[d]) \ Listed(batch[d], listed[d])

\* Each item that becomes a row is a session, or its session is logged, in
\* some chunk's mutations, or comes before it in the request.
Backed(d) ==
    \A k \in 1..Due(d) : SessionOf[batch[d][k]] \in
        {None} \cup Logged \cup Carried \cup OwnCarried(d) \cup {batch[d][l] : l \in 1..(k - 1)}

\* What a transaction inserted is a beginning of what its request lists.
InLine(d) ==
    /\ IsFiniteSet(rows[d]) /\ Inserted(d) \in 0..Due(d)
    /\ \A r \in rows[d] : /\ r \in Row /\ r.seq < nextSeq /\ r.via = via[d]
                          /\ \E k \in 1..Inserted(d) : r.item = batch[d][k]
    /\ \A k \in 1..Inserted(d) : \E r \in rows[d] : r.item = batch[d][k]
    /\ \A r, q \in rows[d] : r.item = q.item => r = q

\* A memory among some rows has its session at an earlier place of others,
\* or where chunks carry it.
Follow(some, others, carried) ==
    \A r \in some : SessionOf[r.item] # None =>
        \/ \E q \in others : q.item = SessionOf[r.item] /\ q.seq < r.seq
        \/ SessionOf[r.item] \in carried

Request(d) ==
    /\ stage[d] # "open" => rows[d] = {} /\ held[d] = {}
    /\ stage[d] # "idle" =>
         /\ via[d] \in Handler /\ batch[d] \in Batches /\ listed[d] \in 0..Len(batch[d])
         /\ via[d] # "mutations" => InTableOrder(batch[d], listed[d]) /\ OneProject(batch[d])
         /\ via[d] = "mutations" => Backed(d)
    /\ stage[d] = "open" =>
         /\ Backed(d) /\ InLine(d)
         /\ held[d] \cup todo[d] \subseteq RequestKeys(d)
         /\ via[d] # "mutations" => \A k \in RequestKeys(d) : k[2] = 0 => k \in todo[d] \cup held[d]
         /\ Follow(rows[d], log \cup rows[d], Carried \cup OwnCarried(d))
    /\ sent[d] \subseteq Logged

KeysLogged == \A k \in keys : k[2] = 1 => k[3] \in Logged \cup Carried

Sound ==
    /\ TypeOK
    /\ \A d \in Device : Request(d)
    /\ Follow(log, log, Carried)
    /\ KeysLogged
    /\ IsFiniteSet(log)

\* How many rows a request makes.
LEMMA DueFacts ==
    ASSUME NEW d \in Device, batch[d] \in Batches, listed[d] \in 0..Len(batch[d])
    PROVE  Len(batch[d]) \in Nat /\ Due(d) \in Nat /\ Due(d) \in 0..Len(batch[d])
<1>1. Len(batch[d]) \in Nat BY BatchFacts
<1>2. QED BY <1>1 DEF Due

\* What stored chunks carry, they carry for good.
LEMMA CarriedGrows == keys \subseteq keys' => Carried \subseteq Carried'
BY DEF Carried, Carries

\* A request that stays as it is.
LEMMA SameRequest ==
    ASSUME NEW d \in Device, via'[d] = via[d], batch'[d] = batch[d], listed'[d] = listed[d]
    PROVE  /\ Due(d)' = Due(d) /\ OwnCarried(d)' = OwnCarried(d)
           /\ RequestKeys(d)' = RequestKeys(d)
BY DEF Due, OwnCarried, RequestKeys

LEMMA BackedStays ==
    ASSUME NEW d \in Device, Backed(d), via'[d] = via[d], batch'[d] = batch[d],
           listed'[d] = listed[d], Logged \subseteq Logged', Carried \subseteq Carried'
    PROVE  Backed(d)'
BY SameRequest DEF Backed

(***************************************************************************)
(* What other devices do leaves a request as it is: the log and the keys   *)
(* only grow.                                                              *)
(***************************************************************************)
LEMMA OthersRequest ==
    ASSUME NEW d \in Device, Request(d), log \subseteq log', keys \subseteq keys',
           nextSeq \in Nat, nextSeq' \in Nat, nextSeq <= nextSeq', rows \in [Device -> SUBSET Row],
           stage'[d] = stage[d], via'[d] = via[d], batch'[d] = batch[d], listed'[d] = listed[d],
           rows'[d] = rows[d], held'[d] = held[d], todo'[d] = todo[d], sent'[d] = sent[d]
    PROVE  Request(d)'
<1>1. Logged \subseteq Logged' /\ Carried \subseteq Carried' BY CarriedGrows DEF Logged
<1>2. Backed(d) => Backed(d)' BY <1>1, BackedStays
<1>3. Due(d)' = Due(d) /\ OwnCarried(d)' = OwnCarried(d) /\ RequestKeys(d)' = RequestKeys(d)
  BY SameRequest
<1>4. InLine(d) => InLine(d)' BY <1>3 DEF InLine, Inserted, Row
<1>5. Follow(rows[d], log \cup rows[d], Carried \cup OwnCarried(d)) =>
        Follow(rows[d], log \cup rows[d], Carried \cup OwnCarried(d))'
  BY <1>1, <1>3 DEF Follow
<1>6. QED BY <1>1, <1>2, <1>3, <1>4, <1>5 DEF Request

(***************************************************************************)
(* A request that is over leaves nothing behind.                           *)
(***************************************************************************)
LEMMA ReturnedRequest ==
    ASSUME TypeOK, NEW d \in Device, Return(d), sent'[d] \subseteq Logged'
    PROVE  Request(d)'
BY DEF TypeOK, Return, Goto, Request

-----------------------------------------------------------------------------
(* Types.                                                                  *)

\* The keys a request writes.
LEMMA KeysOfRequest ==
    ASSUME NEW d \in Device, via[d] \in Handler, batch[d] \in Batches,
           listed[d] \in 0..Len(batch[d])
    PROVE  /\ RequestKeys(d) \subseteq Key
           /\ \A k \in RequestKeys(d) : k[2] = 1 => k[3] \in ItemsOf(batch[d])
           /\ \A i \in ItemsOf(batch[d]) :
                LET k == ChunkKey(via[d], ProjectOf[i], batch[d], listed[d]) IN
                /\ k \in RequestKeys(d) /\ k[2] = 0 /\ k[3][1] = via[d]
                /\ <<i, i>> \in k[3][2] /\ k[3][3] = Listed(batch[d], listed[d])
<1>1. /\ ItemsOf(batch[d]) \subseteq Item /\ Listed(batch[d], listed[d]) \subseteq Item
      /\ ItemsOf(batch[d]) = {batch[d][l] : l \in 1..Len(batch[d])}
      /\ DOMAIN batch[d] = 1..Len(batch[d]) /\ Len(batch[d]) \in Nat
  BY BatchFacts DEF Listed
<1>2. \A p : OrderIn(p, batch[d]) \subseteq ItemsOf(batch[d]) \X ItemsOf(batch[d])
  BY DEF OrderIn
<1>3. ASSUME NEW i \in ItemsOf(batch[d])
      PROVE  /\ ChunkKey(via[d], ProjectOf[i], batch[d], listed[d]) \in Key
             /\ ChunkKey(via[d], ProjectOf[i], batch[d], listed[d])[2] = 0
  <2>1. ProjectOf[i] \in Project BY <1>1, ItemAssumption
  <2>2. OrderIn(ProjectOf[i], batch[d]) \in SUBSET (Item \X Item) BY <1>1, <1>2
  <2>3. QED BY <1>1, <2>1, <2>2 DEF ChunkKey, Key
<1>4. ASSUME NEW i \in ItemsOf(batch[d])
      PROVE  SessionKey(i) \in Key /\ SessionKey(i)[2] = 1 /\ SessionKey(i)[3] = i
  BY <1>1, ItemAssumption DEF SessionKey, Key
<1>5. ASSUME NEW i \in ItemsOf(batch[d]) PROVE <<i, i>> \in OrderIn(ProjectOf[i], batch[d])
  <2>1. PICK l \in 1..Len(batch[d]) : batch[d][l] = i BY <1>1
  <2>2. l \in DOMAIN batch[d] /\ l <= l BY <1>1
  <2>3. QED BY <2>1, <2>2 DEF OrderIn
<1>6. ASSUME NEW i \in ItemsOf(batch[d])
      PROVE  LET k == ChunkKey(via[d], ProjectOf[i], batch[d], listed[d]) IN
             /\ k \in RequestKeys(d) /\ k[3][1] = via[d]
             /\ <<i, i>> \in k[3][2] /\ k[3][3] = Listed(batch[d], listed[d])
  BY <1>5 DEF RequestKeys, ChunkKey
<1>7. QED BY <1>3, <1>4, <1>6 DEF RequestKeys

\* A row is inserted for the next item of the request.
LEMMA NextEntry ==
    ASSUME NEW d \in Device, Request(d), InsertRow(d)
    PROVE  /\ batch[d] \in Batches /\ via[d] \in Handler
           /\ Inserted(d) \in Nat /\ Inserted(d) + 1 \in 1..Due(d)
           /\ Inserted(d) + 1 \in 1..Len(batch[d])
<1>1. batch[d] \in Batches /\ via[d] \in Handler /\ listed[d] \in 0..Len(batch[d]) /\ InLine(d)
  BY DEF InsertRow, Request
<1>2. Len(batch[d]) \in Nat /\ Due(d) \in Nat /\ Due(d) \in 0..Len(batch[d]) BY <1>1, DueFacts
<1>3. Inserted(d) \in Nat /\ Inserted(d) < Due(d)
  BY <1>1, <1>2 DEF InsertRow, RowsTurn, InLine
<1>4. QED BY <1>1, <1>2, <1>3

(***************************************************************************)
(* Every step keeps the types, where requests are what they should be.     *)
(***************************************************************************)
LEMMA TypeNext ==
    ASSUME TypeOK, \A d \in Device : Request(d), [Next]_vars
    PROVE  TypeOK'
<1> USE DEF TypeOK, Stage, requestVars, deviceVars, bounds
<1>1. CASE UNCHANGED vars BY <1>1 DEF vars
<1>2. ASSUME NEW d \in Device, NEW h \in Handler, NEW b \in Batches,
             NEW n \in 0..MaxBatch, Admit(d, h, b, n)
      PROVE  TypeOK'
  BY <1>2 DEF Admit, Goto
<1>3. ASSUME NEW d \in Device, Begin(d) PROVE TypeOK'
  <2>1. RequestKeys(d) \subseteq Key BY <1>3, KeysOfRequest DEF Begin, Request
  <2>2. QED BY <1>3, <2>1 DEF Begin, Goto
<1>4. ASSUME NEW d \in Device, Return(d), UNCHANGED <<pool, nextSeq, paused, cursor, pulled>>,
             log \subseteq log', log' \subseteq log \cup rows[d],
             \A r \in log' : r.seq < nextSeq, keys' \subseteq Key,
             sent' \in [Device -> SUBSET Item]
      PROVE  TypeOK'
  <2>1. /\ stage' \in [Device -> Stage] /\ via' \in [Device -> Handler \cup {None}]
        /\ batch' \in [Device -> Batches \cup {<<>>}] /\ listed' \in [Device -> 0..MaxBatch]
        /\ rows' \in [Device -> SUBSET Row]
        /\ held' \in [Device -> SUBSET Key] /\ todo' \in [Device -> SUBSET Key]
    BY <1>4, SizeAssumption DEF Return, Goto
  <2>2. log' \subseteq Row BY <1>4
  <2>3. QED BY <1>4, <2>1, <2>2
<1>5. ASSUME NEW d \in Device, RefuseReferences(d) \/ Abort(d) PROVE TypeOK'
  BY <1>4, <1>5 DEF RefuseReferences, Abort
<1>6. ASSUME NEW d \in Device, NEW k \in todo[d], ChunkKnown(d, k) PROVE TypeOK'
  BY <1>4, <1>6 DEF ChunkKnown
<1>7. ASSUME NEW d \in Device, Commit(d) PROVE TypeOK'
  <2>1. Accepted(d) \subseteq Item BY <1>7, BatchFacts DEF Commit, Request, Accepted
  <2>2. \A r \in rows[d] : r.seq < nextSeq BY <1>7 DEF Commit, Request, InLine
  <2>3. QED BY <1>4, <1>7, <2>1, <2>2 DEF Commit
<1>8. ASSUME NEW d \in Device, InsertRow(d) PROVE TypeOK'
  <2>1. batch[d] \in Batches /\ via[d] \in Handler /\ Inserted(d) + 1 \in 1..Len(batch[d])
    BY <1>8, NextEntry
  <2>2. Entry(d) \in Item BY <2>1, BatchFacts DEF Entry
  <2>3. [seq |-> nextSeq, item |-> Entry(d), via |-> via[d], by |-> d] \in Row
    BY <2>1, <2>2 DEF Row
  <2>4. rows' \in [Device -> SUBSET Row] BY <1>8, <2>3 DEF InsertRow
  <2>5. /\ nextSeq' \in Nat \ {0}
        /\ \A r \in log' : r.seq < nextSeq'
        /\ \A e \in Device : cursor'[e] < nextSeq'
    BY <1>8 DEF InsertRow, Row
  <2>6. QED BY <1>8, <2>4, <2>5 DEF InsertRow
<1>9. ASSUME NEW d \in Device, NEW k \in todo[d], InsertKey(d, k) PROVE TypeOK'
  BY <1>9 DEF InsertKey
<1>10. ASSUME NEW d \in Device, Pull(d) PROVE TypeOK'
  <2>1. PICK r \in Page(d) : cursor' = [cursor EXCEPT ![d] = r.seq] BY <1>10 DEF Pull, Latest
  <2>2. Page(d) \subseteq log BY DEF Page, FirstRows, Visible
  <2>3. cursor' \in [Device -> Nat] /\ \A e \in Device : cursor'[e] < nextSeq
    BY <2>1, <2>2 DEF Row
  <2>4. QED BY <1>10, <2>2, <2>3 DEF Pull
<1>11. ASSUME NEW p \in Project, Pause(p) \/ Resume(p) PROVE TypeOK'
  BY <1>11 DEF Pause, Resume
<1>12. QED
  BY <1>1, <1>2, <1>3, <1>5, <1>6, <1>7, <1>8, <1>9, <1>10, <1>11 DEF Next, Serve

-----------------------------------------------------------------------------
(* Sound, step by step.                                                    *)

(***************************************************************************)
(* A request is admitted: what it names is held by its device, so logged,  *)
(* or comes before it.                                                     *)
(***************************************************************************)
LEMMA AdmitSound ==
    ASSUME Sound, TypeOK', NEW d \in Device, NEW h \in Handler, NEW b \in Batches,
           NEW n \in 0..MaxBatch, Admit(d, h, b, n)
    PROVE  Sound'
<1> USE DEF Sound, TypeOK, deviceVars
<1>1. /\ log' = log /\ keys' = keys /\ nextSeq' = nextSeq /\ rows' = rows /\ held' = held
      /\ sent' = sent /\ stage[d] = "idle" /\ stage'[d] = "waiting" /\ via'[d] = h
      /\ batch'[d] = b /\ listed'[d] = n
  BY DEF Admit, Goto
<1>2. Logged' = Logged /\ Carried' = Carried BY <1>1 DEF Logged, Carried
<1>3. Request(d)'
  <2>1. h # "mutations" => n <= Len(b) /\ InTableOrder(b, n) /\ OneProject(b)
    BY DEF Admit, CanSend
  <2>2. Len(b) \in Nat /\ n \in Nat /\ (h = "mutations" => n = 0)
    BY BatchFacts, SizeAssumption DEF Admit, CanSend
  <2>3. n \in 0..Len(b) BY <2>1, <2>2
  <2>4. ASSUME h = "mutations" PROVE Backed(d)'
    <3>1. Holds(d) \subseteq Logged BY DEF Holds, Logged, Request
    <3>2. \A k \in 1..Len(b) : SessionOf[b[k]] \in
            {None} \cup Holds(d) \cup {b[l] : l \in 1..(k - 1)}
      <4>1. InJournalOrder(d, b) BY <2>4 DEF Admit, CanSend
      <4>2. DOMAIN b = 1..Len(b) BY BatchFacts
      <4>3. QED BY <4>1, <4>2 DEF InJournalOrder
    <3>3. batch'[d] = b /\ Due(d)' = Len(b) BY <1>1, <2>4 DEF Due
    <3>4. QED BY ONLY <1>2, <3>1, <3>2, <3>3 DEF Backed
  <2>5. rows[d] = {} /\ held[d] = {} /\ sent[d] \subseteq Logged BY <1>1 DEF Request
  <2>6. QED BY <1>1, <1>2, <2>1, <2>3, <2>4, <2>5 DEF Request
<1>4. ASSUME NEW e \in Device, e # d PROVE Request(e)'
  BY <1>1, <1>4, OthersRequest DEF Admit, Goto
<1>5. Follow(log, log, Carried)' BY <1>1, <1>2 DEF Follow
<1>6. KeysLogged' BY <1>1, <1>2 DEF KeysLogged
<1>7. QED BY <1>1, <1>3, <1>4, <1>5, <1>6

(***************************************************************************)
(* What a chunk lists refers to known sessions, to sessions it lists       *)
(* first, or to sessions among its mutations.                              *)
(***************************************************************************)
LEMMA ChunkBacked ==
    ASSUME Sound, NEW d \in Device, stage[d] # "idle", via[d] # "mutations", RefersToKnown(d)
    PROVE  Backed(d)
<1> USE DEF Sound, TypeOK
<1>1. batch[d] \in Batches /\ listed[d] \in 0..Len(batch[d]) /\ InTableOrder(batch[d], listed[d])
  BY DEF Request
<1>2. Len(batch[d]) \in Nat /\ Due(d) = listed[d] BY <1>1, BatchFacts DEF Due
<1> SUFFICES ASSUME NEW k \in 1..listed[d]
             PROVE  SessionOf[batch[d][k]] \in {None} \cup Logged \cup Carried \cup OwnCarried(d)
                                                \cup {batch[d][l] : l \in 1..(k - 1)}
  BY <1>2 DEF Backed
<1>3. k \in 1..Len(batch[d]) /\ k \in Nat BY <1>1, <1>2
<1>4. batch[d][k] \in Item /\ batch[d][k] \in ItemsOf(batch[d]) BY <1>1, <1>3, BatchFacts
<1>5. SessionOf[batch[d][k]] \in {None} \cup Known \cup ItemsOf(batch[d])
  BY <1>4 DEF RefersToKnown
<1>6. Known \subseteq Logged \cup Carried
  BY ItemAssumption DEF Known, SessionItems, SessionKey, KeysLogged
<1>7. CASE SessionOf[batch[d][k]] \in Listed(batch[d], listed[d]) /\ SessionOf[batch[d][k]] # None
  <2>1. PICK l \in 1..listed[d] : batch[d][l] = SessionOf[batch[d][k]] BY <1>7 DEF Listed
  <2>2. batch[d][l] \in Item BY <1>1, <1>2, BatchFacts
  <2>3. batch[d][l] \in SessionItems /\ batch[d][k] \notin SessionItems
    BY <1>4, <1>7, <2>1, <2>2, ItemAssumption DEF SessionItems
  <2>4. ~(k < l) BY <1>1, <2>3 DEF InTableOrder
  <2>5. l # k BY <2>3
  <2>6. l \in 1..(k - 1) BY <1>1, <1>2, <1>3, <2>4, <2>5
  <2>7. QED BY <2>1, <2>6
<1>8. CASE SessionOf[batch[d][k]] \in ItemsOf(batch[d]) \ Listed(batch[d], listed[d])
  BY <1>8 DEF OwnCarried
<1>9. QED BY <1>5, <1>6, <1>7, <1>8

(***************************************************************************)
(* A transaction begins.                                                   *)
(***************************************************************************)
LEMMA BeginSound ==
    ASSUME Sound, TypeOK', NEW d \in Device, Begin(d) PROVE Sound'
<1> USE DEF Sound, TypeOK, deviceVars, bounds
<1>1. /\ log' = log /\ keys' = keys /\ nextSeq' = nextSeq /\ rows' = rows /\ held' = held
      /\ sent' = sent /\ via' = via /\ batch' = batch /\ listed' = listed
      /\ stage[d] = "waiting" /\ stage'[d] = "open" /\ todo'[d] = RequestKeys(d)
  BY DEF Begin, Goto
<1>2. /\ batch[d] \in Batches /\ via[d] \in Handler /\ listed[d] \in 0..Len(batch[d])
      /\ rows[d] = {} /\ held[d] = {}
  BY <1>1 DEF Request
<1>3. Backed(d)
  <2>1. CASE via[d] = "mutations" BY <1>1, <2>1 DEF Request
  <2>2. CASE via[d] # "mutations" BY <1>1, <2>2, ChunkBacked DEF Begin
  <2>3. QED BY <2>1, <2>2
<1>4. /\ Logged' = Logged /\ Carried' = Carried /\ Due(d)' = Due(d)
      /\ OwnCarried(d)' = OwnCarried(d) /\ RequestKeys(d)' = RequestKeys(d)
  BY <1>1, SameRequest DEF Logged, Carried
<1>5. Request(d)'
  <2>1. Backed(d)' BY <1>1, <1>3, <1>4, BackedStays
  <2>2. InLine(d)'
    <3>1. Cardinality(rows'[d]) = 0 /\ IsFiniteSet(rows'[d]) BY <1>1, <1>2, FS_EmptySet
    <3>2. Due(d)' \in Nat BY <1>2, <1>4, DueFacts
    <3>3. QED BY <1>1, <1>2, <3>1, <3>2 DEF InLine, Inserted
  <2>3. Follow(rows[d], log \cup rows[d], Carried \cup OwnCarried(d))'
    BY <1>1, <1>2 DEF Follow
  <2>4. via[d] # "mutations" => InTableOrder(batch[d], listed[d]) /\ OneProject(batch[d])
    BY <1>1 DEF Request
  <2>5. sent'[d] \subseteq Logged' BY <1>1, <1>4 DEF Request
  <2>6. held'[d] \cup todo'[d] \subseteq RequestKeys(d)' /\ RequestKeys(d)' = todo'[d]
    BY <1>1, <1>2, <1>4
  <2>7. QED BY <1>1, <1>2, <2>1, <2>2, <2>3, <2>4, <2>5, <2>6 DEF Request
<1>6. ASSUME NEW e \in Device, e # d PROVE Request(e)'
  BY <1>1, <1>6, OthersRequest DEF Begin, Goto
<1>7. Follow(log, log, Carried)' BY <1>1, <1>4 DEF Follow
<1>8. KeysLogged' BY <1>1, <1>4 DEF KeysLogged
<1>9. QED BY <1>1, <1>5, <1>6, <1>7, <1>8

(***************************************************************************)
(* A row is inserted: it is the next item of the request, and its session  *)
(* is logged or among the rows before it.                                  *)
(***************************************************************************)
LEMMA InsertRowSound ==
    ASSUME Sound, TypeOK', NEW d \in Device, InsertRow(d) PROVE Sound'
<1> USE DEF Sound, TypeOK, deviceVars, bounds
<1>1. PICK b \in Batches, n \in Nat, old \in SUBSET Row :
        /\ b = batch[d] /\ n = Inserted(d) /\ old = rows[d] /\ via[d] \in Handler
        /\ n + 1 \in 1..Len(b) /\ Len(b) \in Nat /\ n + 1 \in 1..Due(d)
  BY NextEntry, BatchFacts
<1>2. PICK new \in Row : new = [seq |-> nextSeq, item |-> b[n + 1], via |-> via[d], by |-> d]
  <2>1. b[n + 1] \in Item BY <1>1, BatchFacts
  <2>2. QED BY <1>1, <2>1 DEF Row
<1>3. /\ log' = log /\ keys' = keys /\ nextSeq' = nextSeq + 1 /\ held' = held /\ todo' = todo
      /\ sent' = sent /\ via' = via /\ batch' = batch /\ stage' = stage /\ listed' = listed
      /\ stage[d] = "open"
      /\ rows' = [rows EXCEPT ![d] = old \cup {new}] /\ rows'[d] = old \cup {new}
  BY <1>1, <1>2 DEF InsertRow, Entry
<1>4. /\ IsFiniteSet(old) /\ n = Cardinality(old)
      /\ \A r \in old : /\ r.seq < nextSeq /\ r.via = via[d]
                        /\ \E k \in 1..n : r.item = b[k]
      /\ \A k \in 1..n : \E r \in old : r.item = b[k]
      /\ \A r, q \in old : r.item = q.item => r = q
  <2>1. InLine(d) BY <1>3 DEF Request
  <2>2. n = Cardinality(old) BY <1>1 DEF Inserted
  <2>3. QED BY <1>1, <2>1, <2>2 DEF InLine
<1>5. new \notin old BY <1>2, <1>4
<1>6. Backed(d) /\ listed[d] \in 0..Len(batch[d]) BY <1>3 DEF Request
<1>7. InLine(d)'
  <2>1. IsFiniteSet(rows'[d]) /\ Cardinality(rows'[d]) = n + 1
    <3>1. IsFiniteSet(old \cup {new}) /\ Cardinality(old \cup {new}) = Cardinality(old) + 1
      BY <1>4, <1>5, FS_AddElement
    <3>2. QED BY <1>3, <1>4, <3>1
  <2>2. \A r \in rows'[d] : /\ r \in Row /\ r.seq < nextSeq' /\ r.via = via'[d]
                            /\ \E k \in 1..(n + 1) : r.item = b[k]
    <3>1. ASSUME NEW r \in old
          PROVE  r.seq < nextSeq' /\ r.via = via'[d] /\ \E k \in 1..(n + 1) : r.item = b[k]
      <4>1. r.seq < nextSeq' BY <1>3, <1>4 DEF Row
      <4>2. PICK k \in 1..n : r.item = b[k] BY <1>4
      <4>3. k \in 1..(n + 1) OBVIOUS
      <4>4. QED BY <1>3, <1>4, <4>1, <4>2, <4>3
    <3>2. new.seq < nextSeq' /\ new.via = via'[d] BY <1>2, <1>3
    <3>3. n + 1 \in 1..(n + 1) /\ new.item = b[n + 1] BY <1>2
    <3>4. QED BY <1>3, <3>1, <3>2, <3>3
  <2>3. \A k \in 1..(n + 1) : \E r \in rows'[d] : r.item = b[k]
    <3>1. \A k \in 1..(n + 1) : k \in 1..n \/ k = n + 1 BY <1>1
    <3>2. \A k \in 1..n : \E r \in rows'[d] : r.item = b[k] BY <1>3, <1>4
    <3>3. new \in rows'[d] /\ new.item = b[n + 1] BY <1>2, <1>3
    <3>4. QED BY <3>1, <3>2, <3>3
  <2>4. \A r, q \in rows'[d] : r.item = q.item => r = q
    <3>1. \A k \in 1..n : b[k] # b[n + 1]
      <4>1. \A k, l \in 1..Len(b) : k # l => b[k] # b[l] BY BatchFacts
      <4>2. \A k \in 1..n : k \in 1..Len(b) /\ k # n + 1 BY <1>1
      <4>3. QED BY <1>1, <4>1, <4>2
    <3>2. \A r \in old : r.item # new.item BY <1>2, <1>4, <3>1
    <3>3. QED BY <1>3, <1>4, <3>2
  <2>5. Inserted(d)' = n + 1 BY <2>1 DEF Inserted
  <2>6. batch'[d] = b /\ n + 1 \in 0..Due(d)'
    <3>1. Due(d)' = Due(d) BY <1>3, SameRequest
    <3>2. Due(d) \in Nat BY <1>1, <1>6, DueFacts
    <3>3. QED BY <1>1, <1>3, <3>1, <3>2
  <2>7. QED BY <2>1, <2>2, <2>3, <2>4, <2>5, <2>6 DEF InLine
<1>8. /\ Logged' = Logged /\ Carried' = Carried /\ Due(d)' = Due(d)
      /\ OwnCarried(d)' = OwnCarried(d) /\ RequestKeys(d)' = RequestKeys(d)
  BY <1>3, SameRequest DEF Logged, Carried
<1>9. Request(d)'
  <2>1. Backed(d)' BY <1>3, <1>6, <1>8, BackedStays
  <2>2. Follow(rows[d], log \cup rows[d], Carried \cup OwnCarried(d))'
    <3>1. Follow(old, log \cup old, Carried \cup OwnCarried(d)) BY <1>1, <1>3 DEF Request
    <3>2. ASSUME SessionOf[new.item] # None
          PROVE  \/ \E q \in log \cup old : q.item = SessionOf[new.item] /\ q.seq < new.seq
                 \/ SessionOf[new.item] \in Carried \cup OwnCarried(d)
      <4>1. SessionOf[batch[d][n + 1]] \in {None} \cup Logged \cup Carried \cup OwnCarried(d)
                \cup {batch[d][l] : l \in 1..((n + 1) - 1)}
        BY ONLY <1>1, <1>6 DEF Backed
      <4>2. (n + 1) - 1 = n /\ batch[d] = b /\ new.item = b[n + 1] /\ new.seq = nextSeq
        BY <1>1, <1>2
      <4>3. CASE SessionOf[new.item] \in Logged BY <4>2, <4>3 DEF Logged
      <4>4. CASE SessionOf[new.item] \in {b[l] : l \in 1..n} BY <1>4, <4>2, <4>4
      <4>5. QED BY <3>2, <4>1, <4>2, <4>3, <4>4
    <3>3. QED BY <1>3, <1>8, <3>1, <3>2 DEF Follow
  <2>3. Request(d) /\ rows'[d] # {} BY <1>3
  <2>4. QED BY <1>3, <1>7, <1>8, <2>1, <2>2, <2>3 DEF Request
<1>10. ASSUME NEW e \in Device, e # d PROVE Request(e)'
  <2>1. nextSeq <= nextSeq' BY <1>3
  <2>2. rows'[e] = rows[e] BY <1>3, <1>10
  <2>3. QED BY <1>3, <2>1, <2>2, OthersRequest
<1>11. Follow(log, log, Carried)' BY <1>3, <1>8 DEF Follow
<1>12. KeysLogged' BY <1>3, <1>8 DEF KeysLogged
<1>13. QED BY <1>3, <1>9, <1>10, <1>11, <1>12

(***************************************************************************)
(* A key is inserted.                                                      *)
(***************************************************************************)
LEMMA InsertKeySound ==
    ASSUME Sound, TypeOK', NEW d \in Device, NEW k \in todo[d], InsertKey(d, k) PROVE Sound'
<1> USE DEF Sound, TypeOK, deviceVars, bounds
<1>1. /\ log' = log /\ keys' = keys /\ nextSeq' = nextSeq /\ rows' = rows
      /\ sent' = sent /\ via' = via /\ batch' = batch /\ listed' = listed /\ stage' = stage
      /\ held'[d] \cup todo'[d] \subseteq held[d] \cup todo[d] /\ stage[d] = "open"
      /\ via[d] # "mutations" /\ k[2] = 0 => held'[d] = held[d] \cup {k}
      /\ held[d] \subseteq held'[d] /\ todo'[d] = todo[d] \ {k}
      /\ \A e \in Device : e # d => held'[e] = held[e] /\ todo'[e] = todo[e]
  BY DEF InsertKey, AlreadyWritten
<1>2. /\ Logged' = Logged /\ Carried' = Carried /\ Due(d)' = Due(d)
      /\ OwnCarried(d)' = OwnCarried(d) /\ RequestKeys(d)' = RequestKeys(d)
  BY <1>1, SameRequest DEF Logged, Carried
<1>3. Request(d)'
  <2>1. Backed(d) => Backed(d)' BY <1>1, <1>2, BackedStays
  <2>2. InLine(d) => InLine(d)' BY <1>1, <1>2 DEF InLine, Inserted
  <2>3. Follow(rows[d], log \cup rows[d], Carried \cup OwnCarried(d)) =>
          Follow(rows[d], log \cup rows[d], Carried \cup OwnCarried(d))'
    BY <1>1, <1>2 DEF Follow
  <2>4. ASSUME via[d] # "mutations", NEW j \in RequestKeys(d), j[2] = 0
        PROVE  j \in todo'[d] \cup held'[d]
    <3>1. j \in todo[d] \cup held[d] BY <1>1, <2>4 DEF Request
    <3>2. QED BY <1>1, <2>4, <3>1
  <2>5. held'[d] \cup todo'[d] \subseteq RequestKeys(d)' /\ sent'[d] \subseteq Logged'
    <3>1. held[d] \cup todo[d] \subseteq RequestKeys(d) /\ sent[d] \subseteq Logged
      BY <1>1 DEF Request
    <3>2. QED BY <1>1, <1>2, <3>1
  <2>6. Request(d) OBVIOUS
  <2> HIDE DEF Sound, TypeOK, deviceVars, bounds
  <2>7. QED BY <1>1, <1>2, <2>1, <2>2, <2>3, <2>4, <2>5, <2>6 DEF Request
<1>4. ASSUME NEW e \in Device, e # d PROVE Request(e)'
  BY <1>1, <1>4, OthersRequest
<1>5. Follow(log, log, Carried)' BY <1>1, <1>2 DEF Follow
<1>6. KeysLogged' BY <1>1, <1>2 DEF KeysLogged
<1>7. QED BY <1>1, <1>3, <1>4, <1>5, <1>6

(***************************************************************************)
(* A request is refused, rolled back, or answered because its chunk is     *)
(* there.                                                                  *)
(***************************************************************************)
LEMMA ReturnSound ==
    ASSUME Sound, TypeOK', NEW d \in Device,
           RefuseReferences(d) \/ Abort(d) \/ \E k \in todo[d] : ChunkKnown(d, k)
    PROVE  Sound'
<1> USE DEF Sound, TypeOK, deviceVars, bounds
<1>1. /\ log' = log /\ keys' = keys /\ nextSeq' = nextSeq /\ Return(d) /\ sent' = sent
  BY DEF RefuseReferences, Abort, ChunkKnown
<1>2. Logged' = Logged /\ Carried' = Carried BY <1>1 DEF Logged, Carried
<1>3. sent'[d] \subseteq Logged' BY <1>1, <1>2 DEF Request
<1>4. Request(d)' BY <1>1, <1>3, ReturnedRequest
<1>5. ASSUME NEW e \in Device, e # d PROVE Request(e)'
  <2>1. /\ stage'[e] = stage[e] /\ via'[e] = via[e] /\ batch'[e] = batch[e]
        /\ listed'[e] = listed[e] /\ rows'[e] = rows[e] /\ held'[e] = held[e]
        /\ todo'[e] = todo[e]
    BY <1>1, <1>5 DEF Return, Goto
  <2>2. QED BY <1>1, <2>1, OthersRequest
<1>6. Follow(log, log, Carried)' BY <1>1, <1>2 DEF Follow
<1>7. KeysLogged' BY <1>1, <1>2 DEF KeysLogged
<1>8. QED BY <1>1, <1>4, <1>5, <1>6, <1>7

\* A transaction commits with a row for each item it has to make one of.
LEMMA CommitsAll ==
    ASSUME NEW d \in Device, Request(d), Commit(d)
    PROVE  /\ via[d] \in Handler /\ batch[d] \in Batches /\ InLine(d)
           /\ listed[d] \in 0..Len(batch[d])
           /\ via[d] # "mutations" => todo[d] = {}
           /\ {r.item : r \in rows[d]} = {batch[d][k] : k \in 1..Due(d)}
<1>1. /\ via[d] \in Handler /\ batch[d] \in Batches /\ listed[d] \in 0..Len(batch[d])
      /\ InLine(d)
  BY DEF Commit, Request
<1>2. Due(d) \in Nat BY <1>1, DueFacts
<1>3. Inserted(d) = Due(d) /\ (via[d] # "mutations" => todo[d] = {})
  BY <1>1, <1>2 DEF Commit, RowsTurn, KeysTurn, InLine
<1>4. /\ \A r \in rows[d] : \E k \in 1..Due(d) : r.item = batch[d][k]
      /\ \A k \in 1..Due(d) : \E r \in rows[d] : r.item = batch[d][k]
  BY <1>1, <1>3 DEF InLine
<1>5. {r.item : r \in rows[d]} = {batch[d][k] : k \in 1..Due(d)} BY <1>4
<1>6. QED BY <1>1, <1>3, <1>5

\* Its rows are the whole of a push of mutations, and what a chunk lists.
LEMMA CommitsWhat ==
    ASSUME NEW d \in Device, Request(d), Commit(d)
    PROVE  {r.item : r \in rows[d]} =
             IF via[d] = "mutations" THEN ItemsOf(batch[d]) ELSE Listed(batch[d], listed[d])
<1>1. ItemsOf(batch[d]) = {batch[d][k] : k \in 1..Len(batch[d])} BY CommitsAll, BatchFacts
<1>2. QED BY <1>1, CommitsAll DEF Due, Listed

\* The chunk that commits is stored: it holds its key, or commits it.
LEMMA CommitsChunk ==
    ASSUME TypeOK, NEW d \in Device, Request(d), Commit(d), via[d] # "mutations",
           NEW i \in ItemsOf(batch[d])
    PROVE  LET k == ChunkKey(via[d], ProjectOf[i], batch[d], listed[d]) IN
           /\ k \in held[d] /\ k \in keys' /\ k[2] = 0 /\ k[3][1] = "chunk"
           /\ <<i, i>> \in k[3][2] /\ k[3][3] = Listed(batch[d], listed[d])
<1> DEFINE k == ChunkKey(via[d], ProjectOf[i], batch[d], listed[d])
<1>1. /\ via[d] \in Handler /\ batch[d] \in Batches /\ listed[d] \in 0..Len(batch[d])
      /\ todo[d] = {}
  BY CommitsAll
<1>2. via[d] = "chunk" BY <1>1, HandlerAssumption
<1>3. /\ k \in RequestKeys(d) /\ k[2] = 0 /\ k[3][1] = via[d]
      /\ <<i, i>> \in k[3][2] /\ k[3][3] = Listed(batch[d], listed[d])
  BY <1>1, KeysOfRequest
<1>4. k \in held[d] BY <1>1, <1>3 DEF Request, Commit
<1>5. k \in keys' BY <1>4 DEF Commit
<1>6. QED BY <1>2, <1>3, <1>4, <1>5

LEMMA CommitsCarried ==
    ASSUME TypeOK, NEW d \in Device, Request(d), Commit(d)
    PROVE  OwnCarried(d) \subseteq Carried'
<1> SUFFICES ASSUME NEW i \in OwnCarried(d) PROVE i \in Carried'
  OBVIOUS
<1>1. via[d] # "mutations" /\ i \in ItemsOf(batch[d]) /\ i \notin Listed(batch[d], listed[d])
  BY DEF OwnCarried
<1>2. i \in Item BY <1>1, CommitsAll, BatchFacts
<1>3. \E k \in keys' : Carries(k, i) BY <1>1, CommitsChunk DEF Carries
<1>4. QED BY <1>2, <1>3 DEF Carried, Carries

(***************************************************************************)
(* A transaction commits: its rows and its keys appear together.           *)
(***************************************************************************)
LEMMA CommitSound ==
    ASSUME Sound, TypeOK', NEW d \in Device, Commit(d) PROVE Sound'
<1> USE DEF Sound, TypeOK, deviceVars, bounds
<1>1. /\ log' = log \cup rows[d] /\ keys' = keys \cup held[d] /\ nextSeq' = nextSeq /\ Return(d)
      /\ sent'[d] = sent[d] \cup Accepted(d) /\ stage[d] = "open"
      /\ \A e \in Device : e # d => sent'[e] = sent[e]
  BY DEF Commit
<1>2. /\ via[d] \in Handler /\ batch[d] \in Batches /\ InLine(d)
      /\ listed[d] \in 0..Len(batch[d])
  BY CommitsAll
<1>3. /\ {r.item : r \in rows[d]} =
           IF via[d] = "mutations" THEN ItemsOf(batch[d]) ELSE Listed(batch[d], listed[d])
      /\ OwnCarried(d) \subseteq Carried' /\ Carried \subseteq Carried'
  BY <1>1, CommitsWhat, CommitsCarried, CarriedGrows
<1>4. Logged' = Logged \cup {r.item : r \in rows[d]} BY <1>1 DEF Logged
<1>5. ItemsOf(batch[d]) \subseteq Logged' \cup Carried' BY <1>3, <1>4 DEF OwnCarried
<1>6. Request(d)'
  <2>1. sent[d] \subseteq Logged BY DEF Request
  <2>2. sent'[d] \subseteq Logged' BY <1>1, <1>3, <1>4, <2>1 DEF Accepted
  <2>3. QED BY <1>1, <2>2, ReturnedRequest
<1>7. ASSUME NEW e \in Device, e # d PROVE Request(e)'
  BY <1>1, <1>7, OthersRequest DEF Return, Goto
<1>8. Follow(log, log, Carried)'
  <2>1. Follow(rows[d], log \cup rows[d], Carried \cup OwnCarried(d)) BY <1>1 DEF Request
  <2>2. QED BY <1>1, <1>3, <2>1 DEF Follow
<1>9. KeysLogged'
  <2>1. held[d] \subseteq RequestKeys(d) BY <1>1 DEF Request
  <2>2. \A k \in held[d] : k[2] = 1 => k[3] \in ItemsOf(batch[d])
    BY <1>2, <2>1, KeysOfRequest
  <2>3. QED BY <1>1, <1>3, <1>4, <1>5, <2>2 DEF KeysLogged
<1>10. IsFiniteSet(log')
  <2>1. IsFiniteSet(rows[d]) BY <1>2 DEF InLine
  <2>2. QED BY <1>1, <2>1, FS_Union
<1>11. QED BY <1>6, <1>7, <1>8, <1>9, <1>10

(***************************************************************************)
(* What changes no request and no row of the log.                          *)
(***************************************************************************)
LEMMA IdleSound ==
    ASSUME Sound, TypeOK', UNCHANGED <<nextSeq, log, keys, requestVars, sent>> PROVE Sound'
<1> USE DEF Sound, TypeOK, requestVars
<1>1. \A d \in Device : Request(d)' BY OthersRequest
<1>2. Logged' = Logged /\ Carried' = Carried BY DEF Logged, Carried
<1>3. Follow(log, log, Carried)' BY <1>2 DEF Follow
<1>4. KeysLogged' BY <1>2 DEF KeysLogged
<1>5. QED BY <1>1, <1>3, <1>4

(***************************************************************************)
(* Every step keeps Sound.                                                 *)
(***************************************************************************)
LEMMA SoundNext == Sound /\ [Next]_vars => Sound'
<1> SUFFICES ASSUME Sound, [Next]_vars PROVE Sound'
  OBVIOUS
<1>1. TypeOK' BY TypeNext DEF Sound
<1>2. CASE UNCHANGED vars BY <1>1, <1>2, IdleSound DEF vars, requestVars
<1>3. ASSUME NEW d \in Device, NEW h \in Handler, NEW b \in Batches,
             NEW n \in 0..MaxBatch, Admit(d, h, b, n)
      PROVE  Sound'
  BY <1>1, <1>3, AdmitSound
<1>4. ASSUME NEW d \in Device, Serve(d) PROVE Sound'
  BY <1>1, <1>4, BeginSound, InsertRowSound, InsertKeySound, ReturnSound, CommitSound DEF Serve
<1>5. ASSUME NEW d \in Device, Abort(d) PROVE Sound' BY <1>1, <1>5, ReturnSound
<1>6. ASSUME NEW d \in Device, Pull(d) PROVE Sound' BY <1>1, <1>6, IdleSound DEF Pull
<1>7. ASSUME NEW p \in Project, Pause(p) \/ Resume(p) PROVE Sound'
  BY <1>1, <1>7, IdleSound DEF Pause, Resume, deviceVars
<1>8. QED BY <1>2, <1>3, <1>4, <1>5, <1>6, <1>7 DEF Next

LEMMA SoundInit == Init => Sound
<1> SUFFICES ASSUME Init PROVE Sound
  OBVIOUS
<1>1. TypeOK BY SizeAssumption DEF Init, TypeOK, Stage
<1>2. \A d \in Device : Request(d) BY DEF Init, Request
<1>3. QED BY <1>1, <1>2, FS_EmptySet DEF Init, Sound, Follow, KeysLogged

-----------------------------------------------------------------------------
(* Places in the log.                                                      *)

\* A cursor is the place of a row its device got, and a number is used once.
Places ==
    /\ \A d \in Device : cursor[d] = 0 \/ \E q \in pulled[d] : q.seq = cursor[d]
    /\ \A d \in Device : \A r \in rows[d] : r.seq > 0 /\ \A q \in log : q.seq # r.seq
    /\ \A d, e \in Device : d # e => \A r \in rows[d], q \in rows[e] : r.seq # q.seq

\* Steps that insert no row, commit none and move no cursor.
LEMMA PlacesStay ==
    ASSUME Places, UNCHANGED <<log, cursor, pulled>>,
           \A d \in Device : rows'[d] \subseteq rows[d]
    PROVE  Places'
<1>1. \A d \in Device : \A r \in rows'[d] : r \in rows[d] OBVIOUS
<1>2. QED BY <1>1 DEF Places

\* What comes before a row of a page and can be seen is in the page.
LEMMA PageIsBeginning ==
    ASSUME Sound, NEW d \in Device, NEW m \in Page(d), NEW r \in Visible(d), r.seq <= m.seq
    PROVE  r \in Page(d)
<1> DEFINE Earlier(x) == {q \in Visible(d) : q.seq < x.seq}
<1>1. Visible(d) \subseteq log /\ log \subseteq Row /\ IsFiniteSet(log)
  BY DEF Sound, TypeOK, Visible
<1>2. IsFiniteSet(Earlier(m)) BY <1>1, FS_Subset
<1>3. Earlier(r) \subseteq Earlier(m) BY <1>1 DEF Page, FirstRows, Row
<1>4. /\ IsFiniteSet(Earlier(r)) /\ Cardinality(Earlier(r)) <= Cardinality(Earlier(m))
      /\ Cardinality(Earlier(r)) \in Nat /\ Cardinality(Earlier(m)) \in Nat
  BY <1>2, <1>3, FS_Subset, FS_CardinalityType
<1>5. Cardinality(Earlier(m)) < PageSize /\ PageSize \in Nat
  BY SizeAssumption DEF Page, FirstRows
<1>6. QED BY <1>4, <1>5 DEF Page, FirstRows

\* A page is pulled: the cursor is left at one of its rows.
LEMMA PullMoves ==
    ASSUME NEW d \in Device, Pull(d)
    PROVE  /\ \E m \in Page(d) : cursor' = [cursor EXCEPT ![d] = m.seq]
           /\ pulled' = [pulled EXCEPT ![d] = @ \cup Page(d)]
           /\ UNCHANGED <<log, rows>> /\ Page(d) \subseteq Visible(d)
BY DEF Pull, Latest, Page, FirstRows, requestVars

LEMMA PlacesNext == Sound /\ Places /\ [Next]_vars => Places'
<1> SUFFICES ASSUME Sound, Places, [Next]_vars PROVE Places'
  OBVIOUS
<1> USE DEF Sound, TypeOK
<1>1. CASE UNCHANGED vars BY <1>1, PlacesStay DEF vars
<1>2. ASSUME NEW d \in Device, NEW h \in Handler, NEW b \in Batches,
             NEW n \in 0..MaxBatch, Admit(d, h, b, n)
      PROVE  Places'
  BY <1>2, PlacesStay DEF Admit, deviceVars
<1>3. ASSUME NEW d \in Device, Begin(d) PROVE Places'
  BY <1>3, PlacesStay DEF Begin, deviceVars
<1>4. ASSUME NEW d \in Device,
             RefuseReferences(d) \/ Abort(d) \/ \E k \in todo[d] : ChunkKnown(d, k)
      PROVE  Places'
  <2>1. rows' = [rows EXCEPT ![d] = {}] /\ UNCHANGED <<log, cursor, pulled>>
    BY <1>4 DEF RefuseReferences, Abort, ChunkKnown, Return, deviceVars
  <2>2. \A e \in Device : rows'[e] \subseteq rows[e] BY <2>1
  <2>3. QED BY <2>1, <2>2, PlacesStay
<1>5. ASSUME NEW d \in Device, NEW k \in todo[d], InsertKey(d, k) PROVE Places'
  BY <1>5, PlacesStay DEF InsertKey, deviceVars
<1>6. ASSUME NEW d \in Device, InsertRow(d) PROVE Places'
  <2>1. UNCHANGED <<log, cursor, pulled>> BY <1>6 DEF InsertRow, deviceVars
  <2>2. \A e \in Device : \A r \in rows'[e] : r \in rows[e] \/ (e = d /\ r.seq = nextSeq)
    <3>1. rows' = [rows EXCEPT ![d] = @ \cup {[seq |-> nextSeq, item |-> Entry(d),
                                              via |-> via[d], by |-> d]}]
      BY <1>6 DEF InsertRow
    <3>2. QED BY <3>1
  <2>3. \A e \in Device : \A r \in rows[e] : r.seq < nextSeq BY DEF Request, InLine
  <2>4. \A q \in log : q.seq < nextSeq OBVIOUS
  <2>5. nextSeq > 0 /\ \A r \in Row : r.seq \in Nat BY DEF Row
  <2>6. \A e \in Device : \A r \in rows'[e] : r.seq > 0 /\ \A q \in log' : q.seq # r.seq
    BY <2>1, <2>2, <2>4, <2>5 DEF Places
  <2>7. \A e, c \in Device : e # c => \A r \in rows'[e], q \in rows'[c] : r.seq # q.seq
    BY <2>2, <2>3, <2>5 DEF Places
  <2>8. QED BY <2>1, <2>6, <2>7 DEF Places
<1>7. ASSUME NEW d \in Device, Commit(d) PROVE Places'
  <2>1. log' = log \cup rows[d] /\ UNCHANGED <<cursor, pulled>> /\ rows' = [rows EXCEPT ![d] = {}]
    BY <1>7 DEF Commit, Return
  <2>2. \A e \in Device : \A r \in rows'[e] : r \in rows[e] /\ e # d BY <2>1
  <2>3. QED BY <2>1, <2>2 DEF Places
<1>8. ASSUME NEW d \in Device, Pull(d) PROVE Places'
  <2>1. PICK m \in Page(d) : cursor' = [cursor EXCEPT ![d] = m.seq] BY <1>8, PullMoves
  <2>2. /\ pulled' = [pulled EXCEPT ![d] = @ \cup Page(d)] /\ UNCHANGED <<log, rows>>
    BY <1>8, PullMoves
  <2>3. \A e \in Device : cursor'[e] = 0 \/ \E q \in pulled'[e] : q.seq = cursor'[e]
    BY <2>1, <2>2 DEF Places
  <2>4. QED BY <2>2, <2>3 DEF Places
<1>9. ASSUME NEW p \in Project, Pause(p) \/ Resume(p) PROVE Places'
  BY <1>9, PlacesStay DEF Pause, Resume, requestVars, deviceVars
<1>10. QED
  BY <1>1, <1>2, <1>3, <1>4, <1>5, <1>6, <1>7, <1>8, <1>9 DEF Next, Serve

LEMMA PlacesInit == Init => Places
BY DEF Init, Places

\* Only a pull moves a cursor or adds to what a device got.
LEMMA OnlyPulls ==
    ASSUME [Next]_vars, cursor' # cursor \/ pulled' # pulled PROVE \E d \in Device : Pull(d)
<1> USE DEF requestVars, deviceVars, bounds
<1>1. ~UNCHANGED vars BY DEF vars
<1>2. \A d \in Device : /\ ~Begin(d) /\ ~RefuseReferences(d) /\ ~InsertRow(d)
                        /\ ~Abort(d) /\ ~Commit(d)
  BY DEF Begin, RefuseReferences, InsertRow, Abort, Commit
<1>3. \A d \in Device : \A k \in todo[d] : ~InsertKey(d, k) /\ ~ChunkKnown(d, k)
  BY DEF InsertKey, ChunkKnown
<1>4. \A d \in Device : \A h \in Handler, b \in Batches, n \in 0..MaxBatch : ~Admit(d, h, b, n)
  BY DEF Admit
<1>5. \A p \in Project : ~Pause(p) /\ ~Resume(p) BY DEF Pause, Resume
<1>6. QED BY <1>1, <1>2, <1>3, <1>4, <1>5 DEF Next, Serve

-----------------------------------------------------------------------------
(* Chunks that are pushed more than once.                                  *)

\* A key is in the table or held by one open transaction, never both.
KeysApart ==
    /\ IsFiniteSet(keys) /\ \A d \in Device : IsFiniteSet(held[d])
    /\ \A d \in Device : held[d] \cap keys = {}
    /\ \A d, e \in Device : d # e => held[d] \cap held[e] = {}

Chunks == KeysApart /\ ChunkRowsOnce

\* A request that is over holds nothing; the others hold what they held.
LEMMA ReturnApart ==
    ASSUME Sound, KeysApart, NEW d \in Device, Return(d), keys' = keys \/ keys' = keys \cup held[d]
    PROVE  KeysApart'
<1> USE DEF Sound, TypeOK
<1>1. held' = [held EXCEPT ![d] = {}] BY DEF Return
<1>2. \A e \in Device : held'[e] = IF e = d THEN {} ELSE held[e] BY <1>1
<1>3. IsFiniteSet(keys')
  <2>1. IsFiniteSet(keys) /\ IsFiniteSet(held[d]) BY DEF KeysApart
  <2>2. IsFiniteSet(keys \cup held[d]) BY <2>1, FS_Union
  <2>3. QED BY <2>1, <2>2
<1>4. \A e \in Device : IsFiniteSet(held'[e]) BY <1>2, FS_EmptySet DEF KeysApart
<1>5. \A e \in Device : held'[e] \cap keys' = {} BY <1>2 DEF KeysApart
<1>6. \A e, c \in Device : e # c => held'[e] \cap held'[c] = {}
  <2>1. \A e, c \in Device : e # c => held[e] \cap held[c] = {} BY DEF KeysApart
  <2>2. QED BY <1>2, <2>1
<1>7. QED BY <1>3, <1>4, <1>5, <1>6 DEF KeysApart

\* A key is inserted: it is in nobody's hands, and not in the table.
LEMMA InsertKeyApart ==
    ASSUME Sound, KeysApart, NEW d \in Device, NEW k \in todo[d], InsertKey(d, k)
    PROVE  KeysApart'
<1> USE DEF Sound, TypeOK
<1>1. /\ keys' = keys /\ \A e \in Device : e # d => k \notin held[e]
      /\ held' = [held EXCEPT ![d] = IF k \in keys THEN @ ELSE @ \cup {k}]
  BY DEF InsertKey, Blocked
<1>2. \A e \in Device :
        held'[e] = IF e = d /\ k \notin keys THEN held[e] \cup {k} ELSE held[e]
  BY <1>1
<1>3. \A e \in Device : IsFiniteSet(held[e] \cup {k}) BY FS_AddElement DEF KeysApart
<1>4. \A e \in Device : IsFiniteSet(held'[e])
  <2>1. TAKE e \in Device
  <2>2. IsFiniteSet(held[e]) /\ IsFiniteSet(held[e] \cup {k}) BY <1>3 DEF KeysApart
  <2>3. held'[e] = held[e] \/ held'[e] = held[e] \cup {k} BY <1>2
  <2>4. QED BY <2>2, <2>3
<1>5. \A e \in Device : held'[e] \cap keys' = {} BY <1>1, <1>2 DEF KeysApart
<1>6. \A e, c \in Device : e # c => held'[e] \cap held'[c] = {}
  BY <1>1, <1>2 DEF KeysApart
<1>7. IsFiniteSet(keys') BY <1>1 DEF KeysApart
<1>8. QED BY <1>4, <1>5, <1>6, <1>7 DEF KeysApart

\* Every step keeps the keys apart.
LEMMA ApartNext ==
    ASSUME Sound, KeysApart, [Next]_vars PROVE KeysApart'
<1> USE DEF requestVars
<1>1. ASSUME UNCHANGED <<keys, held>> PROVE KeysApart' BY <1>1 DEF KeysApart
<1>2. CASE UNCHANGED vars BY <1>1, <1>2 DEF vars
<1>3. ASSUME NEW d \in Device, NEW h \in Handler, NEW b \in Batches,
             NEW n \in 0..MaxBatch, Admit(d, h, b, n)
      PROVE  KeysApart'
  BY <1>1, <1>3 DEF Admit
<1>4. ASSUME NEW d \in Device, Begin(d) \/ InsertRow(d) \/ Pull(d) PROVE KeysApart'
  BY <1>1, <1>4 DEF Begin, InsertRow, Pull
<1>5. ASSUME NEW d \in Device, RefuseReferences(d) \/ Abort(d) \/ Commit(d) PROVE KeysApart'
  BY <1>5, ReturnApart DEF RefuseReferences, Abort, Commit
<1>6. ASSUME NEW d \in Device, NEW k \in todo[d], InsertKey(d, k) PROVE KeysApart'
  BY <1>6, InsertKeyApart
<1>7. ASSUME NEW d \in Device, NEW k \in todo[d], ChunkKnown(d, k) PROVE KeysApart'
  BY <1>7, ReturnApart DEF ChunkKnown
<1>8. ASSUME NEW p \in Project, Pause(p) \/ Resume(p) PROVE KeysApart'
  BY <1>1, <1>8 DEF Pause, Resume
<1>9. QED BY <1>2, <1>3, <1>4, <1>5, <1>6, <1>7, <1>8 DEF Next, Serve

\* The rows and the keys that ChunkRowsOnce counts.
ChunkRows(i) == {r \in log : r.item = i /\ r.via = "chunk"}
ChunkKeys(i) == {k \in keys : k[2] = 0 /\ k[3][1] = "chunk" /\ i \in k[3][3]}

\* A chunk's transaction commits one row of each item it lists, and holds a
\* key for it that the table has not.
LEMMA ChunkCommits ==
    ASSUME Sound, KeysApart, NEW d \in Device, Commit(d), via[d] # "mutations",
           NEW r \in rows[d]
    PROVE  \E k \in held[d] : /\ k \notin keys
                              /\ k[2] = 0 /\ k[3][1] = "chunk" /\ r.item \in k[3][3]
<1> DEFINE k == ChunkKey(via[d], ProjectOf[r.item], batch[d], listed[d])
<1>1. Request(d) /\ TypeOK BY DEF Sound
<1>2. r.item \in Listed(batch[d], listed[d]) BY <1>1, CommitsWhat
<1>3. r.item \in ItemsOf(batch[d]) BY <1>1, <1>2, CommitsAll, BatchFacts DEF Listed
<1>4. k \in held[d] /\ k[2] = 0 /\ k[3][1] = "chunk" /\ k[3][3] = Listed(batch[d], listed[d])
  BY <1>1, <1>3, CommitsChunk
<1>5. k \notin keys BY <1>4 DEF KeysApart
<1>6. QED BY <1>2, <1>4, <1>5

\* A commit adds at most one row of an item by a chunk, and then a key.
LEMMA CommitOnce ==
    ASSUME Sound, Sound', KeysApart, KeysApart', ChunkRowsOnce, NEW d \in Device, Commit(d)
    PROVE  ChunkRowsOnce'
<1> SUFFICES ASSUME NEW i \in Item
             PROVE  Cardinality(ChunkRows(i)') <= Cardinality(ChunkKeys(i)')
  BY DEF ChunkRowsOnce, ChunkRows, ChunkKeys
<1> DEFINE R == ChunkRows(i)
           K == ChunkKeys(i)
<1>1. log' = log \cup rows[d] /\ keys' = keys \cup held[d] /\ InLine(d)
  BY CommitsAll DEF Sound, Commit
<1>2. /\ IsFiniteSet(R) /\ IsFiniteSet(R') /\ IsFiniteSet(K) /\ IsFiniteSet(K')
  <2>1. R \subseteq log /\ K \subseteq keys /\ R' \subseteq log' /\ K' \subseteq keys'
    BY DEF ChunkRows, ChunkKeys
  <2>2. IsFiniteSet(log) /\ IsFiniteSet(log') /\ IsFiniteSet(keys) /\ IsFiniteSet(keys')
    BY DEF Sound, KeysApart
  <2>3. QED BY <2>1, <2>2, FS_Subset
<1>3. /\ Cardinality(R) \in Nat /\ Cardinality(R') \in Nat
      /\ Cardinality(K) \in Nat /\ Cardinality(K') \in Nat
  BY <1>2, FS_CardinalityType
<1>4. Cardinality(R) <= Cardinality(K) BY DEF ChunkRowsOnce, ChunkRows, ChunkKeys
<1>5. K \subseteq K' BY <1>1 DEF ChunkKeys
<1>6. CASE R' = R
  <2>1. Cardinality(K) <= Cardinality(K') BY <1>2, <1>5, FS_Subset
  <2>2. QED BY <1>3, <1>4, <1>6, <2>1
<1>7. CASE R' # R
  <2>1. PICK r \in rows[d] : r.item = i /\ r.via = "chunk"
    BY <1>1, <1>7 DEF ChunkRows
  <2>2. R' = R \cup {r}
    BY <1>1, <2>1 DEF ChunkRows, InLine
  <2>3. via[d] # "mutations" BY <1>1, <2>1 DEF InLine
  <2>4. PICK k \in held[d] : k \notin keys /\ k[2] = 0 /\ k[3][1] = "chunk" /\ i \in k[3][3]
    BY <2>1, <2>3, ChunkCommits
  <2>5. k \in K' /\ k \notin K BY <1>1, <2>4 DEF ChunkKeys
  <2>6. Cardinality(R') <= Cardinality(R) + 1
    BY <1>2, <1>3, <2>2, FS_AddElement
  <2>7. Cardinality(K \cup {k}) = Cardinality(K) + 1 BY <1>2, <2>5, FS_AddElement
  <2>8. Cardinality(K \cup {k}) <= Cardinality(K') BY <1>2, <1>5, <2>5, FS_Subset
  <2>9. QED BY <1>3, <1>4, <2>6, <2>7, <2>8
<1>8. QED BY <1>6, <1>7

\* Only a commit adds to the log or to the keys.
LEMMA OnlyCommits ==
    ASSUME [Next]_vars, log' # log \/ keys' # keys PROVE \E d \in Device : Commit(d)
<1> USE DEF requestVars, deviceVars, bounds
<1>1. ~UNCHANGED vars BY DEF vars
<1>2. \A d \in Device : /\ ~Begin(d) /\ ~RefuseReferences(d) /\ ~InsertRow(d)
                        /\ ~Abort(d) /\ ~Pull(d)
  BY DEF Begin, RefuseReferences, InsertRow, Abort, Pull
<1>3. \A d \in Device : \A k \in todo[d] : ~InsertKey(d, k) /\ ~ChunkKnown(d, k)
  BY DEF InsertKey, ChunkKnown
<1>4. \A d \in Device : \A h \in Handler, b \in Batches, n \in 0..MaxBatch : ~Admit(d, h, b, n)
  BY DEF Admit
<1>5. \A p \in Project : ~Pause(p) /\ ~Resume(p) BY DEF Pause, Resume
<1>6. QED BY <1>1, <1>2, <1>3, <1>4, <1>5 DEF Next, Serve

(***************************************************************************)
(* Every step keeps Chunks.                                                *)
(***************************************************************************)
LEMMA ChunksNext == Sound /\ Sound' /\ Chunks /\ [Next]_vars => Chunks'
<1> SUFFICES ASSUME Sound, Sound', Chunks, [Next]_vars PROVE Chunks'
  OBVIOUS
<1>1. KeysApart' BY ApartNext DEF Chunks
<1>2. CASE log' = log /\ keys' = keys BY <1>1, <1>2 DEF Chunks, ChunkRowsOnce
<1>3. CASE log' # log \/ keys' # keys
  <2>1. PICK d \in Device : Commit(d) BY <1>3, OnlyCommits
  <2>2. QED BY <1>1, <2>1, CommitOnce DEF Chunks
<1>4. QED BY <1>2, <1>3

LEMMA ChunksInit == Init => Chunks
<1> SUFFICES ASSUME Init PROVE Chunks
  OBVIOUS
<1>1. KeysApart BY FS_EmptySet DEF Init, KeysApart
<1>2. \A i \in Item : ChunkRows(i) = {} /\ ChunkKeys(i) = {}
  BY DEF Init, ChunkRows, ChunkKeys
<1>3. Cardinality({}) <= Cardinality({}) BY FS_EmptySet
<1>4. ChunkRowsOnce BY <1>2, <1>3 DEF ChunkRowsOnce, ChunkRows, ChunkKeys
<1>5. QED BY <1>1, <1>4 DEF Chunks

-----------------------------------------------------------------------------
(* The theorems.                                                           *)

All == Sound /\ Places /\ Chunks

LEMMA SpecAll == Spec => []All
<1>1. Init => All BY SoundInit, PlacesInit, ChunksInit DEF All
<1>2. All /\ [Next]_vars => All' BY SoundNext, PlacesNext, ChunksNext DEF All
<1>3. QED BY <1>1, <1>2, PTL DEF Spec

(***************************************************************************)
(* Every variable keeps its type, and every number in use was handed out   *)
(* (push_mutations, push_chunk, list_mutations_since).                     *)
(***************************************************************************)
THEOREM TypeCorrect == Spec => []TypeOK
<1>1. All => TypeOK BY DEF All, Sound
<1>2. QED BY <1>1, SpecAll, PTL

(***************************************************************************)
(* A memory has its session before it in the log, or in the mutations of a *)
(* stored chunk, whatever handlers, pool and rollbacks do                  *)
(* (validate_session_references, materialize_chunk_mutations).             *)
(***************************************************************************)
THEOREM SessionsAreServed == Spec => []ReferencesServed
<1>1. All => ReferencesServed BY DEF All, Sound, Follow, Carried, ReferencesServed
<1>2. QED BY <1>1, SpecAll, PTL

(***************************************************************************)
(* A chunk is written once, however often and concurrently it is pushed    *)
(* (write_chunk, materialize_chunk_mutations).                             *)
(***************************************************************************)
THEOREM ChunkIsWrittenOnce == Spec => []ChunkRowsOnce
<1>1. All => ChunkRowsOnce BY DEF All, Chunks
<1>2. QED BY <1>1, SpecAll, PTL

\* A device pulls: what its cursor passes is in the page, or was missed before.
LEMMA PullSkipsNothing ==
    ASSUME All, NEW d \in Device, NEW e \in Device, Pull(e) PROVE Skipped(d)' \subseteq Skipped(d)
<1> USE DEF All, Sound, TypeOK
<1>1. PICK m \in Page(e) : cursor' = [cursor EXCEPT ![e] = m.seq] BY PullMoves
<1>2. /\ pulled' = [pulled EXCEPT ![e] = @ \cup Page(e)] /\ log' = log
      /\ Page(e) \subseteq Visible(e)
  BY PullMoves
<1> SUFFICES ASSUME NEW r \in log, r.seq <= cursor'[d], ProjectOf[r.item] \in Granted[d],
                    r \notin pulled'[d]
             PROVE  r \in Skipped(d)
  BY <1>2 DEF Skipped
<1>3. r \notin pulled[d] /\ r.seq \in Nat /\ cursor[d] \in Nat BY <1>2 DEF Row
<1>4. CASE r.seq <= cursor[d] BY <1>3, <1>4 DEF Skipped
<1>5. CASE d # e BY <1>1, <1>3, <1>5 DEF Skipped
<1>6. CASE d = e /\ r.seq > cursor[d]
  <2>1. r \in Visible(e) /\ r.seq <= m.seq BY <1>1, <1>6 DEF Visible
  <2>2. r \in Page(e) BY <2>1, PageIsBeginning
  <2>3. QED BY <1>2, <1>6, <2>2
<1>7. QED BY <1>3, <1>4, <1>5, <1>6

\* A commit puts a row behind a cursor: its device got a later one before.
LEMMA CommitOvertaken ==
    ASSUME All, NEW d \in Device, NEW e \in Device, Commit(e), NEW r \in Skipped(d)' \ Skipped(d)
    PROVE  r \notin log /\ \E q \in pulled[d] : q.seq > r.seq
<1> USE DEF All, Sound, TypeOK
<1>1. log' = log \cup rows[e] /\ cursor' = cursor /\ pulled' = pulled BY DEF Commit
<1>2. r \in rows[e] /\ r \notin log /\ r.seq <= cursor[d] BY <1>1 DEF Skipped
<1>3. r.seq \in Nat /\ r.seq > 0 /\ cursor[d] \in Nat BY <1>2 DEF Row, Places
<1>4. PICK q \in pulled[d] : q.seq = cursor[d]
  <2>1. cursor[d] # 0 BY <1>2, <1>3
  <2>2. QED BY <2>1 DEF Places
<1>5. q \in log /\ q.seq # r.seq BY <1>2, <1>4 DEF Places
<1>6. q.seq > r.seq BY <1>2, <1>3, <1>4, <1>5
<1>7. QED BY <1>2, <1>6

(***************************************************************************)
(* What a device misses was committed behind its cursor, after the device  *)
(* got a row numbered later: for any pool, grants, page size and faults    *)
(* (insert_mutations_tx, list_mutations_since).                            *)
(***************************************************************************)
THEOREM LossesAreOvertaken == Spec => OnlyOvertakenSkipped
<1> DEFINE Step == \A d \in Device : \A r \in Skipped(d)' \ Skipped(d) :
                     r \notin log /\ \E q \in pulled[d] : q.seq > r.seq
<1>1. ASSUME All, [Next]_vars PROVE Step
  <2>1. CASE \E e \in Device : Pull(e) BY <1>1, <2>1, PullSkipsNothing
  <2>2. CASE \E e \in Device : Commit(e) BY <1>1, <2>2, CommitOvertaken
  <2>3. CASE UNCHANGED <<log, cursor, pulled>>
    <3>1. \A d \in Device : Skipped(d)' = Skipped(d) BY <2>3 DEF Skipped
    <3>2. QED BY <3>1
  <2>4. QED BY <1>1, <2>1, <2>2, <2>3, OnlyCommits, OnlyPulls
<1>2. All /\ [Next]_vars => [Step]_vars BY <1>1
<1>3. QED BY <1>2, SpecAll, PTL DEF Spec, OnlyOvertakenSkipped

=============================================================================
