-------------------------- MODULE RelationsProofs --------------------------
(***************************************************************************)
(* Proofs about Relations, for any number of stores, memories, relations,  *)
(* operations and batch replays: the types (TypeOK), that every verdict is *)
(* about memories that are there (VerdictsJoin), that a relation set aside *)
(* waits for a memory that is not (DeferredWaits), and that quiet stores   *)
(* hold the verdict the log ends on (VerdictsFollowLog, with VerdictInv).  *)
(*                                                                         *)
(* VerdictsJoin is inductive with the types.  DeferredWaits is not: a      *)
(* memory that is new could be one a relation here already waits for.  It  *)
(* cannot, because what is sent or set aside only ever names memories that *)
(* were somewhere (NewIsNew).                                              *)
(***************************************************************************)
EXTENDS Relations, TLAPS

Tables == {"absent", "live", "deleted"}

-----------------------------------------------------------------------------
(* Queues.                                                                 *)

\* What a queue holds.
In(e, q) == \E p \in DOMAIN q : q[p] = e

LEMMA AppendAdds ==
    ASSUME NEW S, NEW q \in Seq(S), NEW e \in S
    PROVE  /\ Append(q, e) \in Seq(S) /\ Len(Append(q, e)) = Len(q) + 1
           /\ \A x : In(x, Append(q, e)) <=> In(x, q) \/ x = e
<1>1. /\ Append(q, e) \in Seq(S) /\ Len(Append(q, e)) = Len(q) + 1
      /\ DOMAIN q = 1..Len(q) /\ DOMAIN Append(q, e) = 1..(Len(q) + 1)
      /\ \A p \in 1..Len(q) : Append(q, e)[p] = q[p]
      /\ Append(q, e)[Len(q) + 1] = e
  OBVIOUS
<1>2. ASSUME NEW x, In(x, Append(q, e)) PROVE In(x, q) \/ x = e
  <2>1. PICK p \in 1..(Len(q) + 1) : Append(q, e)[p] = x BY <1>1, <1>2 DEF In
  <2>2. QED BY <1>1, <2>1 DEF In
<1>3. ASSUME NEW x, In(x, q) \/ x = e PROVE In(x, Append(q, e))
  <2>1. CASE x = e
    <3>1. Len(q) + 1 \in 1..(Len(q) + 1) OBVIOUS
    <3>2. QED BY <1>1, <2>1, <3>1 DEF In
  <2>2. CASE In(x, q)
    <3>1. PICK p \in 1..Len(q) : q[p] = x BY <1>1, <2>2 DEF In
    <3>2. QED BY <1>1, <3>1 DEF In
  <2>3. QED BY <1>3, <2>1, <2>2
<1>4. QED BY <1>1, <1>2, <1>3

LEMMA TailDrops ==
    ASSUME NEW S, NEW q \in Seq(S), q # <<>>
    PROVE  /\ Tail(q) \in Seq(S) /\ Head(q) \in S /\ In(Head(q), q)
           /\ \A x : In(x, q) <=> In(x, Tail(q)) \/ x = Head(q)
<1>1. /\ Tail(q) \in Seq(S) /\ Head(q) \in S /\ Head(q) = q[1]
      /\ DOMAIN q = 1..Len(q) /\ DOMAIN Tail(q) = 1..(Len(q) - 1) /\ Len(q) \in Nat \ {0}
      /\ \A p \in 1..(Len(q) - 1) : Tail(q)[p] = q[p + 1]
  OBVIOUS
<1>2. In(Head(q), q)
  <2>1. 1 \in DOMAIN q BY <1>1
  <2>2. QED BY <1>1, <2>1 DEF In
<1>3. ASSUME NEW x, In(x, q) PROVE In(x, Tail(q)) \/ x = Head(q)
  <2>1. PICK p \in 1..Len(q) : q[p] = x BY <1>1, <1>3 DEF In
  <2>2. CASE p = 1 BY <1>1, <2>1, <2>2
  <2>3. CASE p # 1
    <3>1. p - 1 \in 1..(Len(q) - 1) /\ (p - 1) + 1 = p BY <1>1, <2>3
    <3>2. Tail(q)[p - 1] = x BY <1>1, <2>1, <3>1
    <3>3. QED BY <1>1, <3>1, <3>2 DEF In
  <2>4. QED BY <2>2, <2>3
<1>4. ASSUME NEW x, In(x, Tail(q)) PROVE In(x, q)
  <2>1. PICK p \in 1..(Len(q) - 1) : Tail(q)[p] = x BY <1>1, <1>4 DEF In
  <2>2. p + 1 \in 1..Len(q) /\ q[p + 1] = x BY <1>1, <2>1
  <2>3. QED BY <1>1, <2>2 DEF In
<1>5. QED BY <1>1, <1>2, <1>3, <1>4

LEMMA PairAdds ==
    ASSUME NEW S, NEW q \in Seq(S), NEW d \in S, NEW e \in S
    PROVE  /\ q \o <<d, e>> \in Seq(S)
           /\ \A x : In(x, q \o <<d, e>>) <=> In(x, q) \/ x = d \/ x = e
<1>1. q \o <<d, e>> = Append(Append(q, d), e)
  <2>1. Len(q \o <<d, e>>) = Len(q) + 2 /\ Len(Append(Append(q, d), e)) = Len(q) + 2
    OBVIOUS
  <2>2. \A p \in 1..(Len(q) + 2) : (q \o <<d, e>>)[p] = Append(Append(q, d), e)[p]
    OBVIOUS
  <2>3. q \o <<d, e>> \in Seq(S) /\ Append(Append(q, d), e) \in Seq(S)
    OBVIOUS
  <2>4. QED BY <2>1, <2>2, <2>3
<1>2. Append(q, d) \in Seq(S) /\ \A x : In(x, Append(q, d)) <=> In(x, q) \/ x = d
  BY AppendAdds
<1> DEFINE r == Append(q, d)
<1>3. /\ Append(r, e) \in Seq(S)
      /\ \A x : In(x, Append(r, e)) <=> In(x, r) \/ x = e
  <2>1. r \in Seq(S) BY <1>2
  <2> HIDE DEF r
  <2>2. QED BY <2>1, AppendAdds
<1>4. QED BY <1>1, <1>2, <1>3

-----------------------------------------------------------------------------
(* What the steps keep.                                                    *)

\* Every verdict among some rows is about memories that are among some.
Joined(mems, rows) ==
    \A r \in Relation :
        rows[r] # None /\ rows[r].status = "judged" =>
            mems[rows[r].src] # "absent" /\ mems[rows[r].tgt] # "absent"

Waits(mems, aside) ==
    \A r \in Relation : aside[r] # None /\ ~aside[r].dead => ~BothHere(mems, aside[r].of)

\* A memory that is or was in some store.
Known(m) ==
    \/ \E s \in Store : memory[s][m] # "absent"
    \/ \E s \in Store : \E e \in Mutation : In(e, outbox[s]) /\ Names(e, m)
    \/ \E e \in Mutation : In(e, log) /\ Names(e, m)

KnownPair(v) == Known(v.src) /\ Known(v.tgt)

\* What is sent, set aside or about to be replayed is about such memories.
NewIsNew ==
    /\ \A s \in Store : \A r \in Relation :
         deferred[s][r] # None => KnownPair(deferred[s][r].of)
    /\ \A s \in Store : \A i \in replay[s] : KnownPair(i.row.of)
    /\ \A s \in Store : \A e \in Mutation :
         In(e, outbox[s]) /\ e.kind = "relation" => KnownPair(e.of)
    /\ \A e \in Mutation : In(e, log) /\ e.kind = "relation" => KnownPair(e.of)

IInv == TypeOK /\ VerdictsJoin /\ DeferredWaits /\ NewIsNew

LEMMA JoinedStores == VerdictsJoin <=> \A s \in Store : Joined(memory[s], relation[s])
BY DEF VerdictsJoin, Joined, Present

LEMMA WaitingStores == DeferredWaits <=> \A s \in Store : Waits(memory[s], deferred[s])
BY DEF DeferredWaits, Waits

\* What a step may do to the tables of one store.
Table(s, m, r, a) ==
    /\ memory' = [memory EXCEPT ![s] = m]
    /\ relation' = [relation EXCEPT ![s] = r]
    /\ deferred' = [deferred EXCEPT ![s] = a]

Memories == [Memory -> Tables]
Rows == [Relation -> Row \cup {None}]
Asides == [Relation -> Aside \cup {None}]

(***************************************************************************)
(* The tables of a store get a new content that is in order.               *)
(***************************************************************************)
LEMMA TablesKeep ==
    ASSUME TypeOK, VerdictsJoin, DeferredWaits, NEW s \in Store,
           NEW m \in Memories, NEW r \in Rows, NEW a \in Asides,
           Table(s, m, r, a), Joined(m, r), Waits(m, a)
    PROVE  /\ memory' \in [Store -> Memories] /\ relation' \in [Store -> Rows]
           /\ deferred' \in [Store -> Asides]
           /\ VerdictsJoin' /\ DeferredWaits'
<1> USE DEF TypeOK, Table, Memories, Rows, Asides, Tables
<1>1. memory' \in [Store -> Memories] BY DEF Memories
<1>2. relation' \in [Store -> Rows] BY DEF Rows
<1>3. deferred' \in [Store -> Asides] BY DEF Asides
<1>4. \A t \in Store : Joined(memory'[t], relation'[t])
  <2> SUFFICES ASSUME NEW t \in Store PROVE Joined(memory'[t], relation'[t])
    OBVIOUS
  <2>1. CASE t = s BY <2>1
  <2>2. CASE t # s BY <2>2, JoinedStores
  <2>3. QED BY <2>1, <2>2
<1>5. \A t \in Store : Waits(memory'[t], deferred'[t])
  <2> SUFFICES ASSUME NEW t \in Store PROVE Waits(memory'[t], deferred'[t])
    OBVIOUS
  <2>1. CASE t = s BY <2>1
  <2>2. CASE t # s BY <2>2, WaitingStores
  <2>3. QED BY <2>1, <2>2
<1>6. VerdictsJoin' BY <1>4 DEF VerdictsJoin, Joined, Present
<1>7. DeferredWaits' BY <1>5 DEF DeferredWaits, Waits
<1>8. QED BY <1>1, <1>2, <1>3, <1>6, <1>7

(***************************************************************************)
(* A memory that is known stays known, where what is deleted for good is   *)
(* told and nothing that is told gets lost.                                *)
(***************************************************************************)
LEMMA KnownStays ==
    ASSUME \A s \in Store : \A m \in Memory :
             memory[s][m] # "absent" =>
                memory'[s][m] # "absent" \/ Known(m)',
           \A s \in Store : \A e \in Mutation :
             In(e, outbox[s]) => In(e, outbox'[s]) \/ In(e, log'),
           \A e \in Mutation : In(e, log) => In(e, log')
    PROVE  \A m \in Memory : Known(m) => Known(m)'
BY DEF Known

-----------------------------------------------------------------------------
(* The steps.                                                              *)

(***************************************************************************)
(* A search or a scan reads; a batch replay lists what is set aside.       *)
(***************************************************************************)
LEMMA ReadsKeep ==
    ASSUME IInv, NEW s \in Store,
           \/ \E a, b \in Memory : FindCandidates(s, a, b) \/ ScanPair(s, a, b)
           \/ ListDeferred(s)
    PROVE  IInv'
<1>1. /\ memory' = memory /\ relation' = relation /\ deferred' = deferred
      /\ outbox' = outbox /\ log' = log /\ cursor' = cursor /\ overlaps' = overlaps
  BY DEF FindCandidates, ScanPair, ListDeferred, tables, wire
<1>2. TypeOK'
  <2>1. /\ asked' \in [Store -> Pair \cup {None}] /\ scan' \in [Store -> Pair \cup {None}]
        /\ ops' \in Nat /\ replays' \in Nat
    <3>1. \A a, b \in Memory : <<a, b>> \in Pair BY DEF Pair
    <3>2. CASE \E a, b \in Memory : FindCandidates(s, a, b)
      BY <3>1, <3>2 DEF IInv, TypeOK, FindCandidates, Operation
    <3>3. CASE \E a, b \in Memory : ScanPair(s, a, b)
      BY <3>1, <3>3 DEF IInv, TypeOK, ScanPair, Operation
    <3>4. CASE ListDeferred(s) BY <3>4 DEF IInv, TypeOK, ListDeferred
    <3>5. QED BY <3>2, <3>3, <3>4
  <2>2. replay' \in [Store -> SUBSET [id : Relation, row : Aside]]
    <3>1. CASE replay' = replay BY <3>1 DEF IInv, TypeOK
    <3>2. CASE ListDeferred(s)
      <4>1. {[id |-> r, row |-> deferred[s][r]] :
               r \in {q \in Relation : deferred[s][q] # None /\ ~deferred[s][q].dead}}
              \subseteq [id : Relation, row : Aside]
        BY DEF IInv, TypeOK
      <4>2. QED BY <3>2, <4>1 DEF ListDeferred, IInv, TypeOK
    <3>3. QED BY <3>1, <3>2 DEF FindCandidates, ScanPair
  <2>3. QED BY <1>1, <2>1, <2>2 DEF IInv, TypeOK
<1>3. VerdictsJoin' /\ DeferredWaits'
  BY <1>1 DEF IInv, VerdictsJoin, DeferredWaits, Present
<1>4. \A m \in Memory : Known(m) <=> Known(m)'
  BY <1>1 DEF Known
<1>5. \A t \in Store : \A i \in replay'[t] :
        i \in replay[t] \/ \E r \in Relation : deferred[t][r] # None /\ i.row = deferred[t][r]
  <2>1. CASE ListDeferred(s)
    <3>1. \A t \in Store : t # s => replay'[t] = replay[t]
      BY <2>1 DEF IInv, TypeOK, ListDeferred
    <3>2. \A i \in replay'[s] : \E r \in Relation : deferred[s][r] # None /\ i.row = deferred[s][r]
      BY <2>1 DEF IInv, TypeOK, ListDeferred
    <3>3. QED BY <3>1, <3>2
  <2>2. CASE replay' = replay BY <2>2
  <2>3. QED BY <2>1, <2>2 DEF FindCandidates, ScanPair
<1>6. NewIsNew'
  <2>1. \A v \in Verdict : KnownPair(v) => KnownPair(v)'
    BY <1>4 DEF KnownPair, Verdict
  <2>2. \A t \in Store : \A r \in Relation :
          deferred'[t][r] # None => deferred[t][r].of \in Verdict /\ KnownPair(deferred[t][r].of)'
    BY <1>1, <2>1 DEF IInv, TypeOK, NewIsNew, Aside
  <2>3. \A t \in Store : \A i \in replay'[t] : KnownPair(i.row.of)'
    <3> SUFFICES ASSUME NEW t \in Store, NEW i \in replay'[t] PROVE KnownPair(i.row.of)'
      OBVIOUS
    <3>1. CASE i \in replay[t]
      <4>1. i.row.of \in Verdict BY <3>1 DEF IInv, TypeOK, Aside
      <4>2. QED BY <2>1, <3>1, <4>1 DEF IInv, NewIsNew
    <3>2. CASE \E r \in Relation : deferred[t][r] # None /\ i.row = deferred[t][r]
      BY <1>1, <2>2, <3>2
    <3>3. QED BY <1>5, <3>1, <3>2
  <2>4. \A e \in Mutation : e.kind = "relation" => e.of \in Verdict
    BY DEF Mutation
  <2>5. QED BY <1>1, <2>1, <2>2, <2>3, <2>4 DEF NewIsNew, IInv
<1>7. QED BY <1>2, <1>3, <1>6 DEF IInv

(***************************************************************************)
(* A proposal is filed: it is no verdict yet.                              *)
(***************************************************************************)
LEMMA FilePendingKeeps ==
    ASSUME IInv, NEW s \in Store, NEW r \in Relation, FilePending(s, r)
    PROVE  IInv'
<1> USE DEF IInv
<1>1. PICK a \in Memory, b \in Memory : asked[s] = <<a, b>>
  BY DEF FilePending, TypeOK, Pair
<1> DEFINE row == [src |-> a, tgt |-> b, verb |-> "pending", status |-> "pending"]
<1>2. row \in Row BY DEF Row
<1>3. relation' = [relation EXCEPT ![s][r] = row]
  BY <1>1 DEF FilePending
<1>4. /\ memory' = memory /\ deferred' = deferred /\ outbox' = outbox /\ log' = log
      /\ cursor' = cursor /\ scan' = scan /\ replay' = replay /\ overlaps' = overlaps
      /\ ops' = ops /\ replays' = replays
  BY DEF FilePending, wire
<1>5. asked' \in [Store -> Pair \cup {None}]
  BY DEF FilePending, TypeOK
<1>6. TypeOK' BY <1>2, <1>3, <1>4, <1>5 DEF TypeOK
<1>7. VerdictsJoin' BY <1>3, <1>4 DEF VerdictsJoin, Present, TypeOK
<1>8. DeferredWaits' BY <1>4 DEF DeferredWaits
<1>9. NewIsNew' BY <1>4 DEF NewIsNew, KnownPair, Known
<1>10. QED BY <1>6, <1>7, <1>8, <1>9

(***************************************************************************)
(* A queue is pushed: what leaves the outbox is in the log.                *)
(***************************************************************************)
LEMMA PushKeeps == ASSUME IInv, NEW s \in Store, Push(s) PROVE IInv'
<1> USE DEF IInv
<1>1. /\ memory' = memory /\ relation' = relation /\ deferred' = deferred
      /\ cursor' = cursor /\ asked' = asked /\ scan' = scan /\ replay' = replay
      /\ overlaps' = overlaps /\ ops' = ops /\ replays' = replays
  BY DEF Push, tables, inFlight
<1>2. PICK q \in Seq(Mutation) : q = outbox[s] /\ q # <<>>
  BY DEF Push, TypeOK
<1>3. /\ Tail(q) \in Seq(Mutation) /\ Head(q) \in Mutation /\ In(Head(q), q)
      /\ \A x : In(x, q) <=> In(x, Tail(q)) \/ x = Head(q)
  BY <1>2, TailDrops
<1>4. outbox' = [outbox EXCEPT ![s] = Tail(q)] /\ log' = Append(log, Head(q))
  BY <1>2 DEF Push
<1>5. PICK l \in Seq(Mutation) : l = log
  BY DEF TypeOK
<1>6. /\ log' \in Seq(Mutation) /\ Len(log') = Len(log) + 1
      /\ \A x : In(x, log') <=> In(x, log) \/ x = Head(q)
  BY <1>3, <1>4, <1>5, AppendAdds
<1>7. /\ outbox' \in [Store -> Seq(Mutation)]
      /\ \A t \in Store : \A x : In(x, outbox'[t]) => In(x, outbox[t])
      /\ \A t \in Store : \A x : In(x, outbox[t]) => In(x, outbox'[t]) \/ x = Head(q)
  BY <1>2, <1>3, <1>4 DEF TypeOK
<1>8. TypeOK'
  <2>1. cursor' \in [Store -> 0..Len(log')]
    <3>1. Len(log) \in Nat BY <1>5
    <3>2. QED BY <1>1, <1>6, <3>1 DEF TypeOK
  <2>2. QED BY <1>1, <1>6, <1>7, <2>1 DEF TypeOK
<1>9. VerdictsJoin' /\ DeferredWaits'
  BY <1>1 DEF VerdictsJoin, DeferredWaits, Present
<1>10. \A m \in Memory : Known(m) => Known(m)'
  BY <1>1, <1>6, <1>7, KnownStays
<1>11. \A v \in Verdict : KnownPair(v) => KnownPair(v)'
  BY <1>10 DEF KnownPair, Verdict
<1>12. \A e \in Mutation : e.kind = "relation" => e.of \in Verdict
  BY DEF Mutation
<1>13. NewIsNew'
  <2>1. \A t \in Store : \A r \in Relation : deferred[t][r] # None => deferred[t][r].of \in Verdict
    BY DEF TypeOK, Aside
  <2>2. \A t \in Store : \A i \in replay[t] : i.row.of \in Verdict
    BY DEF TypeOK, Aside
  <2>3. \A e \in Mutation : In(e, log') /\ e.kind = "relation" => KnownPair(e.of)'
    BY <1>2, <1>3, <1>6, <1>11, <1>12 DEF NewIsNew
  <2>4. \A t \in Store : \A e \in Mutation :
          In(e, outbox'[t]) /\ e.kind = "relation" => KnownPair(e.of)'
    BY <1>7, <1>11, <1>12 DEF NewIsNew
  <2>5. QED BY <1>1, <1>11, <2>1, <2>2, <2>3, <2>4 DEF NewIsNew
<1>14. QED BY <1>8, <1>9, <1>13

(***************************************************************************)
(* Something is queued.                                                    *)
(***************************************************************************)
LEMMA Queued ==
    ASSUME TypeOK, NEW s \in Store, NEW e \in Mutation, Queue(s, e)
    PROVE  /\ outbox' \in [Store -> Seq(Mutation)]
           /\ \A t \in Store : \A x :
                In(x, outbox'[t]) <=> In(x, outbox[t]) \/ (t = s /\ x = e)
<1>1. PICK q \in Seq(Mutation) : q = outbox[s]
  BY DEF TypeOK
<1>2. Append(q, e) \in Seq(Mutation) /\ \A x : In(x, Append(q, e)) <=> In(x, q) \/ x = e
  BY AppendAdds
<1>3. outbox' = [outbox EXCEPT ![s] = Append(q, e)]
  BY <1>1 DEF Queue
<1>4. outbox' \in [Store -> Seq(Mutation)] /\ outbox'[s] = Append(q, e)
  BY <1>2, <1>3 DEF TypeOK
<1>5. \A t \in Store : t # s => outbox'[t] = outbox[t]
  BY <1>3 DEF TypeOK
<1>6. QED BY <1>1, <1>2, <1>4, <1>5

(***************************************************************************)
(* NewIsNew, where nothing that is known is forgotten and what comes to be *)
(* sent or set aside in a store is about memories that are known.          *)
(***************************************************************************)
LEMMA NewStaysNew ==
    ASSUME TypeOK, NewIsNew, \A m \in Memory : Known(m) => Known(m)',
           \A t \in Store : \A r \in Relation :
             deferred'[t][r] # None =>
                \E v \in Verdict : v = deferred'[t][r].of /\ (KnownPair(v) \/ KnownPair(v)'),
           \A t \in Store : replay'[t] \subseteq replay[t],
           \A t \in Store : \A e \in Mutation :
             In(e, outbox'[t]) /\ e.kind = "relation" => In(e, outbox[t]) \/ KnownPair(e.of)',
           log' = log
    PROVE  NewIsNew'
<1>1. \A v \in Verdict : KnownPair(v) => KnownPair(v)'
  BY DEF KnownPair, Verdict
<1>2. \A e \in Mutation : e.kind = "relation" => e.of \in Verdict
  BY DEF Mutation
<1>3. \A t \in Store : \A i \in replay[t] : i.row.of \in Verdict
  BY DEF TypeOK, Aside
<1>4. ASSUME NEW t \in Store, NEW r \in Relation, deferred'[t][r] # None
      PROVE  KnownPair(deferred[t][r].of)'
  <2>1. PICK v \in Verdict : v = deferred'[t][r].of /\ KnownPair(v)'
    BY <1>1, <1>4
  <2>2. QED BY <2>1 DEF KnownPair, Known
<1>5. QED BY <1>1, <1>2, <1>3, <1>4 DEF NewIsNew

\* ... and where nothing comes to be set aside.
LEMMA OldStaysNew ==
    ASSUME TypeOK, NewIsNew, \A m \in Memory : Known(m) => Known(m)',
           deferred' = deferred, replay' = replay, log' = log,
           \A t \in Store : \A e \in Mutation :
             In(e, outbox'[t]) /\ e.kind = "relation" => In(e, outbox[t]) \/ KnownPair(e.of)'
    PROVE  NewIsNew'
<1>1. \A t \in Store : \A q \in Relation :
        deferred'[t][q] # None =>
           \E w \in Verdict : w = deferred'[t][q].of /\ (KnownPair(w) \/ KnownPair(w)')
  <2> SUFFICES ASSUME NEW t \in Store, NEW q \in Relation, deferred[t][q] # None
               PROVE  \E w \in Verdict : w = deferred[t][q].of /\ KnownPair(w)
    OBVIOUS
  <2>1. deferred[t][q].of \in Verdict BY DEF TypeOK, Aside
  <2>2. QED BY <2>1 DEF NewIsNew
<1>2. QED BY <1>1, NewStaysNew

\* A row that is marked is still a row.
LEMMA OrphanKeepsRows ==
    ASSUME NEW x \in Memory, NEW rows \in Rows PROVE Orphan(rows, x) \in Rows
<1>1. \A r \in Relation : rows[r] # None => [rows[r] EXCEPT !.status = "orphaned"] \in Row
  BY DEF Rows, Row
<1>2. QED BY <1>1 DEF Rows, Orphan

(***************************************************************************)
(* A verdict about two memories that are there.                            *)
(***************************************************************************)
LEMMA RecordKeeps ==
    ASSUME IInv, NEW s \in Store, NEW r \in Relation, NEW v \in Verdict,
           Present(s, v.src), Present(s, v.tgt), Record(s, r, v),
           UNCHANGED <<memory, deferred, log, cursor, asked, replay, overlaps, replays>>,
           scan' \in [Store -> Pair \cup {None}], ops' \in Nat
    PROVE  IInv'
<1> USE DEF IInv
<1> DEFINE row == [src |-> v.src, tgt |-> v.tgt, verb |-> v.verb, status |-> "judged"]
<1>1. row \in Row /\ Judged(r, v) \in Mutation
  BY DEF Row, Verdict, Judged, Mutation
<1>2. relation' = [relation EXCEPT ![s][r] = row]
  BY DEF Record
<1>3. Queue(s, Judged(r, v)) BY DEF Record, Queue
<1>4. /\ outbox' \in [Store -> Seq(Mutation)]
      /\ \A t \in Store : \A x :
           In(x, outbox'[t]) <=> In(x, outbox[t]) \/ (t = s /\ x = Judged(r, v))
  BY <1>1, <1>3, Queued
<1>5. TypeOK'
  BY <1>1, <1>2, <1>4 DEF TypeOK
<1>6. VerdictsJoin' BY <1>2 DEF VerdictsJoin, Present, TypeOK, Verdict
<1>7. DeferredWaits' BY DEF DeferredWaits
<1>8. \A m \in Memory : Known(m) => Known(m)'
  BY <1>4, KnownStays
<1>9. KnownPair(v)' BY DEF Present, KnownPair, Known
<1>10. NewIsNew'
  <2>1. \A t \in Store : \A e \in Mutation :
          In(e, outbox'[t]) /\ e.kind = "relation" => In(e, outbox[t]) \/ KnownPair(e.of)'
    BY <1>4, <1>9 DEF Judged
  <2>2. QED BY <1>8, <2>1, OldStaysNew
<1>11. QED BY <1>5, <1>6, <1>7, <1>10

(***************************************************************************)
(* What a verdict about a pair records: a row of that pair, or a new one.  *)
(***************************************************************************)
LEMMA PairIsRecorded ==
    ASSUME TypeOK, NEW s \in Store, NEW a \in Memory, NEW b \in Memory, NEW verb \in Verb,
           Judgeable(s, a, b), JudgePair(s, a, b, verb)
    PROVE  \E r \in Relation, v \in Verdict :
             Present(s, v.src) /\ Present(s, v.tgt) /\ Record(s, r, v)
<1>1. CASE Between(s, a, b) = {}
  <2> DEFINE v == [src |-> a, tgt |-> b, verb |-> verb]
  <2>1. PICK r \in Relation : Record(s, r, v) BY <1>1 DEF JudgePair
  <2>2. v \in Verdict /\ v.src = a /\ v.tgt = b BY DEF Verdict
  <2>3. Present(s, v.src) /\ Present(s, v.tgt) BY <2>2 DEF Judgeable
  <2> HIDE DEF v
  <2>4. QED BY <2>1, <2>2, <2>3
<1>2. CASE Between(s, a, b) # {}
  <2>1. PICK r \in Between(s, a, b) :
          Record(s, r, [src |-> relation[s][r].src, tgt |-> relation[s][r].tgt, verb |-> verb])
    BY <1>2 DEF JudgePair
  <2>2. PICK v : v = [src |-> relation[s][r].src, tgt |-> relation[s][r].tgt, verb |-> verb]
    OBVIOUS
  <2>3. r \in Relation /\ relation[s][r] \in Row /\ Joins(relation[s][r], a, b)
    BY DEF Between, TypeOK
  <2>4. v \in Verdict /\ {v.src, v.tgt} = {a, b}
    BY <2>2, <2>3 DEF Verdict, Row, Joins
  <2>5. Present(s, v.src) /\ Present(s, v.tgt) BY <2>4 DEF Judgeable
  <2>6. Record(s, r, v) BY <2>1, <2>2
  <2>7. QED BY <2>3, <2>4, <2>5, <2>6
<1>3. QED BY <1>1, <1>2

(***************************************************************************)
(* The three ways a verdict is given.                                      *)
(***************************************************************************)
LEMMA VerdictsKeep ==
    ASSUME IInv, NEW s \in Store,
           \/ \E r \in Relation, verb \in Verb : Judge(s, r, verb)
           \/ \E a, b \in Memory, verb \in Verb : Compare(s, a, b, verb)
           \/ ScanVerdict(s)
    PROVE  IInv'
<1>1. ASSUME NEW r \in Relation, NEW verb \in Verb, Judge(s, r, verb) PROVE IInv'
  <2>1. PICK v : v = [src |-> relation[s][r].src, tgt |-> relation[s][r].tgt, verb |-> verb]
    OBVIOUS
  <2>2. relation[s][r] \in Row BY <1>1 DEF Judge, IInv, TypeOK
  <2>3. v \in Verdict /\ v.src = relation[s][r].src /\ v.tgt = relation[s][r].tgt
    BY <2>1, <2>2 DEF Verdict, Row
  <2>4. Present(s, v.src) /\ Present(s, v.tgt) BY <1>1, <2>3 DEF Judge, Judgeable
  <2>5. Record(s, r, v) BY <1>1, <2>1 DEF Judge
  <2>6. UNCHANGED <<memory, deferred, log, cursor, asked, replay, overlaps, replays>>
        /\ scan' = scan /\ ops' \in Nat
    BY <1>1 DEF Judge, Operation, inFlight, IInv, TypeOK
  <2>7. QED BY <2>3, <2>4, <2>5, <2>6, RecordKeeps DEF IInv, TypeOK
<1>2. ASSUME NEW a \in Memory, NEW b \in Memory, NEW verb \in Verb, Compare(s, a, b, verb)
      PROVE  IInv'
  <2>1. PICK r \in Relation, v \in Verdict :
          Present(s, v.src) /\ Present(s, v.tgt) /\ Record(s, r, v)
    BY <1>2, PairIsRecorded DEF Compare, IInv
  <2>2. UNCHANGED <<memory, deferred, log, cursor, asked, replay, overlaps, replays>>
        /\ scan' = scan /\ ops' \in Nat
    BY <1>2 DEF Compare, Operation, inFlight, IInv, TypeOK
  <2>3. QED BY <2>1, <2>2, RecordKeeps DEF IInv, TypeOK
<1>3. ASSUME ScanVerdict(s) PROVE IInv'
  <2>1. UNCHANGED <<memory, deferred, log, cursor, asked, replay, overlaps, replays, ops>>
        /\ scan' \in [Store -> Pair \cup {None}]
    BY <1>3 DEF ScanVerdict, IInv, TypeOK
  <2>2. PICK a \in Memory, b \in Memory : scan[s] = <<a, b>>
    BY <1>3 DEF ScanVerdict, IInv, TypeOK, Pair
  <2>3. ASSUME NEW verb \in Verb, Judgeable(s, a, b), JudgePair(s, a, b, verb) PROVE IInv'
    <3>1. PICK r \in Relation, v \in Verdict :
            Present(s, v.src) /\ Present(s, v.tgt) /\ Record(s, r, v)
      BY <2>3, PairIsRecorded DEF IInv
    <3>2. QED BY <2>1, <3>1, RecordKeeps DEF IInv, TypeOK
  <2>4. CASE UNCHANGED <<relation, outbox>>
    <3>1. TypeOK' BY <2>1, <2>4 DEF IInv, TypeOK
    <3>2. VerdictsJoin' BY <2>1, <2>4 DEF IInv, VerdictsJoin, Present
    <3>3. DeferredWaits' BY <2>1, <2>4 DEF IInv, DeferredWaits
    <3>4. NewIsNew' BY <2>1, <2>4 DEF IInv, NewIsNew, KnownPair, Known
    <3>5. QED BY <3>1, <3>2, <3>3, <3>4 DEF IInv
  <2>5. Judgeable(s, scan[s][1], scan[s][2]) => Judgeable(s, a, b)
    BY <2>2
  <2>6. \A verb \in Verb : JudgePair(s, scan[s][1], scan[s][2], verb) => JudgePair(s, a, b, verb)
    BY <2>2
  <2>7. QED BY <1>3, <2>3, <2>4, <2>5, <2>6 DEF ScanVerdict
<1>4. QED BY <1>1, <1>2, <1>3

(***************************************************************************)
(* An edit is told and changes no row here.                                *)
(***************************************************************************)
LEMMA EditKeeps == ASSUME IInv, NEW s \in Store, NEW x \in Memory, Edit(s, x) PROVE IInv'
<1> USE DEF IInv
<1>1. /\ memory' = memory /\ relation' = relation /\ deferred' = deferred /\ log' = log
      /\ cursor' = cursor /\ asked' = asked /\ scan' = scan /\ replay' = replay
      /\ overlaps' = overlaps /\ replays' = replays
  BY DEF Edit, tables, inFlight
<1>2. Put(x) \in Mutation /\ Put(x).kind # "relation" BY DEF Put, Mutation
<1>3. /\ outbox' \in [Store -> Seq(Mutation)]
      /\ \A t \in Store : \A y :
           In(y, outbox'[t]) <=> In(y, outbox[t]) \/ (t = s /\ y = Put(x))
  BY <1>2, Queued DEF Edit
<1>4. TypeOK'
  <2>1. ops' \in Nat BY DEF Edit, Operation, TypeOK
  <2>2. QED BY <1>1, <1>3, <2>1 DEF TypeOK
<1>5. VerdictsJoin' /\ DeferredWaits' BY <1>1 DEF VerdictsJoin, DeferredWaits, Present
<1>6. \A m \in Memory : Known(m) => Known(m)'
  BY <1>1, <1>3, KnownStays
<1>7. NewIsNew' BY <1>1, <1>2, <1>3, <1>6, OldStaysNew
<1>8. QED BY <1>4, <1>5, <1>7

(***************************************************************************)
(* A delete leaves the row, or takes its relations with it and is told.    *)
(***************************************************************************)
LEMMA DeleteKeeps ==
    ASSUME IInv, NEW s \in Store, NEW x \in Memory, NEW hard \in BOOLEAN, Delete(s, x, hard)
    PROVE  IInv'
<1> USE DEF IInv
<1>1. /\ deferred' = deferred /\ log' = log /\ cursor' = cursor /\ asked' = asked
      /\ scan' = scan /\ replay' = replay /\ overlaps' = overlaps /\ replays' = replays
      /\ ops' \in Nat
  BY DEF Delete, inFlight, Operation, TypeOK
<1>2. PICK e \in Mutation : /\ Queue(s, e) /\ e.kind # "relation" /\ Names(e, x)
  BY DEF Delete, Mutation, Names
<1>3. /\ outbox' \in [Store -> Seq(Mutation)]
      /\ \A t \in Store : \A y :
           In(y, outbox'[t]) <=> In(y, outbox[t]) \/ (t = s /\ y = e)
  BY <1>2, Queued
<1>4. PICK m \in Memories, r \in Rows, a \in Asides :
        m = [memory[s] EXCEPT ![x] = IF hard THEN "absent" ELSE "deleted"]
        /\ r = (IF hard THEN Orphan(relation[s], x) ELSE relation[s]) /\ a = deferred[s]
  <2>1. [memory[s] EXCEPT ![x] = IF hard THEN "absent" ELSE "deleted"] \in Memories
    BY DEF Memories, Tables, TypeOK
  <2>2. relation[s] \in Rows BY DEF Rows, TypeOK
  <2>3. Orphan(relation[s], x) \in Rows BY <2>2, OrphanKeepsRows
  <2>4. deferred[s] \in Asides BY DEF Asides, TypeOK
  <2>5. QED BY <2>1, <2>2, <2>3, <2>4
<1>5. Table(s, m, r, a)
  <2>1. memory' = [memory EXCEPT ![s] = m] BY <1>4 DEF Delete, Deleted, TypeOK
  <2>2. relation' = [relation EXCEPT ![s] = r] BY <1>4 DEF Delete, Deleted, TypeOK
  <2>3. deferred' = [deferred EXCEPT ![s] = a] BY <1>1, <1>4 DEF TypeOK
  <2>4. QED BY <2>1, <2>2, <2>3 DEF Table
<1>6. Joined(m, r)
  <2>1. Joined(memory[s], relation[s]) BY JoinedStores
  <2>2. CASE hard
    BY <1>4, <2>1, <2>2 DEF Joined, Orphan, TypeOK, Row
  <2>3. CASE ~hard BY <1>4, <2>1, <2>3 DEF Joined, TypeOK, Row
  <2>4. QED BY <2>2, <2>3
<1>7. Waits(m, a)
  <2>1. Waits(memory[s], deferred[s]) BY WaitingStores
  <2>2. Present(s, x) BY DEF Delete, Present
  <2>3. \A y \in Memory : m[y] # "absent" => memory[s][y] # "absent"
    BY <1>4, <2>2 DEF Present, TypeOK
  <2>4. \A q \in Relation : a[q] # None => a[q].of.src \in Memory /\ a[q].of.tgt \in Memory
    BY DEF Asides, Aside, Verdict
  <2>5. QED BY <1>4, <2>1, <2>3, <2>4 DEF Waits, BothHere
<1>8. /\ memory' \in [Store -> Memories] /\ relation' \in [Store -> Rows]
      /\ VerdictsJoin' /\ DeferredWaits'
  BY <1>5, <1>6, <1>7, TablesKeep
<1>9. TypeOK' BY <1>1, <1>3, <1>8 DEF TypeOK, Memories, Rows, Tables
<1>10. \A y \in Memory : Known(y) => Known(y)'
  <2>1. Known(x)' BY <1>2, <1>3 DEF Known
  <2>2. \A t \in Store : \A y \in Memory :
          memory[t][y] # "absent" => memory'[t][y] # "absent" \/ Known(y)'
    BY <1>4, <1>5, <2>1 DEF Table, TypeOK
  <2>3. QED BY <1>1, <1>3, <2>2, KnownStays
<1>11. NewIsNew' BY <1>1, <1>2, <1>3, <1>10, OldStaysNew
<1>12. QED BY <1>8, <1>9, <1>11

(***************************************************************************)
(* A consolidation: the memory it makes is new, so no relation waits for   *)
(* it anywhere.                                                            *)
(***************************************************************************)
LEMMA ConsolidateKeeps ==
    ASSUME IInv, NEW s \in Store, NEW n \in Memory, NEW x \in Memory, NEW r \in Relation,
           Consolidate(s, n, x, r)
    PROVE  IInv'
<1> USE DEF IInv
<1> DEFINE v == [src |-> n, tgt |-> x, verb |-> "supersedes"]
           row == [src |-> n, tgt |-> x, verb |-> "supersedes", status |-> "judged"]
<1>1. /\ deferred' = deferred /\ log' = log /\ cursor' = cursor /\ asked' = asked
      /\ scan' = scan /\ replay' = replay /\ overlaps' = overlaps /\ replays' = replays
      /\ ops' \in Nat
      /\ memory' = [memory EXCEPT ![s][n] = "live"] /\ memory[s][x] = "live"
      /\ relation' = [relation EXCEPT ![s][r] = row]
  BY DEF Consolidate, inFlight, Operation, TypeOK
<1>2. /\ v \in Verdict /\ row \in Row /\ Put(n) \in Mutation /\ Judged(r, v) \in Mutation
      /\ Put(n).kind # "relation" /\ Judged(r, v).of = v
  BY VerbAssumption DEF Verdict, Row, Put, Judged, Mutation
<1>3. /\ outbox' \in [Store -> Seq(Mutation)]
      /\ \A t \in Store : \A y :
           In(y, outbox'[t]) <=> In(y, outbox[t]) \/ (t = s /\ y \in {Put(n), Judged(r, v)})
  <2>1. PICK q \in Seq(Mutation) : q = outbox[s] BY DEF TypeOK
  <2>2. /\ q \o <<Put(n), Judged(r, v)>> \in Seq(Mutation)
        /\ \A y : In(y, q \o <<Put(n), Judged(r, v)>>)
                    <=> In(y, q) \/ y = Put(n) \/ y = Judged(r, v)
    BY <1>2, PairAdds
  <2>3. outbox' = [outbox EXCEPT ![s] = q \o <<Put(n), Judged(r, v)>>]
    BY <2>1 DEF Consolidate
  <2>4. outbox' \in [Store -> Seq(Mutation)] /\ outbox'[s] = q \o <<Put(n), Judged(r, v)>>
    BY <2>2, <2>3 DEF TypeOK
  <2>5. \A t \in Store : t # s => outbox'[t] = outbox[t]
    BY <2>3 DEF TypeOK
  <2>6. QED BY <2>1, <2>2, <2>4, <2>5
<1>4. TypeOK' BY <1>1, <1>2, <1>3 DEF TypeOK
<1>5. ~Known(n) BY DEF Consolidate, Unused, Known, In
<1>6. VerdictsJoin' BY <1>1 DEF VerdictsJoin, Present, TypeOK, Row
<1>7. DeferredWaits'
  <2> SUFFICES ASSUME NEW t \in Store, NEW q \in Relation, deferred[t][q] # None,
                      ~deferred[t][q].dead
               PROVE  ~BothHere(memory'[t], deferred[t][q].of)
    BY <1>1 DEF DeferredWaits
  <2>1. deferred[t][q].of \in Verdict BY DEF TypeOK, Aside
  <2>2. deferred[t][q].of.src # n /\ deferred[t][q].of.tgt # n
    BY <1>5 DEF NewIsNew, KnownPair
  <2>3. memory'[t][deferred[t][q].of.src] = memory[t][deferred[t][q].of.src]
        /\ memory'[t][deferred[t][q].of.tgt] = memory[t][deferred[t][q].of.tgt]
    BY <1>1, <2>1, <2>2 DEF TypeOK, Verdict
  <2>4. QED BY <2>3 DEF DeferredWaits, BothHere
<1>8. \A y \in Memory : Known(y) => Known(y)'
  <2>1. \A t \in Store : \A y \in Memory :
          memory[t][y] # "absent" => memory'[t][y] # "absent"
    BY <1>1 DEF TypeOK
  <2>2. QED BY <1>1, <1>3, <2>1, KnownStays
<1>9. KnownPair(v)' BY <1>1 DEF KnownPair, Known, TypeOK
<1>10. NewIsNew' BY <1>1, <1>2, <1>3, <1>8, <1>9, OldStaysNew
<1>11. QED BY <1>4, <1>6, <1>7, <1>10

(***************************************************************************)
(* The replay after a mutation: what can be applied is, the rest waits.    *)
(***************************************************************************)
LEMMA ReplayedKeeps ==
    ASSUME NEW s \in Store, NEW m \in Memories, NEW r \in Rows, NEW a \in Asides,
           Joined(m, r), Replayed(s, m, r, a)
    PROVE  \E r2 \in Rows, a2 \in Asides :
             /\ Table(s, m, r2, a2) /\ Joined(m, r2) /\ Waits(m, a2)
             /\ \A q \in Relation : a2[q] \in {a[q], None}
<1> DEFINE r2 == [q \in Relation |-> IF q \in Ready(m, a) THEN Upserted(a[q].of) ELSE r[q]]
           a2 == [q \in Relation |-> IF q \in Ready(m, a) THEN None ELSE a[q]]
<1>1. \A q \in Ready(m, a) : /\ q \in Relation /\ a[q].of \in Verdict
                             /\ BothHere(m, a[q].of)
  BY DEF Ready, Asides, Aside
<1>2. \A v \in Verdict : /\ Upserted(v) \in Row
                         /\ Upserted(v).src = v.src /\ Upserted(v).tgt = v.tgt
  BY DEF Upserted, Verdict, Row
<1>3. r2 \in Rows BY <1>1, <1>2 DEF Rows
<1>4. a2 \in Asides BY DEF Asides
<1>5. Joined(m, r2)
  <2> SUFFICES ASSUME NEW q \in Relation, r2[q] # None, r2[q].status = "judged"
               PROVE  m[r2[q].src] # "absent" /\ m[r2[q].tgt] # "absent"
    BY DEF Joined
  <2>1. CASE q \in Ready(m, a) BY <1>1, <1>2, <2>1 DEF BothHere
  <2>2. CASE q \notin Ready(m, a) BY <2>2 DEF Joined
  <2>3. QED BY <2>1, <2>2
<1>6. Waits(m, a2) BY NoneAssumption DEF Waits, Ready
<1>7. Table(s, m, r2, a2) BY DEF Replayed, Table
<1>8. \A q \in Relation : a2[q] \in {a[q], None} OBVIOUS
<1> HIDE DEF r2, a2
<1>9. QED BY <1>3, <1>4, <1>5, <1>6, <1>7, <1>8

(***************************************************************************)
(* Each mutation leaves memories and rows that are in order, before the    *)
(* replay; a relation that is set aside is the one the mutation brought.   *)
(***************************************************************************)
LEMMA ApplyGives ==
    ASSUME IInv, NEW s \in Store, NEW e \in Mutation, Apply(s, e)
    PROVE  \E m \in Memories, r \in Rows, a \in Asides :
             /\ Replayed(s, m, r, a) /\ Joined(m, r)
             /\ \A y \in Memory : memory[s][y] # "absent" => m[y] # "absent" \/ Names(e, y)
             /\ \A q \in Relation : a[q] # None =>
                  \/ deferred[s][q] # None /\ a[q].of = deferred[s][q].of
                  \/ e.kind = "relation" /\ a[q].of = e.of
<1> USE DEF IInv
<1>1. PICK mems \in Memories, rows \in Rows, aside \in Asides :
        mems = memory[s] /\ rows = relation[s] /\ aside = deferred[s]
  BY DEF TypeOK, Memories, Rows, Asides, Tables
<1>2. Joined(mems, rows) BY <1>1, JoinedStores
<1>3. \A q \in Relation : rows[q] # None => rows[q].src \in Memory /\ rows[q].tgt \in Memory
  BY DEF Rows, Row
<1>4. ASSUME e.kind = "upsert", Replayed(s, [mems EXCEPT ![e.mem] = "live"], rows, aside)
      PROVE  \E m \in Memories, r \in Rows, a \in Asides :
               /\ Replayed(s, m, r, a) /\ Joined(m, r)
               /\ \A y \in Memory : mems[y] # "absent" => m[y] # "absent" \/ Names(e, y)
               /\ \A q \in Relation : a[q] # None =>
                    \/ aside[q] # None /\ a[q].of = aside[q].of
                    \/ e.kind = "relation" /\ a[q].of = e.of
  <2> DEFINE m == [mems EXCEPT ![e.mem] = "live"]
  <2>1. e.mem \in Memory BY <1>4 DEF Mutation
  <2>2. m \in Memories BY <2>1 DEF Memories, Tables
  <2>3. \A y \in Memory : mems[y] # "absent" => m[y] # "absent" BY <2>1 DEF Memories
  <2>4. Joined(m, rows) BY <1>2, <1>3, <2>3 DEF Joined
  <2>5. Replayed(s, m, rows, aside) BY <1>4
  <2> HIDE DEF m
  <2>6. QED BY <2>2, <2>3, <2>4, <2>5
<1>5. ASSUME e.kind = "soft",
             Replayed(s, [mems EXCEPT ![e.mem] = IF @ = "absent" THEN @ ELSE "deleted"],
                      rows, aside)
      PROVE  \E m \in Memories, r \in Rows, a \in Asides :
               /\ Replayed(s, m, r, a) /\ Joined(m, r)
               /\ \A y \in Memory : mems[y] # "absent" => m[y] # "absent" \/ Names(e, y)
               /\ \A q \in Relation : a[q] # None =>
                    \/ aside[q] # None /\ a[q].of = aside[q].of
                    \/ e.kind = "relation" /\ a[q].of = e.of
  <2> DEFINE m == [mems EXCEPT ![e.mem] = IF @ = "absent" THEN @ ELSE "deleted"]
  <2>1. e.mem \in Memory BY <1>5 DEF Mutation
  <2>2. m \in Memories BY <2>1 DEF Memories, Tables
  <2>3. \A y \in Memory : mems[y] # "absent" => m[y] # "absent" BY <2>1 DEF Memories
  <2>4. Joined(m, rows) BY <1>2, <1>3, <2>3 DEF Joined
  <2>5. Replayed(s, m, rows, aside) BY <1>5
  <2> HIDE DEF m
  <2>6. QED BY <2>2, <2>3, <2>4, <2>5
<1>6. ASSUME e.kind = "hard",
             Replayed(s, [mems EXCEPT ![e.mem] = "absent"],
                      IF mems[e.mem] = "absent" THEN rows ELSE Orphan(rows, e.mem), aside)
      PROVE  \E m \in Memories, r \in Rows, a \in Asides :
               /\ Replayed(s, m, r, a) /\ Joined(m, r)
               /\ \A y \in Memory : mems[y] # "absent" => m[y] # "absent" \/ Names(e, y)
               /\ \A q \in Relation : a[q] # None =>
                    \/ aside[q] # None /\ a[q].of = aside[q].of
                    \/ e.kind = "relation" /\ a[q].of = e.of
  <2> DEFINE m == [mems EXCEPT ![e.mem] = "absent"]
             r == IF mems[e.mem] = "absent" THEN rows ELSE Orphan(rows, e.mem)
  <2>1. e.mem \in Memory BY <1>6 DEF Mutation
  <2>2. m \in Memories BY <2>1 DEF Memories, Tables
  <2>3. \A y \in Memory : mems[y] # "absent" => m[y] # "absent" \/ Names(e, y)
    BY <1>6, <2>1 DEF Memories, Names
  <2>4. r \in Rows BY <2>1, OrphanKeepsRows
  <2>5. Joined(m, r)
    <3>1. CASE mems[e.mem] = "absent"
      <4>1. m = mems BY <2>1, <3>1 DEF Memories
      <4>2. QED BY <1>2, <3>1, <4>1
    <3>2. CASE mems[e.mem] # "absent"
      <4>1. r = Orphan(rows, e.mem) BY <3>2
      <4>2. \A q \in Relation : rows[q] # None => rows[q] \in Row BY DEF Rows
      <4> HIDE DEF r
      <4>3. QED BY <1>2, <1>3, <2>1, <4>1, <4>2 DEF Joined, Orphan, Memories, Row
    <3>3. QED BY <3>1, <3>2
  <2>6. Replayed(s, m, r, aside) BY <1>6
  <2> HIDE DEF m, r
  <2>7. QED BY <2>2, <2>3, <2>4, <2>5, <2>6
<1>7. ASSUME e.kind = "relation",
             IF BothHere(mems, e.of)
             THEN Replayed(s, mems, [rows EXCEPT ![e.id] = Upserted(e.of)],
                           [aside EXCEPT ![e.id] = None])
             ELSE Replayed(s, mems, rows, [aside EXCEPT ![e.id] = SetAside(@, e.of)])
      PROVE  \E m \in Memories, r \in Rows, a \in Asides :
               /\ Replayed(s, m, r, a) /\ Joined(m, r)
               /\ \A y \in Memory : mems[y] # "absent" => m[y] # "absent" \/ Names(e, y)
               /\ \A q \in Relation : a[q] # None =>
                    \/ aside[q] # None /\ a[q].of = aside[q].of
                    \/ e.kind = "relation" /\ a[q].of = e.of
  <2>1. e.id \in Relation /\ e.of \in Verdict BY <1>7 DEF Mutation
  <2>2. CASE BothHere(mems, e.of)
    <3> DEFINE r == [rows EXCEPT ![e.id] = Upserted(e.of)]
               a == [aside EXCEPT ![e.id] = None]
    <3>1. r \in Rows BY <2>1 DEF Rows, Row, Upserted, Verdict
    <3>2. a \in Asides /\ \A q \in Relation : a[q] # None => a[q] = aside[q]
      BY <2>1 DEF Asides
    <3>3. Joined(mems, r) BY <1>2, <2>1, <2>2 DEF Joined, Rows, Upserted, BothHere
    <3>4. Replayed(s, mems, r, a) BY <1>7, <2>2
    <3> HIDE DEF r, a
    <3>5. QED BY <3>1, <3>2, <3>3, <3>4
  <2>3. CASE ~BothHere(mems, e.of)
    <3> DEFINE a == [aside EXCEPT ![e.id] = SetAside(@, e.of)]
    <3>1. SetAside(aside[e.id], e.of) \in Aside /\ SetAside(aside[e.id], e.of).of = e.of
      BY <2>1 DEF SetAside, Asides, Aside
    <3>2. a \in Asides BY <2>1, <3>1 DEF Asides
    <3>3. \A q \in Relation : a[q] = aside[q] \/ a[q].of = e.of BY <2>1, <3>1 DEF Asides
    <3>4. Replayed(s, mems, rows, a) BY <1>7, <2>3
    <3> HIDE DEF a
    <3>5. QED BY <1>2, <1>7, <3>2, <3>3, <3>4
  <2>4. QED BY <2>2, <2>3
<1>8. QED BY <1>1, <1>4, <1>5, <1>6, <1>7 DEF Apply

(***************************************************************************)
(* A pulled mutation.                                                      *)
(***************************************************************************)
LEMMA PullKeeps == ASSUME IInv, NEW s \in Store, Pull(s) PROVE IInv'
<1> USE DEF IInv
<1>1. /\ outbox' = outbox /\ log' = log /\ asked' = asked /\ scan' = scan /\ replay' = replay
      /\ overlaps' = overlaps /\ ops' = ops /\ replays' = replays
      /\ cursor' = [cursor EXCEPT ![s] = @ + 1] /\ cursor[s] < Len(log)
  BY DEF Pull, inFlight
<1>2. PICK e \in Mutation : In(e, log) /\ Apply(s, e)
  <2>1. Len(log) \in Nat /\ DOMAIN log = 1..Len(log) BY DEF TypeOK
  <2>2. cursor[s] + 1 \in DOMAIN log BY <1>1, <2>1 DEF TypeOK
  <2>3. log[cursor[s] + 1] \in Mutation BY <2>1, <2>2 DEF TypeOK
  <2>4. PICK e \in Mutation : e = log[cursor[s] + 1] BY <2>3
  <2>5. Apply(s, e) BY <2>4 DEF Pull
  <2>6. QED BY <2>2, <2>4, <2>5 DEF In
<1>3. PICK m \in Memories, r \in Rows, a \in Asides :
        /\ Replayed(s, m, r, a) /\ Joined(m, r)
        /\ \A y \in Memory : memory[s][y] # "absent" => m[y] # "absent" \/ Names(e, y)
        /\ \A q \in Relation : a[q] # None =>
             \/ deferred[s][q] # None /\ a[q].of = deferred[s][q].of
             \/ e.kind = "relation" /\ a[q].of = e.of
  BY <1>2, ApplyGives
<1>4. PICK r2 \in Rows, a2 \in Asides :
        /\ Table(s, m, r2, a2) /\ Joined(m, r2) /\ Waits(m, a2)
        /\ \A q \in Relation : a2[q] \in {a[q], None}
  BY <1>3, ReplayedKeeps
<1>5. /\ memory' \in [Store -> Memories] /\ relation' \in [Store -> Rows]
      /\ deferred' \in [Store -> Asides]
      /\ VerdictsJoin' /\ DeferredWaits'
  BY <1>4, TablesKeep
<1>6. TypeOK'
  <2>1. cursor' \in [Store -> 0..Len(log')]
    <3>1. Len(log) \in Nat BY DEF TypeOK
    <3>2. QED BY <1>1, <3>1 DEF TypeOK
  <2>2. QED BY <1>1, <1>5, <2>1 DEF TypeOK, Memories, Rows, Asides, Tables
<1>7. \A y \in Memory : Known(y) => Known(y)'
  <2>1. \A t \in Store : \A y \in Memory :
          memory[t][y] # "absent" => memory'[t][y] # "absent" \/ Known(y)'
    <3> SUFFICES ASSUME NEW t \in Store, NEW y \in Memory, memory[t][y] # "absent"
                 PROVE  memory'[t][y] # "absent" \/ Known(y)'
      OBVIOUS
    <3>1. CASE t # s BY <1>4, <3>1 DEF Table, TypeOK
    <3>2. CASE t = s /\ ~Names(e, y) BY <1>3, <1>4, <3>2 DEF Table, TypeOK
    <3>3. CASE Names(e, y) BY <1>1, <1>2, <3>3 DEF Known
    <3>4. QED BY <3>1, <3>2, <3>3
  <2>2. QED BY <1>1, <2>1, KnownStays
<1>8. NewIsNew'
  <2>1. \A t \in Store : \A q \in Relation :
          deferred'[t][q] # None =>
             \E w \in Verdict : w = deferred'[t][q].of /\ (KnownPair(w) \/ KnownPair(w)')
    <3> SUFFICES ASSUME NEW t \in Store, NEW q \in Relation, deferred'[t][q] # None
                 PROVE  \E w \in Verdict : w = deferred'[t][q].of /\ KnownPair(w)
      OBVIOUS
    <3>1. CASE deferred[t][q] # None /\ deferred'[t][q].of = deferred[t][q].of
      <4>1. deferred[t][q].of \in Verdict BY <3>1 DEF TypeOK, Aside
      <4>2. QED BY <3>1, <4>1 DEF NewIsNew
    <3>2. CASE e.kind = "relation" /\ deferred'[t][q].of = e.of
      <4>1. e.of \in Verdict BY <3>2 DEF Mutation
      <4>2. QED BY <1>2, <3>2, <4>1 DEF NewIsNew
    <3>3. CASE t # s
      <4>1. deferred'[t] = deferred[t] BY <1>4, <3>3 DEF Table, TypeOK
      <4>2. QED BY <3>1, <4>1
    <3>4. CASE t = s
      <4>1. deferred'[t] = a2 BY <1>4, <3>4 DEF Table, TypeOK
      <4>2. a2[q] # None /\ a2[q] = a[q] BY <1>4, <4>1
      <4>3. QED BY <1>3, <3>1, <3>2, <3>4, <4>1, <4>2
    <3>5. QED BY <3>3, <3>4
  <2>2. QED BY <1>1, <1>7, <2>1, NewStaysNew
<1>9. QED BY <1>5, <1>6, <1>8

(***************************************************************************)
(* A row that was listed is replayed as it was listed.                     *)
(***************************************************************************)
LEMMA ReplayOneKeeps ==
    ASSUME IInv, NEW s \in Store, NEW i \in replay[s], ReplayOne(s, i)
    PROVE  IInv'
<1> USE DEF IInv
<1>1. /\ memory' = memory /\ outbox' = outbox /\ log' = log /\ cursor' = cursor
      /\ asked' = asked /\ scan' = scan /\ overlaps' = overlaps /\ ops' = ops
      /\ replays' = replays /\ replay' = [replay EXCEPT ![s] = @ \ {i}]
  BY DEF ReplayOne, wire
<1>2. PICK q \in Relation, row \in Aside : row = i.row /\ q = i.id
  BY DEF TypeOK
<1>3. row.of \in Verdict /\ row.tries + 1 \in Nat BY DEF Aside
<1>4. PICK m \in Memories, rows \in Rows, aside \in Asides :
        m = memory[s] /\ rows = relation[s] /\ aside = deferred[s]
  BY DEF TypeOK, Memories, Rows, Asides, Tables
<1>5. Joined(m, rows) /\ Waits(m, aside) BY <1>4, JoinedStores, WaitingStores
<1>6. \E r \in Rows, a \in Asides :
        /\ Table(s, m, r, a) /\ Joined(m, r) /\ Waits(m, a)
        /\ \A d \in Relation : a[d] # None => a[d] = aside[d] \/ a[d].of = row.of
  <2>1. CASE BothHere(m, row.of)
    <3> DEFINE r == [rows EXCEPT ![q] = Upserted(row.of)]
               a == [aside EXCEPT ![q] = None]
    <3>1. r \in Rows BY <1>3 DEF Rows, Row, Upserted, Verdict
    <3>2. a \in Asides /\ \A d \in Relation : a[d] \in {aside[d], None} BY DEF Asides
    <3>3. Joined(m, r) BY <1>5, <2>1 DEF Joined, Rows, Upserted, BothHere
    <3>4. Waits(m, a) BY <1>5, <3>2 DEF Waits
    <3>5. memory' = [memory EXCEPT ![s] = m] BY <1>1, <1>4 DEF TypeOK
    <3>6. relation' = [relation EXCEPT ![s] = r] BY <1>2, <1>4, <2>1 DEF ReplayOne, TypeOK
    <3>7. deferred' = [deferred EXCEPT ![s] = a] BY <1>2, <1>4, <2>1 DEF ReplayOne, TypeOK
    <3> HIDE DEF r, a
    <3>8. QED BY <3>1, <3>2, <3>3, <3>4, <3>5, <3>6, <3>7 DEF Table
  <2>2. CASE ~BothHere(m, row.of)
    <3> DEFINE again == [of |-> row.of, tries |-> row.tries + 1, dead |-> GivenUp(row.tries + 1)]
               a == [aside EXCEPT ![q] = again]
    <3>1. again \in Aside /\ again.of = row.of BY <1>3 DEF Aside, GivenUp
    <3> HIDE DEF again
    <3>2. a \in Asides BY <3>1 DEF Asides
    <3>3. \A d \in Relation : a[d] = aside[d] \/ a[d].of = row.of BY <3>1 DEF Asides
    <3>4. Waits(m, a) BY <1>5, <2>2, <3>3 DEF Waits
    <3>5. memory' = [memory EXCEPT ![s] = m] BY <1>1, <1>4 DEF TypeOK
    <3>6. relation' = [relation EXCEPT ![s] = rows] BY <1>2, <1>4, <2>2 DEF ReplayOne, TypeOK
    <3>7. deferred' = [deferred EXCEPT ![s] = a]
      BY <1>2, <1>4, <2>2 DEF ReplayOne, TypeOK, again
    <3> HIDE DEF a
    <3>8. QED BY <1>5, <3>2, <3>3, <3>4, <3>5, <3>6, <3>7 DEF Table
  <2>3. QED BY <2>1, <2>2
<1>7. PICK r \in Rows, a \in Asides :
        /\ Table(s, m, r, a) /\ Joined(m, r) /\ Waits(m, a)
        /\ \A d \in Relation : a[d] # None => a[d] = aside[d] \/ a[d].of = row.of
  BY <1>6
<1>8. /\ memory' \in [Store -> Memories] /\ relation' \in [Store -> Rows]
      /\ deferred' \in [Store -> Asides]
      /\ VerdictsJoin' /\ DeferredWaits'
  BY <1>7, TablesKeep
<1>9. /\ \A t \in Store : replay'[t] \subseteq replay[t]
      /\ replay' \in [Store -> SUBSET [id : Relation, row : Aside]]
  BY <1>1 DEF TypeOK
<1>10. TypeOK' BY <1>1, <1>8, <1>9 DEF TypeOK, Memories, Rows, Asides, Tables
<1>11. \A y \in Memory : Known(y) => Known(y)' BY <1>1 DEF Known
<1>12. NewIsNew'
  <2>1. KnownPair(row.of) BY <1>2 DEF NewIsNew
  <2>2. \A t \in Store : \A d \in Relation :
          deferred'[t][d] # None =>
             \E w \in Verdict : w = deferred'[t][d].of /\ (KnownPair(w) \/ KnownPair(w)')
    <3> SUFFICES ASSUME NEW t \in Store, NEW d \in Relation, deferred'[t][d] # None
                 PROVE  \E w \in Verdict : w = deferred'[t][d].of /\ KnownPair(w)
      OBVIOUS
    <3>1. CASE deferred'[t][d] = deferred[t][d]
      <4>1. deferred[t][d].of \in Verdict BY <3>1 DEF TypeOK, Aside
      <4>2. QED BY <3>1, <4>1 DEF NewIsNew
    <3>2. CASE deferred'[t][d].of = row.of BY <1>3, <2>1, <3>2
    <3>3. CASE t # s
      <4>1. deferred'[t] = deferred[t] BY <1>7, <3>3 DEF Table, TypeOK
      <4>2. QED BY <3>1, <4>1
    <3>4. CASE t = s
      <4>1. deferred'[t] = a BY <1>7, <3>4 DEF Table, TypeOK
      <4>2. QED BY <1>4, <1>7, <3>1, <3>2, <3>4, <4>1
    <3>5. QED BY <3>3, <3>4
  <2>3. QED BY <1>1, <1>9, <1>11, <2>2, NewStaysNew
<1>13. QED BY <1>8, <1>10, <1>12

-----------------------------------------------------------------------------
(* The theorems.                                                           *)

LEMMA IInvInit == Init => IInv
<1> SUFFICES ASSUME Init PROVE IInv
  OBVIOUS
<1>1. PICK saved \in Starts : memory =
        [s \in Store |-> [m \in Memory |-> IF m \in saved THEN "live" ELSE "absent"]]
  BY DEF Init
<1>2. memory \in [Store -> [Memory -> {"absent", "live", "deleted"}]] BY <1>1
<1>3. \A x : ~In(x, <<>>) BY DEF In
<1>4. <<>> \in Seq(Mutation) /\ Len(<<>>) = 0 OBVIOUS
<1>5. TypeOK BY <1>2, <1>4 DEF Init, TypeOK
<1>6. VerdictsJoin /\ DeferredWaits BY DEF Init, VerdictsJoin, DeferredWaits
<1>7. NewIsNew BY <1>3 DEF Init, NewIsNew
<1>8. QED BY <1>5, <1>6, <1>7 DEF IInv

LEMMA IInvNext == IInv /\ [Next]_vars => IInv'
<1> SUFFICES ASSUME IInv, [Next]_vars PROVE IInv'
  OBVIOUS
<1>1. CASE UNCHANGED vars
  <2>1. TypeOK' BY <1>1 DEF vars, IInv, TypeOK
  <2>2. VerdictsJoin' BY <1>1 DEF vars, IInv, VerdictsJoin, Present
  <2>3. DeferredWaits' BY <1>1 DEF vars, IInv, DeferredWaits
  <2>4. NewIsNew' BY <1>1 DEF vars, IInv, NewIsNew, KnownPair, Known
  <2>5. QED BY <2>1, <2>2, <2>3, <2>4 DEF IInv
<1>2. ASSUME NEW s \in Store, NEW m \in Memory,
             Edit(s, m) \/ \E hard \in BOOLEAN : Delete(s, m, hard)
      PROVE  IInv'
  BY <1>2, EditKeeps, DeleteKeeps
<1>3. ASSUME NEW s \in Store, NEW a \in Memory, NEW b \in Memory,
             \/ FindCandidates(s, a, b) \/ ScanPair(s, a, b)
             \/ \E verb \in Verb : Compare(s, a, b, verb)
             \/ \E r \in Relation : Consolidate(s, a, b, r)
      PROVE  IInv'
  BY <1>3, ReadsKeep, VerdictsKeep, ConsolidateKeeps
<1>4. ASSUME NEW s \in Store, NEW r \in Relation,
             FilePending(s, r) \/ \E verb \in Verb : Judge(s, r, verb)
      PROVE  IInv'
  BY <1>4, FilePendingKeeps, VerdictsKeep
<1>5. ASSUME NEW s \in Store,
             \/ ScanVerdict(s) \/ Push(s) \/ Pull(s) \/ ListDeferred(s)
             \/ \E i \in replay[s] : ReplayOne(s, i)
      PROVE  IInv'
  <2>1. CASE ListDeferred(s)
    BY <2>1, ReadsKeep
  <2>2. CASE \E i \in replay[s] : ReplayOne(s, i) BY <2>2, ReplayOneKeeps
  <2>3. QED BY <1>5, <2>1, <2>2, VerdictsKeep, PushKeeps, PullKeeps
<1>6. QED BY <1>1, <1>2, <1>3, <1>4, <1>5 DEF Next

(***************************************************************************)
(* The types, for any number of stores, memories and relations.            *)
(***************************************************************************)
THEOREM TypeCorrect == Spec => []TypeOK
<1>1. IInv => TypeOK BY DEF IInv
<1>2. QED BY <1>1, IInvInit, IInvNext, PTL DEF Spec

(***************************************************************************)
(* Every verdict in every store is about two memories that are there,      *)
(* whatever is judged, deleted, pulled and replayed (orphan_relations_tx,  *)
(* validate_cross_project_guard).                                          *)
(***************************************************************************)
THEOREM VerdictsAboutMemories == Spec => []VerdictsJoin
<1>1. IInv => VerdictsJoin BY DEF IInv
<1>2. QED BY <1>1, IInvInit, IInvNext, PTL DEF Spec

(***************************************************************************)
(* A relation that is set aside and not given up waits for a memory that   *)
(* is not there: it is applied in the transaction that brings the second   *)
(* one (replay_deferred_relations_tx).                                     *)
(***************************************************************************)
THEOREM NothingWaitsForNothing == Spec => []DeferredWaits
<1>1. IInv => DeferredWaits BY DEF IInv
<1>2. QED BY <1>1, IInvInit, IInvNext, PTL DEF Spec

-----------------------------------------------------------------------------
(* Quiet stores hold the last verdict.                                     *)

About(e, r) == e.kind = "relation" /\ e.id = r

\* Nothing about a relation is still to be pulled or pushed.
Settled(s, r) ==
    /\ \A p \in (cursor[s] + 1)..Len(log) : ~About(log[p], r)
    /\ \A e \in Mutation : In(e, outbox[s]) => ~About(e, r)

Says(row, v) == row # None /\ row.src = v.src /\ row.tgt = v.tgt /\ row.verb = v.verb

\* A store has taken a verdict in: it is in the row, or it waits, and whatever
\* a batch replay has listed of the relation is that verdict too.
Took(s, r, v) ==
    /\ deferred[s][r] = None => Says(relation[s][r], v)
    /\ deferred[s][r] # None => deferred[s][r].of = v
    /\ \A i \in replay[s] : i.id = r => i.row.of = v

LastTaken ==
    ~overlaps =>
        \A s \in Store, r \in Relation : Settled(s, r) =>
            \A p \in 1..Len(log) : IsLast(p, r) => Took(s, r, log[p].of)

\* A relation that was ever sent is a row somewhere, so its id is not taken
\* for a new one.
SentIsHeld ==
    \A r \in Relation :
        (\E e \in Mutation : /\ About(e, r)
                             /\ In(e, log) \/ \E s \in Store : In(e, outbox[s]))
        => \E s \in Store : relation[s][r] # None

VerdictInv == LastTaken /\ SentIsHeld

\* Rows are never dropped, so an id that was sent stays taken.
LEMMA SentStaysHeld ==
    ASSUME SentIsHeld,
           \A t \in Store, q \in Relation : relation[t][q] # None => relation'[t][q] # None,
           \A e \in Mutation, q \in Relation :
             About(e, q) /\ (In(e, log') \/ \E t \in Store : In(e, outbox'[t]))
             => \/ In(e, log) \/ \E t \in Store : In(e, outbox[t])
                \/ \E t \in Store : relation'[t][q] # None
    PROVE  SentIsHeld'
<1> SUFFICES ASSUME NEW r \in Relation, NEW e \in Mutation, About(e, r),
                    In(e, log') \/ \E s \in Store : In(e, outbox'[s])
             PROVE  \E s \in Store : relation'[s][r] # None
  BY DEF SentIsHeld
<1>1. CASE \E t \in Store : relation'[t][r] # None
  BY <1>1
<1>2. CASE In(e, log) \/ \E t \in Store : In(e, outbox[t])
  BY <1>2 DEF SentIsHeld
<1>3. QED BY <1>1, <1>2

\* A step that reads no further in the log: what is settled after it was
\* settled before.
LEMMA StillTaken ==
    ASSUME LastTaken, log' = log, cursor' = cursor, overlaps' = overlaps,
           \A t \in Store : \A e \in Mutation : In(e, outbox[t]) => In(e, outbox'[t]),
           \A t \in Store, q \in Relation, p \in 1..Len(log) :
             /\ ~overlaps /\ About(log[p], q) /\ Settled(t, q)'
             /\ Took(t, q, log[p].of)
             => Took(t, q, log[p].of)'
    PROVE  LastTaken'
<1> SUFFICES ASSUME ~overlaps, NEW t \in Store, NEW q \in Relation, Settled(t, q)',
                    NEW p \in 1..Len(log), IsLast(p, q)'
             PROVE  Took(t, q, log[p].of)'
  BY DEF LastTaken
<1>1. Settled(t, q) BY DEF Settled
<1>2. IsLast(p, q) /\ About(log[p], q) BY DEF IsLast, About
<1>3. QED BY <1>1, <1>2 DEF LastTaken

\* A verdict that is given is queued: its relation is not settled until it
\* comes back.
LEMMA RecordedLater ==
    ASSUME TypeOK, VerdictInv, NEW s \in Store, NEW r \in Relation, NEW v \in Verdict,
           NEW row \in Row, relation' = [relation EXCEPT ![s][r] = row],
           \A t \in Store : \A e \in Mutation : In(e, outbox[t]) => In(e, outbox'[t]),
           \A t \in Store : \A e \in Mutation :
             In(e, outbox'[t]) => In(e, outbox[t]) \/ e = Judged(r, v) \/ e.kind # "relation",
           In(Judged(r, v), outbox'[s]),
           UNCHANGED <<deferred, log, cursor, replay, overlaps>>
    PROVE  VerdictInv'
<1>1. Judged(r, v) \in Mutation /\ About(Judged(r, v), r)
  BY DEF Judged, Mutation, About
<1>2. ~Settled(s, r)' BY <1>1 DEF Settled
<1>3. \A t \in Store, q \in Relation : t # s \/ q # r => relation'[t][q] = relation[t][q]
  BY DEF TypeOK
<1>4. LastTaken'
  <2>1. ASSUME NEW t \in Store, NEW q \in Relation, NEW p \in 1..Len(log),
               Settled(t, q)', Took(t, q, log[p].of)
        PROVE  Took(t, q, log[p].of)'
    <3>1. t # s \/ q # r BY <1>2, <2>1
    <3>2. relation'[t][q] = relation[t][q] BY <1>3, <3>1
    <3>3. QED BY <2>1, <3>2 DEF Took
  <2>2. QED BY <2>1, StillTaken DEF VerdictInv
<1>5. SentIsHeld'
  <2>1. relation'[s][r] # None BY NoneAssumption DEF TypeOK
  <2>2. \A t \in Store, q \in Relation : relation[t][q] # None => relation'[t][q] # None
    BY <1>3, <2>1
  <2>3. \A e \in Mutation, q \in Relation : About(e, q) /\ e = Judged(r, v) => q = r
    BY DEF About, Judged
  <2>4. QED BY <2>1, <2>2, <2>3, SentStaysHeld DEF VerdictInv, About
<1>6. QED BY <1>4, <1>5 DEF VerdictInv

LEMMA RecordTakes ==
    ASSUME TypeOK, VerdictInv, NEW s \in Store, NEW r \in Relation, NEW v \in Verdict,
           Record(s, r, v), UNCHANGED <<deferred, log, cursor, replay, overlaps>>
    PROVE  VerdictInv'
<1> DEFINE row == [src |-> v.src, tgt |-> v.tgt, verb |-> v.verb, status |-> "judged"]
<1>1. row \in Row /\ Judged(r, v) \in Mutation
  BY DEF Row, Verdict, Judged, Mutation
<1>2. relation' = [relation EXCEPT ![s][r] = row] /\ Queue(s, Judged(r, v))
  BY DEF Record, Queue
<1>3. \A t \in Store : \A x :
        In(x, outbox'[t]) <=> In(x, outbox[t]) \/ (t = s /\ x = Judged(r, v))
  BY <1>1, <1>2, Queued
<1> HIDE DEF row
<1>4. QED BY <1>1, <1>2, <1>3, RecordedLater

\* The ways a verdict is given.
LEMMA VerdictsTaken ==
    ASSUME TypeOK, VerdictInv, NEW s \in Store,
           \/ \E r \in Relation, verb \in Verb : Judge(s, r, verb)
           \/ \E a, b \in Memory, verb \in Verb : Compare(s, a, b, verb)
           \/ ScanVerdict(s)
    PROVE  VerdictInv'
<1>1. ASSUME NEW r \in Relation, NEW verb \in Verb, Judge(s, r, verb) PROVE VerdictInv'
  <2>1. PICK v : v = [src |-> relation[s][r].src, tgt |-> relation[s][r].tgt, verb |-> verb]
    OBVIOUS
  <2>2. relation[s][r] \in Row BY <1>1 DEF Judge, TypeOK
  <2>3. v \in Verdict BY <2>1, <2>2 DEF Verdict, Row
  <2>4. Record(s, r, v) /\ UNCHANGED <<deferred, log, cursor, replay, overlaps>>
    BY <1>1, <2>1 DEF Judge, inFlight
  <2>5. QED BY <2>3, <2>4, RecordTakes
<1>2. ASSUME NEW a \in Memory, NEW b \in Memory, NEW verb \in Verb, Compare(s, a, b, verb)
      PROVE  VerdictInv'
  <2>1. PICK r \in Relation, v \in Verdict : Record(s, r, v)
    BY <1>2, PairIsRecorded DEF Compare
  <2>2. UNCHANGED <<deferred, log, cursor, replay, overlaps>>
    BY <1>2 DEF Compare, inFlight
  <2>3. QED BY <2>1, <2>2, RecordTakes
<1>3. ASSUME ScanVerdict(s) PROVE VerdictInv'
  <2>1. UNCHANGED <<deferred, log, cursor, replay, overlaps>> BY <1>3 DEF ScanVerdict
  <2>2. PICK a \in Memory, b \in Memory : scan[s] = <<a, b>>
    BY <1>3 DEF ScanVerdict, TypeOK, Pair
  <2>3. ASSUME NEW verb \in Verb, Judgeable(s, a, b), JudgePair(s, a, b, verb)
        PROVE  VerdictInv'
    <3>1. PICK r \in Relation, v \in Verdict : Record(s, r, v) BY <2>3, PairIsRecorded
    <3>2. QED BY <2>1, <3>1, RecordTakes
  <2>4. CASE UNCHANGED <<relation, outbox>>
    <3>1. LastTaken' BY <2>1, <2>4, StillTaken DEF VerdictInv, Took
    <3>2. SentIsHeld' BY <2>1, <2>4, SentStaysHeld DEF VerdictInv
    <3>3. QED BY <3>1, <3>2 DEF VerdictInv
  <2>5. Judgeable(s, scan[s][1], scan[s][2]) => Judgeable(s, a, b)
    BY <2>2
  <2>6. \A verb \in Verb : JudgePair(s, scan[s][1], scan[s][2], verb) => JudgePair(s, a, b, verb)
    BY <2>2
  <2>7. QED BY <1>3, <2>3, <2>4, <2>5, <2>6 DEF ScanVerdict
<1>4. QED BY <1>1, <1>2, <1>3

LEMMA ConsolidateTakes ==
    ASSUME TypeOK, VerdictInv, NEW s \in Store, NEW n \in Memory, NEW x \in Memory,
           NEW r \in Relation, Consolidate(s, n, x, r)
    PROVE  VerdictInv'
<1> DEFINE v == [src |-> n, tgt |-> x, verb |-> "supersedes"]
           row == [src |-> n, tgt |-> x, verb |-> "supersedes", status |-> "judged"]
<1>1. /\ v \in Verdict /\ row \in Row /\ Put(n) \in Mutation /\ Judged(r, v) \in Mutation
      /\ Put(n).kind # "relation"
  BY VerbAssumption DEF Verdict, Row, Put, Judged, Mutation
<1>2. /\ relation' = [relation EXCEPT ![s][r] = row]
      /\ UNCHANGED <<deferred, log, cursor, replay, overlaps>>
  BY DEF Consolidate, inFlight
<1>3. \A t \in Store : \A y :
        In(y, outbox'[t]) <=> In(y, outbox[t]) \/ (t = s /\ y \in {Put(n), Judged(r, v)})
  <2>1. PICK q \in Seq(Mutation) : q = outbox[s] BY DEF TypeOK
  <2>2. \A y : In(y, q \o <<Put(n), Judged(r, v)>>)
                    <=> In(y, q) \/ y = Put(n) \/ y = Judged(r, v)
    BY <1>1, <2>1, PairAdds
  <2>3. outbox' = [outbox EXCEPT ![s] = q \o <<Put(n), Judged(r, v)>>]
    BY <2>1 DEF Consolidate
  <2>4. /\ outbox'[s] = q \o <<Put(n), Judged(r, v)>>
        /\ \A t \in Store : t # s => outbox'[t] = outbox[t]
    BY <2>3 DEF TypeOK
  <2>5. QED BY <2>1, <2>2, <2>4
<1> HIDE DEF v, row
<1>4. QED BY <1>1, <1>2, <1>3, RecordedLater

\* A proposal gets an id nobody has sent anything about.
LEMMA ProposalTakes ==
    ASSUME TypeOK, VerdictInv, NEW s \in Store, NEW r \in Relation, FilePending(s, r)
    PROVE  VerdictInv'
<1>1. /\ UNCHANGED <<memory, deferred, outbox, log, cursor, replay, overlaps>>
      /\ Fresh(r)
  BY DEF FilePending, wire
<1>2. \A t \in Store, q \in Relation : t # s \/ q # r => relation'[t][q] = relation[t][q]
  BY DEF FilePending, TypeOK
<1>3. relation[s][r] = None /\ \A t \in Store : relation[t][r] = None
  BY <1>1 DEF Fresh
<1>4. \A p \in 1..Len(log) : ~About(log[p], r)
  <2> SUFFICES ASSUME NEW p \in 1..Len(log), About(log[p], r) PROVE FALSE
    OBVIOUS
  <2>1. log[p] \in Mutation /\ p \in DOMAIN log BY DEF TypeOK
  <2>2. In(log[p], log) BY <2>1 DEF In
  <2>3. QED BY <1>3, <2>1, <2>2 DEF VerdictInv, SentIsHeld
<1>5. LastTaken'
  <2>1. ASSUME NEW t \in Store, NEW q \in Relation, NEW p \in 1..Len(log),
               About(log[p], q), Took(t, q, log[p].of)
        PROVE  Took(t, q, log[p].of)'
    <3>1. q # r BY <1>4, <2>1
    <3>2. relation'[t][q] = relation[t][q] BY <1>2, <3>1
    <3>3. QED BY <1>1, <2>1, <3>2 DEF Took
  <2>2. QED BY <1>1, <2>1, StillTaken DEF VerdictInv
<1>6. SentIsHeld'
  <2>1. \A t \in Store, q \in Relation : relation[t][q] # None => relation'[t][q] # None
    BY <1>2, <1>3
  <2>2. QED BY <1>1, <2>1, SentStaysHeld DEF VerdictInv
<1>7. QED BY <1>5, <1>6 DEF VerdictInv

\* What is queued about a memory leaves its relations' verdicts alone; a mark
\* changes no verb.
LEMMA MemoriesTake ==
    ASSUME TypeOK, VerdictInv, NEW s \in Store, NEW x \in Memory,
           Edit(s, x) \/ \E hard \in BOOLEAN : Delete(s, x, hard)
    PROVE  VerdictInv'
<1>1. PICK e \in Mutation : Queue(s, e) /\ e.kind # "relation"
  <2>1. CASE Edit(s, x)
    <3>1. Put(x) \in Mutation /\ Put(x).kind # "relation" BY DEF Put, Mutation
    <3>2. QED BY <2>1, <3>1 DEF Edit
  <2>2. ASSUME NEW hard \in BOOLEAN, Delete(s, x, hard)
        PROVE  \E e \in Mutation : Queue(s, e) /\ e.kind # "relation"
    BY <2>2 DEF Delete, Mutation
  <2>3. QED BY <2>1, <2>2
<1>2. \A t \in Store : \A y : In(y, outbox'[t]) <=> In(y, outbox[t]) \/ (t = s /\ y = e)
  BY <1>1, Queued
<1>3. UNCHANGED <<deferred, log, cursor, replay, overlaps>>
  BY DEF Edit, Delete, tables, inFlight
<1>4. ASSUME NEW t \in Store, NEW q \in Relation
      PROVE  /\ relation[t][q] # None => relation'[t][q] # None
             /\ \A v : Says(relation[t][q], v) => Says(relation'[t][q], v)
  <2>1. CASE relation' = relation BY <2>1
  <2>2. CASE relation' = [relation EXCEPT ![s] = Orphan(@, x)]
    <3>1. relation[t][q] # None =>
            /\ relation[t][q] \in Row
            /\ [relation[t][q] EXCEPT !.status = "orphaned"] \in Row
      <4>1. relation[t][q] # None => relation[t][q] \in Row BY DEF TypeOK
      <4>2. \A row \in Row : [row EXCEPT !.status = "orphaned"] \in Row BY DEF Row
      <4>3. QED BY <4>1, <4>2
    <3>2. \/ relation'[t][q] = relation[t][q]
          \/ /\ relation[t][q] # None
             /\ relation'[t][q] = [relation[t][q] EXCEPT !.status = "orphaned"]
      BY <2>2 DEF TypeOK, Orphan
    <3>3. QED BY <3>1, <3>2, NoneAssumption DEF Says, Row
  <2>3. QED BY <2>1, <2>2 DEF Edit, Delete, Deleted, tables
<1>5. LastTaken'
  <2>1. \A t \in Store, q \in Relation : \A v : Took(t, q, v) => Took(t, q, v)'
    BY <1>3, <1>4 DEF Took, Says
  <2>2. QED BY <1>2, <1>3, <2>1, StillTaken DEF VerdictInv
<1>6. SentIsHeld' BY <1>1, <1>2, <1>3, <1>4, SentStaysHeld DEF VerdictInv, About
<1>7. QED BY <1>5, <1>6 DEF VerdictInv

\* What is read into a transaction that comes later is what is there.
LEMMA ReadsTake ==
    ASSUME TypeOK, VerdictInv, NEW s \in Store,
           \/ \E a, b \in Memory : FindCandidates(s, a, b) \/ ScanPair(s, a, b)
           \/ ListDeferred(s)
    PROVE  VerdictInv'
<1>1. UNCHANGED <<relation, deferred, outbox, log, cursor, overlaps>>
  BY DEF FindCandidates, ScanPair, ListDeferred, tables, wire
<1>2. \A t \in Store : \A i \in replay'[t] :
        i \in replay[t] \/ (deferred[t][i.id] # None /\ i.row = deferred[t][i.id])
  <2>1. CASE ListDeferred(s)
    <3>1. \A t \in Store : t # s => replay'[t] = replay[t]
      BY <2>1 DEF TypeOK, ListDeferred
    <3>2. replay'[s] = {[id |-> r, row |-> deferred[s][r]] :
            r \in {q \in Relation : deferred[s][q] # None /\ ~deferred[s][q].dead}}
      BY <2>1 DEF TypeOK, ListDeferred
    <3>3. QED BY <3>1, <3>2
  <2>2. CASE replay' = replay BY <2>2
  <2>3. QED BY <2>1, <2>2 DEF FindCandidates, ScanPair
<1>3. \A t \in Store, q \in Relation : \A v : Took(t, q, v) => Took(t, q, v)'
  BY <1>1, <1>2 DEF Took
<1>4. LastTaken' BY <1>1, <1>3, StillTaken DEF VerdictInv
<1>5. SentIsHeld' BY <1>1, SentStaysHeld DEF VerdictInv
<1>6. QED BY <1>4, <1>5 DEF VerdictInv

\* A row that was listed is the verdict the store waits with.
LEMMA ReplayOneTakes ==
    ASSUME TypeOK, VerdictInv, NEW s \in Store, NEW i \in replay[s], ReplayOne(s, i)
    PROVE  VerdictInv'
<1>1. UNCHANGED <<memory, outbox, log, cursor, overlaps>>
  BY DEF ReplayOne, wire
<1>2. PICK r \in Relation, old \in Aside : old = i.row /\ r = i.id
  BY DEF TypeOK
<1>3. old.of \in Verdict /\ old.tries + 1 \in Nat BY DEF Aside
<1>4. \A t \in Store : replay'[t] \subseteq replay[t] BY DEF ReplayOne, TypeOK
<1>5. ASSUME NEW t \in Store, NEW q \in Relation, t # s \/ q # r
      PROVE  relation'[t][q] = relation[t][q] /\ deferred'[t][q] = deferred[t][q]
  BY <1>2, <1>5 DEF ReplayOne, TypeOK
<1>6. \/ /\ relation'[s][r] = Upserted(old.of) /\ deferred'[s][r] = None
      \/ /\ relation'[s][r] = relation[s][r]
         /\ deferred'[s][r] # None /\ deferred'[s][r].of = old.of
  <2> DEFINE again == [of |-> old.of, tries |-> old.tries + 1, dead |-> GivenUp(old.tries + 1)]
  <2>1. again \in Aside /\ again.of = old.of BY <1>3 DEF Aside, GivenUp
  <2>2. again # None BY <2>1, NoneAssumption
  <2>3. CASE BothHere(memory[s], old.of)
    BY <1>2, <2>3 DEF ReplayOne, TypeOK
  <2>4. CASE ~BothHere(memory[s], old.of)
    <3>1. deferred'[s][r] = again /\ relation' = relation
      BY <1>2, <2>4 DEF ReplayOne, TypeOK
    <3> HIDE DEF again
    <3>2. QED BY <2>1, <2>2, <3>1
  <2>5. QED BY <2>3, <2>4
<1>7. Upserted(old.of) # None /\ Says(Upserted(old.of), old.of)
  <2>1. Upserted(old.of) \in Row BY <1>3 DEF Upserted, Verdict, Row
  <2>2. QED BY <2>1, NoneAssumption DEF Says, Upserted
<1>8. LastTaken'
  <2>1. ASSUME NEW t \in Store, NEW q \in Relation, NEW v, Took(t, q, v)
        PROVE  Took(t, q, v)'
    <3>1. CASE t # s \/ q # r BY <1>4, <1>5, <2>1, <3>1 DEF Took
    <3>2. CASE t = s /\ q = r
      <4>1. old.of = v BY <1>2, <2>1, <3>2 DEF Took
      <4>2. QED BY <1>4, <1>6, <1>7, <2>1, <3>2, <4>1 DEF Took
    <3>3. QED BY <3>1, <3>2
  <2>2. QED BY <1>1, <2>1, StillTaken DEF VerdictInv
<1>9. SentIsHeld'
  <2>1. \A t \in Store, q \in Relation : relation[t][q] # None => relation'[t][q] # None
    BY <1>5, <1>6, <1>7
  <2>2. QED BY <1>1, <2>1, SentStaysHeld DEF VerdictInv
<1>10. QED BY <1>8, <1>9 DEF VerdictInv

\* A mutation that is pushed is still to be pulled, by its own store as well.
LEMMA PushTakes ==
    ASSUME TypeOK, VerdictInv, NEW s \in Store, Push(s)
    PROVE  VerdictInv'
<1>1. UNCHANGED <<memory, relation, deferred, cursor, replay, overlaps>>
  BY DEF Push, tables, inFlight
<1>2. PICK q \in Seq(Mutation) : q = outbox[s] /\ q # <<>>
  BY DEF Push, TypeOK
<1>3. PICK e \in Mutation : e = Head(q) /\ In(e, q)
  BY <1>2, TailDrops
<1>4. /\ outbox' = [outbox EXCEPT ![s] = Tail(q)] /\ log' = Append(log, e)
      /\ log \in Seq(Mutation) /\ Len(log) \in Nat
  BY <1>2, <1>3 DEF Push, TypeOK
<1>5. /\ Len(log') = Len(log) + 1 /\ log'[Len(log) + 1] = e
      /\ \A p \in 1..Len(log) : log'[p] = log[p]
      /\ \A x : In(x, log') <=> In(x, log) \/ x = e
  BY <1>4, AppendAdds
<1>6. /\ \A t \in Store : \A x : In(x, outbox'[t]) => In(x, outbox[t])
      /\ \A t \in Store : \A x : In(x, outbox[t]) => In(x, outbox'[t]) \/ x = e
  <2>1. \A x : In(x, q) <=> In(x, Tail(q)) \/ x = e
    BY <1>2, <1>3, TailDrops
  <2>2. outbox'[s] = Tail(q) /\ \A t \in Store : t # s => outbox'[t] = outbox[t]
    BY <1>4 DEF TypeOK
  <2>3. QED BY <1>2, <2>1, <2>2
<1>7. LastTaken'
  <2> SUFFICES ASSUME ~overlaps, NEW t \in Store, NEW r \in Relation, Settled(t, r)',
                      NEW p \in 1..Len(log'), IsLast(p, r)'
               PROVE  Took(t, r, log[p].of)'
    BY <1>1 DEF LastTaken
  <2>1. cursor[t] \in Nat /\ cursor[t] <= Len(log) BY <1>4 DEF TypeOK
  <2>2. ~About(e, r)
    <3>1. Len(log) + 1 \in (cursor'[t] + 1)..Len(log') BY <1>1, <1>4, <1>5, <2>1
    <3>2. QED BY <1>5, <3>1 DEF Settled
  <2>3. Settled(t, r)
    <3>1. \A k \in (cursor[t] + 1)..Len(log) :
            k \in (cursor'[t] + 1)..Len(log') /\ k \in 1..Len(log)
      BY <1>1, <1>4, <1>5, <2>1
    <3>2. \A k \in (cursor[t] + 1)..Len(log) : ~About(log[k], r)
      BY <1>5, <3>1 DEF Settled
    <3>3. QED BY <1>6, <2>2, <3>2 DEF Settled
  <2>4. p \in 1..Len(log)
    <3>1. p # Len(log) + 1 BY <1>5, <2>2 DEF IsLast, About
    <3>2. QED BY <1>4, <1>5, <3>1
  <2>5. log'[p] = log[p] BY <1>5, <2>4
  <2>6. IsLast(p, r)
    <3>1. \A k \in (p + 1)..Len(log) : k \in (p + 1)..Len(log') /\ k \in 1..Len(log)
      BY <1>4, <1>5, <2>4
    <3>2. QED BY <1>5, <2>5, <3>1 DEF IsLast
  <2>7. Took(t, r, log[p].of) BY <2>3, <2>4, <2>6 DEF VerdictInv, LastTaken
  <2>8. QED BY <1>1, <2>5, <2>7 DEF Took
<1>8. SentIsHeld'
  <2>1. \A x : In(x, log') => In(x, log) \/ \E t \in Store : In(x, outbox[t])
    BY <1>2, <1>3, <1>5
  <2>2. QED BY <1>1, <1>6, <2>1, SentStaysHeld DEF VerdictInv
<1>9. QED BY <1>7, <1>8 DEF VerdictInv

\* What the replay after a mutation does to one relation.
LEMMA ReplayedRow ==
    ASSUME TypeOK, NEW s \in Store, NEW m, NEW r, NEW a, Replayed(s, m, r, a),
           NEW q \in Relation
    PROVE  \/ /\ a[q] # None /\ BothHere(m, a[q].of)
              /\ relation'[s][q] = Upserted(a[q].of) /\ deferred'[s][q] = None
           \/ relation'[s][q] = r[q] /\ deferred'[s][q] = a[q]
BY DEF Replayed, Ready, TypeOK

\* A mutation about another relation keeps what is taken; one about this
\* relation is taken.
LEMMA ApplyTakes ==
    ASSUME TypeOK, NEW s \in Store, NEW e \in Mutation, Apply(s, e), NEW q \in Relation,
           replay'[s] = replay[s]
    PROVE  /\ relation[s][q] # None => relation'[s][q] # None
           /\ ~About(e, q) => \A v : Took(s, q, v) => Took(s, q, v)'
           /\ About(e, q) /\ replay[s] = {} => Took(s, q, e.of)'
<1>1. PICK mems \in Memories, rows \in Rows, aside \in Asides :
        mems = memory[s] /\ rows = relation[s] /\ aside = deferred[s]
  BY DEF TypeOK, Memories, Rows, Asides, Tables
<1>2. \A v \in Verdict : Upserted(v) # None /\ Says(Upserted(v), v)
  <2>1. \A v \in Verdict : Upserted(v) \in Row BY DEF Upserted, Verdict, Row
  <2>2. QED BY <2>1, NoneAssumption DEF Says, Upserted
<1>3. ASSUME NEW m, NEW r, NEW a, Replayed(s, m, r, a), a[q] = aside[q],
             rows[q] # None => r[q] # None,
             \A v : Says(rows[q], v) => Says(r[q], v)
      PROVE  /\ rows[q] # None => relation'[s][q] # None
             /\ \A v : Took(s, q, v) => Took(s, q, v)'
  <2>1. \/ /\ aside[q] # None
           /\ relation'[s][q] = Upserted(aside[q].of) /\ deferred'[s][q] = None
        \/ relation'[s][q] = r[q] /\ deferred'[s][q] = aside[q]
    BY <1>3, ReplayedRow
  <2>2. aside[q] # None => aside[q].of \in Verdict BY DEF Asides, Aside
  <2>3. QED BY <1>1, <1>2, <1>3, <2>1, <2>2 DEF Took
<1>4. CASE e.kind \in {"upsert", "soft"}
  <2>1. ~About(e, q) BY <1>4 DEF About
  <2>2. \E m : Replayed(s, m, rows, aside) BY <1>1, <1>4 DEF Apply
  <2>3. QED BY <1>1, <1>3, <2>1, <2>2
<1>5. CASE e.kind = "hard"
  <2>1. ~About(e, q) BY <1>5 DEF About
  <2>2. PICK m, r : /\ Replayed(s, m, r, aside)
                    /\ r = IF mems[e.mem] = "absent" THEN rows ELSE Orphan(rows, e.mem)
    BY <1>1, <1>5 DEF Apply
  <2>3. \/ r[q] = rows[q]
        \/ rows[q] # None /\ r[q] = [rows[q] EXCEPT !.status = "orphaned"]
    BY <2>2 DEF Orphan
  <2>4. rows[q] # None =>
          rows[q] \in Row /\ [rows[q] EXCEPT !.status = "orphaned"] \in Row
    BY DEF Rows, Row
  <2>5. /\ rows[q] # None => r[q] # None
        /\ \A v : Says(rows[q], v) => Says(r[q], v)
    BY <2>3, <2>4, NoneAssumption DEF Says, Row
  <2>6. QED BY <1>1, <1>3, <2>1, <2>2, <2>5
<1>6. CASE e.kind = "relation"
  <2>1. e.id \in Relation /\ e.of \in Verdict BY <1>6 DEF Mutation
  <2>2. CASE BothHere(mems, e.of)
    <3> DEFINE r == [rows EXCEPT ![e.id] = Upserted(e.of)]
               a == [aside EXCEPT ![e.id] = None]
    <3>1. Replayed(s, mems, r, a) BY <1>1, <1>6, <2>2 DEF Apply
    <3>2. CASE e.id = q
      <4>1. a[q] = None /\ r[q] = Upserted(e.of) BY <3>2 DEF Asides, Rows
      <4> HIDE DEF a, r
      <4>2. relation'[s][q] = Upserted(e.of) /\ deferred'[s][q] = None
        BY <3>1, <4>1, ReplayedRow
      <4>3. QED BY <1>2, <1>6, <2>1, <3>2, <4>2 DEF Took, About
    <3>3. CASE e.id # q
      <4>1. a[q] = aside[q] /\ r[q] = rows[q] BY <3>3 DEF Asides, Rows
      <4> HIDE DEF a, r
      <4>2. QED BY <1>1, <1>3, <3>1, <3>3, <4>1 DEF About
    <3>4. QED BY <3>2, <3>3
  <2>3. CASE ~BothHere(mems, e.of)
    <3> DEFINE a == [aside EXCEPT ![e.id] = SetAside(@, e.of)]
    <3>1. Replayed(s, mems, rows, a) BY <1>1, <1>6, <2>3 DEF Apply
    <3>2. CASE e.id = q
      <4>1. a[q] = SetAside(aside[q], e.of) BY <3>2 DEF Asides
      <4>2. SetAside(aside[q], e.of) \in Aside /\ SetAside(aside[q], e.of).of = e.of
        BY <2>1 DEF SetAside, Asides, Aside
      <4>3. a[q] # None /\ a[q].of = e.of BY <4>1, <4>2, NoneAssumption
      <4> HIDE DEF a
      <4>4. relation'[s][q] = rows[q] /\ deferred'[s][q] = a[q]
        BY <2>3, <3>1, <4>3, ReplayedRow
      <4>5. QED BY <1>1, <1>6, <3>2, <4>3, <4>4 DEF Took, About
    <3>3. CASE e.id # q
      <4>1. a[q] = aside[q] BY <3>3 DEF Asides
      <4> HIDE DEF a
      <4>2. QED BY <1>1, <1>3, <3>1, <3>3, <4>1 DEF About
    <3>4. QED BY <3>2, <3>3
  <2>4. QED BY <2>2, <2>3
<1>7. QED BY <1>4, <1>5, <1>6 DEF Mutation

\* A pull, which no batch replay runs beside, takes in the entry it reads.
LEMMA PullTakes ==
    ASSUME TypeOK, VerdictInv, NEW s \in Store, Pull(s)
    PROVE  VerdictInv'
<1>1. /\ UNCHANGED <<outbox, log, replay, overlaps>>
      /\ cursor' = [cursor EXCEPT ![s] = @ + 1] /\ cursor[s] < Len(log)
      /\ Len(log) \in Nat /\ cursor[s] \in Nat
  BY DEF Pull, inFlight, TypeOK
<1>2. PICK c \in 1..Len(log) : c = cursor[s] + 1 BY <1>1
<1>3. PICK e \in Mutation : e = log[c] BY <1>2 DEF TypeOK
<1>4. Apply(s, e) BY <1>2, <1>3 DEF Pull
<1>5. ASSUME NEW q \in Relation
      PROVE  /\ relation[s][q] # None => relation'[s][q] # None
             /\ ~About(e, q) => \A v : Took(s, q, v) => Took(s, q, v)'
             /\ About(e, q) /\ replay[s] = {} => Took(s, q, e.of)'
  BY <1>1, <1>4, ApplyTakes
<1>6. ASSUME NEW t \in Store, t # s
      PROVE  /\ relation'[t] = relation[t] /\ deferred'[t] = deferred[t]
             /\ cursor'[t] = cursor[t]
  <2>1. \A m, r, a : Replayed(s, m, r, a) =>
          relation'[t] = relation[t] /\ deferred'[t] = deferred[t]
    BY <1>6 DEF Replayed, TypeOK
  <2>2. \E m, r, a : Replayed(s, m, r, a) BY <1>4 DEF Apply
  <2>3. QED BY <1>1, <1>6, <2>1, <2>2 DEF TypeOK
<1>7. LastTaken'
  <2> SUFFICES ASSUME ~overlaps, NEW t \in Store, NEW r \in Relation, Settled(t, r)',
                      NEW p \in 1..Len(log), IsLast(p, r)'
               PROVE  Took(t, r, log[p].of)'
    BY <1>1 DEF LastTaken
  <2>1. IsLast(p, r) BY <1>1 DEF IsLast
  <2>2. CASE t # s
    <3>1. Settled(t, r) BY <1>1, <1>6, <2>2 DEF Settled
    <3>2. Took(t, r, log[p].of) BY <2>1, <3>1 DEF VerdictInv, LastTaken
    <3>3. QED BY <1>1, <1>6, <2>2, <3>2 DEF Took
  <2>3. CASE t = s /\ About(e, r)
    <3>1. replay[s] = {} BY DEF Pull
    <3>2. cursor'[s] = c BY <1>1, <1>2 DEF TypeOK
    <3>3. p = c
      <4>1. ~ (p < c)
        BY <1>3, <2>1, <2>3 DEF IsLast, About
      <4>2. ~ (p > c)
        <5>1. p > c => p \in (cursor'[s] + 1)..Len(log) BY <3>2
        <5>2. QED BY <1>1, <2>1, <2>3, <5>1 DEF Settled, IsLast, About
      <4>3. QED BY <4>1, <4>2
    <3>4. log'[p].of = e.of BY <1>1, <1>3, <3>3
    <3>5. QED BY <1>5, <2>3, <3>1, <3>4 DEF Took
  <2>4. CASE t = s /\ ~About(e, r)
    <3>1. cursor'[s] = c BY <1>1, <1>2 DEF TypeOK
    <3>2. \A k \in (cursor[s] + 1)..Len(log) : k = c \/ k \in (cursor'[s] + 1)..Len(log)
      BY <1>1, <1>2, <3>1
    <3>3. Settled(s, r) BY <1>1, <1>3, <2>4, <3>2 DEF Settled
    <3>4. Took(s, r, log[p].of) BY <2>1, <3>3 DEF VerdictInv, LastTaken
    <3>5. QED BY <1>1, <1>5, <2>4, <3>4
  <2>5. QED BY <2>2, <2>3, <2>4
<1>8. SentIsHeld'
  <2>1. \A t \in Store, q \in Relation : relation[t][q] # None => relation'[t][q] # None
    BY <1>5, <1>6
  <2>2. QED BY <1>1, <2>1, SentStaysHeld DEF VerdictInv
<1>9. QED BY <1>7, <1>8 DEF VerdictInv

LEMMA VerdictInvInit == Init => VerdictInv
<1> SUFFICES ASSUME Init PROVE VerdictInv
  OBVIOUS
<1>1. (\A x : ~In(x, <<>>)) /\ Len(<<>>) = 0 BY DEF In
<1>2. QED BY <1>1 DEF Init, VerdictInv, LastTaken, SentIsHeld

LEMMA VerdictInvNext == TypeOK /\ VerdictInv /\ [Next]_vars => VerdictInv'
<1> SUFFICES ASSUME TypeOK, VerdictInv, [Next]_vars PROVE VerdictInv'
  OBVIOUS
<1>1. CASE UNCHANGED vars
  <2>1. UNCHANGED <<relation, deferred, outbox, log, cursor, replay, overlaps>>
    BY <1>1 DEF vars
  <2>2. LastTaken' BY <2>1, StillTaken DEF VerdictInv, Took
  <2>3. SentIsHeld' BY <2>1, SentStaysHeld DEF VerdictInv
  <2>4. QED BY <2>2, <2>3 DEF VerdictInv
<1>2. ASSUME NEW s \in Store, NEW m \in Memory,
             Edit(s, m) \/ \E hard \in BOOLEAN : Delete(s, m, hard)
      PROVE  VerdictInv'
  BY <1>2, MemoriesTake
<1>3. ASSUME NEW s \in Store, NEW a \in Memory, NEW b \in Memory,
             \/ FindCandidates(s, a, b) \/ ScanPair(s, a, b)
             \/ \E verb \in Verb : Compare(s, a, b, verb)
             \/ \E r \in Relation : Consolidate(s, a, b, r)
      PROVE  VerdictInv'
  BY <1>3, ReadsTake, VerdictsTaken, ConsolidateTakes
<1>4. ASSUME NEW s \in Store, NEW r \in Relation,
             FilePending(s, r) \/ \E verb \in Verb : Judge(s, r, verb)
      PROVE  VerdictInv'
  BY <1>4, ProposalTakes, VerdictsTaken
<1>5. ASSUME NEW s \in Store,
             \/ ScanVerdict(s) \/ Push(s) \/ Pull(s) \/ ListDeferred(s)
             \/ \E i \in replay[s] : ReplayOne(s, i)
      PROVE  VerdictInv'
  BY <1>5, VerdictsTaken, PushTakes, PullTakes, ReadsTake, ReplayOneTakes
<1>6. QED BY <1>1, <1>2, <1>3, <1>4, <1>5 DEF Next

(***************************************************************************)
(* While batch replays and pulls take turns, stores with nothing left to   *)
(* send or pull hold the verdict the log ends on wherever they hold both   *)
(* its memories: none that was set aside is replayed over a newer one      *)
(* (apply_relation_upsert_tx, replay_deferred_relations_tx, pull_remote).  *)
(***************************************************************************)
THEOREM QuietStoresHoldTheVerdict == Spec => []VerdictsFollowLog
<1>1. TypeOK /\ DeferredWaits /\ VerdictInv => VerdictsFollowLog
  <2> SUFFICES ASSUME TypeOK, DeferredWaits, VerdictInv, Quiet, ~overlaps,
                      NEW s \in Store, NEW r \in Relation, NEW p \in 1..Len(log),
                      IsLast(p, r), BothHere(memory[s], log[p].of),
                      deferred[s][r] = None \/ ~deferred[s][r].dead
               PROVE  Says(relation[s][r], log[p].of)
    BY DEF VerdictsFollowLog, Says
  <2>1. Settled(s, r)
    <3>1. cursor[s] = Len(log) /\ outbox[s] = <<>> /\ Len(log) \in Nat
      BY DEF Quiet, TypeOK
    <3>2. QED BY <3>1 DEF Settled, In
  <2>2. Took(s, r, log[p].of) BY <2>1 DEF VerdictInv, LastTaken
  <2>3. deferred[s][r] = None BY <2>2 DEF Took, DeferredWaits
  <2>4. QED BY <2>2, <2>3 DEF Took
<1>2. QED
  BY <1>1, VerdictInvInit, VerdictInvNext, TypeCorrect, NothingWaitsForNothing, PTL DEF Spec

=============================================================================
