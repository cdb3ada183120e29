--------------------------- MODULE ReplicasProofs ---------------------------
(***************************************************************************)
(* Proofs about Replicas, for any stores and projects, any finite sets of  *)
(* sessions and memories, and any plans.                                   *)
(*                                                                         *)
(* First the types and LocalReferences, which each transaction keeps by    *)
(* itself.  The other five properties are about what other stores are told *)
(* and hear; for them the operations are brought to a few shapes (Writes,  *)
(* Deletes, MergeIs, BackfillIs; OperationsAre), and each property has a   *)
(* section with its inductive invariant:                                   *)
(*   - HistoryIsSent: AllTold, with FormedInv,                             *)
(*   - NothingSharedVanishes: GoneAreAsked,                                *)
(*   - AppliesCleanly: JournalsOrdered, LogOrdered and SessionsSeen,       *)
(*   - PeersAgree: UpToDate, and Grown where stores come and go,           *)
(*   - NotSuperseded: TextsInv, the order of texts in log and journals.    *)
(***************************************************************************)
EXTENDS Replicas, FiniteSetTheorems, TLAPS

-----------------------------------------------------------------------------
(* What the operations queue, and the types.                               *)

\* An order of the members of a finite set is a sequence of them.
LEMMA OrdersAreSequences ==
    ASSUME NEW T, NEW S, S \subseteq T, IsFiniteSet(S), NEW f \in SetToSeqs(S)
    PROVE  f \in Seq(T)
<1>1. Cardinality(S) \in Nat
  BY FS_CardinalityType
<1>2. f \in [1..Cardinality(S) -> S]
  BY DEF SetToSeqs
<1> QED
  BY <1>1, <1>2

QueueTyped ==
    /\ journal \in [Store -> Seq(Mutation)]
    /\ waiting \in [Store -> SUBSET Nat]
    /\ \A n \in Store : waiting[n] \subseteq DOMAIN journal[n]

\* What Requeue appends are mutations, and what waits is in the journal.
LEMMA RequeueKeepsTypes ==
    ASSUME TypeOK, NEW n \in Store, NEW kept \in SUBSET waiting[n],
           NEW es \in Seq(Mutation), Requeue(n, kept, es)
    PROVE  QueueTyped'
<1>1. journal' \in [Store -> Seq(Mutation)]
  BY DEF TypeOK, Requeue
<1>a. /\ kept \subseteq 1..Len(journal[n])
      /\ Len(journal[n]) \in Nat /\ Len(es) \in Nat
  BY DEF TypeOK
<1>2. waiting' \in [Store -> SUBSET Nat]
  <2>1. kept \in SUBSET Nat
    BY <1>a
  <2>2. \A a, b \in Nat : (a + 1)..b \in SUBSET Nat
    OBVIOUS
  <2>3. Len(journal[n]) + Len(es) \in Nat
    BY <1>a
  <2>4. kept \cup (Len(journal[n]) + 1)..(Len(journal[n]) + Len(es)) \in SUBSET Nat
    BY <1>a, <2>1, <2>2, <2>3, Zenon
  <2> QED
    BY <2>4 DEF TypeOK, Requeue
<1>3. ASSUME NEW o \in Store PROVE waiting'[o] \subseteq DOMAIN journal'[o]
  <2>1. CASE o = n
    <3>1. Len(journal'[n]) = Len(journal[n]) + Len(es)
      BY DEF TypeOK, Requeue
    <3>2. waiting'[n] = kept \cup (Len(journal[n]) + 1)..(Len(journal[n]) + Len(es))
      BY DEF TypeOK, Requeue
    <3>3. DOMAIN journal'[n] = 1..(Len(journal[n]) + Len(es))
      BY <1>1, <3>1
    <3>4. 1..Len(journal[n]) \subseteq 1..(Len(journal[n]) + Len(es))
      BY <1>a
    <3>5. (Len(journal[n]) + 1)..(Len(journal[n]) + Len(es))
             \subseteq 1..(Len(journal[n]) + Len(es))
      BY <1>a
    <3>6. waiting'[n] \subseteq DOMAIN journal'[n]
      BY <1>a, <3>2, <3>3, <3>4, <3>5
    <3> QED
      BY <2>1, <3>6
  <2>2. CASE o # n
    BY <2>2 DEF TypeOK, Requeue
  <2> QED
    BY <2>1, <2>2
<1> QED
  BY <1>1, <1>2, <1>3 DEF QueueTyped

LEMMA QueueKeepsTypes ==
    ASSUME TypeOK, NEW n \in Store, NEW p, NEW es \in Seq(Mutation), Queue(n, p, es)
    PROVE  QueueTyped'
<1>1. IfEnrolled(p, enrolled[n], es) \in Seq(Mutation)
  BY DEF IfEnrolled
<1> QED
  BY <1>1, RequeueKeepsTypes DEF Queue

\* What the operations queue are mutations.
LEMMA MutationsAreTyped ==
    /\ \A s \in Session, p \in Project : /\ PutSession(s, p) \in Mutation
                                         /\ SessionGone(s, p) \in Mutation
    /\ \A m \in Memory, r \in Row : PutMemory(m, r) \in Mutation
    /\ \A m \in Memory, p \in Project, hard \in BOOLEAN :
          MemoryGone(m, hard, p) \in Mutation
<1>1. \A s \in Session, p \in Project :
        PutSession(s, p) \in Mutation /\ SessionGone(s, p) \in Mutation
  BY DEF PutSession, SessionGone, Mutation
<1>2. \A m \in Memory, r \in Row : PutMemory(m, r) \in Mutation
  BY DEF PutMemory, Mutation, Row
<1>3. ASSUME NEW m \in Memory, NEW p \in Project, NEW hard \in BOOLEAN
      PROVE  MemoryGone(m, hard, p) \in Mutation
  BY DEF MemoryGone, Mutation
<1> QED
  BY <1>1, <1>2, <1>3

\* An operation's number is within the bound.
LEMMA OperationKeepsTypes ==
    ASSUME TypeOK, NEW name, Operation(name)
    PROVE  writes' \in 0..MaxWrites /\ Edit \in 1..MaxWrites
BY PlansAssumption DEF TypeOK, Plan, Operation, Edit

\* Rows that go, or are tombstoned: the others, and what is left of these,
\* keep their session.
LEMMA GoneKeepsTypes ==
    ASSUME TypeOK, NEW n \in Store, NEW M, NEW hard \in BOOLEAN,
           \A m \in M : m \in Memory /\ Has(n, m), Gone(n, M, hard)
    PROVE  /\ memories' \in [Store -> [Memory -> Row \cup {None}]]
           /\ \A o \in Store, m \in Memory :
                Has(o, m)' => /\ Has(o, m)
                              /\ memories'[o][m].session = memories[o][m].session
                              /\ ~ (o = n /\ m \in M /\ hard)
<1>1. ASSUME NEW m \in M
      PROVE  LET r == memories[n][m] IN
             /\ r \in Row
             /\ [r EXCEPT !.live = FALSE] \in Row
             /\ [r EXCEPT !.live = FALSE].session = r.session
  <2>1. memories[n][m] \in Row
    BY DEF TypeOK, Has
  <2> QED
    BY <2>1 DEF Row
<1> DEFINE new == [m \in Memory |->
                     IF m \notin M THEN memories[n][m]
                     ELSE IF hard THEN None ELSE [memories[n][m] EXCEPT !.live = FALSE]]
<1>2. new \in [Memory -> Row \cup {None}]
  BY <1>1 DEF TypeOK
<1>3. memories' = [memories EXCEPT ![n] = new]
  BY DEF Gone
<1>4. memories' \in [Store -> [Memory -> Row \cup {None}]]
  BY <1>2, <1>3 DEF TypeOK
<1>5. ASSUME NEW o \in Store, NEW m \in Memory, Has(o, m)'
      PROVE  /\ Has(o, m)
             /\ memories'[o][m].session = memories[o][m].session
             /\ ~ (o = n /\ m \in M /\ hard)
  <2>1. CASE o # n \/ m \notin M
    <3>1. memories'[o][m] = memories[o][m]
      BY <2>1, <1>3 DEF TypeOK
    <3> QED
      BY <2>1, <3>1, <1>5 DEF Has
  <2>2. CASE o = n /\ m \in M
    <3>1. memories'[o][m] = IF hard THEN None ELSE [memories[n][m] EXCEPT !.live = FALSE]
      BY <2>2, <1>3 DEF TypeOK
    <3> QED
      BY <2>2, <3>1, <1>1, <1>5 DEF Has
  <2> QED
    BY <2>1, <2>2
<1> QED
  BY <1>4, <1>5

LEMMA SessionsGoneKeepsTypes ==
    ASSUME TypeOK, NEW n \in Store, NEW S, SessionsGone(n, S)
    PROVE  /\ sessions' \in [Store -> [Session -> Project \cup {None}]]
           /\ \A o \in Store, s \in Session :
                sessions'[o][s] = IF o = n /\ s \in S THEN None ELSE sessions[o][s]
BY DEF TypeOK, SessionsGone

\* The mutations of some rows, in any order, are a sequence of mutations.
LEMMA ImageIsFinite ==
    ASSUME NEW S, IsFiniteSet(S), NEW f, f = [x \in S |-> f[x]]
    PROVE  IsFiniteSet({f[x] : x \in S})
<1>1. f \in Surjection(S, {f[x] : x \in S})
  BY DEF Surjection
<1> QED
  BY <1>1, FS_Surjection

LEMMA MemoriesGoneInOrder ==
    ASSUME NEW M \in SUBSET Memory, NEW hard \in BOOLEAN, NEW p \in Project,
           NEW es \in SetToSeqs({MemoryGone(m, hard, p) : m \in M})
    PROVE  es \in Seq(Mutation)
<1> DEFINE f == [m \in M |-> MemoryGone(m, hard, p)]
<1>1. IsFiniteSet(M)
  BY FiniteAssumption, FS_Subset
<1>2. IsFiniteSet({f[m] : m \in M})
  BY <1>1, ImageIsFinite
<1>3. {f[m] : m \in M} = {MemoryGone(m, hard, p) : m \in M}
  OBVIOUS
<1>4. {MemoryGone(m, hard, p) : m \in M} \subseteq Mutation
  BY MutationsAreTyped
<1> QED
  BY <1>2, <1>3, <1>4, OrdersAreSequences

LEMMA SessionsGoneInOrder ==
    ASSUME NEW S \in SUBSET Session, NEW p \in Project,
           NEW es \in SetToSeqs({SessionGone(s, p) : s \in S})
    PROVE  es \in Seq(Mutation)
<1> DEFINE f == [s \in S |-> SessionGone(s, p)]
<1>1. IsFiniteSet(S)
  BY FiniteAssumption, FS_Subset
<1>2. IsFiniteSet({f[s] : s \in S})
  BY <1>1, ImageIsFinite
<1>3. {f[s] : s \in S} = {SessionGone(s, p) : s \in S}
  OBVIOUS
<1>4. {SessionGone(s, p) : s \in S} \subseteq Mutation
  BY MutationsAreTyped
<1> QED
  BY <1>2, <1>3, <1>4, OrdersAreSequences

LEMMA SessionsInOrder ==
    ASSUME NEW n, NEW p, NEW q \in Project, NEW es \in SetToSeqs(PutSessions(n, p, q))
    PROVE  es \in Seq(Mutation)
<1> DEFINE S == SessionsOf(n, p)
           f == [s \in S |-> PutSession(s, q)]
<1>1. S \in SUBSET Session
  BY DEF SessionsOf
<1>2. IsFiniteSet(S)
  BY <1>1, FiniteAssumption, FS_Subset
<1>3. IsFiniteSet({f[s] : s \in S})
  BY <1>2, ImageIsFinite
<1>4. {f[s] : s \in S} = PutSessions(n, p, q)
  BY DEF PutSessions
<1>5. PutSessions(n, p, q) \subseteq Mutation
  BY <1>1, MutationsAreTyped DEF PutSessions
<1> QED
  BY <1>3, <1>4, <1>5, OrdersAreSequences

LEMMA MemoriesInOrder ==
    ASSUME NEW M \in SUBSET Memory, NEW r, \A m \in M : r[m] \in Row,
           NEW es \in SetToSeqs({PutMemory(m, r[m]) : m \in M})
    PROVE  es \in Seq(Mutation)
<1> DEFINE f == [m \in M |-> PutMemory(m, r[m])]
<1>1. IsFiniteSet(M)
  BY FiniteAssumption, FS_Subset
<1>2. IsFiniteSet({f[m] : m \in M})
  BY <1>1, ImageIsFinite
<1>3. {f[m] : m \in M} = {PutMemory(m, r[m]) : m \in M}
  OBVIOUS
<1>4. {PutMemory(m, r[m]) : m \in M} \subseteq Mutation
  BY MutationsAreTyped
<1> QED
  BY <1>2, <1>3, <1>4, OrdersAreSequences

-----------------------------------------------------------------------------

\* What a mutation carries, by its kind.
LEMMA MutationKinds ==
    ASSUME NEW e \in Mutation
    PROVE  /\ e.op \in {"session", "session gone", "memory", "memory gone", "memory erased"}
           /\ e.op = "session" => e.key \in Session /\ e.body \in Project
           /\ e.op = "session gone" => e.key \in Session
           /\ e.op = "memory" => e.key \in Memory /\ e.body \in Row
           /\ e.op \in {"memory gone", "memory erased"} => e.key \in Memory
BY DEF Mutation

\* An entry is applied to the tables of one store.
LEMMA ApplyKeepsTypes ==
    ASSUME TypeOK, NEW n \in Store, NEW e \in Mutation, Apply(n, e)
    PROVE  /\ sessions' \in [Store -> [Session -> Project \cup {None}]]
           /\ memories' \in [Store -> [Memory -> Row \cup {None}]]
<1>1. CASE e.op = "session"
  <2>1. sessions' = [sessions EXCEPT ![n][e.key] = e.body] /\ memories' = memories
    BY <1>1 DEF Apply
  <2> QED
    BY <1>1, <2>1, MutationKinds DEF TypeOK
<1>2. CASE e.op = "session gone"
  <2>1. SessionsGone(n, {e.key}) /\ memories' = memories
    BY <1>2 DEF Apply
  <2> QED
    BY <2>1, SessionsGoneKeepsTypes DEF TypeOK
<1>3. CASE e.op = "memory"
  <2>1. memories' = [memories EXCEPT ![n][e.key] = e.body] /\ sessions' = sessions
    BY <1>3 DEF Apply, SetRow, Upserted
  <2> QED
    BY <1>3, <2>1, MutationKinds DEF TypeOK
<1>4. CASE e.op \in {"memory gone", "memory erased"}
  <2> DEFINE M == {m \in {e.key} : Has(n, m)}
             hard == (e.op = "memory erased")
  <2>1. Gone(n, M, hard) /\ sessions' = sessions
    BY <1>4 DEF Apply
  <2>2. \A m \in M : m \in Memory /\ Has(n, m)
    BY <1>4, MutationKinds
  <2>3. hard \in BOOLEAN
    OBVIOUS
  <2>4. memories' \in [Store -> [Memory -> Row \cup {None}]]
    <3> HIDE DEF M, hard
    <3> QED BY <2>1, <2>2, <2>3, GoneKeepsTypes
  <2> QED
    BY <2>1, <2>4 DEF TypeOK
<1> QED
  BY <1>1, <1>2, <1>3, <1>4, MutationKinds

LEMMA PullKeepsTypes == ASSUME TypeOK, UNCHANGED plan, NEW n \in Store, Pull(n) PROVE TypeOK'
<1>1. cursor[n] \in 0..Len(log) /\ cursor[n] < Len(log) /\ Len(log) \in Nat
  BY DEF TypeOK, Pull, Behind
<1>2. log[cursor[n] + 1] \in Mutation
  BY <1>1 DEF TypeOK
<1>3. /\ sessions' \in [Store -> [Session -> Project \cup {None}]]
      /\ memories' \in [Store -> [Memory -> Row \cup {None}]]
  BY <1>2, ApplyKeepsTypes DEF Pull
<1>4. cursor' \in [Store -> 0..Len(log')]
  BY <1>1 DEF TypeOK, Pull, Advance
<1> QED
  BY <1>3, <1>4 DEF TypeOK, Pull, queue, history

LEMMA PushKeepsTypes == ASSUME TypeOK, UNCHANGED plan, NEW n \in Store, Push(n) PROVE TypeOK'
<1>1. PICK k \in waiting[n] :
        /\ log' = Append(log, journal[n][k])
        /\ waiting' = [waiting EXCEPT ![n] = @ \ {k}]
        /\ UNCHANGED <<tables, enrolled, journal, cursor, history>>
  BY DEF Push
<1>2. journal[n][k] \in Mutation
  BY DEF TypeOK
<1>3. log' \in Seq(Mutation) /\ Len(log') = Len(log) + 1 /\ Len(log) \in Nat
  BY <1>1, <1>2 DEF TypeOK
<1>4. cursor' \in [Store -> 0..Len(log')]
  BY <1>1, <1>3 DEF TypeOK
<1>5. /\ waiting' \in [Store -> SUBSET Nat]
      /\ \A o \in Store : waiting'[o] \subseteq DOMAIN journal'[o]
  BY <1>1 DEF TypeOK
<1> QED
  BY <1>1, <1>3, <1>4, <1>5 DEF TypeOK, tables, history

-----------------------------------------------------------------------------

\* The parts of TypeOK that the operations of users change.
RestTyped ==
    /\ enrolled \in [Store -> SUBSET Project]
    /\ writes \in 0..MaxWrites
    /\ written \subseteq Memory \X Text
    /\ deleted \subseteq Memory

TablesTyped ==
    /\ sessions \in [Store -> [Session -> Project \cup {None}]]
    /\ memories \in [Store -> [Memory -> Row \cup {None}]]

LEMMA PartsOfTypeOK ==
    ASSUME TypeOK, TablesTyped', QueueTyped', RestTyped', UNCHANGED <<plan, log, cursor>>
    PROVE  TypeOK'
BY DEF TypeOK, TablesTyped, QueueTyped, RestTyped

\* A session a store has is of a project.
LEMMA SessionsAreOfProjects ==
    ASSUME TypeOK, NEW n \in Store, NEW s \in Session, HasSession(n, s)
    PROVE  sessions[n][s] \in Project
<1>1. sessions[n][s] \in Project \cup {None}
  BY DEF TypeOK
<1> QED
  BY <1>1 DEF HasSession

LEMMA CreateSessionKeepsTypes ==
    ASSUME TypeOK, UNCHANGED plan, NEW n \in Store, NEW s \in Session, CreateSession(n, s)
    PROVE  TypeOK'
<1>1. HomeOf[s] \in Project
  BY HomeAssumption
<1>2. QueueTyped'
  <2>1. <<PutSession(s, HomeOf[s])>> \in Seq(Mutation)
    BY <1>1, MutationsAreTyped
  <2> QED
    BY <2>1, QueueKeepsTypes DEF CreateSession
<1>3. TablesTyped'
  BY <1>1 DEF TypeOK, CreateSession, TablesTyped
<1>4. RestTyped'
  BY OperationKeepsTypes DEF TypeOK, CreateSession, RestTyped
<1> QED
  BY <1>2, <1>3, <1>4, PartsOfTypeOK DEF CreateSession

\* The ways to write a memory that was never there.
LEMMA NewMemoriesAre ==
    ASSUME TypeOK, NEW n \in Store, NEW m \in Memory, NEW s \in Session,
           AddObservation(n, m, s) \/ Consolidate(n, m, s)
    PROVE  \E p \in Project :
             /\ NewMemory(n, m, s, p)
             /\ \/ Operation("add") /\ p \in {sessions[n][s], HomeOf[s]}
                \/ Operation("consolidate")
<1>1. CASE AddObservation(n, m, s)
  <2>1. PICK p \in {sessions[n][s], HomeOf[s]} : NewMemory(n, m, s, p)
    BY <1>1 DEF AddObservation
  <2>2. p \in Project
    BY <2>1, HomeAssumption, SessionsAreOfProjects DEF NewMemory
  <2> QED
    BY <1>1, <2>1, <2>2 DEF AddObservation
<1>2. CASE Consolidate(n, m, s)
  <2>1. PICK o \in Memory : Live(n, o) /\ NewMemory(n, m, s, memories[n][o].project)
    BY <1>2 DEF Consolidate
  <2>2. memories[n][o].project \in Project
    BY <2>1 DEF TypeOK, Live, Has, Row
  <2> QED
    BY <1>2, <2>1, <2>2 DEF Consolidate
<1> QED
  BY <1>1, <1>2

LEMMA NewMemoryKeepsTypes ==
    ASSUME TypeOK, UNCHANGED plan, NEW n \in Store, NEW m \in Memory, NEW s \in Session,
           AddObservation(n, m, s) \/ Consolidate(n, m, s)
    PROVE  TypeOK'
<1>1. PICK p \in Project :
        /\ NewMemory(n, m, s, p)
        /\ Operation("add") \/ Operation("consolidate")
  BY NewMemoriesAre, Zenon
<1> DEFINE r == [text |-> {Edit}, session |-> s, project |-> p, live |-> TRUE]
<1>2. /\ SetRow(n, m, r)
      /\ Queue(n, p, <<PutMemory(m, r)>>)
      /\ written' = written \cup {<<m, r.text>>}
      /\ UNCHANGED <<sessions, enrolled, log, cursor, deleted>>
  BY <1>1 DEF NewMemory
<1>3. r \in Row /\ r.text \in Text
  BY <1>1, OperationKeepsTypes DEF Row, Text
<1>4. QueueTyped'
  <2>1. <<PutMemory(m, r)>> \in Seq(Mutation)
    BY <1>3, MutationsAreTyped
  <2> QED
    BY <1>2, <2>1, QueueKeepsTypes
<1>5. TablesTyped'
  BY <1>2, <1>3 DEF TypeOK, SetRow, TablesTyped
<1>6. RestTyped'
  <2>1. <<m, r.text>> \in Memory \X Text
    BY <1>3
  <2>2. written' = written \cup {<<m, r.text>>}
    BY <1>2
  <2>3. writes' \in 0..MaxWrites
    BY <1>1, OperationKeepsTypes
  <2> HIDE DEF r
  <2> QED
    BY <1>2, <2>1, <2>2, <2>3 DEF TypeOK, RestTyped
<1> QED
  BY <1>2, <1>4, <1>5, <1>6, PartsOfTypeOK

LEMMA UpdateObservationKeepsTypes ==
    ASSUME TypeOK, UNCHANGED plan, NEW n \in Store, NEW m \in Memory, NEW q \in Project,
           UpdateObservation(n, m, q)
    PROVE  TypeOK'
<1> DEFINE old == memories[n][m]
           new == [old EXCEPT !.text = @ \cup {Edit}, !.project = q]
<1>1. old \in Row
  BY DEF TypeOK, UpdateObservation, Live, Has
<1>2. Edit \in 1..MaxWrites /\ writes' \in 0..MaxWrites
  BY OperationKeepsTypes DEF UpdateObservation
<1>3. new \in Row /\ new.text \in Text
  BY <1>1, <1>2 DEF Row, Text
<1>4. QueueTyped'
  <2>1. <<PutMemory(m, new)>> \in Seq(Mutation)
    BY <1>3, MutationsAreTyped
  <2>2. <<MemoryGone(m, FALSE, old.project)>> \in Seq(Mutation)
    <3>1. old.project \in Project
      BY <1>1 DEF Row
    <3>2. FALSE \in BOOLEAN
      OBVIOUS
    <3> DEFINE e == MemoryGone(m, FALSE, old.project)
    <3>3. e \in Mutation
      BY <3>1, <3>2, MutationsAreTyped, Zenon
    <3> HIDE DEF e
    <3>4. <<e>> \in Seq(Mutation)
      BY <3>3
    <3> QED
      BY <3>4, Zenon DEF e
  <2> QED
    BY <2>1, <2>2, QueueKeepsTypes DEF UpdateObservation
<1>5. TablesTyped'
  BY <1>3 DEF TypeOK, UpdateObservation, SetRow, TablesTyped
<1>6. RestTyped'
  <2>1. <<m, new.text>> \in Memory \X Text
    BY <1>3
  <2>2. /\ written' = written \cup {<<m, new.text>>}
        /\ UNCHANGED <<enrolled, deleted>>
    BY DEF UpdateObservation
  <2> HIDE DEF new
  <2> QED
    BY <1>2, <2>1, <2>2 DEF TypeOK, RestTyped
<1> QED
  BY <1>4, <1>5, <1>6, PartsOfTypeOK DEF UpdateObservation

LEMMA DeleteObservationKeepsTypes ==
    ASSUME TypeOK, UNCHANGED plan, NEW n \in Store, NEW m \in Memory, NEW hard \in BOOLEAN,
           DeleteObservation(n, m, hard)
    PROVE  TypeOK'
<1>1. Has(n, m)
  BY DEF DeleteObservation, Live
<1>2. memories[n][m].project \in Project
  BY <1>1 DEF TypeOK, Has, Row
<1>3. QueueTyped'
  <2>1. <<MemoryGone(m, hard, memories[n][m].project)>> \in Seq(Mutation)
    BY <1>2, MutationsAreTyped
  <2> QED
    BY <2>1, QueueKeepsTypes DEF DeleteObservation
<1>4. memories' \in [Store -> [Memory -> Row \cup {None}]]
  <2>1. \A l \in {m} : l \in Memory /\ Has(n, l)
    BY <1>1
  <2>2. Gone(n, {m}, hard)
    BY DEF DeleteObservation
  <2> QED
    BY <2>1, <2>2, GoneKeepsTypes
<1>5. TablesTyped'
  BY <1>4 DEF TypeOK, DeleteObservation, TablesTyped
<1>6. RestTyped'
  BY OperationKeepsTypes DEF TypeOK, DeleteObservation, RestTyped
<1> QED
  BY <1>3, <1>5, <1>6, PartsOfTypeOK DEF DeleteObservation

LEMMA DeleteSessionKeepsTypes ==
    ASSUME TypeOK, UNCHANGED plan, NEW n \in Store, NEW s \in Session, DeleteSession(n, s)
    PROVE  TypeOK'
<1>1. sessions[n][s] \in Project
  BY SessionsAreOfProjects DEF DeleteSession
<1>2. QueueTyped'
  <2>1. <<SessionGone(s, sessions[n][s])>> \in Seq(Mutation)
    BY <1>1, MutationsAreTyped
  <2> QED
    BY <2>1, QueueKeepsTypes DEF DeleteSession
<1>3. TablesTyped'
  BY SessionsGoneKeepsTypes DEF TypeOK, DeleteSession, TablesTyped
<1>4. RestTyped'
  BY OperationKeepsTypes DEF TypeOK, DeleteSession, RestTyped
<1> QED
  BY <1>2, <1>3, <1>4, PartsOfTypeOK DEF DeleteSession

LEMMA DeleteSessionAndContentsKeepsTypes ==
    ASSUME TypeOK, UNCHANGED plan, NEW n \in Store, NEW s \in Session, NEW hard \in BOOLEAN,
           DeleteSessionAndContents(n, s, hard)
    PROVE  TypeOK'
<1> DEFINE M == IF hard THEN RowsIn(n, s) ELSE LiveAmong(n, RowsIn(n, s))
           home == sessions[n][s]
           last == IF hard THEN <<SessionGone(s, home)>> ELSE <<>>
<1>1. /\ Operation("delete contents")
      /\ HasSession(n, s)
      /\ Gone(n, M, hard)
      /\ IF hard THEN SessionsGone(n, {s}) ELSE UNCHANGED sessions
      /\ \E es \in SetToSeqs({MemoryGone(m, hard, home) : m \in M}) : Queue(n, home, es \o last)
      /\ deleted' = deleted \cup M
      /\ UNCHANGED <<enrolled, log, cursor, written>>
  BY DEF DeleteSessionAndContents
<1>2. home \in Project
  BY <1>1, SessionsAreOfProjects
<1>3. M \in SUBSET Memory /\ \A m \in M : m \in Memory /\ Has(n, m)
  BY DEF RowsIn, LiveAmong
<1>4. last \in Seq(Mutation)
  BY <1>2, MutationsAreTyped
<1> HIDE DEF M, home, last
<1>5. QueueTyped'
  <2>1. PICK es \in SetToSeqs({MemoryGone(m, hard, home) : m \in M}) :
           Queue(n, home, es \o last)
    BY <1>1
  <2>2. es \o last \in Seq(Mutation)
    <3>1. es \in Seq(Mutation)
      BY <1>2, <1>3, MemoriesGoneInOrder
    <3> QED
      BY <1>4, <3>1
  <2> QED
    BY <2>1, <2>2, QueueKeepsTypes
<1>6. TablesTyped'
  <2>1. memories' \in [Store -> [Memory -> Row \cup {None}]]
    BY <1>1, <1>3, GoneKeepsTypes
  <2>2. sessions' \in [Store -> [Session -> Project \cup {None}]]
    BY <1>1, SessionsGoneKeepsTypes DEF TypeOK
  <2> QED
    BY <2>1, <2>2 DEF TablesTyped
<1>7. RestTyped'
  BY <1>1, <1>3, OperationKeepsTypes DEF TypeOK, RestTyped
<1> QED
  BY <1>1, <1>5, <1>6, <1>7, PartsOfTypeOK

LEMMA DeleteProjectKeepsTypes ==
    ASSUME TypeOK, UNCHANGED plan, NEW n \in Store, NEW p \in Project, NEW hard \in BOOLEAN,
           DeleteProject(n, p, hard)
    PROVE  TypeOK'
<1> DEFINE M == IF hard THEN RowsOf(n, p) ELSE LiveAmong(n, RowsOf(n, p))
           emptied == IF hard THEN {s \in SessionsOf(n, p) : RowsIn(n, s) \subseteq M} ELSE {}
<1>1. /\ Operation("delete project")
      /\ Gone(n, M, hard)
      /\ SessionsGone(n, emptied)
      /\ \E es \in SetToSeqs({MemoryGone(m, hard, p) : m \in M}),
            fs \in SetToSeqs({SessionGone(s, p) : s \in emptied}) : Queue(n, p, es \o fs)
      /\ deleted' = deleted \cup M
      /\ UNCHANGED <<enrolled, log, cursor, written>>
  BY DEF DeleteProject
<1>2. M \in SUBSET Memory /\ \A m \in M : m \in Memory /\ Has(n, m)
  BY DEF RowsOf, LiveAmong
<1>3. emptied \in SUBSET Session
  BY DEF SessionsOf
<1> HIDE DEF M, emptied
<1>4. QueueTyped'
  <2>1. PICK es \in SetToSeqs({MemoryGone(m, hard, p) : m \in M}),
             fs \in SetToSeqs({SessionGone(s, p) : s \in emptied}) : Queue(n, p, es \o fs)
    BY <1>1
  <2>2. es \in Seq(Mutation)
    BY <1>2, MemoriesGoneInOrder
  <2>3. fs \in Seq(Mutation)
    BY <1>3, SessionsGoneInOrder
  <2>4. es \o fs \in Seq(Mutation)
    BY <2>2, <2>3
  <2> QED
    BY <2>1, <2>4, QueueKeepsTypes
<1>5. TablesTyped'
  <2>1. memories' \in [Store -> [Memory -> Row \cup {None}]]
    BY <1>1, <1>2, GoneKeepsTypes
  <2>2. sessions' \in [Store -> [Session -> Project \cup {None}]]
    BY <1>1, SessionsGoneKeepsTypes
  <2> QED
    BY <2>1, <2>2 DEF TablesTyped
<1>6. RestTyped'
  BY <1>1, <1>2, OperationKeepsTypes DEF TypeOK, RestTyped
<1> QED
  BY <1>1, <1>4, <1>5, <1>6, PartsOfTypeOK

LEMMA PruneProjectKeepsTypes ==
    ASSUME TypeOK, UNCHANGED plan, NEW n \in Store, NEW p \in Project, PruneProject(n, p)
    PROVE  TypeOK'
<1>1. QueueTyped'
  <2>1. PICK es \in SetToSeqs({SessionGone(s, p) : s \in SessionsOf(n, p)}) : Queue(n, p, es)
    BY DEF PruneProject
  <2>2. es \in Seq(Mutation)
    BY SessionsGoneInOrder DEF SessionsOf
  <2> QED
    BY <2>1, <2>2, QueueKeepsTypes
<1>2. TablesTyped'
  BY SessionsGoneKeepsTypes DEF TypeOK, PruneProject, TablesTyped
<1>3. RestTyped'
  BY OperationKeepsTypes DEF TypeOK, PruneProject, RestTyped
<1> QED
  BY <1>1, <1>2, <1>3, PartsOfTypeOK DEF PruneProject

LEMMA EnrollKeepsTypes ==
    ASSUME TypeOK, UNCHANGED plan, NEW n \in Store, NEW p \in Project, Enroll(n, p)
    PROVE  TypeOK'
<1> DEFINE M == LiveAmong(n, RowsOf(n, p))
           r == memories[n]
<1>1. M \in SUBSET Memory /\ \A m \in M : r[m] \in Row
  BY DEF TypeOK, LiveAmong, RowsOf, Has
<1>2. QueueTyped'
  <2>0. PICK es \in Backfill(n, p) : Requeue(n, NotOf(n, p), es)
    BY DEF Enroll
  <2>1. PICK ss \in SetToSeqs(PutSessions(n, p, p)),
             ms \in SetToSeqs({PutMemory(m, r[m]) : m \in M}) : es = ss \o ms
    <3> DEFINE A == SetToSeqs(PutSessions(n, p, p))
               B == SetToSeqs({PutMemory(m, r[m]) : m \in M})
    <3>1. Backfill(n, p) = {ss \o ms : ss \in A, ms \in B}
      BY DEF Backfill
    <3> HIDE DEF A, B, M, r
    <3>2. \E ss \in A, ms \in B : es = ss \o ms
      BY <2>0, <3>1
    <3> QED
      BY <3>2 DEF A, B
  <2>2. ss \in Seq(Mutation)
    BY SessionsInOrder
  <2>3. ms \in Seq(Mutation)
    <3> HIDE DEF M, r
    <3> QED BY <1>1, MemoriesInOrder
  <2>4. ss \o ms \in Seq(Mutation)
    BY <2>2, <2>3
  <2>5. NotOf(n, p) \in SUBSET waiting[n]
    BY DEF NotOf
  <2> QED
    BY <2>0, <2>1, <2>4, <2>5, RequeueKeepsTypes
<1>3. TablesTyped'
  BY DEF TypeOK, Enroll, tables, TablesTyped
<1>4. RestTyped'
  BY OperationKeepsTypes DEF TypeOK, Enroll, RestTyped
<1> QED
  BY <1>2, <1>3, <1>4, PartsOfTypeOK DEF Enroll

LEMMA UnenrollKeepsTypes ==
    ASSUME TypeOK, UNCHANGED plan, NEW n \in Store, NEW p \in Project, Unenroll(n, p)
    PROVE  TypeOK'
<1>1. QueueTyped' /\ TablesTyped'
  BY DEF TypeOK, Unenroll, queue, tables, QueueTyped, TablesTyped
<1>2. RestTyped'
  BY OperationKeepsTypes DEF TypeOK, Unenroll, RestTyped
<1> QED
  BY <1>1, <1>2, PartsOfTypeOK DEF Unenroll

LEMMA MergeKeepsTypes ==
    ASSUME TypeOK, UNCHANGED plan, NEW n \in Store, NEW p \in Project, NEW q \in Project,
           Merge(n, p, q)
    PROVE  TypeOK'
<1> DEFINE M == LiveAmong(n, RowsOf(n, p))
           moved == [m \in Memory |-> IF m \in RowsOf(n, p)
                                      THEN [memories[n][m] EXCEPT !.project = q]
                                      ELSE memories[n][m]]
           targets == IF p \in enrolled[n] THEN enrolled[n] \cup {q} ELSE enrolled[n]
<1>1. /\ Operation("merge")
      /\ memories' = [memories EXCEPT ![n] = moved]
      /\ sessions' = [sessions EXCEPT ![n] =
                        [s \in Session |-> IF sessions[n][s] = p THEN q ELSE sessions[n][s]]]
      /\ \E ms \in SetToSeqs({PutMemory(m, moved[m]) : m \in M}),
            ss \in SetToSeqs(PutSessions(n, p, q)) :
             Requeue(n, NotOf(n, p), IfEnrolled(q, targets, ms \o ss))
      /\ enrolled' = [enrolled EXCEPT ![n] = targets \ {p}]
      /\ UNCHANGED <<log, cursor, written, deleted>>
  BY DEF Merge
<1>2. ASSUME NEW m \in RowsOf(n, p) PROVE moved[m] \in Row
  <2>1. memories[n][m] \in Row /\ m \in Memory
    BY DEF TypeOK, RowsOf, Has
  <2> QED
    BY <2>1 DEF Row
<1>3. moved \in [Memory -> Row \cup {None}]
  <2>1. ASSUME NEW m \in Memory PROVE moved[m] \in Row \cup {None}
    <3>1. CASE m \in RowsOf(n, p)
      BY <3>1, <1>2
    <3>2. CASE m \notin RowsOf(n, p)
      BY <3>2 DEF TypeOK
    <3> QED
      BY <3>1, <3>2
  <2> QED
    BY <2>1
<1>4. M \in SUBSET Memory /\ \A m \in M : moved[m] \in Row
  BY <1>2 DEF LiveAmong, RowsOf
<1>5. targets \in SUBSET Project
  BY DEF TypeOK
<1> HIDE DEF M, moved, targets
<1>6. QueueTyped'
  <2>1. PICK ms \in SetToSeqs({PutMemory(m, moved[m]) : m \in M}),
             ss \in SetToSeqs(PutSessions(n, p, q)) :
                Requeue(n, NotOf(n, p), IfEnrolled(q, targets, ms \o ss))
    BY <1>1
  <2>2. ms \in Seq(Mutation) /\ ss \in Seq(Mutation)
    BY <1>4, MemoriesInOrder, SessionsInOrder
  <2>3. IfEnrolled(q, targets, ms \o ss) \in Seq(Mutation)
    BY <2>2 DEF IfEnrolled
  <2>4. NotOf(n, p) \in SUBSET waiting[n]
    BY DEF NotOf
  <2> QED
    BY <2>1, <2>3, <2>4, RequeueKeepsTypes
<1>7. TablesTyped'
  BY <1>1, <1>3 DEF TypeOK, TablesTyped
<1>8. RestTyped'
  BY <1>1, <1>5, OperationKeepsTypes DEF TypeOK, RestTyped
<1> QED
  BY <1>1, <1>6, <1>7, <1>8, PartsOfTypeOK

-----------------------------------------------------------------------------

\* Every variable keeps its type, and no cursor is past the log: whatever the
\* stores do, they queue mutations and apply what is in the log.
THEOREM TypeCorrect == Spec => []TypeOK
<1>1. Init => TypeOK
  BY PlansAssumption DEF Init, TypeOK, Plan
<1>2. TypeOK /\ [Next]_vars => TypeOK'
  <2> SUFFICES ASSUME TypeOK, [Next]_vars PROVE TypeOK'
    OBVIOUS
  <2>1. CASE UNCHANGED vars
    BY <2>1 DEF vars, tables, queue, history, TypeOK
  <2>2. CASE Next
    BY <2>2, CreateSessionKeepsTypes, NewMemoryKeepsTypes, DeleteSessionKeepsTypes,
       DeleteSessionAndContentsKeepsTypes, UpdateObservationKeepsTypes,
       DeleteObservationKeepsTypes, DeleteProjectKeepsTypes, PruneProjectKeepsTypes,
       EnrollKeepsTypes, UnenrollKeepsTypes, MergeKeepsTypes, PushKeepsTypes,
       PullKeepsTypes, Zenon DEF Next, Operations
  <2> QED
    BY <2>1, <2>2
<1> QED
  BY <1>1, <1>2, PTL DEF Spec

-----------------------------------------------------------------------------

\* Rows are only lost, and so are only sessions that no row left refers to.
LEMMA ReferencesKept ==
    ASSUME LocalReferences,
           \A o \in Store, m \in Memory :
             Has(o, m)' => /\ Has(o, m)
                           /\ memories'[o][m].session = memories[o][m].session,
           \A o \in Store, m \in Memory :
             Has(o, m)' /\ HasSession(o, memories[o][m].session)
               => sessions'[o][memories[o][m].session] # None
    PROVE  LocalReferences'
BY DEF LocalReferences, HasSession

\* A row that is written refers to a session that is there.
LEMMA RowSet ==
    ASSUME TypeOK, LocalReferences, NEW n \in Store, NEW m \in Memory, NEW r \in Row,
           HasSession(n, r.session), SetRow(n, m, r), sessions' = sessions
    PROVE  LocalReferences'
<1> SUFFICES ASSUME NEW o \in Store, NEW l \in Memory, Has(o, l)'
             PROVE  sessions'[o][memories'[o][l].session] # None
  BY DEF LocalReferences, HasSession
<1>1. CASE o = n /\ l = m
  <2>1. memories'[o][l] = r
    BY <1>1 DEF TypeOK, SetRow
  <2> QED
    BY <1>1, <2>1 DEF HasSession
<1>2. CASE ~ (o = n /\ l = m)
  <2>1. memories'[o][l] = memories[o][l]
    BY <1>2 DEF TypeOK, SetRow
  <2> QED
    BY <2>1 DEF LocalReferences, Has, HasSession
<1> QED
  BY <1>1, <1>2

\* A session that is created or renamed stays a session.
LEMMA SessionSet ==
    ASSUME TypeOK, LocalReferences, NEW n \in Store, NEW s \in Session, NEW p \in Project,
           sessions' = [sessions EXCEPT ![n][s] = p], memories' = memories
    PROVE  LocalReferences'
<1> SUFFICES ASSUME NEW o \in Store, NEW l \in Memory, Has(o, l)
             PROVE  sessions'[o][memories[o][l].session] # None
  BY DEF LocalReferences, Has, HasSession
<1>1. memories[o][l].session \in Session
  BY DEF TypeOK, Has, Row
<1>2. sessions[o][memories[o][l].session] # None
  BY DEF LocalReferences, HasSession
<1> QED
  BY <1>1, <1>2, NoneAssumption DEF TypeOK

\* Rows that go take no session with them.
LEMMA RowsGone ==
    ASSUME TypeOK, LocalReferences, NEW n \in Store, NEW M, NEW hard \in BOOLEAN,
           \A m \in M : m \in Memory /\ Has(n, m), Gone(n, M, hard), sessions' = sessions
    PROVE  LocalReferences'
BY GoneKeepsTypes, ReferencesKept DEF HasSession

\* Sessions go when their rows have gone, or go with them.
LEMMA SessionsGoneWithRows ==
    ASSUME TypeOK, LocalReferences, NEW n \in Store, NEW S \in SUBSET Session,
           SessionsGone(n, S),
           \A o \in Store, m \in Memory :
             Has(o, m)' => /\ Has(o, m)
                           /\ memories'[o][m].session = memories[o][m].session
                           /\ ~ (o = n /\ memories[o][m].session \in S)
    PROVE  LocalReferences'
<1> SUFFICES ASSUME NEW o \in Store, NEW m \in Memory, Has(o, m)',
                    HasSession(o, memories[o][m].session)
             PROVE  sessions'[o][memories[o][m].session] # None
  BY ReferencesKept
<1>1. memories[o][m].session \in Session
  BY DEF TypeOK, Has, Row
<1> QED
  BY <1>1, SessionsGoneKeepsTypes DEF HasSession

LEMMA ApplyKeepsReferences ==
    ASSUME TypeOK, LocalReferences, NEW n \in Store, NEW e \in Mutation,
           CanApply(n, e), Apply(n, e)
    PROVE  LocalReferences'
<1>1. CASE e.op = "session"
  <2>1. sessions' = [sessions EXCEPT ![n][e.key] = e.body] /\ memories' = memories
    BY <1>1 DEF Apply
  <2> QED
    BY <1>1, <2>1, MutationKinds, SessionSet
<1>2. CASE e.op = "session gone"
  <2>1. SessionsGone(n, {e.key}) /\ memories' = memories
    BY <1>2 DEF Apply
  <2>2. RowsIn(n, e.key) = {}
    BY <1>2 DEF CanApply
  <2>3. \A o \in Store, m \in Memory :
          Has(o, m)' => /\ Has(o, m)
                        /\ memories'[o][m].session = memories[o][m].session
                        /\ ~ (o = n /\ memories[o][m].session \in {e.key})
    BY <2>1, <2>2 DEF RowsIn, Has
  <2>4. {e.key} \in SUBSET Session
    BY <1>2, MutationKinds
  <2> QED
    BY <2>1, <2>3, <2>4, SessionsGoneWithRows
<1>3. CASE e.op = "memory"
  <2>1. SetRow(n, e.key, e.body) /\ sessions' = sessions
    BY <1>3 DEF Apply, Upserted
  <2>2. HasSession(n, e.body.session)
    BY <1>3 DEF CanApply
  <2> QED
    BY <1>3, <2>1, <2>2, MutationKinds, RowSet
<1>4. CASE e.op \in {"memory gone", "memory erased"}
  <2> DEFINE M == {m \in {e.key} : Has(n, m)}
             hard == (e.op = "memory erased")
  <2>1. Gone(n, M, hard) /\ sessions' = sessions
    BY <1>4 DEF Apply
  <2>2. \A m \in M : m \in Memory /\ Has(n, m)
    BY <1>4, MutationKinds
  <2>3. hard \in BOOLEAN
    OBVIOUS
  <2> HIDE DEF M, hard
  <2> QED
    BY <2>1, <2>2, <2>3, RowsGone
<1> QED
  BY <1>1, <1>2, <1>3, <1>4, MutationKinds

LEMMA DeleteSessionKeepsReferences ==
    ASSUME TypeOK, LocalReferences, NEW n \in Store, NEW s \in Session, DeleteSession(n, s)
    PROVE  LocalReferences'
<1>1. RowsIn(n, s) = {} /\ SessionsGone(n, {s}) /\ memories' = memories
  BY DEF DeleteSession, IsEmptySession
<1>2. \A o \in Store, m \in Memory :
        Has(o, m)' => /\ Has(o, m)
                      /\ memories'[o][m].session = memories[o][m].session
                      /\ ~ (o = n /\ memories[o][m].session \in {s})
  BY <1>1 DEF RowsIn, Has
<1> QED
  BY <1>1, <1>2, SessionsGoneWithRows

LEMMA DeleteSessionAndContentsKeepsReferences ==
    ASSUME TypeOK, LocalReferences, NEW n \in Store, NEW s \in Session,
           NEW hard \in BOOLEAN, DeleteSessionAndContents(n, s, hard)
    PROVE  LocalReferences'
<1> DEFINE M == IF hard THEN RowsIn(n, s) ELSE LiveAmong(n, RowsIn(n, s))
<1>1. /\ Gone(n, M, hard)
      /\ IF hard THEN SessionsGone(n, {s}) ELSE UNCHANGED sessions
  BY DEF DeleteSessionAndContents
<1>2. \A m \in M : m \in Memory /\ Has(n, m)
  BY DEF RowsIn, LiveAmong
<1>3. CASE ~hard
  <2> HIDE DEF M
  <2> QED
    BY <1>1, <1>2, <1>3, RowsGone
<1>4. CASE hard
  <2>1. M = RowsIn(n, s)
    BY <1>4
  <2> HIDE DEF M
  <2>2. \A o \in Store, m \in Memory :
          Has(o, m)' => /\ Has(o, m)
                        /\ memories'[o][m].session = memories[o][m].session
                        /\ ~ (o = n /\ m \in M /\ hard)
    BY <1>1, <1>2, GoneKeepsTypes
  <2>3. \A o \in Store, m \in Memory :
          Has(o, m)' => ~ (o = n /\ memories[o][m].session \in {s})
    BY <1>4, <2>1, <2>2 DEF RowsIn
  <2> QED
    BY <1>1, <1>4, <2>2, <2>3, SessionsGoneWithRows
<1> QED
  BY <1>3, <1>4

LEMMA DeleteProjectKeepsReferences ==
    ASSUME TypeOK, LocalReferences, NEW n \in Store, NEW p \in Project,
           NEW hard \in BOOLEAN, DeleteProject(n, p, hard)
    PROVE  LocalReferences'
<1> DEFINE M == IF hard THEN RowsOf(n, p) ELSE LiveAmong(n, RowsOf(n, p))
           emptied == IF hard THEN {s \in SessionsOf(n, p) : RowsIn(n, s) \subseteq M} ELSE {}
<1>1. Gone(n, M, hard) /\ SessionsGone(n, emptied)
  BY DEF DeleteProject
<1>2. \A m \in M : m \in Memory /\ Has(n, m)
  BY DEF RowsOf, LiveAmong
<1>3. /\ emptied \in SUBSET Session
      /\ \A s \in emptied : hard /\ RowsIn(n, s) \subseteq M
  BY DEF SessionsOf
<1> HIDE DEF M, emptied
<1>4. \A o \in Store, m \in Memory :
        Has(o, m)' => /\ Has(o, m)
                      /\ memories'[o][m].session = memories[o][m].session
                      /\ ~ (o = n /\ m \in M /\ hard)
  BY <1>1, <1>2, GoneKeepsTypes
<1>5. \A o \in Store, m \in Memory :
        Has(o, m)' => ~ (o = n /\ memories[o][m].session \in emptied)
  BY <1>3, <1>4 DEF RowsIn
<1> QED
  BY <1>1, <1>3, <1>4, <1>5, SessionsGoneWithRows

LEMMA PruneProjectKeepsReferences ==
    ASSUME TypeOK, LocalReferences, NEW n \in Store, NEW p \in Project, PruneProject(n, p)
    PROVE  LocalReferences'
<1> DEFINE S == SessionsOf(n, p)
<1>1. /\ \A s \in S : RowsIn(n, s) = {}
      /\ SessionsGone(n, S) /\ memories' = memories
  BY DEF PruneProject
<1>2. S \in SUBSET Session
  BY DEF SessionsOf
<1>3. \A o \in Store, m \in Memory :
        Has(o, m)' => /\ Has(o, m)
                      /\ memories'[o][m].session = memories[o][m].session
                      /\ ~ (o = n /\ memories[o][m].session \in S)
  <2> HIDE DEF S
  <2> QED BY <1>1 DEF RowsIn, Has
<1> HIDE DEF S
<1> QED
  BY <1>1, <1>2, <1>3, SessionsGoneWithRows

LEMMA MergeKeepsReferences ==
    ASSUME TypeOK, LocalReferences, NEW n \in Store, NEW p \in Project, NEW q \in Project,
           Merge(n, p, q)
    PROVE  LocalReferences'
<1>1. memories' = [memories EXCEPT ![n] =
          [m \in Memory |-> IF m \in RowsOf(n, p)
                            THEN [memories[n][m] EXCEPT !.project = q]
                            ELSE memories[n][m]]]
  BY DEF Merge
<1>2. sessions' = [sessions EXCEPT ![n] =
          [s \in Session |-> IF sessions[n][s] = p THEN q ELSE sessions[n][s]]]
  BY DEF Merge
<1>3. ASSUME NEW o \in Store, NEW m \in Memory, Has(o, m)'
      PROVE  Has(o, m) /\ memories'[o][m].session = memories[o][m].session
  <2>1. CASE o = n /\ m \in RowsOf(n, p)
    <3>1. memories[n][m] \in Row
      BY <2>1 DEF TypeOK, RowsOf, Has
    <3>2. memories'[n][m] = [memories[n][m] EXCEPT !.project = q]
      BY <1>1, <2>1 DEF TypeOK
    <3>3. memories'[n][m].session = memories[n][m].session
      BY <3>1, <3>2 DEF Row
    <3> QED
      BY <2>1, <3>3 DEF RowsOf
  <2>2. CASE ~ (o = n /\ m \in RowsOf(n, p))
    <3>1. memories'[o][m] = memories[o][m]
      BY <1>1, <2>2 DEF TypeOK
    <3> QED
      BY <1>3, <3>1 DEF Has
  <2> QED
    BY <2>1, <2>2
<1>4. ASSUME NEW o \in Store, NEW m \in Memory, Has(o, m)',
             HasSession(o, memories[o][m].session)
      PROVE  sessions'[o][memories[o][m].session] # None
  <2>1. memories[o][m].session \in Session
    BY <1>3, <1>4 DEF TypeOK, Has, Row
  <2>2. sessions[o][memories[o][m].session] # None
    BY <1>4 DEF HasSession
  <2> QED
    BY <1>2, <2>1, <2>2, NoneAssumption DEF TypeOK
<1> QED
  BY <1>3, <1>4, ReferencesKept

LEMMA WritesKeepReferences ==
    ASSUME TypeOK, LocalReferences, NEW n \in Store
    PROVE  /\ \A s \in Session : CreateSession(n, s) => LocalReferences'
           /\ \A s \in Session, m \in Memory :
                AddObservation(n, m, s) \/ Consolidate(n, m, s) => LocalReferences'
           /\ \A m \in Memory, q \in Project : UpdateObservation(n, m, q) => LocalReferences'
           /\ \A m \in Memory, hard \in BOOLEAN :
                DeleteObservation(n, m, hard) => LocalReferences'
<1>1. ASSUME NEW s \in Session, CreateSession(n, s) PROVE LocalReferences'
  BY <1>1, HomeAssumption, SessionSet DEF CreateSession
<1>2. ASSUME NEW s \in Session, NEW m \in Memory, AddObservation(n, m, s) \/ Consolidate(n, m, s)
      PROVE  LocalReferences'
  <2>1. PICK p \in Project :
          NewMemory(n, m, s, p) /\ (Operation("add") \/ Operation("consolidate"))
    BY <1>2, NewMemoriesAre, Zenon
  <2> DEFINE r == [text |-> {Edit}, session |-> s, project |-> p, live |-> TRUE]
  <2>2. HasSession(n, s) /\ SetRow(n, m, r) /\ sessions' = sessions
    BY <2>1 DEF NewMemory
  <2>3. r \in Row
    BY <2>1, OperationKeepsTypes DEF Row, Text
  <2>4. HasSession(n, r.session)
    BY <2>2
  <2> HIDE DEF r
  <2> QED
    BY <2>2, <2>3, <2>4, RowSet
<1>3. ASSUME NEW m \in Memory, NEW q \in Project, UpdateObservation(n, m, q)
      PROVE  LocalReferences'
  <2> DEFINE old == memories[n][m]
             new == [old EXCEPT !.text = @ \cup {Edit}, !.project = q]
  <2>1. old \in Row /\ HasSession(n, old.session)
    BY <1>3 DEF TypeOK, LocalReferences, UpdateObservation, Live, Has
  <2>2. Edit \in 1..MaxWrites
    BY <1>3, OperationKeepsTypes DEF UpdateObservation
  <2>3. new \in Row /\ new.session = old.session
    BY <2>1, <2>2 DEF Row, Text
  <2>4. SetRow(n, m, new) /\ sessions' = sessions
    BY <1>3 DEF UpdateObservation
  <2> HIDE DEF old, new
  <2> QED
    BY <2>1, <2>3, <2>4, RowSet
<1>4. ASSUME NEW m \in Memory, NEW hard \in BOOLEAN, DeleteObservation(n, m, hard)
      PROVE  LocalReferences'
  <2>1. Gone(n, {m}, hard) /\ sessions' = sessions
    BY <1>4 DEF DeleteObservation
  <2>2. \A l \in {m} : l \in Memory /\ Has(n, l)
    BY <1>4 DEF DeleteObservation, Live
  <2> QED
    BY <2>1, <2>2, RowsGone
<1> QED
  BY <1>1, <1>2, <1>3, <1>4

\* A memory a store holds, tombstoned or not, has its session there: neither
\* the deletes and merges of users (delete_session, delete_project,
\* merge_projects) nor what is pulled from peers leaves a dangling reference.
THEOREM ReferencesHold == Spec => []LocalReferences
<1>1. Init => LocalReferences
  BY DEF Init, LocalReferences, Has
<1>2. TypeOK /\ LocalReferences /\ [Next]_vars => LocalReferences'
  <2> SUFFICES ASSUME TypeOK, LocalReferences, [Next]_vars PROVE LocalReferences'
    OBVIOUS
  <2>1. CASE UNCHANGED vars
    BY <2>1 DEF vars, tables, queue, history, LocalReferences, Has, HasSession
  <2>2. ASSUME NEW n \in Store, NEW p \in Project, Enroll(n, p) \/ Unenroll(n, p)
        PROVE  LocalReferences'
    BY <2>2 DEF Enroll, Unenroll, tables, LocalReferences, Has, HasSession
  <2>3. ASSUME NEW n \in Store, Push(n) PROVE LocalReferences'
    BY <2>3 DEF Push, tables, LocalReferences, Has, HasSession
  <2>4. ASSUME NEW n \in Store, Pull(n) PROVE LocalReferences'
    <3>1. log[cursor[n] + 1] \in Mutation
      BY <2>4 DEF TypeOK, Pull, Behind
    <3> QED
      BY <2>4, <3>1, ApplyKeepsReferences DEF Pull
  <2>5. CASE Next
    BY <2>2, <2>3, <2>4, <2>5, WritesKeepReferences, DeleteSessionKeepsReferences,
       DeleteSessionAndContentsKeepsReferences, DeleteProjectKeepsReferences,
       PruneProjectKeepsReferences, MergeKeepsReferences, Zenon DEF Next, Operations
  <2> QED
    BY <2>1, <2>5
<1> QED
  BY <1>1, <1>2, TypeCorrect, PTL DEF Spec

-----------------------------------------------------------------------------
(***************************************************************************)
(* What is told.  A mutation is known when it is in the log or waits in a  *)
(* journal; the properties below rest on what the operations queue.        *)
(***************************************************************************)

Among(e, es) == \E i \in DOMAIN es : es[i] = e

Known(e) == Logged(e) \/ \E n \in Store : Sent(n, e)

\* An order of a finite set holds all of its members.
LEMMA OrdersHoldAll ==
    ASSUME NEW S, IsFiniteSet(S), NEW f \in SetToSeqs(S)
    PROVE  \A x : Among(x, f) <=> x \in S
<1> DEFINE N == Cardinality(S)
<1>1. N \in Nat /\ N = Cardinality(S) BY FS_CardinalityType
<1>2. f \in [1..N -> S] /\ \A i, j \in 1..N : i # j => f[i] # f[j] BY DEF SetToSeqs
<1>3. 1..N \in SUBSET Int /\ IsFiniteSet(1..N) /\ Cardinality(1..N) = N BY <1>1, FS_Interval
<1> HIDE DEF N
<1>4. f \in Injection(1..N, S) BY <1>2 DEF Injection, IsInjective
<1>5. f \in Surjection(1..N, S) BY <1>1, <1>3, <1>4, FS_Injection
<1>6. QED BY <1>2, <1>5 DEF Surjection, Among

LEMMA AmongBoth ==
    ASSUME NEW S, NEW f \in Seq(S), NEW g \in Seq(S), NEW e
    PROVE  Among(e, f \o g) <=> Among(e, f) \/ Among(e, g)
<1>1. ASSUME Among(e, f) PROVE Among(e, f \o g)
  <2>1. PICK i \in DOMAIN f : f[i] = e BY <1>1 DEF Among
  <2>2. i \in DOMAIN (f \o g) /\ (f \o g)[i] = e BY <2>1
  <2>3. QED BY <2>2 DEF Among
<1>2. ASSUME Among(e, g) PROVE Among(e, f \o g)
  <2>1. PICK i \in DOMAIN g : g[i] = e BY <1>2 DEF Among
  <2>2. Len(f) + i \in DOMAIN (f \o g) /\ (f \o g)[Len(f) + i] = e BY <2>1
  <2>3. QED BY <2>2 DEF Among
<1>3. ASSUME Among(e, f \o g) PROVE Among(e, f) \/ Among(e, g)
  <2>1. PICK i \in DOMAIN (f \o g) : (f \o g)[i] = e BY <1>3 DEF Among
  <2>2. CASE i <= Len(f)
    <3>1. i \in DOMAIN f /\ f[i] = e BY <2>1, <2>2
    <3>2. QED BY <3>1 DEF Among
  <2>3. CASE i > Len(f)
    <3>1. i - Len(f) \in DOMAIN g /\ g[i - Len(f)] = e BY <2>1, <2>3
    <3>2. QED BY <3>1 DEF Among
  <2>4. QED BY <2>1, <2>2, <2>3
<1>4. QED BY <1>1, <1>2, <1>3

\* Where what is queued goes: behind the journal.
LEMMA Requeued ==
    ASSUME TypeOK, NEW n \in Store, NEW kept \in SUBSET waiting[n],
           NEW es \in Seq(Mutation), Requeue(n, kept, es)
    PROVE  /\ \A k \in kept : k \in waiting'[n] /\ journal'[n][k] = journal[n][k]
           /\ \A i \in DOMAIN es : /\ Len(journal[n]) + i \in waiting'[n]
                                   /\ journal'[n][Len(journal[n]) + i] = es[i]
           /\ \A k \in waiting'[n] :
                \/ k \in kept /\ k <= Len(journal[n]) /\ journal'[n][k] = journal[n][k]
                \/ \E i \in DOMAIN es : k = Len(journal[n]) + i /\ journal'[n][k] = es[i]
           /\ \A o \in Store : o # n => waiting'[o] = waiting[o] /\ journal'[o] = journal[o]
<1> DEFINE J == journal[n]
           L == Len(journal[n])
<1>1. J \in Seq(Mutation) /\ L \in Nat /\ Len(es) \in Nat /\ DOMAIN es = 1..Len(es)
      /\ DOMAIN J = 1..L /\ kept \subseteq DOMAIN J
  BY DEF TypeOK
<1>2. journal'[n] = J \o es /\ waiting'[n] = kept \cup (L + 1)..(L + Len(es))
  BY DEF TypeOK, Requeue
<1>3. \A o \in Store : o # n => waiting'[o] = waiting[o] /\ journal'[o] = journal[o]
  BY DEF TypeOK, Requeue
<1> HIDE DEF J, L
<1>4. \A k \in DOMAIN J : k <= L /\ (J \o es)[k] = J[k] BY <1>1 DEF L, J
<1>5. \A i \in DOMAIN es : L + i \in (L + 1)..(L + Len(es)) /\ (J \o es)[L + i] = es[i]
  BY <1>1 DEF L, J
<1>6. ASSUME NEW k \in (L + 1)..(L + Len(es))
      PROVE  \E i \in DOMAIN es : k = L + i
  <2>1. k - L \in DOMAIN es /\ k = L + (k - L) BY <1>1
  <2>2. QED BY <2>1
<1>7. QED BY <1>1, <1>2, <1>3, <1>4, <1>5, <1>6 DEF J, L

LEMMA SentAfter ==
    ASSUME TypeOK, NEW n \in Store, NEW kept \in SUBSET waiting[n],
           NEW es \in Seq(Mutation), Requeue(n, kept, es)
    PROVE  /\ \A e : Sent(n, e)' => Among(e, es) \/ \E k \in kept : journal[n][k] = e
           /\ \A e : Among(e, es) => Sent(n, e)'
           /\ \A e : (\E k \in kept : journal[n][k] = e) => Sent(n, e)'
           /\ \A o \in Store : \A e : o # n => (Sent(o, e)' <=> Sent(o, e))
<1>0. /\ \A k \in kept : k \in waiting'[n] /\ journal'[n][k] = journal[n][k]
      /\ \A i \in DOMAIN es : /\ Len(journal[n]) + i \in waiting'[n]
                              /\ journal'[n][Len(journal[n]) + i] = es[i]
      /\ \A k \in waiting'[n] :
           \/ k \in kept /\ k <= Len(journal[n]) /\ journal'[n][k] = journal[n][k]
           \/ \E i \in DOMAIN es : k = Len(journal[n]) + i /\ journal'[n][k] = es[i]
      /\ \A o \in Store : o # n => waiting'[o] = waiting[o] /\ journal'[o] = journal[o]
  BY Requeued
<1>1. ASSUME NEW e, Sent(n, e)' PROVE Among(e, es) \/ \E k \in kept : journal[n][k] = e
  BY <1>0, <1>1 DEF Sent, Among
<1>2. ASSUME NEW e, Among(e, es) PROVE Sent(n, e)'
  BY <1>0, <1>2 DEF Sent, Among
<1>3. ASSUME NEW e, NEW k \in kept, journal[n][k] = e PROVE Sent(n, e)'
  BY <1>0, <1>3 DEF Sent
<1>4. ASSUME NEW o \in Store, NEW e, o # n PROVE Sent(o, e)' <=> Sent(o, e)
  BY <1>0, <1>4 DEF Sent
<1>5. QED BY <1>1, <1>2, <1>3, <1>4

\* A push takes the first that waits to the end of the log.
LEMMA Pushed ==
    ASSUME TypeOK, NEW n \in Store, Push(n)
    PROVE  \E k \in waiting[n] :
             /\ \A j \in waiting[n] : k <= j
             /\ Len(log') = Len(log) + 1 /\ log'[Len(log) + 1] = journal[n][k]
             /\ journal[n][k] \in Mutation
             /\ \A i \in DOMAIN log : i \in DOMAIN log' /\ log'[i] = log[i]
             /\ DOMAIN log' = DOMAIN log \cup {Len(log) + 1} /\ Len(log) + 1 \notin DOMAIN log
             /\ waiting'[n] = waiting[n] \ {k}
             /\ \A o \in Store : o # n => waiting'[o] = waiting[o]
             /\ UNCHANGED <<tables, enrolled, journal, cursor, history>>
<1>1. PICK k \in waiting[n] :
        /\ \A j \in waiting[n] : k <= j
        /\ log' = Append(log, journal[n][k])
        /\ waiting' = [waiting EXCEPT ![n] = @ \ {k}]
        /\ UNCHANGED <<tables, enrolled, journal, cursor, history>>
  BY DEF Push
<1>2. journal[n][k] \in Mutation /\ log \in Seq(Mutation) BY DEF TypeOK
<1>3. /\ Len(log') = Len(log) + 1 /\ log'[Len(log) + 1] = journal[n][k]
      /\ \A i \in DOMAIN log : i \in DOMAIN log' /\ log'[i] = log[i]
      /\ DOMAIN log' = DOMAIN log \cup {Len(log) + 1} /\ Len(log) + 1 \notin DOMAIN log
  BY <1>1, <1>2
<1>4. /\ waiting'[n] = waiting[n] \ {k}
      /\ \A o \in Store : o # n => waiting'[o] = waiting[o]
  BY <1>1 DEF TypeOK
<1>5. QED BY <1>1, <1>2, <1>3, <1>4

LEMMA KnownAfterPush ==
    ASSUME TypeOK, NEW n \in Store, Push(n)
    PROVE  /\ \A e : Logged(e) => Logged(e)'
           /\ \A e : \A o \in Store : Sent(o, e) => Sent(o, e)' \/ Logged(e)'
           /\ \A e : Known(e)' => Known(e)
<1>1. PICK k \in waiting[n] :
        /\ log'[Len(log) + 1] = journal[n][k]
        /\ \A i \in DOMAIN log : i \in DOMAIN log' /\ log'[i] = log[i]
        /\ DOMAIN log' = DOMAIN log \cup {Len(log) + 1}
        /\ waiting'[n] = waiting[n] \ {k}
        /\ \A o \in Store : o # n => waiting'[o] = waiting[o]
        /\ UNCHANGED journal
  BY Pushed
<1>2. \A e : Logged(e) => Logged(e)' BY <1>1 DEF Logged
<1>3. Logged(journal[n][k])' BY <1>1 DEF Logged
<1>4. ASSUME NEW e, NEW o \in Store, Sent(o, e) PROVE Sent(o, e)' \/ Logged(e)'
  BY <1>1, <1>3, <1>4 DEF Sent
<1>5. \A e : Logged(e)' => Logged(e) \/ Sent(n, e) BY <1>1 DEF Logged, Sent
<1>6. \A e : \A o \in Store : Sent(o, e)' => Sent(o, e) BY <1>1 DEF Sent
<1>7. QED BY <1>2, <1>4, <1>5, <1>6 DEF Known

LEMMA KnownAfterPull ==
    ASSUME NEW n \in Store, Pull(n)
    PROVE  /\ \A e : Logged(e)' <=> Logged(e)
           /\ \A e : \A o \in Store : Sent(o, e)' <=> Sent(o, e)
           /\ \A e : Known(e)' <=> Known(e)
BY DEF Pull, queue, Known, Sent, Logged

\* The deletes of users in one form: the rows of M go or are tombstoned, the
\* sessions of S go, and es says so under one project.
Deletes(n, p, M, S, hard, es) ==
    /\ \A m \in M : Has(n, m)
    /\ Gone(n, M, hard)
    /\ SessionsGone(n, S)
    /\ \A e : Among(e, es) <=> \/ \E m \in M : e = MemoryGone(m, hard, p)
                               \/ \E s \in S : e = SessionGone(s, p)
    /\ Queue(n, p, es)
    /\ deleted' = deleted \cup M
    /\ UNCHANGED <<enrolled, log, cursor, written>>
    /\ ~OnlyGrows
    /\ S # {} => ~SessionsStay

SomeDelete(n) ==
    \E p \in Project, M \in SUBSET Memory, S \in SUBSET Session, hard \in BOOLEAN,
       es \in Seq(Mutation) : Deletes(n, p, M, S, hard, es)

LEMMA NothingGoes ==
    ASSUME TypeOK, NEW n \in Store, NEW hard \in BOOLEAN
    PROVE  /\ memories' = memories => Gone(n, {}, hard)
           /\ sessions' = sessions => SessionsGone(n, {})
<1>1. memories = [memories EXCEPT ![n] = [m \in Memory |-> memories[n][m]]] BY DEF TypeOK
<1>2. sessions = [sessions EXCEPT ![n] = [s \in Session |-> sessions[n][s]]] BY DEF TypeOK
<1>3. QED BY <1>1, <1>2 DEF Gone, SessionsGone

LEMMA MemoriesGoneAre ==
    ASSUME NEW M \in SUBSET Memory, NEW hard \in BOOLEAN, NEW p \in Project,
           NEW es \in SetToSeqs({MemoryGone(m, hard, p) : m \in M})
    PROVE  /\ es \in Seq(Mutation)
           /\ \A e : Among(e, es) <=> \E m \in M : e = MemoryGone(m, hard, p)
<1> DEFINE f == [m \in M |-> MemoryGone(m, hard, p)]
<1>1. IsFiniteSet(M) BY FiniteAssumption, FS_Subset
<1>2. IsFiniteSet({f[m] : m \in M}) BY <1>1, ImageIsFinite
<1>3. {f[m] : m \in M} = {MemoryGone(m, hard, p) : m \in M} OBVIOUS
<1>4. \A e : Among(e, es) <=> e \in {MemoryGone(m, hard, p) : m \in M}
  BY <1>2, <1>3, OrdersHoldAll
<1>5. QED BY <1>4, MemoriesGoneInOrder

LEMMA SessionsGoneAre ==
    ASSUME NEW S \in SUBSET Session, NEW p \in Project,
           NEW es \in SetToSeqs({SessionGone(s, p) : s \in S})
    PROVE  /\ es \in Seq(Mutation)
           /\ \A e : Among(e, es) <=> \E s \in S : e = SessionGone(s, p)
<1> DEFINE f == [s \in S |-> SessionGone(s, p)]
<1>1. IsFiniteSet(S) BY FiniteAssumption, FS_Subset
<1>2. IsFiniteSet({f[s] : s \in S}) BY <1>1, ImageIsFinite
<1>3. {f[s] : s \in S} = {SessionGone(s, p) : s \in S} OBVIOUS
<1>4. \A e : Among(e, es) <=> e \in {SessionGone(s, p) : s \in S}
  BY <1>2, <1>3, OrdersHoldAll
<1>5. QED BY <1>4, SessionsGoneInOrder

LEMMA OneAmong == \A e, x : Among(e, <<x>>) <=> e = x
BY DEF Among

LEMMA NoneAmong == \A e : ~Among(e, <<>>)
BY DEF Among

LEMMA DeleteObservationDeletes ==
    ASSUME TypeOK, NEW n \in Store, NEW m \in Memory, NEW hard \in BOOLEAN,
           DeleteObservation(n, m, hard)
    PROVE  SomeDelete(n)
<1> DEFINE p == memories[n][m].project
<1>1. Has(n, m) BY DEF DeleteObservation, Live
<1>2. p \in Project BY <1>1 DEF TypeOK, Has, Row
<1>3. MemoryGone(m, hard, p) \in Mutation BY <1>2, MutationsAreTyped
<1> HIDE DEF p
<1>4. <<MemoryGone(m, hard, p)>> \in Seq(Mutation) BY <1>3
<1>5. /\ Gone(n, {m}, hard) /\ sessions' = sessions
      /\ Queue(n, p, <<MemoryGone(m, hard, p)>>)
      /\ deleted' = deleted \cup {m}
      /\ UNCHANGED <<enrolled, log, cursor, written>>
      /\ plan.ops \cap {"hard delete", "soft delete"} # {}
  BY DEF DeleteObservation, Operation, p
<1>6. ~OnlyGrows BY <1>5 DEF OnlyGrows
<1>7. Deletes(n, p, {m}, {}, hard, <<MemoryGone(m, hard, p)>>)
  BY <1>1, <1>5, <1>6, NothingGoes, OneAmong DEF Deletes
<1>8. QED BY <1>2, <1>4, <1>7 DEF SomeDelete

LEMMA DeleteSessionDeletes ==
    ASSUME TypeOK, NEW n \in Store, NEW s \in Session, DeleteSession(n, s)
    PROVE  SomeDelete(n)
<1> DEFINE p == sessions[n][s]
<1>1. p \in Project BY SessionsAreOfProjects DEF DeleteSession
<1>2. SessionGone(s, p) \in Mutation BY <1>1, MutationsAreTyped
<1> HIDE DEF p
<1>3. <<SessionGone(s, p)>> \in Seq(Mutation) BY <1>2
<1>4. /\ SessionsGone(n, {s}) /\ memories' = memories
      /\ Queue(n, p, <<SessionGone(s, p)>>)
      /\ UNCHANGED <<enrolled, log, cursor, written, deleted>>
      /\ "delete session" \in plan.ops
  BY DEF DeleteSession, Operation, p
<1>5. ~OnlyGrows /\ ~SessionsStay BY <1>4 DEF OnlyGrows, SessionsStay
<1>6. Deletes(n, p, {}, {s}, FALSE, <<SessionGone(s, p)>>)
  BY <1>4, <1>5, NothingGoes, OneAmong DEF Deletes
<1>7. QED BY <1>1, <1>3, <1>6 DEF SomeDelete

LEMMA DeleteSessionAndContentsDeletes ==
    ASSUME TypeOK, NEW n \in Store, NEW s \in Session, NEW hard \in BOOLEAN,
           DeleteSessionAndContents(n, s, hard)
    PROVE  SomeDelete(n)
<1> DEFINE M == IF hard THEN RowsIn(n, s) ELSE LiveAmong(n, RowsIn(n, s))
           p == sessions[n][s]
           S == IF hard THEN {s} ELSE {}
           last == IF hard THEN <<SessionGone(s, p)>> ELSE <<>>
<1>1. /\ "delete contents" \in plan.ops
      /\ HasSession(n, s)
      /\ Gone(n, M, hard)
      /\ IF hard THEN SessionsGone(n, {s}) ELSE UNCHANGED sessions
      /\ \E es \in SetToSeqs({MemoryGone(m, hard, p) : m \in M}) : Queue(n, p, es \o last)
      /\ deleted' = deleted \cup M
      /\ UNCHANGED <<enrolled, log, cursor, written>>
  BY DEF DeleteSessionAndContents, Operation
<1>2. p \in Project BY <1>1, SessionsAreOfProjects
<1>3. M \in SUBSET Memory /\ \A m \in M : Has(n, m) BY DEF RowsIn, LiveAmong
<1>4. last \in Seq(Mutation) BY <1>2, MutationsAreTyped
<1>5. \A e : Among(e, last) <=> \E t \in S : e = SessionGone(t, p) BY OneAmong, NoneAmong
<1>6. SessionsGone(n, S) /\ S \in SUBSET Session BY <1>1, NothingGoes
<1> HIDE DEF M, p, S, last
<1>7. PICK es \in SetToSeqs({MemoryGone(m, hard, p) : m \in M}) : Queue(n, p, es \o last)
  BY <1>1
<1>8. es \in Seq(Mutation) /\ \A e : Among(e, es) <=> \E m \in M : e = MemoryGone(m, hard, p)
  BY <1>2, <1>3, MemoriesGoneAre
<1>9. es \o last \in Seq(Mutation) BY <1>4, <1>8
<1>10. \A e : Among(e, es \o last) <=> Among(e, es) \/ Among(e, last)
  BY <1>4, <1>8, AmongBoth
<1>11. ~OnlyGrows /\ ~SessionsStay BY <1>1 DEF OnlyGrows, SessionsStay
<1>12. Deletes(n, p, M, S, hard, es \o last)
  BY <1>1, <1>3, <1>5, <1>6, <1>7, <1>8, <1>10, <1>11 DEF Deletes
<1>13. QED BY <1>2, <1>3, <1>6, <1>9, <1>12 DEF SomeDelete

LEMMA DeleteProjectDeletes ==
    ASSUME TypeOK, NEW n \in Store, NEW p \in Project, NEW hard \in BOOLEAN,
           DeleteProject(n, p, hard)
    PROVE  SomeDelete(n)
<1> DEFINE M == IF hard THEN RowsOf(n, p) ELSE LiveAmong(n, RowsOf(n, p))
           S == IF hard THEN {s \in SessionsOf(n, p) : RowsIn(n, s) \subseteq M} ELSE {}
<1>1. /\ "delete project" \in plan.ops
      /\ Gone(n, M, hard)
      /\ SessionsGone(n, S)
      /\ \E es \in SetToSeqs({MemoryGone(m, hard, p) : m \in M}),
            fs \in SetToSeqs({SessionGone(s, p) : s \in S}) : Queue(n, p, es \o fs)
      /\ deleted' = deleted \cup M
      /\ UNCHANGED <<enrolled, log, cursor, written>>
  BY DEF DeleteProject, Operation
<1>2. M \in SUBSET Memory /\ \A m \in M : Has(n, m) BY DEF RowsOf, LiveAmong
<1>3. S \in SUBSET Session BY DEF SessionsOf
<1> HIDE DEF M, S
<1>4. PICK es \in SetToSeqs({MemoryGone(m, hard, p) : m \in M}),
           fs \in SetToSeqs({SessionGone(s, p) : s \in S}) : Queue(n, p, es \o fs)
  BY <1>1
<1>5. es \in Seq(Mutation) /\ \A e : Among(e, es) <=> \E m \in M : e = MemoryGone(m, hard, p)
  BY <1>2, MemoriesGoneAre
<1>6. fs \in Seq(Mutation) /\ \A e : Among(e, fs) <=> \E s \in S : e = SessionGone(s, p)
  BY <1>3, SessionsGoneAre
<1>7. es \o fs \in Seq(Mutation) BY <1>5, <1>6
<1>8. \A e : Among(e, es \o fs) <=> Among(e, es) \/ Among(e, fs) BY <1>5, <1>6, AmongBoth
<1>9. ~OnlyGrows /\ ~SessionsStay BY <1>1 DEF OnlyGrows, SessionsStay
<1>10. Deletes(n, p, M, S, hard, es \o fs)
  BY <1>1, <1>2, <1>4, <1>5, <1>6, <1>8, <1>9 DEF Deletes
<1>11. QED BY <1>2, <1>3, <1>7, <1>10 DEF SomeDelete

LEMMA PruneProjectDeletes ==
    ASSUME TypeOK, NEW n \in Store, NEW p \in Project, PruneProject(n, p)
    PROVE  SomeDelete(n)
<1> DEFINE S == SessionsOf(n, p)
<1>1. /\ "prune" \in plan.ops
      /\ SessionsGone(n, S) /\ memories' = memories
      /\ \E es \in SetToSeqs({SessionGone(s, p) : s \in S}) : Queue(n, p, es)
      /\ UNCHANGED <<enrolled, log, cursor, written, deleted>>
  BY DEF PruneProject, Operation
<1>2. S \in SUBSET Session BY DEF SessionsOf
<1> HIDE DEF S
<1>3. PICK es \in SetToSeqs({SessionGone(s, p) : s \in S}) : Queue(n, p, es) BY <1>1
<1>4. es \in Seq(Mutation) /\ \A e : Among(e, es) <=> \E s \in S : e = SessionGone(s, p)
  BY <1>2, SessionsGoneAre
<1>5. ~OnlyGrows /\ ~SessionsStay BY <1>1 DEF OnlyGrows, SessionsStay
<1>6. Deletes(n, p, {}, S, FALSE, es) BY <1>1, <1>3, <1>4, <1>5, NothingGoes DEF Deletes
<1>7. QED BY <1>2, <1>4, <1>6 DEF SomeDelete

\* A memory is added or changed, perhaps under another project: its row is r.
Writes(n, m, r) ==
    /\ r \in Row /\ r.live
    /\ \/ (\A t \in written : t[1] # m) /\ r.text = {Edit} /\ HasSession(n, r.session)
          /\ \/ "add" \in plan.ops /\ r.project \in {sessions[n][r.session], HomeOf[r.session]}
             \/ "consolidate" \in plan.ops
       \/ Live(n, m) /\ r.text = memories[n][m].text \cup {Edit}
          /\ r.session = memories[n][m].session
          /\ (r.project = memories[n][m].project \/ "move" \in plan.ops)
    /\ memories' = [memories EXCEPT ![n][m] = r]
    /\ \/ Queue(n, r.project, <<PutMemory(m, r)>>)
       \/ /\ Live(n, m) /\ LeavesGhost(n, memories[n][m].project, r.project)
          /\ "move" \in plan.ops
          /\ Queue(n, memories[n][m].project, <<MemoryGone(m, FALSE, memories[n][m].project)>>)
    /\ written' = written \cup {<<m, r.text>>} /\ writes' = Edit
    /\ UNCHANGED <<sessions, enrolled, log, cursor, deleted>>

LEMMA NewMemoryWrites ==
    ASSUME TypeOK, NEW n \in Store, NEW m \in Memory, NEW s \in Session,
           AddObservation(n, m, s) \/ Consolidate(n, m, s)
    PROVE  \E r \in Row : Writes(n, m, r)
<1>1. PICK p \in Project :
        /\ NewMemory(n, m, s, p)
        /\ \/ Operation("add") /\ p \in {sessions[n][s], HomeOf[s]}
           \/ Operation("consolidate")
  BY NewMemoriesAre, Zenon
<1> DEFINE r == [text |-> {Edit}, session |-> s, project |-> p, live |-> TRUE]
<1>2. r \in Row BY <1>1, OperationKeepsTypes DEF Row, Text
<1>3. r.live /\ r.text = {Edit} /\ r.session = s /\ r.project = p OBVIOUS
<1>4. /\ HasSession(n, s)
      /\ \A t \in written : t[1] # m
      /\ memories' = [memories EXCEPT ![n][m] = r]
      /\ Queue(n, p, <<PutMemory(m, r)>>)
      /\ written' = written \cup {<<m, r.text>>}
      /\ UNCHANGED <<sessions, enrolled, log, cursor, deleted>>
  BY <1>1 DEF NewMemory, SetRow
<1>5. /\ writes' = Edit
      /\ \/ "add" \in plan.ops /\ p \in {sessions[n][s], HomeOf[s]}
         \/ "consolidate" \in plan.ops
  BY <1>1 DEF Operation, Edit
<1> HIDE DEF r
<1>6. Writes(n, m, r) BY <1>2, <1>3, <1>4, <1>5 DEF Writes
<1>7. QED BY <1>2, <1>6

LEMMA UpdateObservationWrites ==
    ASSUME TypeOK, NEW n \in Store, NEW m \in Memory, NEW q \in Project,
           UpdateObservation(n, m, q)
    PROVE  \E r \in Row : Writes(n, m, r)
<1> DEFINE old == memories[n][m]
           r == [old EXCEPT !.text = @ \cup {Edit}, !.project = q]
<1>1. old \in Row /\ Live(n, m) /\ old.live BY DEF TypeOK, UpdateObservation, Live, Has
<1>2. Edit \in 1..MaxWrites BY OperationKeepsTypes DEF UpdateObservation
<1>3. /\ r \in Row /\ r.live /\ r.text = old.text \cup {Edit} /\ r.session = old.session
      /\ r.project = q
  BY <1>1, <1>2 DEF Row, Text
<1>4. /\ memories' = [memories EXCEPT ![n][m] = r]
      /\ IF LeavesGhost(n, old.project, q)
         THEN Queue(n, old.project, <<MemoryGone(m, FALSE, old.project)>>)
         ELSE Queue(n, q, <<PutMemory(m, r)>>)
      /\ written' = written \cup {<<m, r.text>>} /\ writes' = Edit
      /\ q = old.project \/ "move" \in plan.ops
      /\ UNCHANGED <<sessions, enrolled, log, cursor, deleted>>
  BY DEF UpdateObservation, SetRow, Operation, Edit
<1> HIDE DEF r
<1>5. Writes(n, m, r) BY <1>1, <1>3, <1>4 DEF Writes, LeavesGhost
<1>6. QED BY <1>3, <1>5

\* What a user's operation is.
LEMMA OperationsAre ==
    ASSUME TypeOK, NEW n \in Store, Operations(n)
    PROVE  \/ \E s \in Session : CreateSession(n, s)
           \/ \E m \in Memory : \E r \in Row : Writes(n, m, r)
           \/ SomeDelete(n)
           \/ \E p \in Project : Enroll(n, p) \/ Unenroll(n, p)
           \/ \E p, q \in Project : Merge(n, p, q)
<1>1. ASSUME NEW m \in Memory, NEW s \in Session, AddObservation(n, m, s) \/ Consolidate(n, m, s)
      PROVE  \E r \in Row : Writes(n, m, r)
  BY <1>1, NewMemoryWrites
<1>2. ASSUME NEW m \in Memory, NEW q \in Project, UpdateObservation(n, m, q)
      PROVE  \E r \in Row : Writes(n, m, r)
  BY <1>2, UpdateObservationWrites
<1>3. /\ \A s \in Session : DeleteSession(n, s) => SomeDelete(n)
      /\ \A s \in Session, hard \in BOOLEAN : DeleteSessionAndContents(n, s, hard) => SomeDelete(n)
      /\ \A m \in Memory, hard \in BOOLEAN : DeleteObservation(n, m, hard) => SomeDelete(n)
      /\ \A p \in Project, hard \in BOOLEAN : DeleteProject(n, p, hard) => SomeDelete(n)
      /\ \A p \in Project : PruneProject(n, p) => SomeDelete(n)
  BY DeleteObservationDeletes, DeleteSessionDeletes, DeleteSessionAndContentsDeletes,
     DeleteProjectDeletes, PruneProjectDeletes
<1>4. QED BY <1>1, <1>2, <1>3, Zenon DEF Operations

LEMMA PutSessionsAre ==
    ASSUME TypeOK, NEW n \in Store, NEW p \in Project, NEW q \in Project,
           NEW es \in SetToSeqs(PutSessions(n, p, q))
    PROVE  /\ es \in Seq(Mutation)
           /\ \A e : Among(e, es) <=> \E s \in SessionsOf(n, p) : e = PutSession(s, q)
<1> DEFINE S == SessionsOf(n, p)
           f == [s \in S |-> PutSession(s, q)]
<1>1. IsFiniteSet(S) BY FiniteAssumption, FS_Subset DEF SessionsOf
<1>2. IsFiniteSet({f[s] : s \in S}) BY <1>1, ImageIsFinite
<1>3. {f[s] : s \in S} = PutSessions(n, p, q) BY DEF PutSessions
<1>4. \A e : Among(e, es) <=> e \in PutSessions(n, p, q) BY <1>2, <1>3, OrdersHoldAll
<1>5. QED BY <1>4, SessionsInOrder DEF PutSessions

LEMMA PutMemoriesAre ==
    ASSUME NEW M \in SUBSET Memory, NEW r, \A m \in M : r[m] \in Row,
           NEW es \in SetToSeqs({PutMemory(m, r[m]) : m \in M})
    PROVE  /\ es \in Seq(Mutation)
           /\ \A e : Among(e, es) <=> \E m \in M : e = PutMemory(m, r[m])
<1> DEFINE f == [m \in M |-> PutMemory(m, r[m])]
<1>1. IsFiniteSet(M) BY FiniteAssumption, FS_Subset
<1>2. IsFiniteSet({f[m] : m \in M}) BY <1>1, ImageIsFinite
<1>3. {f[m] : m \in M} = {PutMemory(m, r[m]) : m \in M} OBVIOUS
<1>4. \A e : Among(e, es) <=> e \in {PutMemory(m, r[m]) : m \in M}
  BY <1>2, <1>3, OrdersHoldAll
<1>5. QED BY <1>4, MemoriesInOrder

\* A backfill: the sessions of the project, and then its live memories.
LEMMA BackfillIs ==
    ASSUME TypeOK, NEW n \in Store, NEW p \in Project, NEW es \in Backfill(n, p)
    PROVE  \E ss, ms \in Seq(Mutation) :
             /\ es = ss \o ms
             /\ \A e : Among(e, ss) <=> \E s \in SessionsOf(n, p) : e = PutSession(s, p)
             /\ \A e : Among(e, ms) <=> \E m \in LiveAmong(n, RowsOf(n, p)) :
                                          e = PutMemory(m, memories[n][m])
<1> DEFINE M == LiveAmong(n, RowsOf(n, p))
           r == memories[n]
           A == SetToSeqs(PutSessions(n, p, p))
           B == SetToSeqs({PutMemory(m, r[m]) : m \in M})
<1>1. M \in SUBSET Memory /\ \A m \in M : r[m] \in Row
  BY DEF TypeOK, LiveAmong, RowsOf, Has
<1>2. Backfill(n, p) = {ss \o ms : ss \in A, ms \in B} BY DEF Backfill
<1> HIDE DEF M, r
<1>3. \A ss \in A : /\ ss \in Seq(Mutation)
                    /\ \A e : Among(e, ss) <=> \E s \in SessionsOf(n, p) : e = PutSession(s, p)
  BY PutSessionsAre
<1>4. \A ms \in B : /\ ms \in Seq(Mutation)
                    /\ \A e : Among(e, ms) <=> \E m \in M : e = PutMemory(m, r[m])
  BY <1>1, PutMemoriesAre
<1> HIDE DEF A, B
<1>5. \E ss \in A, ms \in B : es = ss \o ms BY <1>2
<1>6. QED BY <1>3, <1>4, <1>5 DEF M, r

LEMMA BackfillHolds ==
    ASSUME TypeOK, NEW n \in Store, NEW p \in Project, NEW es \in Backfill(n, p)
    PROVE  /\ es \in Seq(Mutation)
           /\ \A e : Among(e, es) <=>
                \/ \E s \in SessionsOf(n, p) : e = PutSession(s, p)
                \/ \E m \in LiveAmong(n, RowsOf(n, p)) : e = PutMemory(m, memories[n][m])
<1>1. PICK ss \in Seq(Mutation), ms \in Seq(Mutation) :
        /\ es = ss \o ms
        /\ \A e : Among(e, ss) <=> \E s \in SessionsOf(n, p) : e = PutSession(s, p)
        /\ \A e : Among(e, ms) <=> \E m \in LiveAmong(n, RowsOf(n, p)) :
                                     e = PutMemory(m, memories[n][m])
  BY BackfillIs
<1>2. ss \o ms \in Seq(Mutation) BY <1>1
<1>3. \A e : Among(e, ss \o ms) <=> Among(e, ss) \/ Among(e, ms) BY AmongBoth
<1>4. QED BY <1>1, <1>2, <1>3

\* A merge keeps what is live, and queues upserts behind what is left of the
\* journal.
LEMMA MergeIs ==
    ASSUME TypeOK, NEW n \in Store, NEW p \in Project, NEW q \in Project, Merge(n, p, q)
    PROVE  /\ \E es \in Seq(Mutation) :
                /\ Requeue(n, NotOf(n, p), es)
                /\ \A e : Among(e, es) =>
                     \/ \E m \in Memory, r \in Row : r.live /\ e = PutMemory(m, r)
                     \/ \E s \in Session : e = PutSession(s, q)
           /\ \A o \in Store, m \in Memory : Live(o, m)' <=> Live(o, m)
           /\ "merge" \in plan.ops
           /\ UNCHANGED <<log, cursor, written, deleted>>
<1> DEFINE M == LiveAmong(n, RowsOf(n, p))
           moved == [m \in Memory |-> IF m \in RowsOf(n, p)
                                      THEN [memories[n][m] EXCEPT !.project = q]
                                      ELSE memories[n][m]]
           targets == IF p \in enrolled[n] THEN enrolled[n] \cup {q} ELSE enrolled[n]
<1>1. /\ \E ms \in SetToSeqs({PutMemory(m, moved[m]) : m \in M}),
            ss \in SetToSeqs(PutSessions(n, p, q)) :
             Requeue(n, NotOf(n, p), IfEnrolled(q, targets, ms \o ss))
      /\ memories' = [memories EXCEPT ![n] = moved]
      /\ "merge" \in plan.ops
      /\ UNCHANGED <<log, cursor, written, deleted>>
  BY DEF Merge, Operation
<1>2. ASSUME NEW m \in M PROVE m \in Memory /\ moved[m] \in Row /\ moved[m].live
  <2>1. m \in Memory /\ memories[n][m] \in Row /\ memories[n][m].live /\ m \in RowsOf(n, p)
    BY DEF TypeOK, LiveAmong, RowsOf, Has
  <2>2. QED BY <2>1 DEF Row
<1>3. M \in SUBSET Memory BY <1>2
<1>4. ASSUME NEW o \in Store, NEW m \in Memory PROVE Live(o, m)' <=> Live(o, m)
  <2>1. memories'[o][m] = IF o = n THEN moved[m] ELSE memories[o][m]
    BY <1>1 DEF TypeOK
  <2>2. CASE o = n /\ m \in RowsOf(n, p)
    <3>1. memories[n][m] \in Row BY <2>2 DEF TypeOK, RowsOf, Has
    <3>2. moved[m] \in Row /\ moved[m].live = memories[n][m].live BY <2>2, <3>1 DEF Row
    <3>3. None \notin Row BY NoneAssumption
    <3>4. QED BY <2>1, <2>2, <3>1, <3>2, <3>3 DEF Live, Has
  <2>3. CASE ~ (o = n /\ m \in RowsOf(n, p)) BY <2>1, <2>3 DEF Live, Has
  <2>4. QED BY <2>2, <2>3
<1> HIDE DEF M, moved, targets
<1>5. PICK ms \in SetToSeqs({PutMemory(m, moved[m]) : m \in M}),
           ss \in SetToSeqs(PutSessions(n, p, q)) :
              Requeue(n, NotOf(n, p), IfEnrolled(q, targets, ms \o ss))
  BY <1>1
<1>6. ms \in Seq(Mutation) /\ \A e : Among(e, ms) <=> \E m \in M : e = PutMemory(m, moved[m])
  BY <1>2, <1>3, PutMemoriesAre
<1>7. /\ ss \in Seq(Mutation)
      /\ \A e : Among(e, ss) <=> \E s \in SessionsOf(n, p) : e = PutSession(s, q)
  BY PutSessionsAre
<1> DEFINE es == IfEnrolled(q, targets, ms \o ss)
<1>8. es \in Seq(Mutation) BY <1>6, <1>7 DEF IfEnrolled
<1>9. ASSUME NEW e, Among(e, es)
      PROVE  \/ \E m \in Memory, r \in Row : r.live /\ e = PutMemory(m, r)
             \/ \E s \in Session : e = PutSession(s, q)
  <2>1. Among(e, ms \o ss) BY <1>9, NoneAmong DEF IfEnrolled
  <2>2. Among(e, ms) \/ Among(e, ss) BY <1>6, <1>7, <2>1, AmongBoth
  <2>3. CASE Among(e, ms) BY <1>2, <1>6, <2>3
  <2>4. CASE Among(e, ss) BY <1>7, <2>4 DEF SessionsOf
  <2>5. QED BY <2>2, <2>3, <2>4
<1> HIDE DEF es
<1>10. QED BY <1>1, <1>4, <1>5, <1>8, <1>9 DEF es

LEMMA KnownAfter ==
    ASSUME TypeOK, NEW n \in Store, NEW kept \in SUBSET waiting[n],
           NEW es \in Seq(Mutation), Requeue(n, kept, es), log' = log
    PROVE  /\ \A e : Known(e)' => Known(e) \/ Among(e, es)
           /\ \A e : Logged(e)' <=> Logged(e)
<1>1. \A e : Logged(e)' <=> Logged(e) BY DEF Logged
<1>2. /\ \A e : Sent(n, e)' => Among(e, es) \/ \E k \in kept : journal[n][k] = e
      /\ \A o \in Store : \A e : o # n => (Sent(o, e)' <=> Sent(o, e))
  BY SentAfter
<1>3. ASSUME NEW e, NEW o \in Store, Sent(o, e)' PROVE Sent(o, e) \/ Among(e, es)
  BY <1>2, <1>3 DEF Sent
<1>4. QED BY <1>1, <1>3 DEF Known

\* Queueing for one project keeps what waits.
LEMMA Queued ==
    ASSUME TypeOK, NEW n \in Store, NEW p, NEW es \in Seq(Mutation), Queue(n, p, es),
           log' = log
    PROVE  /\ \A e : Known(e)' => Known(e) \/ (p \in enrolled[n] /\ Among(e, es))
           /\ \A e : Logged(e)' <=> Logged(e)
           /\ \A o \in Store : \A e : Sent(o, e) => Sent(o, e)'
           /\ p \in enrolled[n] => \A e : Among(e, es) => Sent(n, e)'
<1> DEFINE fs == IfEnrolled(p, enrolled[n], es)
<1>1. Requeue(n, waiting[n], fs) /\ waiting[n] \in SUBSET waiting[n] BY DEF Queue
<1>2. fs \in Seq(Mutation) BY DEF IfEnrolled
<1>3. \A e : Among(e, fs) <=> p \in enrolled[n] /\ Among(e, es) BY NoneAmong DEF IfEnrolled
<1> HIDE DEF fs
<1>4. /\ \A e : Known(e)' => Known(e) \/ Among(e, fs)
      /\ \A e : Logged(e)' <=> Logged(e)
  BY <1>1, <1>2, KnownAfter
<1>5. /\ \A e : Among(e, fs) => Sent(n, e)'
      /\ \A e : (\E k \in waiting[n] : journal[n][k] = e) => Sent(n, e)'
      /\ \A o \in Store : \A e : o # n => (Sent(o, e)' <=> Sent(o, e))
  BY <1>1, <1>2, SentAfter
<1>6. ASSUME NEW o \in Store, NEW e, Sent(o, e) PROVE Sent(o, e)'
  <2>1. CASE o = n
    <3>1. PICK k \in waiting[n] : journal[n][k] = e BY <1>6, <2>1 DEF Sent
    <3>2. QED BY <1>5, <2>1, <3>1
  <2>2. CASE o # n BY <1>5, <1>6, <2>2
  <2>3. QED BY <2>1, <2>2
<1>7. QED BY <1>3, <1>4, <1>5, <1>6

-----------------------------------------------------------------------------
(* Upserts name the project of what they carry, and carry what is live.    *)

Formed(e) ==
    /\ e.op = "session" => e.project = e.body
    /\ e.op = "memory" => e.project = e.body.project /\ e.body.live

FormedInv == \A e : Known(e) => e \in Mutation /\ Formed(e)

LEMMA FormedPuts ==
    /\ \A s \in Session, p \in Project : Formed(PutSession(s, p)) /\ Formed(SessionGone(s, p))
    /\ \A m \in Memory, r \in Row : r.live => Formed(PutMemory(m, r))
    /\ \A m \in Memory, p \in Project, hard \in BOOLEAN : Formed(MemoryGone(m, hard, p))
BY DEF Formed, PutSession, SessionGone, PutMemory, MemoryGone

LEMMA PutsAre ==
    ASSUME NEW e \in Mutation, Formed(e)
    PROVE  /\ e.op = "session" => e = PutSession(e.key, e.body)
           /\ e.op = "memory" => e = PutMemory(e.key, e.body)
BY DEF Mutation, Formed, PutSession, PutMemory

LEMMA FormedQueued ==
    ASSUME TypeOK, FormedInv, NEW n \in Store, NEW p, NEW es \in Seq(Mutation),
           Queue(n, p, es), log' = log, \A e : Among(e, es) => Formed(e)
    PROVE  FormedInv'
<1>1. \A e : Among(e, es) => e \in Mutation BY DEF Among
<1>2. \A e : Known(e)' => Known(e) \/ Among(e, es) BY Queued
<1>3. QED BY <1>1, <1>2 DEF FormedInv, Formed

LEMMA FormedRequeued ==
    ASSUME TypeOK, FormedInv, NEW n \in Store, NEW kept \in SUBSET waiting[n],
           NEW es \in Seq(Mutation), Requeue(n, kept, es), log' = log,
           \A e : Among(e, es) => Formed(e)
    PROVE  FormedInv'
<1>1. \A e : Among(e, es) => e \in Mutation BY DEF Among
<1>2. \A e : Known(e)' => Known(e) \/ Among(e, es) BY KnownAfter
<1>3. QED BY <1>1, <1>2 DEF FormedInv, Formed

LEMMA FormedMerge ==
    ASSUME TypeOK, FormedInv, NEW n \in Store, NEW p \in Project, NEW q \in Project,
           Merge(n, p, q)
    PROVE  FormedInv'
<1>1. PICK es \in Seq(Mutation) :
        /\ Requeue(n, NotOf(n, p), es)
        /\ \A e : Among(e, es) =>
             \/ \E m \in Memory, r \in Row : r.live /\ e = PutMemory(m, r)
             \/ \E s \in Session : e = PutSession(s, q)
        /\ log' = log
  BY MergeIs
<1>2. \A e : Among(e, es) => Formed(e) BY <1>1, FormedPuts
<1>3. NotOf(n, p) \in SUBSET waiting[n] BY DEF NotOf
<1>4. QED BY <1>1, <1>2, <1>3, FormedRequeued

LEMMA WrittenAreFormed ==
    ASSUME TypeOK, NEW n \in Store, NEW m \in Memory, NEW r \in Row, Writes(n, m, r)
    PROVE  /\ <<PutMemory(m, r)>> \in Seq(Mutation) /\ Formed(PutMemory(m, r))
           /\ Live(n, m) => LET e == MemoryGone(m, FALSE, memories[n][m].project) IN
                              e \in Mutation /\ <<e>> \in Seq(Mutation) /\ Formed(e)
<1>1. PutMemory(m, r) \in Mutation BY MutationsAreTyped
<1>2. Formed(PutMemory(m, r)) BY FormedPuts DEF Writes
<1>3. ASSUME Live(n, m)
      PROVE  MemoryGone(m, FALSE, memories[n][m].project) \in Mutation
             /\ Formed(MemoryGone(m, FALSE, memories[n][m].project))
  <2>1. memories[n][m].project \in Project BY <1>3 DEF TypeOK, Live, Has, Row
  <2>2. FALSE \in BOOLEAN OBVIOUS
  <2>3. QED BY <2>1, <2>2, MutationsAreTyped, FormedPuts, Zenon
<1>4. \A e : e \in Mutation => <<e>> \in Seq(Mutation) OBVIOUS
<1>5. QED BY <1>1, <1>2, <1>3, <1>4, Zenon

LEMMA FormedStep == ASSUME TypeOK, FormedInv, Next PROVE FormedInv'
<1>1. PICK n \in Store : Operations(n) \/ Push(n) \/ Pull(n) BY DEF Next
<1>2. ASSUME NEW s \in Session, CreateSession(n, s) PROVE FormedInv'
  <2>1. PutSession(s, HomeOf[s]) \in Mutation /\ Formed(PutSession(s, HomeOf[s]))
    BY HomeAssumption, MutationsAreTyped, FormedPuts
  <2>2. <<PutSession(s, HomeOf[s])>> \in Seq(Mutation) BY <2>1
  <2>3. \A e : Among(e, <<PutSession(s, HomeOf[s])>>) => Formed(e) BY <2>1, OneAmong
  <2>4. Queue(n, HomeOf[s], <<PutSession(s, HomeOf[s])>>) /\ log' = log
    BY <1>2 DEF CreateSession
  <2>5. QED BY <2>2, <2>3, <2>4, FormedQueued
<1>3. ASSUME NEW m \in Memory, NEW r \in Row, Writes(n, m, r) PROVE FormedInv'
  <2>1. CASE Queue(n, r.project, <<PutMemory(m, r)>>)
    <3>1. Formed(PutMemory(m, r)) /\ <<PutMemory(m, r)>> \in Seq(Mutation)
      BY <1>3, WrittenAreFormed
    <3>2. log' = log BY <1>3 DEF Writes
    <3>3. \A e : Among(e, <<PutMemory(m, r)>>) => Formed(e) BY <3>1, OneAmong
    <3>4. QED BY <2>1, <3>1, <3>2, <3>3, FormedQueued
  <2>2. CASE /\ Live(n, m)
             /\ Queue(n, memories[n][m].project,
                      <<MemoryGone(m, FALSE, memories[n][m].project)>>)
    <3> DEFINE g == MemoryGone(m, FALSE, memories[n][m].project)
    <3>1. <<g>> \in Seq(Mutation) /\ Formed(g) BY <1>3, <2>2, WrittenAreFormed
    <3>2. Queue(n, memories[n][m].project, <<g>>) BY <2>2
    <3> HIDE DEF g
    <3>3. \A e : Among(e, <<g>>) => Formed(e) BY <3>1, OneAmong
    <3>4. log' = log BY <1>3 DEF Writes
    <3>5. QED BY <3>1, <3>2, <3>3, <3>4, FormedQueued
  <2>3. QED BY <1>3, <2>1, <2>2 DEF Writes
<1>4. ASSUME SomeDelete(n) PROVE FormedInv'
  <2>1. PICK p \in Project, M \in SUBSET Memory, S \in SUBSET Session, hard \in BOOLEAN,
             es \in Seq(Mutation) : Deletes(n, p, M, S, hard, es)
    BY <1>4 DEF SomeDelete
  <2>2. \A e : Among(e, es) => Formed(e) BY <2>1, FormedPuts DEF Deletes
  <2>3. QED BY <2>1, <2>2, FormedQueued DEF Deletes
<1>5. ASSUME NEW p \in Project, Enroll(n, p) PROVE FormedInv'
  <2>1. PICK es \in Backfill(n, p) : Requeue(n, NotOf(n, p), es) BY <1>5 DEF Enroll
  <2>2. \A m \in LiveAmong(n, RowsOf(n, p)) :
          m \in Memory /\ memories[n][m] \in Row /\ memories[n][m].live
    BY DEF TypeOK, LiveAmong, RowsOf, Has
  <2>3. \A e : Among(e, es) => Formed(e)
    BY <2>2, BackfillHolds, FormedPuts DEF SessionsOf
  <2>4. NotOf(n, p) \in SUBSET waiting[n] BY DEF NotOf
  <2>5. log' = log BY <1>5 DEF Enroll
  <2>6. es \in Seq(Mutation) BY BackfillHolds
  <2>7. QED BY <2>1, <2>3, <2>4, <2>5, <2>6, FormedRequeued
<1>6. ASSUME NEW p \in Project, Unenroll(n, p) PROVE FormedInv'
  BY <1>6 DEF Unenroll, queue, FormedInv, Known, Logged, Sent, Formed
<1>7. CASE Push(n) BY <1>7, KnownAfterPush DEF FormedInv, Formed
<1>8. CASE Pull(n) BY <1>8, KnownAfterPull DEF FormedInv, Formed
<1>9. QED BY <1>1, <1>2, <1>3, <1>4, <1>5, <1>6, <1>7, <1>8, OperationsAre, FormedMerge

-----------------------------------------------------------------------------
(***************************************************************************)
(* HistoryIsSent.  It is inductive together with FormedInv: what is pulled *)
(* is in the log, what is written is queued where its project is enrolled, *)
(* and what an enrolment drops is queued again behind it.                  *)
(***************************************************************************)

Spoken(n, e) == Sent(n, e) \/ Logged(e)

\* A session, a memory of a project that is replicated was told.
SessionTold(n, s) ==
    \A e : sessions[n][s] \in enrolled[n] /\ e = PutSession(s, sessions[n][s]) => Spoken(n, e)
MemoryTold(n, m) ==
    \A e : Live(n, m) /\ memories[n][m].project \in enrolled[n]
             /\ e = PutMemory(m, memories[n][m]) => Spoken(n, e)

AllTold ==
    \A n \in Store : /\ \A s \in Session : SessionTold(n, s)
                     /\ \A m \in Memory : MemoryTold(n, m)

LEMMA AllToldIs == ASSUME "merge" \notin plan.ops PROVE AllTold <=> HistoryIsSent
BY DEF AllTold, HistoryIsSent, SessionTold, MemoryTold, Spoken, SessionsOf, LiveAmong, RowsOf,
       Live, Has

LEMMA SessionStaysTold ==
    ASSUME NEW o \in Store, NEW s \in Session, SessionTold(o, s),
           sessions'[o][s] = sessions[o][s], enrolled'[o] \subseteq enrolled[o],
           \A e : Spoken(o, e) => Spoken(o, e)'
    PROVE  SessionTold(o, s)'
BY DEF SessionTold, PutSession

LEMMA MemoryStaysTold ==
    ASSUME NEW o \in Store, NEW m \in Memory, MemoryTold(o, m),
           memories'[o][m] = memories[o][m], enrolled'[o] \subseteq enrolled[o],
           \A e : Spoken(o, e) => Spoken(o, e)'
    PROVE  MemoryTold(o, m)'
BY DEF MemoryTold, PutMemory, Live, Has

LEMMA QueueKeepsSpoken ==
    ASSUME TypeOK, NEW n \in Store, NEW p, NEW es \in Seq(Mutation), Queue(n, p, es),
           log' = log
    PROVE  /\ \A o \in Store : \A e : Spoken(o, e) => Spoken(o, e)'
           /\ p \in enrolled[n] => \A e : Among(e, es) => Spoken(n, e)'
BY Queued DEF Spoken

LEMMA WritesAreTold ==
    ASSUME TypeOK, AllTold, NEW n \in Store, NEW m \in Memory, NEW r \in Row, Writes(n, m, r)
    PROVE  AllTold'
<1>1. /\ memories' = [memories EXCEPT ![n][m] = r]
      /\ UNCHANGED <<sessions, enrolled, log>>
  BY DEF Writes
<1>2. PICK q \in Project, es \in Seq(Mutation) :
        /\ Queue(n, q, es)
        /\ \/ q = r.project /\ es = <<PutMemory(m, r)>>
           \/ r.project \notin enrolled[n]
  <2>1. CASE Queue(n, r.project, <<PutMemory(m, r)>>)
    <3>1. <<PutMemory(m, r)>> \in Seq(Mutation) BY WrittenAreFormed
    <3>2. r.project \in Project BY DEF Row
    <3>3. QED BY <2>1, <3>1, <3>2, Zenon
  <2>2. CASE /\ Live(n, m) /\ LeavesGhost(n, memories[n][m].project, r.project)
             /\ Queue(n, memories[n][m].project,
                      <<MemoryGone(m, FALSE, memories[n][m].project)>>)
    <3>1. r.project \notin enrolled[n] BY <2>2 DEF LeavesGhost
    <3>2. <<MemoryGone(m, FALSE, memories[n][m].project)>> \in Seq(Mutation)
      BY <2>2, WrittenAreFormed
    <3>3. memories[n][m].project \in Project BY <2>2 DEF TypeOK, Live, Has, Row
    <3>4. QED BY <2>2, <3>1, <3>2, <3>3, Zenon
  <2>3. QED BY <2>1, <2>2 DEF Writes
<1>3. /\ \A o \in Store : \A e : Spoken(o, e) => Spoken(o, e)'
      /\ q \in enrolled[n] => \A e : Among(e, es) => Spoken(n, e)'
  BY <1>1, <1>2, QueueKeepsSpoken
<1>4. ASSUME NEW o \in Store, NEW s \in Session PROVE SessionTold(o, s)'
  BY <1>1, <1>3, SessionStaysTold DEF AllTold
<1>5. ASSUME NEW o \in Store, NEW l \in Memory PROVE MemoryTold(o, l)'
  <2>1. CASE o = n /\ l = m
    <3>1. memories'[o][l] = r BY <1>1, <2>1 DEF TypeOK
    <3>2. \A e : e = PutMemory(m, r) /\ r.project \in enrolled[n] => Spoken(n, e)'
      BY <1>2, <1>3, OneAmong
    <3>3. QED BY <1>1, <2>1, <3>1, <3>2 DEF MemoryTold, PutMemory
  <2>2. CASE ~ (o = n /\ l = m)
    <3>1. memories'[o][l] = memories[o][l] BY <1>1, <2>2 DEF TypeOK
    <3>2. QED BY <1>1, <1>3, <3>1, MemoryStaysTold DEF AllTold
  <2>3. QED BY <2>1, <2>2
<1>6. QED BY <1>4, <1>5 DEF AllTold

LEMMA SessionsAreTold ==
    ASSUME TypeOK, AllTold, NEW n \in Store, NEW s \in Session, CreateSession(n, s)
    PROVE  AllTold'
<1> DEFINE put == PutSession(s, HomeOf[s])
<1>1. /\ sessions' = [sessions EXCEPT ![n][s] = HomeOf[s]]
      /\ Queue(n, HomeOf[s], <<put>>)
      /\ UNCHANGED <<memories, enrolled, log>>
  BY DEF CreateSession
<1>2. put \in Mutation BY HomeAssumption, MutationsAreTyped
<1> HIDE DEF put
<1>3. <<put>> \in Seq(Mutation) BY <1>2
<1>4. /\ \A o \in Store : \A e : Spoken(o, e) => Spoken(o, e)'
      /\ HomeOf[s] \in enrolled[n] => Spoken(n, put)'
  <2>1. /\ \A o \in Store : \A e : Spoken(o, e) => Spoken(o, e)'
        /\ HomeOf[s] \in enrolled[n] => \A e : Among(e, <<put>>) => Spoken(n, e)'
    BY <1>1, <1>3, QueueKeepsSpoken
  <2>2. Among(put, <<put>>) BY OneAmong, Zenon
  <2>3. QED BY <2>1, <2>2
<1>5. ASSUME NEW o \in Store, NEW t \in Session PROVE SessionTold(o, t)'
  <2>1. CASE o = n /\ t = s
    <3>1. sessions'[o][t] = HomeOf[s] BY <1>1, <2>1 DEF TypeOK
    <3>2. \A e : e = put /\ HomeOf[s] \in enrolled[n] => Spoken(n, e)' BY <1>4 DEF put
    <3>3. QED BY <1>1, <2>1, <3>1, <3>2 DEF SessionTold, PutSession, put
  <2>2. CASE ~ (o = n /\ t = s)
    <3>1. sessions'[o][t] = sessions[o][t] BY <1>1, <2>2 DEF TypeOK
    <3>2. QED BY <1>1, <1>4, <3>1, SessionStaysTold DEF AllTold
  <2>3. QED BY <2>1, <2>2
<1>6. ASSUME NEW o \in Store, NEW l \in Memory PROVE MemoryTold(o, l)'
  BY <1>1, <1>4, MemoryStaysTold DEF AllTold
<1>7. QED BY <1>5, <1>6 DEF AllTold

\* What is left of the rows and sessions after a delete.
LEMMA LeftAfterGone ==
    ASSUME TypeOK, NEW n \in Store, NEW M \in SUBSET Memory, NEW hard \in BOOLEAN,
           Gone(n, M, hard)
    PROVE  \A o \in Store, m \in Memory :
             /\ ~ (o = n /\ m \in M) => memories'[o][m] = memories[o][m]
             /\ o = n /\ m \in M /\ hard => memories'[o][m] = None
             /\ o = n /\ m \in M /\ ~hard =>
                  memories'[o][m] = [memories[o][m] EXCEPT !.live = FALSE]
BY DEF TypeOK, Gone

LEMMA GoneAreNotLive ==
    ASSUME TypeOK, NEW n \in Store, NEW M \in SUBSET Memory, NEW hard \in BOOLEAN,
           Gone(n, M, hard), \A m \in M : Has(n, m), NEW o \in Store, NEW m \in Memory
    PROVE  /\ Live(o, m)' <=> Live(o, m) /\ ~ (o = n /\ m \in M)
           /\ Live(o, m)' => memories'[o][m] = memories[o][m]
<1>1. CASE o = n /\ m \in M
  <2>1. \/ memories'[o][m] = None
        \/ memories'[o][m] = [memories[o][m] EXCEPT !.live = FALSE]
    BY <1>1, LeftAfterGone
  <2>2. memories[o][m] \in Row BY <1>1 DEF TypeOK, Has
  <2>3. [memories[o][m] EXCEPT !.live = FALSE].live = FALSE BY <2>2 DEF Row
  <2>4. QED BY <1>1, <2>1, <2>3 DEF Live, Has
<1>2. CASE ~ (o = n /\ m \in M)
  <2>1. memories'[o][m] = memories[o][m] BY <1>2 DEF TypeOK, Gone
  <2>2. QED BY <1>2, <2>1 DEF Live, Has
<1>3. QED BY <1>1, <1>2

LEMMA DeletesAreTold ==
    ASSUME TypeOK, AllTold, NEW n \in Store, SomeDelete(n)
    PROVE  AllTold'
<1>1. PICK p \in Project, M \in SUBSET Memory, S \in SUBSET Session, hard \in BOOLEAN,
           es \in Seq(Mutation) : Deletes(n, p, M, S, hard, es)
  BY DEF SomeDelete
<1>2. /\ \A m \in M : Has(n, m)
      /\ Gone(n, M, hard) /\ SessionsGone(n, S) /\ Queue(n, p, es)
      /\ UNCHANGED <<enrolled, log>>
  BY <1>1 DEF Deletes
<1>3. \A o \in Store : \A e : Spoken(o, e) => Spoken(o, e)' BY <1>2, QueueKeepsSpoken
<1>4. ASSUME NEW o \in Store, NEW s \in Session PROVE SessionTold(o, s)'
  <2>1. sessions'[o][s] = IF o = n /\ s \in S THEN None ELSE sessions[o][s]
    BY <1>2, SessionsGoneKeepsTypes
  <2>2. CASE o = n /\ s \in S
    <3>1. None \notin enrolled'[o] BY <1>2, NoneAssumption DEF TypeOK
    <3>2. QED BY <2>1, <2>2, <3>1 DEF SessionTold
  <2>3. CASE ~ (o = n /\ s \in S)
    BY <1>2, <1>3, <2>1, <2>3, SessionStaysTold DEF AllTold
  <2>4. QED BY <2>2, <2>3
<1>5. ASSUME NEW o \in Store, NEW m \in Memory PROVE MemoryTold(o, m)'
  <2>1. CASE Live(o, m)'
    <3>1. memories'[o][m] = memories[o][m] BY <1>2, <2>1, GoneAreNotLive
    <3>2. QED BY <1>2, <1>3, <3>1, MemoryStaysTold DEF AllTold
  <2>2. CASE ~Live(o, m)' BY <2>2 DEF MemoryTold
  <2>3. QED BY <2>1, <2>2
<1>6. QED BY <1>4, <1>5 DEF AllTold

LEMMA EnrollTells ==
    ASSUME TypeOK, FormedInv, AllTold, NEW n \in Store, NEW p \in Project, Enroll(n, p)
    PROVE  AllTold'
<1>1. PICK es \in Backfill(n, p) : Requeue(n, NotOf(n, p), es) BY DEF Enroll
<1>2. /\ enrolled' = [enrolled EXCEPT ![n] = @ \cup {p}]
      /\ UNCHANGED <<sessions, memories, log>>
  BY DEF Enroll, tables
<1>3. NotOf(n, p) \in SUBSET waiting[n] BY DEF NotOf
<1>4. /\ es \in Seq(Mutation)
      /\ \A s \in SessionsOf(n, p) : Among(PutSession(s, p), es)
      /\ \A m \in LiveAmong(n, RowsOf(n, p)) : Among(PutMemory(m, memories[n][m]), es)
  BY BackfillHolds
<1>5. /\ \A e : Among(e, es) => Sent(n, e)'
      /\ \A e : (\E k \in NotOf(n, p) : journal[n][k] = e) => Sent(n, e)'
      /\ \A o \in Store : \A e : o # n => (Sent(o, e)' <=> Sent(o, e))
  BY <1>1, <1>3, <1>4, SentAfter
<1>6. \A e : Logged(e)' <=> Logged(e) BY <1>2 DEF Logged
<1>7. ASSUME NEW o \in Store, NEW e, Spoken(o, e), o # n \/ e.project # p
      PROVE  Spoken(o, e)'
  BY <1>5, <1>6, <1>7 DEF Spoken, Sent, NotOf
<1>8. \A o \in Store : enrolled'[o] = IF o = n THEN enrolled[o] \cup {p} ELSE enrolled[o]
  BY <1>2 DEF TypeOK
<1>9. ASSUME NEW o \in Store, NEW s \in Session PROVE SessionTold(o, s)'
  <2> SUFFICES ASSUME NEW e, sessions[o][s] \in enrolled'[o],
                      e = PutSession(s, sessions[o][s])
               PROVE  Spoken(o, e)'
    BY <1>2 DEF SessionTold, PutSession
  <2>1. e.project = sessions[o][s] BY DEF PutSession
  <2>2. CASE o = n /\ sessions[o][s] = p
    BY <1>4, <1>5, <2>2 DEF SessionsOf, Spoken
  <2>3. CASE ~ (o = n /\ sessions[o][s] = p)
    <3>1. sessions[o][s] \in enrolled[o] BY <1>8, <2>3
    <3>2. Spoken(o, e) BY <3>1 DEF AllTold, SessionTold
    <3>3. QED BY <1>7, <2>1, <2>3, <3>2
  <2>4. QED BY <2>2, <2>3
<1>10. ASSUME NEW o \in Store, NEW m \in Memory PROVE MemoryTold(o, m)'
  <2> SUFFICES ASSUME NEW e, Live(o, m), memories[o][m].project \in enrolled'[o],
                      e = PutMemory(m, memories[o][m])
               PROVE  Spoken(o, e)'
    BY <1>2 DEF MemoryTold, PutMemory, Live, Has
  <2>1. e.project = memories[o][m].project BY DEF PutMemory
  <2>2. CASE o = n /\ memories[o][m].project = p
    BY <1>4, <1>5, <2>2 DEF LiveAmong, RowsOf, Live, Spoken
  <2>3. CASE ~ (o = n /\ memories[o][m].project = p)
    <3>1. memories[o][m].project \in enrolled[o] BY <1>8, <2>3
    <3>2. Spoken(o, e) BY <3>1 DEF AllTold, MemoryTold
    <3>3. QED BY <1>7, <2>1, <2>3, <3>2
  <2>4. QED BY <2>2, <2>3
<1>11. QED BY <1>9, <1>10 DEF AllTold

LEMMA PullsAreTold ==
    ASSUME TypeOK, FormedInv, AllTold, NEW n \in Store, Pull(n)
    PROVE  AllTold'
<1> DEFINE e == log[cursor[n] + 1]
<1>1. /\ Apply(n, e)
      /\ UNCHANGED <<enrolled, log, journal, waiting>>
  BY DEF Pull, queue
<1>2. cursor[n] + 1 \in DOMAIN log BY DEF TypeOK, Pull, Behind
<1>3. e \in Mutation BY <1>2 DEF TypeOK
<1>4. Logged(e) BY <1>2 DEF Logged
<1>5. Formed(e) BY <1>4 DEF FormedInv, Known
<1> HIDE DEF e
<1>6. \A o \in Store : \A f : Spoken(o, f) => Spoken(o, f)' BY <1>1 DEF Spoken, Sent, Logged
<1>7. \A f : Logged(f) => \A o \in Store : Spoken(o, f)' BY <1>1 DEF Spoken, Logged
<1>8. CASE e.op = "session"
  <2>1. sessions' = [sessions EXCEPT ![n][e.key] = e.body] /\ memories' = memories
    BY <1>1, <1>8 DEF Apply
  <2>2. e = PutSession(e.key, e.body) /\ e.key \in Session
    BY <1>3, <1>5, <1>8, PutsAre, MutationKinds
  <2>3. ASSUME NEW o \in Store, NEW s \in Session PROVE SessionTold(o, s)'
    <3>1. CASE o = n /\ s = e.key
      <4>1. sessions'[o][s] = e.body BY <2>1, <3>1 DEF TypeOK
      <4>2. \A f : f = PutSession(s, e.body) => Spoken(o, f)'
        BY <1>4, <1>7, <2>2, <3>1
      <4>3. QED BY <4>1, <4>2 DEF SessionTold, PutSession
    <3>2. CASE ~ (o = n /\ s = e.key)
      <4>1. sessions'[o][s] = sessions[o][s] BY <2>1, <3>2 DEF TypeOK
      <4>2. QED BY <1>1, <1>6, <4>1, SessionStaysTold DEF AllTold
    <3>3. QED BY <3>1, <3>2
  <2>4. \A o \in Store, m \in Memory : MemoryTold(o, m)'
    BY <1>1, <1>6, <2>1, MemoryStaysTold DEF AllTold
  <2>5. QED BY <2>3, <2>4 DEF AllTold
<1>9. CASE e.op = "session gone"
  <2>1. SessionsGone(n, {e.key}) /\ memories' = memories BY <1>1, <1>9 DEF Apply
  <2>2. ASSUME NEW o \in Store, NEW s \in Session PROVE SessionTold(o, s)'
    <3>1. sessions'[o][s] \in {None, sessions[o][s]} BY <2>1, SessionsGoneKeepsTypes
    <3>2. None \notin enrolled'[o] BY <1>1, NoneAssumption DEF TypeOK
    <3>3. CASE sessions'[o][s] = None BY <3>2, <3>3 DEF SessionTold
    <3>4. CASE sessions'[o][s] = sessions[o][s]
      BY <1>1, <1>6, <3>4, SessionStaysTold DEF AllTold
    <3>5. QED BY <3>1, <3>3, <3>4
  <2>3. \A o \in Store, m \in Memory : MemoryTold(o, m)'
    BY <1>1, <1>6, <2>1, MemoryStaysTold DEF AllTold
  <2>4. QED BY <2>2, <2>3 DEF AllTold
<1>10. CASE e.op = "memory"
  <2>1. memories' = [memories EXCEPT ![n][e.key] = e.body] /\ sessions' = sessions
    BY <1>1, <1>10 DEF Apply, SetRow, Upserted
  <2>2. e = PutMemory(e.key, e.body) /\ e.key \in Memory
    BY <1>3, <1>5, <1>10, PutsAre, MutationKinds
  <2>3. ASSUME NEW o \in Store, NEW m \in Memory PROVE MemoryTold(o, m)'
    <3>1. CASE o = n /\ m = e.key
      <4>1. memories'[o][m] = e.body BY <2>1, <3>1 DEF TypeOK
      <4>2. \A f : f = PutMemory(m, e.body) => Spoken(o, f)' BY <1>4, <1>7, <2>2, <3>1
      <4>3. QED BY <4>1, <4>2 DEF MemoryTold, PutMemory
    <3>2. CASE ~ (o = n /\ m = e.key)
      <4>1. memories'[o][m] = memories[o][m] BY <2>1, <3>2 DEF TypeOK
      <4>2. QED BY <1>1, <1>6, <4>1, MemoryStaysTold DEF AllTold
    <3>3. QED BY <3>1, <3>2
  <2>4. \A o \in Store, s \in Session : SessionTold(o, s)'
    BY <1>1, <1>6, <2>1, SessionStaysTold DEF AllTold
  <2>5. QED BY <2>3, <2>4 DEF AllTold
<1>11. CASE e.op \in {"memory gone", "memory erased"}
  <2> DEFINE M == {m \in {e.key} : Has(n, m)}
             hard == (e.op = "memory erased")
  <2>1. Gone(n, M, hard) /\ sessions' = sessions BY <1>1, <1>11 DEF Apply
  <2>2. M \in SUBSET Memory /\ (\A m \in M : Has(n, m)) /\ hard \in BOOLEAN
    BY <1>3, <1>11, MutationKinds
  <2> HIDE DEF M, hard
  <2>3. ASSUME NEW o \in Store, NEW m \in Memory PROVE MemoryTold(o, m)'
    <3>1. CASE Live(o, m)'
      <4>1. memories'[o][m] = memories[o][m] BY <2>1, <2>2, <3>1, GoneAreNotLive
      <4>2. QED BY <1>1, <1>6, <4>1, MemoryStaysTold DEF AllTold
    <3>2. CASE ~Live(o, m)' BY <3>2 DEF MemoryTold
    <3>3. QED BY <3>1, <3>2
  <2>4. \A o \in Store, s \in Session : SessionTold(o, s)'
    BY <1>1, <1>6, <2>1, SessionStaysTold DEF AllTold
  <2>5. QED BY <2>3, <2>4 DEF AllTold
<1>12. QED BY <1>3, <1>8, <1>9, <1>10, <1>11, MutationKinds

LEMMA ToldStep == ASSUME TypeOK, FormedInv, AllTold, "merge" \notin plan.ops, Next PROVE AllTold'
<1>1. PICK n \in Store : Operations(n) \/ Push(n) \/ Pull(n) BY DEF Next
<1>2. \A p, q \in Project : ~Merge(n, p, q) BY DEF Merge, Operation
<1>3. ASSUME NEW p \in Project, Unenroll(n, p) PROVE AllTold'
  <2>1. /\ \A o \in Store : enrolled'[o] \subseteq enrolled[o]
        /\ UNCHANGED <<sessions, memories, journal, waiting, log>>
    BY <1>3 DEF TypeOK, Unenroll, tables, queue
  <2>2. \A o \in Store : \A e : Spoken(o, e) => Spoken(o, e)'
    BY <2>1 DEF Spoken, Sent, Logged
  <2>3. QED BY <2>1, <2>2, SessionStaysTold, MemoryStaysTold DEF AllTold
<1>4. CASE Push(n)
  <2>1. UNCHANGED <<sessions, memories, enrolled>> BY <1>4 DEF Push, tables
  <2>2. \A o \in Store : \A e : Spoken(o, e) => Spoken(o, e)'
    BY <1>4, KnownAfterPush DEF Spoken
  <2>3. QED BY <2>1, <2>2, SessionStaysTold, MemoryStaysTold DEF AllTold
<1>5. QED
  BY <1>1, <1>2, <1>3, <1>4, OperationsAre, WritesAreTold, SessionsAreTold, DeletesAreTold,
     EnrollTells, PullsAreTold

(***************************************************************************)
(* What a store holds in a project it replicates is in the log or waits to *)
(* be pushed, whatever is added, moved, deleted, pulled, left and enrolled *)
(* again, by any number of stores, so long as no projects are merged       *)
(* (enqueue_serialized_mutation, backfill_project_tx).                     *)
(***************************************************************************)
THEOREM HistoryReachesTheLog == Spec => []HistoryIsSent
<1> DEFINE Inv == FormedInv /\ ("merge" \notin plan.ops => AllTold)
<1>1. Init => Inv
  <2> SUFFICES ASSUME Init PROVE Inv OBVIOUS
  <2>1. \A n \in Store : waiting[n] = {} BY DEF Init
  <2>2. log = <<>> BY DEF Init
  <2>3. FormedInv BY <2>1, <2>2 DEF FormedInv, Known, Logged, Sent
  <2>4. \A n \in Store : enrolled[n] \subseteq Project BY PlansAssumption DEF Init, Plan
  <2>5. AllTold BY <2>4, NoneAssumption DEF Init, AllTold, SessionTold, MemoryTold, Live, Has
  <2>6. QED BY <2>3, <2>5
<1>2. TypeOK /\ Inv /\ [Next]_vars => Inv'
  <2> SUFFICES ASSUME TypeOK, Inv, [Next]_vars PROVE Inv' OBVIOUS
  <2>1. CASE UNCHANGED vars
    BY <2>1 DEF vars, tables, queue, history, FormedInv, Formed, AllTold, Known, Logged, Sent,
                SessionTold, MemoryTold, Spoken, Live, Has
  <2>2. CASE Next
    <3>1. FormedInv' BY <2>2, FormedStep
    <3>2. plan' = plan BY <2>2 DEF Next
    <3>3. "merge" \notin plan.ops => AllTold' BY <2>2, ToldStep
    <3>4. QED BY <3>1, <3>2, <3>3
  <2>3. QED BY <2>1, <2>2
<1>3. Inv => HistoryIsSent
  <2>1. CASE "merge" \in plan.ops BY <2>1 DEF HistoryIsSent
  <2>2. CASE "merge" \notin plan.ops BY <2>2, AllToldIs
  <2>3. QED BY <2>1, <2>2
<1> HIDE DEF Inv
<1>4. QED BY <1>1, <1>2, <1>3, TypeCorrect, PTL DEF Spec

-----------------------------------------------------------------------------
(***************************************************************************)
(* NothingSharedVanishes.  Where no memory moves out of replication, what  *)
(* is queued or logged as gone is what somebody asked to delete, and an    *)
(* upsert carries a live row.                                              *)
(***************************************************************************)

SharedInv == AllShared => \A n \in Store : enrolled[n] = Project

IsGone(e) == e.op \in {"memory gone", "memory erased"}

GoneAreAsked == \A e : Known(e) /\ IsGone(e) => e.key \in deleted

LEMMA SharedStep == ASSUME TypeOK, SharedInv, Next PROVE SharedInv'
<1>1. PICK n \in Store : Operations(n) \/ Push(n) \/ Pull(n) BY DEF Next
<1>2. plan' = plan BY DEF Next
<1> SUFFICES ASSUME AllShared PROVE enrolled' = enrolled
  BY <1>2 DEF SharedInv, AllShared
<1>3. /\ \A p \in Project : ~Enroll(n, p) /\ ~Unenroll(n, p)
      /\ \A p, q \in Project : ~Merge(n, p, q)
  BY DEF AllShared, Enroll, Unenroll, Merge, Operation
<1>4. SomeDelete(n) => enrolled' = enrolled BY DEF SomeDelete, Deletes
<1>5. \A m \in Memory : \A r \in Row : Writes(n, m, r) => enrolled' = enrolled BY DEF Writes
<1>6. \A s \in Session : CreateSession(n, s) => enrolled' = enrolled BY DEF CreateSession
<1>7. Push(n) \/ Pull(n) => enrolled' = enrolled BY DEF Push, Pull
<1>8. QED BY <1>1, <1>3, <1>4, <1>5, <1>6, <1>7, OperationsAre

\* A write deletes nothing where no memory moves out of replication.
LEMMA WritesSendUpserts ==
    ASSUME TypeOK, SharedInv, NoGhosts, NEW n \in Store, NEW m \in Memory, NEW r \in Row,
           Writes(n, m, r)
    PROVE  Queue(n, r.project, <<PutMemory(m, r)>>)
<1> SUFFICES ASSUME Live(n, m), LeavesGhost(n, memories[n][m].project, r.project),
                    "move" \in plan.ops
             PROVE  FALSE
  BY DEF Writes
<1>1. AllShared BY DEF NoGhosts
<1>2. enrolled[n] = Project BY <1>1 DEF SharedInv
<1>3. r.project \in Project BY DEF Row
<1>4. QED BY <1>2, <1>3 DEF LeavesGhost

LEMMA GoneStayAsked ==
    ASSUME GoneAreAsked, deleted \subseteq deleted',
           \A e : Known(e)' /\ IsGone(e) => Known(e) \/ e.key \in deleted'
    PROVE  GoneAreAsked'
BY DEF GoneAreAsked, IsGone

LEMMA PutsAreNotGone ==
    /\ \A s \in Session, p \in Project : ~IsGone(PutSession(s, p)) /\ ~IsGone(SessionGone(s, p))
    /\ \A m \in Memory, r \in Row : ~IsGone(PutMemory(m, r))
    /\ \A m \in Memory, p \in Project, hard \in BOOLEAN :
         IsGone(MemoryGone(m, hard, p)) /\ MemoryGone(m, hard, p).key = m
BY DEF IsGone, PutSession, SessionGone, PutMemory, MemoryGone

LEMMA GoneAreAskedStep ==
    ASSUME TypeOK, SharedInv, NoGhosts, GoneAreAsked, Next
    PROVE  GoneAreAsked'
<1>1. PICK n \in Store : Operations(n) \/ Push(n) \/ Pull(n) BY DEF Next
<1>2. ASSUME NEW s \in Session, CreateSession(n, s) PROVE GoneAreAsked'
  <2> DEFINE put == PutSession(s, HomeOf[s])
  <2>1. /\ Queue(n, HomeOf[s], <<put>>)
        /\ UNCHANGED <<log, deleted>>
    BY <1>2 DEF CreateSession
  <2>2. put \in Mutation /\ ~IsGone(put) BY HomeAssumption, MutationsAreTyped, PutsAreNotGone
  <2> HIDE DEF put
  <2>3. <<put>> \in Seq(Mutation) BY <2>2
  <2>4. \A e : Known(e)' => Known(e) \/ e = put BY <2>1, <2>3, Queued, OneAmong
  <2>5. QED BY <2>1, <2>2, <2>4, GoneStayAsked
<1>3. ASSUME NEW m \in Memory, NEW r \in Row, Writes(n, m, r) PROVE GoneAreAsked'
  <2> DEFINE put == PutMemory(m, r)
  <2>1. Queue(n, r.project, <<put>>) BY <1>3, WritesSendUpserts
  <2>2. UNCHANGED <<log, deleted>> BY <1>3 DEF Writes
  <2>3. put \in Mutation /\ ~IsGone(put) BY MutationsAreTyped, PutsAreNotGone
  <2> HIDE DEF put
  <2>4. <<put>> \in Seq(Mutation) BY <2>3
  <2>5. \A e : Known(e)' => Known(e) \/ e = put BY <2>1, <2>2, <2>4, Queued, OneAmong
  <2>6. QED BY <2>2, <2>3, <2>5, GoneStayAsked
<1>4. CASE SomeDelete(n)
  <2>1. PICK p \in Project, M \in SUBSET Memory, S \in SUBSET Session, hard \in BOOLEAN,
             es \in Seq(Mutation) : Deletes(n, p, M, S, hard, es)
    BY <1>4 DEF SomeDelete
  <2>2. /\ \A e : Among(e, es) <=> \/ \E m \in M : e = MemoryGone(m, hard, p)
                                   \/ \E s \in S : e = SessionGone(s, p)
        /\ Queue(n, p, es)
        /\ deleted' = deleted \cup M
        /\ log' = log
    BY <2>1 DEF Deletes
  <2>3. \A e : Known(e)' => Known(e) \/ Among(e, es) BY <2>2, Queued
  <2>4. \A e : Among(e, es) /\ IsGone(e) => e.key \in M BY <2>2, PutsAreNotGone
  <2>5. QED BY <2>2, <2>3, <2>4, GoneStayAsked
<1>5. ASSUME NEW p \in Project, Enroll(n, p) PROVE GoneAreAsked'
  <2>1. PICK es \in Backfill(n, p) : Requeue(n, NotOf(n, p), es) BY <1>5 DEF Enroll
  <2>2. \A m \in LiveAmong(n, RowsOf(n, p)) : m \in Memory /\ memories[n][m] \in Row
    BY DEF TypeOK, LiveAmong, RowsOf, Has
  <2>3. \A e : Among(e, es) => ~IsGone(e)
    BY <2>2, BackfillHolds, PutsAreNotGone DEF SessionsOf
  <2>4. NotOf(n, p) \in SUBSET waiting[n] BY DEF NotOf
  <2>5. UNCHANGED <<log, deleted>> BY <1>5 DEF Enroll
  <2>6. es \in Seq(Mutation) BY BackfillHolds
  <2>7. \A e : Known(e)' => Known(e) \/ Among(e, es) BY <2>1, <2>4, <2>5, <2>6, KnownAfter
  <2>8. QED BY <2>3, <2>5, <2>7, GoneStayAsked
<1>6. ASSUME NEW p \in Project, Unenroll(n, p) PROVE GoneAreAsked'
  <2>1. UNCHANGED <<journal, waiting, log, deleted>> BY <1>6 DEF Unenroll, queue
  <2>2. \A e : Known(e)' => Known(e) BY <2>1 DEF Known, Logged, Sent
  <2>3. QED BY <2>1, <2>2, GoneStayAsked
<1>7. ASSUME NEW p \in Project, NEW q \in Project, Merge(n, p, q) PROVE GoneAreAsked'
  <2>1. PICK es \in Seq(Mutation) :
          /\ Requeue(n, NotOf(n, p), es)
          /\ \A e : Among(e, es) =>
               \/ \E m \in Memory, r \in Row : r.live /\ e = PutMemory(m, r)
               \/ \E s \in Session : e = PutSession(s, q)
    BY <1>7, MergeIs
  <2>2. UNCHANGED <<log, deleted>> BY <1>7, MergeIs
  <2>3. NotOf(n, p) \in SUBSET waiting[n] BY DEF NotOf
  <2>4. \A e : Known(e)' => Known(e) \/ Among(e, es) BY <2>1, <2>2, <2>3, KnownAfter
  <2>5. \A e : Among(e, es) => ~IsGone(e) BY <2>1, PutsAreNotGone
  <2>6. QED BY <2>2, <2>4, <2>5, GoneStayAsked
<1>8. CASE Push(n)
  <2>1. \A e : Known(e)' => Known(e) BY <1>8, KnownAfterPush
  <2>2. deleted' = deleted BY <1>8 DEF Push, history
  <2>3. QED BY <2>1, <2>2, GoneStayAsked
<1>9. CASE Pull(n)
  <2>1. \A e : Known(e)' => Known(e) BY <1>9, KnownAfterPull
  <2>2. deleted' = deleted BY <1>9 DEF Pull, history
  <2>3. QED BY <2>1, <2>2, GoneStayAsked
<1>10. QED BY <1>1, <1>2, <1>3, <1>4, <1>5, <1>6, <1>7, <1>8, <1>9, OperationsAre

LEMMA NothingNewVanishes ==
    ASSUME NothingVanishes, written' = written, deleted \subseteq deleted',
           \A o \in Store, m \in Memory : Live(o, m) => Live(o, m)' \/ m \in deleted',
           written \subseteq Memory \X Text
    PROVE  NothingVanishes'
<1> SUFFICES ASSUME NEW t \in written, t[1] \notin deleted' PROVE \E o \in Store : Live(o, t[1])'
  BY DEF NothingVanishes
<1>1. t[1] \in Memory OBVIOUS
<1>2. PICK o \in Store : Live(o, t[1]) BY DEF NothingVanishes
<1>3. QED BY <1>1, <1>2

LEMMA NothingVanishesStep ==
    ASSUME TypeOK, FormedInv, GoneAreAsked, NothingVanishes, Next
    PROVE  NothingVanishes'
<1>1. PICK n \in Store : Operations(n) \/ Push(n) \/ Pull(n) BY DEF Next
<1>2. written \subseteq Memory \X Text BY DEF TypeOK
<1>3. ASSUME UNCHANGED <<memories, written, deleted>> PROVE NothingVanishes'
  BY <1>3 DEF NothingVanishes, Live, Has
<1>4. /\ \A s \in Session : CreateSession(n, s) => UNCHANGED <<memories, written, deleted>>
      /\ \A p \in Project :
           Enroll(n, p) \/ Unenroll(n, p) => UNCHANGED <<memories, written, deleted>>
      /\ Push(n) => UNCHANGED <<memories, written, deleted>>
  BY DEF CreateSession, Enroll, Unenroll, Push, tables, history
<1>5. ASSUME NEW m \in Memory, NEW r \in Row, Writes(n, m, r) PROVE NothingVanishes'
  <2>1. /\ memories' = [memories EXCEPT ![n][m] = r] /\ r.live
        /\ written' = written \cup {<<m, r.text>>} /\ deleted' = deleted
    BY <1>5 DEF Writes
  <2>2. memories'[n][m] = r BY <2>1 DEF TypeOK
  <2>3. Live(n, m)' BY <2>1, <2>2, NoneAssumption DEF Live, Has
  <2>4. ASSUME NEW o \in Store, NEW l \in Memory, Live(o, l) PROVE Live(o, l)'
    <3>1. CASE o = n /\ l = m BY <2>3, <3>1
    <3>2. CASE ~ (o = n /\ l = m)
      <4>1. memories'[o][l] = memories[o][l] BY <2>1, <3>2 DEF TypeOK
      <4>2. QED BY <2>4, <4>1 DEF Live, Has
    <3>3. QED BY <3>1, <3>2
  <2>5. ASSUME NEW t \in written', t[1] \notin deleted' PROVE \E o \in Store : Live(o, t[1])'
    <3>1. CASE t \in written
      <4>1. t[1] \in Memory BY <1>2, <3>1
      <4>2. PICK o \in Store : Live(o, t[1]) BY <2>1, <2>5, <3>1 DEF NothingVanishes
      <4>3. QED BY <2>4, <4>1, <4>2
    <3>2. CASE t = <<m, r.text>> BY <2>3, <3>2
    <3>3. QED BY <2>1, <3>1, <3>2
  <2>6. QED BY <2>5 DEF NothingVanishes
<1>6. CASE SomeDelete(n)
  <2>1. PICK p \in Project, M \in SUBSET Memory, S \in SUBSET Session, hard \in BOOLEAN,
             es \in Seq(Mutation) : Deletes(n, p, M, S, hard, es)
    BY <1>6 DEF SomeDelete
  <2>2. /\ \A m \in M : Has(n, m)
        /\ Gone(n, M, hard)
        /\ deleted' = deleted \cup M /\ written' = written
    BY <2>1 DEF Deletes
  <2>3. \A o \in Store, m \in Memory : Live(o, m) => Live(o, m)' \/ m \in deleted'
    BY <2>2, GoneAreNotLive
  <2>4. QED BY <1>2, <2>2, <2>3, NothingNewVanishes
<1>7. ASSUME NEW p \in Project, NEW q \in Project, Merge(n, p, q) PROVE NothingVanishes'
  BY <1>2, <1>7, MergeIs, NothingNewVanishes
<1>8. CASE Pull(n)
  <2> DEFINE e == log[cursor[n] + 1]
  <2>1. Apply(n, e) /\ UNCHANGED <<written, deleted>> BY <1>8 DEF Pull, history
  <2>2. cursor[n] + 1 \in DOMAIN log BY <1>8 DEF TypeOK, Pull, Behind
  <2>3. e \in Mutation BY <2>2 DEF TypeOK
  <2>4. Known(e) BY <2>2 DEF Known, Logged
  <2> HIDE DEF e
  <2>5. CASE e.op \in {"session", "session gone"}
    <3>1. memories' = memories BY <2>1, <2>5 DEF Apply
    <3>2. QED BY <1>3, <2>1, <3>1
  <2>6. CASE e.op = "memory"
    <3>1. memories' = [memories EXCEPT ![n][e.key] = e.body]
      BY <2>1, <2>6 DEF Apply, SetRow, Upserted
    <3>2. e.body.live BY <2>4, <2>6 DEF FormedInv, Formed
    <3>3. e.key \in Memory /\ e.body \in Row BY <2>3, <2>6, MutationKinds
    <3>4. ASSUME NEW o \in Store, NEW m \in Memory, Live(o, m) PROVE Live(o, m)'
      <4>1. CASE o = n /\ m = e.key
        <5>1. memories'[o][m] = e.body BY <3>1, <3>3, <4>1 DEF TypeOK
        <5>2. QED BY <3>2, <3>3, <5>1, NoneAssumption DEF Live, Has
      <4>2. CASE ~ (o = n /\ m = e.key)
        <5>1. memories'[o][m] = memories[o][m] BY <3>1, <4>2 DEF TypeOK
        <5>2. QED BY <3>4, <5>1 DEF Live, Has
      <4>3. QED BY <4>1, <4>2
    <3>5. QED BY <1>2, <2>1, <3>4, NothingNewVanishes
  <2>7. CASE IsGone(e)
    <3> DEFINE M == {m \in {e.key} : Has(n, m)}
               hard == (e.op = "memory erased")
    <3>1. Gone(n, M, hard) BY <2>1, <2>7 DEF Apply, IsGone
    <3>2. M \in SUBSET Memory /\ (\A m \in M : Has(n, m)) /\ hard \in BOOLEAN
      BY <2>3, <2>7, MutationKinds DEF IsGone
    <3>3. \A m \in M : m \in deleted' BY <2>1, <2>4, <2>7 DEF GoneAreAsked
    <3> HIDE DEF M, hard
    <3>4. \A o \in Store, m \in Memory : Live(o, m) => Live(o, m)' \/ m \in deleted'
      BY <3>1, <3>2, <3>3, GoneAreNotLive
    <3>5. QED BY <1>2, <2>1, <3>4, NothingNewVanishes
  <2>8. QED BY <2>3, <2>5, <2>6, <2>7, MutationKinds DEF IsGone
<1>9. QED BY <1>1, <1>3, <1>4, <1>5, <1>6, <1>7, <1>8, OperationsAre

(***************************************************************************)
(* A memory nobody asked to delete is live in some store, where no memory  *)
(* moves out of replication: only such a move makes a delete that nobody   *)
(* asked for (LeavesGhost, update_observation), and nothing else that is   *)
(* applied or merged takes a live row away.                                *)
(***************************************************************************)
THEOREM NothingSharedIsLost == Spec => []NothingSharedVanishes
<1> DEFINE Inv == /\ FormedInv /\ SharedInv
                  /\ NoGhosts => GoneAreAsked /\ NothingVanishes
<1>1. Init => Inv
  <2> SUFFICES ASSUME Init PROVE Inv OBVIOUS
  <2>1. \A n \in Store : waiting[n] = {} BY DEF Init
  <2>2. log = <<>> BY DEF Init
  <2>3. \A e : ~Known(e) BY <2>1, <2>2 DEF Known, Logged, Sent
  <2>4. SharedInv BY DEF Init, SharedInv, AllShared
  <2>5. NothingVanishes BY DEF Init, NothingVanishes
  <2>6. QED BY <2>3, <2>4, <2>5 DEF FormedInv, GoneAreAsked
<1>2. TypeOK /\ Inv /\ [Next]_vars => Inv'
  <2> SUFFICES ASSUME TypeOK, Inv, [Next]_vars PROVE Inv' OBVIOUS
  <2>1. CASE UNCHANGED vars
    BY <2>1 DEF vars, tables, queue, history, FormedInv, Formed, Known, Logged, Sent, SharedInv,
                AllShared, NoGhosts, GoneAreAsked, NothingVanishes, Live, Has
  <2>2. CASE Next
    <3>1. FormedInv' /\ SharedInv' BY <2>2, FormedStep, SharedStep
    <3>2. NoGhosts' <=> NoGhosts BY <2>2 DEF Next, NoGhosts, AllShared
    <3>3. NoGhosts => GoneAreAsked' /\ NothingVanishes'
      BY <2>2, GoneAreAskedStep, NothingVanishesStep
    <3>4. QED BY <3>1, <3>2, <3>3
  <2>3. QED BY <2>1, <2>2
<1>3. Inv => NothingSharedVanishes BY DEF NothingSharedVanishes
<1> HIDE DEF Inv
<1>4. QED BY <1>1, <1>2, <1>3, TypeCorrect, PTL DEF Spec

-----------------------------------------------------------------------------
(***************************************************************************)
(* AppliesCleanly.  While sessions keep their project, a memory is of the  *)
(* project its session was created for, so it is queued behind the session *)
(* or after the session is logged: every mutation of a session comes       *)
(* before those of its memories, in each journal and in the log.           *)
(***************************************************************************)

Plain == SessionsStay /\ NoGhosts /\ NoneAbroad

AtHome(r) == AllShared \/ r.project = HomeOf[r.session]

PlainEntry(e) ==
    /\ e.op # "session gone"
    /\ e.op = "session" => e.body = HomeOf[e.key]
    /\ e.op = "memory" => AtHome(e.body)

\* The mutation that creates the session of a memory's.
Opener(e) == PutSession(e.body.session, HomeOf[e.body.session])

\* e follows the session it needs: one that is logged, or waits before k.
Opened(n, e, k) ==
    Logged(Opener(e)) \/ \E j \in waiting[n] : j < k /\ journal[n][j] = Opener(e)

AllPlain ==
    /\ \A n \in Store, s \in Session : sessions[n][s] \in {None, HomeOf[s]}
    /\ \A n \in Store, m \in Memory : Has(n, m) => AtHome(memories[n][m])
    /\ \A e : Known(e) => PlainEntry(e)

JournalsOrdered ==
    \A n \in Store : \A k \in waiting[n] : \A e :
        e = journal[n][k] /\ e.op = "memory" => Opened(n, e, k)

LogOrdered ==
    \A i \in DOMAIN log : \A e :
        e = log[i] /\ e.op = "memory" => \E j \in DOMAIN log : j < i /\ log[j] = Opener(e)

SessionsSeen ==
    \A n \in Store : \A i \in DOMAIN log :
        i <= cursor[n] /\ log[i].op = "session" => HasSession(n, log[i].key)

LEMMA OrderedRequeue ==
    ASSUME TypeOK, JournalsOrdered, NEW n \in Store, NEW kept \in SUBSET waiting[n],
           NEW es \in Seq(Mutation), Requeue(n, kept, es), log' = log,
           \A k \in kept : \A e : e = journal[n][k] /\ e.op = "memory" =>
             Logged(Opener(e)) \/ \E j \in kept : j < k /\ journal[n][j] = Opener(e),
           \A i \in DOMAIN es : \A e : e = es[i] /\ e.op = "memory" =>
             \/ Logged(Opener(e)) \/ \E j \in kept : journal[n][j] = Opener(e)
             \/ \E j \in DOMAIN es : j < i /\ es[j] = Opener(e)
    PROVE  JournalsOrdered'
<1>1. /\ \A k \in kept : k \in waiting'[n] /\ journal'[n][k] = journal[n][k]
      /\ \A i \in DOMAIN es : /\ Len(journal[n]) + i \in waiting'[n]
                              /\ journal'[n][Len(journal[n]) + i] = es[i]
      /\ \A k \in waiting'[n] :
           \/ k \in kept /\ k <= Len(journal[n]) /\ journal'[n][k] = journal[n][k]
           \/ \E i \in DOMAIN es : k = Len(journal[n]) + i /\ journal'[n][k] = es[i]
      /\ \A o \in Store : o # n => waiting'[o] = waiting[o] /\ journal'[o] = journal[o]
  BY Requeued
<1>2. \A e : Logged(e) => Logged(e)' BY DEF Logged
<1> SUFFICES ASSUME NEW o \in Store, NEW k \in waiting'[o], NEW e,
                    e = journal'[o][k], e.op = "memory"
             PROVE  \/ Logged(Opener(e))'
                    \/ \E j \in waiting'[o] : j < k /\ journal'[o][j] = Opener(e)
  BY DEF JournalsOrdered, Opened, Opener, PutSession, Logged
<1> DEFINE f == Opener(e)
<1>3. CASE o # n
  <2>1. Opened(o, e, k) BY <1>1, <1>3 DEF JournalsOrdered
  <2>2. QED BY <1>1, <1>2, <1>3, <2>1 DEF Opened, Opener, PutSession
<1>4. CASE o = n /\ k \in kept /\ journal'[n][k] = journal[n][k]
  <2>1. Logged(f) \/ \E j \in kept : j < k /\ journal[n][j] = f BY <1>4
  <2> HIDE DEF f
  <2>2. \A j \in kept : j \in waiting'[n] /\ journal'[n][j] = journal[n][j] BY <1>1
  <2>3. Logged(f)' \/ \E j \in waiting'[n] : j < k /\ journal'[n][j] = f
    BY <1>2, <2>1, <2>2
  <2>4. QED BY <1>4, <2>3 DEF f, Opener, PutSession, Logged
<1>5. CASE o = n /\ \E i \in DOMAIN es : k = Len(journal[n]) + i /\ journal'[n][k] = es[i]
  <2>1. PICK i \in DOMAIN es : k = Len(journal[n]) + i /\ journal'[n][k] = es[i] BY <1>5
  <2>2. \/ Logged(f) \/ \E j \in kept : journal[n][j] = f
        \/ \E j \in DOMAIN es : j < i /\ es[j] = f
    BY <1>5, <2>1
  <2> HIDE DEF f
  <2>3. journal[n] \in Seq(Mutation) /\ kept \subseteq DOMAIN journal[n] BY DEF TypeOK
  <2>4. Len(journal[n]) \in Nat /\ i \in Nat /\ i >= 1 BY <2>3
  <2>5. \A j \in kept : j <= Len(journal[n]) /\ j \in Nat BY <2>3
  <2>6. \A j \in kept : j < k BY <2>1, <2>4, <2>5
  <2>7. \A j \in DOMAIN es : j < i => Len(journal[n]) + j < k BY <2>1, <2>4
  <2>8. Logged(f)' \/ \E j \in waiting'[n] : j < k /\ journal'[n][j] = f
    <3>1. CASE Logged(f) BY <1>2, <3>1
    <3>2. CASE \E j \in kept : journal[n][j] = f BY <1>1, <2>6, <3>2
    <3>3. CASE \E j \in DOMAIN es : j < i /\ es[j] = f BY <1>1, <2>7, <3>3
    <3>4. QED BY <2>2, <3>1, <3>2, <3>3
  <2>9. QED BY <1>5, <2>8 DEF f, Opener, PutSession, Logged
<1>6. QED BY <1>1, <1>3, <1>4, <1>5

LEMMA OrderedQueue ==
    ASSUME TypeOK, JournalsOrdered, NEW n \in Store, NEW p, NEW es \in Seq(Mutation),
           Queue(n, p, es), log' = log,
           \A i \in DOMAIN es : \A e :
             e = es[i] /\ e.op = "memory" /\ p \in enrolled[n] => Spoken(n, Opener(e))
    PROVE  JournalsOrdered'
<1> DEFINE fs == IfEnrolled(p, enrolled[n], es)
<1>1. Requeue(n, waiting[n], fs) /\ waiting[n] \in SUBSET waiting[n] BY DEF Queue
<1>2. fs \in Seq(Mutation) BY DEF IfEnrolled
<1>3. \A i \in DOMAIN fs : \A e : e = fs[i] /\ e.op = "memory" =>
        \/ Logged(Opener(e)) \/ \E j \in waiting[n] : journal[n][j] = Opener(e)
        \/ \E j \in DOMAIN fs : j < i /\ fs[j] = Opener(e)
  BY DEF IfEnrolled, Spoken, Sent
<1>4. \A k \in waiting[n] : \A e : e = journal[n][k] /\ e.op = "memory" =>
        Logged(Opener(e)) \/ \E j \in waiting[n] : j < k /\ journal[n][j] = Opener(e)
  BY DEF JournalsOrdered, Opened
<1> HIDE DEF fs
<1>5. QED BY <1>1, <1>2, <1>3, <1>4, OrderedRequeue

\* The session of a row that is at home was told.
LEMMA OpenerIsSpoken ==
    ASSUME TypeOK, SharedInv, AllPlain, AllTold, NEW n \in Store, NEW r \in Row,
           HasSession(n, r.session), AtHome(r), r.project \in enrolled[n]
    PROVE  Spoken(n, PutSession(r.session, HomeOf[r.session]))
<1>1. r.session \in Session /\ r.project \in Project BY DEF Row
<1>2. sessions[n][r.session] = HomeOf[r.session] BY <1>1 DEF HasSession, AllPlain
<1>3. HomeOf[r.session] \in enrolled[n]
  <2>1. CASE AllShared
    <3>1. enrolled[n] = Project BY <2>1 DEF SharedInv
    <3>2. QED BY <1>1, <3>1, HomeAssumption
  <2>2. CASE r.project = HomeOf[r.session] BY <2>2
  <2>3. QED BY <2>1, <2>2 DEF AtHome
<1>4. QED BY <1>1, <1>2, <1>3 DEF AllTold, SessionTold

LEMMA PlainPuts ==
    /\ \A s \in Session : PlainEntry(PutSession(s, HomeOf[s]))
    /\ \A m \in Memory, r \in Row : AtHome(r) => PlainEntry(PutMemory(m, r))
    /\ \A m \in Memory, p \in Project, hard \in BOOLEAN : PlainEntry(MemoryGone(m, hard, p))
BY DEF PlainEntry, PutSession, PutMemory, MemoryGone

\* What a write makes is at home, and its session was told before it.
LEMMA WritesArePlain ==
    ASSUME TypeOK, SharedInv, LocalReferences, AllPlain, Plain, NEW n \in Store,
           NEW m \in Memory, NEW r \in Row, Writes(n, m, r)
    PROVE  AtHome(r) /\ HasSession(n, r.session)
<1>1. r.session \in Session BY DEF Row
<1>2. CASE HasSession(n, r.session) /\ r.project \in {sessions[n][r.session], HomeOf[r.session]}
  BY <1>1, <1>2 DEF AllPlain, HasSession, AtHome
<1>3. CASE /\ Live(n, m) /\ r.session = memories[n][m].session
           /\ (r.project = memories[n][m].project \/ "move" \in plan.ops)
  <2>1. HasSession(n, r.session) BY <1>3 DEF LocalReferences, Live
  <2>2. CASE r.project = memories[n][m].project
    BY <1>3, <2>1, <2>2 DEF AllPlain, AtHome, Live
  <2>3. CASE "move" \in plan.ops BY <2>1, <2>3 DEF Plain, NoGhosts, AtHome
  <2>4. QED BY <1>3, <2>1, <2>2, <2>3
<1>4. CASE HasSession(n, r.session) /\ "consolidate" \in plan.ops
  BY <1>4 DEF Plain, NoneAbroad, AtHome
<1>5. QED BY <1>2, <1>3, <1>4 DEF Writes

LEMMA PlainKept ==
    ASSUME AllPlain, plan' = plan, UNCHANGED <<sessions, memories>>,
           \A e : Known(e)' => Known(e) \/ PlainEntry(e)
    PROVE  AllPlain'
BY DEF AllPlain, PlainEntry, AtHome, AllShared, Has

LEMMA GoneKeepsHomes ==
    ASSUME TypeOK, NEW n \in Store, NEW M \in SUBSET Memory, NEW hard \in BOOLEAN,
           Gone(n, M, hard), \A m \in M : Has(n, m), plan' = plan,
           \A o \in Store, m \in Memory : Has(o, m) => AtHome(memories[o][m])
    PROVE  \A o \in Store, m \in Memory : Has(o, m)' => AtHome(memories[o][m])'
<1> SUFFICES ASSUME NEW o \in Store, NEW m \in Memory, Has(o, m)'
             PROVE  AtHome(memories[o][m])'
  OBVIOUS
<1>1. CASE o = n /\ m \in M
  <2>1. \/ memories'[o][m] = None
        \/ memories'[o][m] = [memories[o][m] EXCEPT !.live = FALSE]
    BY <1>1, LeftAfterGone
  <2>2. memories[o][m] \in Row /\ Has(o, m) BY <1>1 DEF TypeOK, Has
  <2>3. memories'[o][m] = [memories[o][m] EXCEPT !.live = FALSE] BY <2>1 DEF Has
  <2>4. /\ memories'[o][m].project = memories[o][m].project
        /\ memories'[o][m].session = memories[o][m].session
    BY <2>2, <2>3 DEF Row
  <2>5. QED BY <2>2, <2>4 DEF AtHome, AllShared
<1>2. CASE ~ (o = n /\ m \in M)
  <2>1. memories'[o][m] = memories[o][m] BY <1>2 DEF TypeOK, Gone
  <2>2. QED BY <2>1 DEF AtHome, AllShared, Has
<1>3. QED BY <1>1, <1>2

LEMMA RowKeepsHomes ==
    ASSUME TypeOK, AllPlain, NEW n \in Store, NEW m \in Memory, NEW r, plan' = plan,
           memories' = [memories EXCEPT ![n][m] = r], AtHome(r)
    PROVE  \A o \in Store, l \in Memory : Has(o, l)' => AtHome(memories[o][l])'
<1> SUFFICES ASSUME NEW o \in Store, NEW l \in Memory, Has(o, l)'
             PROVE  AtHome(memories[o][l])'
  OBVIOUS
<1>1. CASE o = n /\ l = m
  <2>1. memories'[o][l] = r BY <1>1 DEF TypeOK
  <2>2. QED BY <2>1 DEF AtHome, AllShared
<1>2. CASE ~ (o = n /\ l = m)
  <2>1. memories'[o][l] = memories[o][l] BY <1>2 DEF TypeOK
  <2>2. QED BY <2>1 DEF AllPlain, AtHome, AllShared, Has
<1>3. QED BY <1>1, <1>2

LEMMA SessionKeepsHomes ==
    ASSUME TypeOK, AllPlain, NEW n \in Store, NEW s \in Session,
           sessions' = [sessions EXCEPT ![n][s] = HomeOf[s]]
    PROVE  \A o \in Store, t \in Session : sessions'[o][t] \in {None, HomeOf[t]}
BY DEF TypeOK, AllPlain

LEMMA PlainStep ==
    ASSUME TypeOK, SharedInv, LocalReferences, Plain, AllPlain, Next
    PROVE  AllPlain'
<1>1. PICK n \in Store : Operations(n) \/ Push(n) \/ Pull(n) BY DEF Next
<1>2. plan' = plan BY DEF Next
<1>3. \A e : PlainEntry(e)' <=> PlainEntry(e) BY <1>2 DEF PlainEntry, AtHome, AllShared
<1>4. \A o \in Store, m \in Memory : Has(o, m) => AtHome(memories[o][m]) BY DEF AllPlain
<1>5. ASSUME NEW s \in Session, CreateSession(n, s) PROVE AllPlain'
  <2> DEFINE put == PutSession(s, HomeOf[s])
  <2>1. /\ sessions' = [sessions EXCEPT ![n][s] = HomeOf[s]]
        /\ Queue(n, HomeOf[s], <<put>>)
        /\ UNCHANGED <<memories, log>>
    BY <1>5 DEF CreateSession
  <2>2. put \in Mutation /\ PlainEntry(put) BY HomeAssumption, MutationsAreTyped, PlainPuts
  <2> HIDE DEF put
  <2>3. <<put>> \in Seq(Mutation) BY <2>2
  <2>4. \A e : Known(e)' => Known(e) \/ e = put BY <2>1, <2>3, Queued, OneAmong
  <2>5. \A o \in Store, t \in Session : sessions'[o][t] \in {None, HomeOf[t]}
    BY <2>1, SessionKeepsHomes
  <2>6. \A o \in Store, m \in Memory : Has(o, m)' => AtHome(memories[o][m])'
    BY <1>2, <1>4, <2>1 DEF Has, AtHome, AllShared
  <2>7. \A e : Known(e)' => PlainEntry(e)' BY <1>3, <2>2, <2>4 DEF AllPlain
  <2>8. QED BY <2>5, <2>6, <2>7 DEF AllPlain
<1>6. ASSUME NEW m \in Memory, NEW r \in Row, Writes(n, m, r) PROVE AllPlain'
  <2> DEFINE put == PutMemory(m, r)
  <2>1. Queue(n, r.project, <<put>>) BY <1>6, WritesSendUpserts DEF Plain
  <2>2. /\ memories' = [memories EXCEPT ![n][m] = r]
        /\ UNCHANGED <<sessions, log>>
    BY <1>6 DEF Writes
  <2>3. AtHome(r) BY <1>6, WritesArePlain
  <2>4. put \in Mutation /\ PlainEntry(put) BY <2>3, MutationsAreTyped, PlainPuts
  <2> HIDE DEF put
  <2>5. <<put>> \in Seq(Mutation) BY <2>4
  <2>6. \A e : Known(e)' => Known(e) \/ e = put BY <2>1, <2>2, <2>5, Queued, OneAmong
  <2>7. \A o \in Store, l \in Memory : Has(o, l)' => AtHome(memories[o][l])'
    BY <1>2, <2>2, <2>3, RowKeepsHomes
  <2>8. \A e : Known(e)' => PlainEntry(e)' BY <1>3, <2>4, <2>6 DEF AllPlain
  <2>9. \A o \in Store, t \in Session : sessions'[o][t] \in {None, HomeOf[t]}
    BY <2>2 DEF AllPlain
  <2>10. QED BY <2>7, <2>8, <2>9 DEF AllPlain
<1>7. CASE SomeDelete(n)
  <2>1. PICK p \in Project, M \in SUBSET Memory, S \in SUBSET Session, hard \in BOOLEAN,
             es \in Seq(Mutation) : Deletes(n, p, M, S, hard, es)
    BY <1>7 DEF SomeDelete
  <2>2. /\ \A e : Among(e, es) <=> \/ \E m \in M : e = MemoryGone(m, hard, p)
                                   \/ \E s \in S : e = SessionGone(s, p)
        /\ Queue(n, p, es) /\ log' = log
        /\ \A m \in M : Has(n, m)
        /\ Gone(n, M, hard) /\ SessionsGone(n, S)
        /\ S = {}
    BY <2>1 DEF Deletes, Plain
  <2>3. \A e : Known(e)' => Known(e) \/ Among(e, es) BY <2>2, Queued
  <2>4. \A e : Among(e, es) => PlainEntry(e) BY <2>2, PlainPuts
  <2>5. \A e : Known(e)' => PlainEntry(e)' BY <1>3, <2>3, <2>4 DEF AllPlain
  <2>6. \A o \in Store, m \in Memory : Has(o, m)' => AtHome(memories[o][m])'
    BY <1>2, <1>4, <2>2, GoneKeepsHomes
  <2>7. \A o \in Store, t \in Session : sessions'[o][t] \in {None, HomeOf[t]}
    BY <2>2 DEF TypeOK, AllPlain, SessionsGone
  <2>8. QED BY <2>5, <2>6, <2>7 DEF AllPlain
<1>8. ASSUME NEW p \in Project, Enroll(n, p) PROVE AllPlain'
  <2>1. PICK es \in Backfill(n, p) : Requeue(n, NotOf(n, p), es) BY <1>8 DEF Enroll
  <2>2. UNCHANGED <<sessions, memories, log>> BY <1>8 DEF Enroll, tables
  <2>3. \A m \in LiveAmong(n, RowsOf(n, p)) :
          m \in Memory /\ memories[n][m] \in Row /\ AtHome(memories[n][m])
    BY DEF TypeOK, LiveAmong, RowsOf, Has, AllPlain
  <2>4. \A s \in SessionsOf(n, p) : s \in Session /\ p = HomeOf[s]
    BY NoneAssumption DEF SessionsOf, AllPlain
  <2>5. \A e : Among(e, es) => PlainEntry(e) BY <2>3, <2>4, BackfillHolds, PlainPuts
  <2>6. NotOf(n, p) \in SUBSET waiting[n] BY DEF NotOf
  <2>7. es \in Seq(Mutation) BY BackfillHolds
  <2>8. \A e : Known(e)' => Known(e) \/ PlainEntry(e)
    BY <2>1, <2>2, <2>5, <2>6, <2>7, KnownAfter
  <2>9. QED BY <1>2, <2>2, <2>8, PlainKept
<1>9. ASSUME NEW p \in Project, Unenroll(n, p) PROVE AllPlain'
  <2>1. UNCHANGED <<sessions, memories, journal, waiting, log>>
    BY <1>9 DEF Unenroll, queue, tables
  <2>2. \A e : Known(e)' => Known(e) BY <2>1 DEF Known, Logged, Sent
  <2>3. QED BY <1>2, <2>1, <2>2, PlainKept
<1>10. \A p, q \in Project : ~Merge(n, p, q) BY DEF Plain, SessionsStay, Merge, Operation
<1>11. CASE Push(n)
  <2>1. \A e : Known(e)' => Known(e) BY <1>11, KnownAfterPush
  <2>2. UNCHANGED <<sessions, memories>> BY <1>11 DEF Push, tables
  <2>3. QED BY <1>2, <2>1, <2>2, PlainKept
<1>12. CASE Pull(n)
  <2> DEFINE e == log[cursor[n] + 1]
  <2>1. Apply(n, e) BY <1>12 DEF Pull
  <2>2. cursor[n] + 1 \in DOMAIN log BY <1>12 DEF TypeOK, Pull, Behind
  <2>3. e \in Mutation BY <2>2 DEF TypeOK
  <2>4. Known(e) BY <2>2 DEF Known, Logged
  <2> HIDE DEF e
  <2>5. \A f : Known(f)' => PlainEntry(f)' BY <1>3, <1>12, KnownAfterPull DEF AllPlain
  <2>6. PlainEntry(e) BY <2>4 DEF AllPlain
  <2>7. CASE e.op = "session"
    <3>1. sessions' = [sessions EXCEPT ![n][e.key] = HomeOf[e.key]] /\ memories' = memories
      BY <2>1, <2>6, <2>7 DEF Apply, PlainEntry
    <3>2. e.key \in Session BY <2>3, <2>7, MutationKinds
    <3>3. \A o \in Store, t \in Session : sessions'[o][t] \in {None, HomeOf[t]}
      BY <3>1, <3>2, SessionKeepsHomes
    <3>4. \A o \in Store, m \in Memory : Has(o, m)' => AtHome(memories[o][m])'
      BY <1>2, <1>4, <3>1 DEF Has, AtHome, AllShared
    <3>5. QED BY <2>5, <3>3, <3>4 DEF AllPlain
  <2>8. CASE e.op = "memory"
    <3>1. memories' = [memories EXCEPT ![n][e.key] = e.body] /\ sessions' = sessions
      BY <2>1, <2>8 DEF Apply, SetRow, Upserted
    <3>2. e.key \in Memory /\ AtHome(e.body) BY <2>3, <2>6, <2>8, MutationKinds DEF PlainEntry
    <3>3. \A o \in Store, l \in Memory : Has(o, l)' => AtHome(memories[o][l])'
      BY <1>2, <3>1, <3>2, RowKeepsHomes
    <3>4. \A o \in Store, t \in Session : sessions'[o][t] \in {None, HomeOf[t]}
      BY <3>1 DEF AllPlain
    <3>5. QED BY <2>5, <3>3, <3>4 DEF AllPlain
  <2>9. CASE IsGone(e)
    <3> DEFINE M == {m \in {e.key} : Has(n, m)}
               hard == (e.op = "memory erased")
    <3>1. Gone(n, M, hard) /\ sessions' = sessions BY <2>1, <2>9 DEF Apply, IsGone
    <3>2. M \in SUBSET Memory /\ (\A m \in M : Has(n, m)) /\ hard \in BOOLEAN
      BY <2>3, <2>9, MutationKinds DEF IsGone
    <3> HIDE DEF M, hard
    <3>3. \A o \in Store, m \in Memory : Has(o, m)' => AtHome(memories[o][m])'
      BY <1>2, <1>4, <3>1, <3>2, GoneKeepsHomes
    <3>4. \A o \in Store, t \in Session : sessions'[o][t] \in {None, HomeOf[t]}
      BY <3>1 DEF AllPlain
    <3>5. QED BY <2>5, <3>3, <3>4 DEF AllPlain
  <2>10. e.op # "session gone" BY <2>6 DEF PlainEntry
  <2>11. QED BY <2>3, <2>7, <2>8, <2>9, <2>10, MutationKinds DEF IsGone
<1>13. QED
  BY <1>1, <1>5, <1>6, <1>7, <1>8, <1>9, <1>10, <1>11, <1>12, OperationsAre

LEMMA EnrollKeepsOrder ==
    ASSUME TypeOK, FormedInv, LocalReferences, AllPlain, Plain, JournalsOrdered, NEW n \in Store,
           NEW p \in Project, Enroll(n, p)
    PROVE  JournalsOrdered'
<1>1. PICK es \in Backfill(n, p) : Requeue(n, NotOf(n, p), es) BY DEF Enroll
<1>2. PICK ss \in Seq(Mutation), ms \in Seq(Mutation) :
        /\ es = ss \o ms
        /\ \A e : Among(e, ss) <=> \E s \in SessionsOf(n, p) : e = PutSession(s, p)
        /\ \A e : Among(e, ms) <=> \E m \in LiveAmong(n, RowsOf(n, p)) :
                                     e = PutMemory(m, memories[n][m])
  BY BackfillIs
<1>3. ~AllShared /\ log' = log BY DEF Enroll, Operation, AllShared
<1>4. NotOf(n, p) \in SUBSET waiting[n] BY DEF NotOf
<1>5. \A k \in NotOf(n, p) : \A e : e = journal[n][k] /\ e.op = "memory" =>
        Logged(Opener(e)) \/ \E j \in NotOf(n, p) : j < k /\ journal[n][j] = Opener(e)
  <2> SUFFICES ASSUME NEW k \in NotOf(n, p), NEW e, e = journal[n][k], e.op = "memory",
                      ~Logged(Opener(e))
               PROVE  \E j \in NotOf(n, p) : j < k /\ journal[n][j] = Opener(e)
    OBVIOUS
  <2>1. k \in waiting[n] /\ e.project # p BY DEF NotOf
  <2>2. Known(e) BY <2>1 DEF Known, Sent
  <2>3. e.project = e.body.project BY <2>2 DEF FormedInv, Formed
  <2>4. e.body.project = HomeOf[e.body.session]
    BY <1>3, <2>2 DEF AllPlain, PlainEntry, AtHome
  <2>5. PICK j \in waiting[n] : j < k /\ journal[n][j] = Opener(e)
    BY <2>1 DEF JournalsOrdered, Opened
  <2>6. journal[n][j].project # p BY <2>1, <2>3, <2>4, <2>5 DEF Opener, PutSession
  <2>7. QED BY <2>5, <2>6 DEF NotOf
<1>6. \A i \in DOMAIN es : \A e : e = es[i] /\ e.op = "memory" =>
        \E j \in DOMAIN es : j < i /\ es[j] = Opener(e)
  <2> SUFFICES ASSUME NEW i \in DOMAIN es, NEW e, e = es[i], e.op = "memory"
               PROVE  \E j \in DOMAIN es : j < i /\ es[j] = Opener(e)
    OBVIOUS
  <2>1. /\ \A j \in DOMAIN ss : j \in DOMAIN es /\ es[j] = ss[j] /\ j <= Len(ss)
        /\ i \in DOMAIN ss => e = ss[i]
        /\ i \notin DOMAIN ss => i > Len(ss) /\ i - Len(ss) \in DOMAIN ms /\ e = ms[i - Len(ss)]
    BY <1>2
  <2>2. ~Among(e, ss) BY <1>2 DEF PutSession
  <2>3. i \notin DOMAIN ss BY <2>1, <2>2 DEF Among
  <2>4. Among(e, ms) BY <2>1, <2>3 DEF Among
  <2>5. PICK m \in LiveAmong(n, RowsOf(n, p)) : e = PutMemory(m, memories[n][m])
    BY <1>2, <2>4
  <2>6. m \in Memory /\ Has(n, m) /\ memories[n][m].project = p BY DEF LiveAmong, RowsOf
  <2>7. memories[n][m] \in Row BY <2>6 DEF TypeOK, Has
  <2> DEFINE s == memories[n][m].session
  <2>8. s \in Session /\ HasSession(n, s) BY <2>6, <2>7 DEF LocalReferences, Row
  <2>9. p = HomeOf[s] BY <1>3, <2>6 DEF AllPlain, AtHome
  <2>10. sessions[n][s] = HomeOf[s] BY <2>8 DEF AllPlain, HasSession
  <2>11. s \in SessionsOf(n, p) BY <2>8, <2>9, <2>10 DEF SessionsOf
  <2>12. Among(PutSession(s, p), ss) BY <1>2, <2>11
  <2>13. Opener(e) = PutSession(s, p) BY <2>5, <2>9 DEF Opener, PutMemory
  <2> HIDE DEF s
  <2>14. PICK j \in DOMAIN ss : ss[j] = Opener(e) BY <2>12, <2>13 DEF Among
  <2>15. j \in DOMAIN es /\ es[j] = ss[j] /\ j <= Len(ss) BY <2>1
  <2>16. j < i
    <3>1. Len(ss) \in Nat /\ j \in Nat /\ i \in Nat BY <1>2
    <3>2. QED BY <2>1, <2>3, <2>15, <3>1
  <2>17. QED BY <2>14, <2>15, <2>16
<1>7. es \in Seq(Mutation) BY BackfillHolds
<1> DEFINE N == NotOf(n, p)
<1>8. \A i \in DOMAIN es : \A e : e = es[i] /\ e.op = "memory" =>
        \/ Logged(Opener(e)) \/ \E j \in N : journal[n][j] = Opener(e)
        \/ \E j \in DOMAIN es : j < i /\ es[j] = Opener(e)
  BY <1>6
<1>9. /\ Requeue(n, N, es) /\ N \in SUBSET waiting[n]
      /\ \A k \in N : \A e : e = journal[n][k] /\ e.op = "memory" =>
           Logged(Opener(e)) \/ \E j \in N : j < k /\ journal[n][j] = Opener(e)
  BY <1>1, <1>4, <1>5
<1> HIDE DEF N
<1>10. QED BY <1>3, <1>7, <1>8, <1>9, OrderedRequeue

LEMMA PushKeepsOrder ==
    ASSUME TypeOK, JournalsOrdered, NEW n \in Store, Push(n)
    PROVE  JournalsOrdered'
<1>1. PICK k \in waiting[n] :
        /\ Len(log') = Len(log) + 1 /\ log'[Len(log) + 1] = journal[n][k]
        /\ \A i \in DOMAIN log : i \in DOMAIN log' /\ log'[i] = log[i]
        /\ DOMAIN log' = DOMAIN log \cup {Len(log) + 1}
        /\ waiting'[n] = waiting[n] \ {k}
        /\ \A o \in Store : o # n => waiting'[o] = waiting[o]
        /\ journal' = journal
  BY Pushed
<1>2. \A e : Logged(e) => Logged(e)' BY <1>1 DEF Logged
<1>3. \A e : e = journal[n][k] => Logged(e)' BY <1>1 DEF Logged
<1> SUFFICES ASSUME NEW o \in Store, NEW l \in waiting'[o], NEW e,
                    e = journal[o][l], e.op = "memory"
             PROVE  \/ Logged(Opener(e))'
                    \/ \E j \in waiting'[o] : j < l /\ journal[o][j] = Opener(e)
  BY <1>1 DEF JournalsOrdered, Opened, Opener, PutSession, Logged
<1> DEFINE f == Opener(e)
<1>4. l \in waiting[o] BY <1>1
<1>5. Logged(f) \/ \E j \in waiting[o] : j < l /\ journal[o][j] = f
  BY <1>4 DEF JournalsOrdered, Opened
<1> HIDE DEF f
<1>6. Logged(f)' \/ \E j \in waiting'[o] : j < l /\ journal[o][j] = f
  <2>1. CASE Logged(f) BY <1>2, <2>1
  <2>2. ASSUME NEW j \in waiting[o], j < l, journal[o][j] = f
        PROVE  Logged(f)' \/ \E i \in waiting'[o] : i < l /\ journal[o][i] = f
    <3>1. CASE o = n /\ j = k BY <1>3, <2>2, <3>1
    <3>2. CASE ~ (o = n /\ j = k)
      <4>1. j \in waiting'[o] BY <1>1, <3>2
      <4>2. QED BY <2>2, <4>1
    <3>3. QED BY <3>1, <3>2
  <2>3. QED BY <1>5, <2>1, <2>2
<1>7. QED BY <1>6 DEF f, Opener, PutSession, Logged

LEMMA PushKeepsLogOrder ==
    ASSUME TypeOK, JournalsOrdered, LogOrdered, NEW n \in Store, Push(n)
    PROVE  LogOrdered'
<1>1. PICK k \in waiting[n] :
        /\ \A j \in waiting[n] : k <= j
        /\ log'[Len(log) + 1] = journal[n][k]
        /\ \A i \in DOMAIN log : i \in DOMAIN log' /\ log'[i] = log[i]
        /\ DOMAIN log' = DOMAIN log \cup {Len(log) + 1}
  BY Pushed
<1>2. \A i \in DOMAIN log : i < Len(log) + 1 BY DEF TypeOK
<1>3. waiting[n] \subseteq Nat BY DEF TypeOK
<1> SUFFICES ASSUME NEW i \in DOMAIN log', NEW e, e = log'[i], e.op = "memory"
             PROVE  \E j \in DOMAIN log' : j < i /\ log'[j] = Opener(e)
  BY DEF LogOrdered, Opener, PutSession
<1>4. CASE i \in DOMAIN log
  <2>1. \E j \in DOMAIN log : j < i /\ log[j] = Opener(e) BY <1>1, <1>4 DEF LogOrdered
  <2>2. QED BY <1>1, <2>1
<1>5. CASE i = Len(log) + 1
  <2>1. e = journal[n][k] BY <1>1, <1>5
  <2>2. Opened(n, e, k) BY <2>1 DEF JournalsOrdered
  <2>3. \A j \in waiting[n] : ~ (j < k) BY <1>1, <1>3
  <2>4. Logged(Opener(e)) BY <2>2, <2>3 DEF Opened
  <2>5. QED BY <1>1, <1>2, <1>5, <2>4 DEF Logged
<1>6. QED BY <1>1, <1>4, <1>5

LEMMA OrderStep ==
    ASSUME TypeOK, FormedInv, SharedInv, LocalReferences, Plain, AllPlain, AllTold,
           JournalsOrdered, LogOrdered, Next
    PROVE  JournalsOrdered' /\ LogOrdered'
<1>1. PICK n \in Store : Operations(n) \/ Push(n) \/ Pull(n) BY DEF Next
<1>2. log' = log => LogOrdered' BY DEF LogOrdered
<1>3. ASSUME NEW s \in Session, CreateSession(n, s) PROVE JournalsOrdered' /\ log' = log
  <2> DEFINE put == PutSession(s, HomeOf[s])
  <2>1. Queue(n, HomeOf[s], <<put>>) /\ log' = log BY <1>3 DEF CreateSession
  <2>2. put \in Mutation /\ put.op = "session"
    BY HomeAssumption, MutationsAreTyped DEF PutSession
  <2> HIDE DEF put
  <2>3. <<put>> \in Seq(Mutation) BY <2>2
  <2>4. \A i \in DOMAIN <<put>> : <<put>>[i].op # "memory" BY <2>2
  <2>5. QED BY <2>1, <2>3, <2>4, OrderedQueue
<1>4. ASSUME NEW m \in Memory, NEW r \in Row, Writes(n, m, r)
      PROVE  JournalsOrdered' /\ log' = log
  <2> DEFINE put == PutMemory(m, r)
  <2>1. Queue(n, r.project, <<put>>) BY <1>4, WritesSendUpserts DEF Plain
  <2>2. log' = log BY <1>4 DEF Writes
  <2>3. AtHome(r) /\ HasSession(n, r.session) BY <1>4, WritesArePlain
  <2>4. r.project \in enrolled[n] => Spoken(n, Opener(put))
    BY <2>3, OpenerIsSpoken DEF Opener, PutMemory
  <2>5. put \in Mutation BY MutationsAreTyped
  <2> HIDE DEF put
  <2>6. <<put>> \in Seq(Mutation) BY <2>5
  <2>7. \A i \in DOMAIN <<put>> : <<put>>[i] = put OBVIOUS
  <2>8. QED BY <2>1, <2>2, <2>4, <2>6, <2>7, OrderedQueue
<1>5. CASE SomeDelete(n)
  <2>1. PICK p \in Project, M \in SUBSET Memory, S \in SUBSET Session, hard \in BOOLEAN,
             es \in Seq(Mutation) : Deletes(n, p, M, S, hard, es)
    BY <1>5 DEF SomeDelete
  <2>2. /\ \A e : Among(e, es) => \/ \E m \in M : e = MemoryGone(m, hard, p)
                                  \/ \E s \in S : e = SessionGone(s, p)
        /\ Queue(n, p, es) /\ log' = log
    BY <2>1 DEF Deletes
  <2>3. ASSUME NEW e, Among(e, es) PROVE e.op # "memory"
    <3>1. \A m \in M : MemoryGone(m, hard, p).op # "memory" BY DEF MemoryGone
    <3>2. \A s \in S : SessionGone(s, p).op # "memory" BY DEF SessionGone
    <3>3. QED BY <2>2, <2>3, <3>1, <3>2
  <2>4. \A i \in DOMAIN es : Among(es[i], es) BY DEF Among
  <2>5. JournalsOrdered' BY <2>2, <2>3, <2>4, OrderedQueue
  <2>6. QED BY <1>2, <2>2, <2>5
<1>6. ASSUME NEW p \in Project, Enroll(n, p) PROVE JournalsOrdered' /\ log' = log
  BY <1>6, EnrollKeepsOrder DEF Enroll
<1>7. ASSUME NEW p \in Project, Unenroll(n, p) PROVE JournalsOrdered' /\ log' = log
  BY <1>7 DEF Unenroll, queue, JournalsOrdered, Opened, Logged, Opener, PutSession
<1>8. \A p, q \in Project : ~Merge(n, p, q) BY DEF Plain, SessionsStay, Merge, Operation
<1>9. CASE Push(n) BY <1>9, PushKeepsOrder, PushKeepsLogOrder
<1>10. CASE Pull(n)
  BY <1>2, <1>10 DEF Pull, queue, JournalsOrdered, Opened, Logged, Opener, PutSession
<1>11. QED
  BY <1>1, <1>2, <1>3, <1>4, <1>5, <1>6, <1>7, <1>8, <1>9, <1>10, OperationsAre

LEMMA LogKeys ==
    ASSUME TypeOK
    PROVE  \A i \in DOMAIN log : log[i].op = "session" => log[i].key \in Session
<1>1. \A i \in DOMAIN log : log[i] \in Mutation BY DEF TypeOK
<1>2. QED BY <1>1, MutationKinds

LEMMA SeenStep ==
    ASSUME TypeOK, Plain, AllPlain, SessionsSeen, Next
    PROVE  SessionsSeen'
<1>1. PICK n \in Store : Operations(n) \/ Push(n) \/ Pull(n) BY DEF Next
<1>2. ASSUME log' = log, cursor' = cursor,
             \A o \in Store, s \in Session : HasSession(o, s) => HasSession(o, s)'
      PROVE  SessionsSeen'
  <2>1. \A i \in DOMAIN log : log[i].op = "session" => log[i].key \in Session
    BY LogKeys
  <2>2. QED BY <1>2, <2>1 DEF SessionsSeen, HasSession
<1>3. ASSUME UNCHANGED <<log, cursor, sessions>> PROVE SessionsSeen'
  BY <1>3 DEF SessionsSeen, HasSession
<1>4. ASSUME NEW s \in Session, CreateSession(n, s) PROVE SessionsSeen'
  <2>1. /\ sessions' = [sessions EXCEPT ![n][s] = HomeOf[s]]
        /\ UNCHANGED <<log, cursor>>
    BY <1>4 DEF CreateSession
  <2>2. HomeOf[s] # None BY HomeAssumption, NoneAssumption
  <2>3. \A o \in Store, t \in Session : sessions'[o][t] \in {sessions[o][t], HomeOf[s]}
    BY <2>1 DEF TypeOK
  <2>4. QED BY <1>2, <2>1, <2>2, <2>3 DEF HasSession
<1>5. \A m \in Memory : \A r \in Row : Writes(n, m, r) => UNCHANGED <<log, cursor, sessions>>
  BY DEF Writes
<1>6. CASE SomeDelete(n)
  <2>1. PICK p \in Project, M \in SUBSET Memory, S \in SUBSET Session, hard \in BOOLEAN,
             es \in Seq(Mutation) : Deletes(n, p, M, S, hard, es)
    BY <1>6 DEF SomeDelete
  <2>2. SessionsGone(n, {}) /\ UNCHANGED <<log, cursor>> BY <2>1 DEF Deletes, Plain
  <2>3. \A o \in Store, t \in Session : sessions'[o][t] = sessions[o][t]
    BY <2>2 DEF TypeOK, SessionsGone
  <2>4. QED BY <1>2, <2>2, <2>3 DEF HasSession
<1>7. \A p \in Project : Enroll(n, p) \/ Unenroll(n, p) => UNCHANGED <<log, cursor, sessions>>
  BY DEF Enroll, Unenroll, tables
<1>8. \A p, q \in Project : ~Merge(n, p, q) BY DEF Plain, SessionsStay, Merge, Operation
<1>9. CASE Push(n)
  <2>1. /\ \A i \in DOMAIN log : i \in DOMAIN log' /\ log'[i] = log[i]
        /\ DOMAIN log' = DOMAIN log \cup {Len(log) + 1}
        /\ UNCHANGED <<sessions, cursor>>
    BY <1>9, Pushed DEF tables
  <2>2. \A o \in Store : cursor[o] < Len(log) + 1 BY DEF TypeOK
  <2>3. \A o \in Store : ~ (Len(log) + 1 <= cursor[o])
    BY <2>2 DEF TypeOK
  <2>4. QED BY <2>1, <2>3 DEF SessionsSeen, HasSession
<1>10. CASE Pull(n)
  <2> DEFINE e == log[cursor[n] + 1]
  <2>1. Apply(n, e) /\ log' = log /\ cursor' = [cursor EXCEPT ![n] = @ + 1]
    BY <1>10 DEF Pull, Advance
  <2>2. cursor[n] + 1 \in DOMAIN log BY <1>10 DEF TypeOK, Pull, Behind
  <2>3. e \in Mutation BY <2>2 DEF TypeOK
  <2>4. Known(e) BY <2>2 DEF Known, Logged
  <2>5. /\ cursor'[n] = cursor[n] + 1 /\ cursor[n] \in Nat
        /\ \A o \in Store : o # n => cursor'[o] = cursor[o]
    BY <2>1 DEF TypeOK
  <2>6. \A i \in DOMAIN log : i <= cursor'[n] => i <= cursor[n] \/ i = cursor[n] + 1
    BY <2>5 DEF TypeOK
  <2>7. \A f : f = e => f.op # "session gone" BY <2>4 DEF AllPlain, PlainEntry
  <2>8. \A o \in Store, t \in Session : HasSession(o, t) => HasSession(o, t)'
    <3>1. CASE e.op = "session"
      <4>1. sessions' = [sessions EXCEPT ![n][e.key] = e.body] BY <2>1, <3>1 DEF Apply
      <4>2. e.body # None BY <2>3, <3>1, MutationKinds, NoneAssumption
      <4> HIDE DEF e
      <4>3. \A o \in Store, t \in Session : sessions'[o][t] \in {sessions[o][t], e.body}
        BY <4>1 DEF TypeOK
      <4>4. QED BY <4>2, <4>3 DEF HasSession
    <3>2. CASE e.op # "session"
      <4>1. sessions' = sessions BY <2>1, <2>3, <2>7, <3>2, MutationKinds DEF Apply
      <4>2. QED BY <4>1 DEF HasSession
    <3>3. QED BY <3>1, <3>2
  <2>9. e.op = "session" => sessions'[n][e.key] # None
    <3> SUFFICES ASSUME e.op = "session" PROVE sessions'[n][e.key] # None
      OBVIOUS
    <3>1. sessions' = [sessions EXCEPT ![n][e.key] = e.body] BY <2>1 DEF Apply
    <3>2. e.key \in Session /\ e.body # None BY <2>3, MutationKinds, NoneAssumption
    <3> HIDE DEF e
    <3>3. sessions'[n][e.key] = e.body BY <3>1, <3>2 DEF TypeOK
    <3>4. QED BY <3>2, <3>3
  <2>10. \A i \in DOMAIN log : log[i].op = "session" => log[i].key \in Session
    BY LogKeys
  <2> SUFFICES ASSUME NEW o \in Store, NEW i \in DOMAIN log, i <= cursor'[o],
                      log[i].op = "session"
               PROVE  sessions'[o][log[i].key] # None
    BY <2>1 DEF SessionsSeen, HasSession
  <2>11. CASE i <= cursor[o] BY <2>8, <2>10, <2>11 DEF SessionsSeen, HasSession
  <2>12. CASE o = n /\ i = cursor[n] + 1 BY <2>9, <2>12
  <2>13. QED BY <2>5, <2>6, <2>11, <2>12
<1>11. QED
  BY <1>1, <1>3, <1>4, <1>5, <1>6, <1>7, <1>8, <1>9, <1>10, OperationsAre

LEMMA PlainLogApplies ==
    ASSUME TypeOK, AllPlain, LogOrdered, SessionsSeen, NEW n \in Store, Behind(n)
    PROVE  CanApply(n, log[cursor[n] + 1])
<1> DEFINE e == log[cursor[n] + 1]
<1>1. cursor[n] + 1 \in DOMAIN log /\ cursor[n] \in Nat BY DEF TypeOK, Behind
<1>2. Known(e) BY <1>1 DEF Known, Logged
<1>3. e.op # "session gone" BY <1>2 DEF AllPlain, PlainEntry
<1>4. ASSUME e.op = "memory" PROVE HasSession(n, e.body.session)
  <2>1. PICK j \in DOMAIN log : j < cursor[n] + 1 /\ log[j] = Opener(e)
    BY <1>1, <1>4 DEF LogOrdered
  <2>2. j <= cursor[n] BY <1>1, <2>1 DEF TypeOK
  <2>3. log[j].op = "session" /\ log[j].key = e.body.session
    BY <2>1 DEF Opener, PutSession
  <2>4. QED BY <2>2, <2>3 DEF SessionsSeen
<1>5. QED BY <1>3, <1>4 DEF CanApply

(***************************************************************************)
(* No pull gets stuck on a session that is missing, where sessions keep    *)
(* their project and no memory moves out of replication: stores may edit,  *)
(* move, delete memories, leave and enroll again in any order              *)
(* (backfill_project_tx, apply_sync_mutation_tx).                          *)
(***************************************************************************)
THEOREM PullsNeverStick == Spec => []AppliesCleanly
<1> DEFINE Inv == /\ FormedInv /\ SharedInv
                  /\ Plain => AllTold /\ AllPlain /\ JournalsOrdered /\ LogOrdered /\ SessionsSeen
<1>1. Init => Inv
  <2> SUFFICES ASSUME Init PROVE Inv OBVIOUS
  <2>1. \A n \in Store : waiting[n] = {} BY DEF Init
  <2>2. log = <<>> BY DEF Init
  <2>3. \A e : ~Known(e) BY <2>1, <2>2 DEF Known, Logged, Sent
  <2>4. SharedInv BY DEF Init, SharedInv, AllShared
  <2>5. \A n \in Store : enrolled[n] \subseteq Project BY PlansAssumption DEF Init, Plan
  <2>6. AllTold BY <2>5, NoneAssumption DEF Init, AllTold, SessionTold, MemoryTold, Live, Has
  <2>7. AllPlain BY <2>3 DEF Init, AllPlain, Has
  <2>8. JournalsOrdered /\ LogOrdered /\ SessionsSeen
    BY <2>1, <2>2 DEF JournalsOrdered, LogOrdered, SessionsSeen
  <2>9. QED BY <2>3, <2>4, <2>6, <2>7, <2>8 DEF FormedInv
<1>2. TypeOK /\ LocalReferences /\ Inv /\ [Next]_vars => Inv'
  <2> SUFFICES ASSUME TypeOK, LocalReferences, Inv, [Next]_vars PROVE Inv' OBVIOUS
  <2>1. CASE UNCHANGED vars
    <3>1. UNCHANGED <<plan, sessions, memories, enrolled, journal, waiting, log, cursor>>
      BY <2>1 DEF vars, tables, queue
    <3>2. FormedInv' /\ SharedInv'
      BY <3>1 DEF FormedInv, Formed, Known, Logged, Sent, SharedInv, AllShared
    <3>3. Plain' <=> Plain BY <3>1 DEF Plain, SessionsStay, NoGhosts, NoneAbroad, AllShared
    <3>4. (AllTold => AllTold') /\ (AllPlain => AllPlain')
      <4>1. AllTold => AllTold'
        BY <3>1 DEF AllTold, SessionTold, MemoryTold, Spoken, Logged, Sent, Live, Has,
                    PutSession, PutMemory
      <4>2. AllPlain => AllPlain'
        <5>1. \A e : Known(e)' => Known(e) BY <3>1 DEF Known, Logged, Sent
        <5>2. QED BY <3>1, <5>1 DEF AllPlain, PlainEntry, Has, AtHome, AllShared
      <4>3. QED BY <4>1, <4>2
    <3>5. /\ JournalsOrdered => JournalsOrdered'
          /\ LogOrdered => LogOrdered'
          /\ SessionsSeen => SessionsSeen'
      BY <3>1 DEF JournalsOrdered, Opened, Logged, LogOrdered, SessionsSeen, HasSession,
                  Opener, PutSession
    <3>6. QED BY <3>2, <3>3, <3>4, <3>5
  <2>2. CASE Next
    <3>1. FormedInv' /\ SharedInv' BY <2>2, FormedStep, SharedStep
    <3>2. Plain' <=> Plain BY <2>2 DEF Next, Plain, SessionsStay, NoGhosts, NoneAbroad, AllShared
    <3>3. Plain => "merge" \notin plan.ops BY DEF Plain, SessionsStay
    <3>4. Plain => AllTold' BY <2>2, <3>3, ToldStep
    <3>5. Plain => AllPlain' BY <2>2, PlainStep
    <3>6. Plain => JournalsOrdered' /\ LogOrdered' BY <2>2, OrderStep
    <3>7. Plain => SessionsSeen' BY <2>2, SeenStep
    <3>8. QED BY <3>1, <3>2, <3>4, <3>5, <3>6, <3>7
  <2>3. QED BY <2>1, <2>2
<1>3. TypeOK /\ Inv => AppliesCleanly BY PlainLogApplies DEF AppliesCleanly, Plain
<1> HIDE DEF Inv
<1>4. QED BY <1>1, <1>2, <1>3, TypeCorrect, ReferencesHold, PTL DEF Spec

-----------------------------------------------------------------------------
(***************************************************************************)
(* PeersAgree.  What a store holds of a memory is what the last entry of   *)
(* the log about it says, unless something about it is outstanding there:  *)
(* waits to be pushed, or is yet to be pulled.                             *)
(***************************************************************************)

About(e, m) == e.op \in {"memory", "memory gone", "memory erased"} /\ e.key = m

Outstanding(n, m) ==
    \/ \E e : Sent(n, e) /\ About(e, m)
    \/ \E i \in DOMAIN log : i > cursor[n] /\ About(log[i], m)

LastAbout(m, i) ==
    About(log[i], m) /\ \A j \in DOMAIN log : j > i => ~About(log[j], m)

LastsExist ==
    \A m \in Memory : (\E i \in DOMAIN log : About(log[i], m))
                        => \E i \in DOMAIN log : LastAbout(m, i)

LEMMA OutstandingAfterQueue ==
    ASSUME TypeOK, NEW n \in Store, NEW p, NEW es \in Seq(Mutation), Queue(n, p, es),
           UNCHANGED <<log, cursor>>
    PROVE  /\ \A o \in Store : \A m : Outstanding(o, m) => Outstanding(o, m)'
           /\ p \in enrolled[n] =>
                \A m : (\E e : Among(e, es) /\ About(e, m)) => Outstanding(n, m)'
<1>1. /\ \A o \in Store : \A e : Sent(o, e) => Sent(o, e)'
      /\ p \in enrolled[n] => \A e : Among(e, es) => Sent(n, e)'
  BY Queued
<1>2. QED BY <1>1 DEF Outstanding, About

\* The entry that is pushed is outstanding everywhere, and nothing else about
\* the log changes.
LEMMA OutstandingAfterPush ==
    ASSUME TypeOK, NEW n \in Store, Push(n)
    PROVE  /\ \A o \in Store : \A m : Outstanding(o, m) => Outstanding(o, m)'
           /\ \A m : \/ \A o \in Store : Outstanding(o, m)'
                     \/ /\ \A i \in DOMAIN log' : LastAbout(m, i)'
                             => i \in DOMAIN log /\ LastAbout(m, i) /\ log'[i] = log[i]
                        /\ (\A i \in DOMAIN log' : ~About(log'[i], m))
                             => \A i \in DOMAIN log : ~About(log[i], m)
<1>1. PICK k \in waiting[n] :
        /\ log'[Len(log) + 1] = journal[n][k]
        /\ \A i \in DOMAIN log : i \in DOMAIN log' /\ log'[i] = log[i]
        /\ DOMAIN log' = DOMAIN log \cup {Len(log) + 1}
        /\ waiting'[n] = waiting[n] \ {k}
        /\ \A o \in Store : o # n => waiting'[o] = waiting[o]
        /\ UNCHANGED <<journal, cursor>>
  BY Pushed
<1>2. \A o \in Store : Len(log) + 1 > cursor[o] BY DEF TypeOK
<1>3. ASSUME NEW m, About(journal[n][k], m), NEW o \in Store PROVE Outstanding(o, m)'
  BY <1>1, <1>2, <1>3 DEF Outstanding, About
<1>4. ASSUME NEW m, NEW o \in Store, Outstanding(o, m) PROVE Outstanding(o, m)'
  <2>1. CASE \E i \in DOMAIN log : i > cursor[o] /\ About(log[i], m)
    <3>1. \E i \in DOMAIN log' : i > cursor'[o] /\ About(log'[i], m) BY <1>1, <2>1
    <3>2. QED BY <3>1 DEF Outstanding, About
  <2>2. CASE \E e : Sent(o, e) /\ About(e, m)
    <3>1. PICK j \in waiting[o] : About(journal[o][j], m) BY <2>2 DEF Sent
    <3>2. CASE o = n /\ j = k BY <1>3, <3>1, <3>2
    <3>3. CASE ~ (o = n /\ j = k)
      <4>1. j \in waiting'[o] BY <1>1, <3>3
      <4>2. QED BY <1>1, <3>1, <4>1 DEF Outstanding, Sent, About
    <3>4. QED BY <3>2, <3>3
  <2>3. QED BY <1>4, <2>1, <2>2 DEF Outstanding
<1>5. ASSUME NEW m, ~About(journal[n][k], m)
      PROVE  /\ \A i \in DOMAIN log' : LastAbout(m, i)'
                  => i \in DOMAIN log /\ LastAbout(m, i) /\ log'[i] = log[i]
             /\ (\A i \in DOMAIN log' : ~About(log'[i], m))
                  => \A i \in DOMAIN log : ~About(log[i], m)
  BY <1>1, <1>5 DEF LastAbout, About
<1>6. QED BY <1>3, <1>4, <1>5

LEMMA LastsExistAfterPush ==
    ASSUME TypeOK, LastsExist, NEW n \in Store, Push(n)
    PROVE  LastsExist'
<1>1. PICK k \in waiting[n] :
        /\ log'[Len(log) + 1] = journal[n][k]
        /\ \A i \in DOMAIN log : i \in DOMAIN log' /\ log'[i] = log[i]
        /\ DOMAIN log' = DOMAIN log \cup {Len(log) + 1}
  BY Pushed
<1>2. \A i \in DOMAIN log : ~ (i > Len(log) + 1) BY DEF TypeOK
<1>3. ~ (Len(log) + 1 > Len(log) + 1) BY DEF TypeOK
<1> SUFFICES ASSUME NEW m \in Memory, NEW i \in DOMAIN log', About(log'[i], m)
             PROVE  \E l \in DOMAIN log' : LastAbout(m, l)'
  BY DEF LastsExist, About
<1>4. CASE About(journal[n][k], m)
  <2>1. \A j \in DOMAIN log' : ~ (j > Len(log) + 1) BY <1>1, <1>2, <1>3
  <2>2. \A l : l = Len(log) + 1 => LastAbout(m, l)'
    BY <1>1, <1>4, <2>1 DEF LastAbout, About
  <2>3. QED BY <1>1, <2>2
<1>5. CASE ~About(journal[n][k], m)
  <2>1. i \in DOMAIN log /\ About(log[i], m) BY <1>1, <1>5 DEF About
  <2>2. PICK l \in DOMAIN log : LastAbout(m, l) BY <2>1 DEF LastsExist
  <2>3. LastAbout(m, l)' BY <1>1, <1>5, <2>2 DEF LastAbout, About
  <2>4. QED BY <1>1, <2>3
<1>6. QED BY <1>4, <1>5

\* What a pull leaves outstanding, and what it does to rows.
LEMMA OutstandingAfterPull ==
    ASSUME TypeOK, NEW n \in Store, Pull(n)
    PROVE  /\ \A o \in Store, m \in Memory :
                o # n => memories'[o][m] = memories[o][m]
                         /\ (Outstanding(o, m) => Outstanding(o, m)')
           /\ \A m \in Memory : LET e == log[cursor[n] + 1] IN
                \/ /\ ~About(e, m) /\ memories'[n][m] = memories[n][m]
                   /\ Outstanding(n, m) => Outstanding(n, m)'
                \/ /\ About(e, m)
                   /\ Outstanding(n, m)' \/ LastAbout(m, cursor[n] + 1)
                   /\ e.op = "memory" => memories'[n][m] = e.body
                   /\ e.op # "memory" => ~Live(n, m)'
           /\ cursor[n] + 1 \in DOMAIN log
           /\ log' = log
<1> DEFINE c == cursor[n] + 1
           e == log[c]
<1>1. /\ Apply(n, e) /\ cursor' = [cursor EXCEPT ![n] = @ + 1]
      /\ UNCHANGED <<log, journal, waiting>>
  BY DEF Pull, Advance, queue
<1>2. c \in DOMAIN log BY DEF TypeOK, Pull, Behind
<1>3. e \in Mutation BY <1>2 DEF TypeOK
<1>4. cursor'[n] = c /\ \A o \in Store : o # n => cursor'[o] = cursor[o]
  BY <1>1 DEF TypeOK
<1>5. \A i \in DOMAIN log : (i > cursor[n] <=> i > c \/ i = c) BY DEF TypeOK
<1> HIDE DEF c, e
<1>6. \A o \in Store : \A f : Sent(o, f)' <=> Sent(o, f) BY <1>1 DEF Sent
<1>7. ASSUME NEW o \in Store, NEW m, o # n, Outstanding(o, m) PROVE Outstanding(o, m)'
  BY <1>1, <1>4, <1>6, <1>7 DEF Outstanding, About
<1>8. ASSUME NEW m, ~About(e, m), Outstanding(n, m) PROVE Outstanding(n, m)'
  <2>1. \/ \E f : Sent(n, f)' /\ About(f, m)
        \/ \E i \in DOMAIN log : i > c /\ About(log[i], m)
    BY <1>5, <1>6, <1>8 DEF Outstanding, e
  <2>2. QED BY <1>1, <1>4, <2>1 DEF Outstanding, About
<1>9. ASSUME NEW m, About(e, m), ~Outstanding(n, m)' PROVE LastAbout(m, c)
  <2>1. \A i \in DOMAIN log : i > c => ~About(log[i], m)
    BY <1>1, <1>4, <1>9 DEF Outstanding, About
  <2>2. QED BY <1>9, <2>1 DEF LastAbout, e
<1>10. CASE e.op \in {"session", "session gone"}
  <2>1. memories' = memories BY <1>1, <1>10 DEF Apply
  <2>2. \A m : ~About(e, m) BY <1>10 DEF About
  <2>3. QED BY <1>1, <1>2, <1>7, <1>8, <2>1, <2>2 DEF e, c
<1>11. CASE e.op = "memory"
  <2>1. memories' = [memories EXCEPT ![n][e.key] = e.body]
    BY <1>1, <1>11 DEF Apply, SetRow, Upserted
  <2>2. e.key \in Memory /\ \A m : About(e, m) <=> m = e.key
    BY <1>3, <1>11, MutationKinds DEF About
  <2>3. /\ memories'[n][e.key] = e.body
        /\ \A m \in Memory : m # e.key => memories'[n][m] = memories[n][m]
        /\ \A o \in Store : o # n => memories'[o] = memories[o]
    BY <2>1, <2>2 DEF TypeOK
  <2>4. QED BY <1>1, <1>2, <1>7, <1>8, <1>9, <1>11, <2>2, <2>3 DEF e, c
<1>12. CASE IsGone(e)
  <2> DEFINE M == {m \in {e.key} : Has(n, m)}
             hard == (e.op = "memory erased")
  <2>1. Gone(n, M, hard) BY <1>1, <1>12 DEF Apply, IsGone
  <2>2. e.key \in Memory /\ (\A m : About(e, m) <=> m = e.key)
    BY <1>3, <1>12, MutationKinds DEF About, IsGone
  <2>3. M \in SUBSET Memory /\ (\A m \in M : Has(n, m)) /\ hard \in BOOLEAN BY <2>2
  <2>4. Has(n, e.key) => e.key \in M BY <2>2
  <2>5. M \subseteq {e.key} OBVIOUS
  <2> HIDE DEF M, hard
  <2>6. /\ \A m \in Memory : m # e.key => memories'[n][m] = memories[n][m]
        /\ \A o \in Store, m \in Memory : o # n => memories'[o][m] = memories[o][m]
    BY <2>1, <2>5 DEF TypeOK, Gone
  <2>7. ASSUME NEW m \in Memory, m = e.key PROVE ~Live(n, m)'
    <3>1. Live(n, m)' <=> Live(n, m) /\ ~ (n = n /\ m \in M)
      BY <2>1, <2>3, GoneAreNotLive
    <3>2. QED BY <2>4, <2>7, <3>1 DEF Live
  <2>8. e.op # "memory" BY <1>12 DEF IsGone
  <2>9. QED BY <1>1, <1>2, <1>7, <1>8, <1>9, <2>2, <2>6, <2>7, <2>8 DEF e, c
<1>13. QED BY <1>3, <1>10, <1>11, <1>12, MutationKinds DEF IsGone

Settled(n, m) ==
    /\ \A i \in DOMAIN log : LastAbout(m, i) =>
         IF log[i].op = "memory" THEN memories[n][m] = log[i].body ELSE ~Live(n, m)
    /\ (\A i \in DOMAIN log : ~About(log[i], m)) => ~Live(n, m)

UpToDate(n, m) == Outstanding(n, m) \/ Settled(n, m)

\* A step that leaves rows, journals and log alone.
LEMMA NothingNews ==
    ASSUME UNCHANGED <<memories, journal, waiting, log, cursor>>
    PROVE  /\ LastsExist => LastsExist'
           /\ \A n \in Store, m \in Memory : UpToDate(n, m)' <=> UpToDate(n, m)
<1>1. \A m, i : LastAbout(m, i)' <=> LastAbout(m, i) BY DEF LastAbout, About
<1>2. LastsExist => LastsExist' BY <1>1 DEF LastsExist, About
<1>3. \A n, e : Sent(n, e)' <=> Sent(n, e) BY DEF Sent
<1>4. \A n, m : Outstanding(n, m)' <=> Outstanding(n, m) BY <1>3 DEF Outstanding, About
<1>5. \A n, m : Live(n, m)' <=> Live(n, m) BY DEF Live, Has
<1>6. \A n, m : Settled(n, m)' <=> Settled(n, m) BY <1>1, <1>5 DEF Settled, About
<1>7. QED BY <1>2, <1>4, <1>6 DEF UpToDate

LEMMA StaysUpToDate ==
    ASSUME NEW o \in Store, NEW m \in Memory, UpToDate(o, m), log' = log,
           memories'[o][m] = memories[o][m], Outstanding(o, m) => Outstanding(o, m)'
    PROVE  UpToDate(o, m)'
<1>1. Settled(o, m) => Settled(o, m)' BY DEF Settled, LastAbout, About, Live, Has
<1>2. QED BY <1>1 DEF UpToDate

LEMMA UpToDateAfterPush ==
    ASSUME TypeOK, NEW n \in Store, Push(n), NEW o \in Store, NEW m \in Memory, UpToDate(o, m)
    PROVE  UpToDate(o, m)'
<1>1. /\ Outstanding(o, m) => Outstanding(o, m)'
      /\ \/ Outstanding(o, m)'
         \/ /\ \A i \in DOMAIN log' : LastAbout(m, i)'
                 => i \in DOMAIN log /\ LastAbout(m, i) /\ log'[i] = log[i]
            /\ (\A i \in DOMAIN log' : ~About(log'[i], m))
                 => \A i \in DOMAIN log : ~About(log[i], m)
  BY OutstandingAfterPush
<1>2. memories' = memories BY DEF Push, tables
<1>3. CASE Outstanding(o, m)' BY <1>3 DEF UpToDate
<1>4. CASE Settled(o, m) /\ ~Outstanding(o, m)'
  <2>1. \A i \in DOMAIN log' : LastAbout(m, i)' =>
          IF log'[i].op = "memory" THEN memories'[o][m] = log'[i].body ELSE ~Live(o, m)'
    BY <1>1, <1>2, <1>4 DEF Settled, Live, Has
  <2>2. (\A i \in DOMAIN log' : ~About(log'[i], m)) => ~Live(o, m)'
    BY <1>1, <1>2, <1>4 DEF Settled, Live, Has
  <2>3. QED BY <2>1, <2>2 DEF UpToDate, Settled, About
<1>5. QED BY <1>1, <1>3, <1>4 DEF UpToDate

\* What is pulled of a memory is up to date, whatever was there.
LEMMA UpToDateAfterPull ==
    ASSUME TypeOK, NEW n \in Store, Pull(n), NEW o \in Store, NEW m \in Memory
    PROVE  /\ UpToDate(o, m) => UpToDate(o, m)'
           /\ UpToDate(o, m)' \/ memories'[o][m] = memories[o][m]
<1> DEFINE c == cursor[n] + 1
           e == log[c]
<1>1. c \in DOMAIN log /\ log' = log BY OutstandingAfterPull
<1>2. CASE o # n
  <2>1. memories'[o][m] = memories[o][m] /\ (Outstanding(o, m) => Outstanding(o, m)')
    BY <1>2, OutstandingAfterPull
  <2>2. QED BY <1>1, <2>1, StaysUpToDate
<1>3. CASE o = n
  <2>1. \/ /\ memories'[n][m] = memories[n][m]
           /\ Outstanding(n, m) => Outstanding(n, m)'
        \/ /\ About(e, m)
           /\ Outstanding(n, m)' \/ LastAbout(m, c)
           /\ e.op = "memory" => memories'[n][m] = e.body
           /\ e.op # "memory" => ~Live(n, m)'
    BY OutstandingAfterPull
  <2> HIDE DEF c
  <2>2. CASE /\ memories'[n][m] = memories[n][m]
             /\ Outstanding(n, m) => Outstanding(n, m)'
    BY <1>1, <1>3, <2>2, StaysUpToDate
  <2>3. CASE Outstanding(n, m)' BY <1>3, <2>3 DEF UpToDate
  <2>4. CASE /\ About(e, m) /\ LastAbout(m, c)
             /\ e.op = "memory" => memories'[n][m] = e.body
             /\ e.op # "memory" => ~Live(n, m)'
    <3>1. ASSUME NEW i \in DOMAIN log, LastAbout(m, i) PROVE i = c
      <4>1. ~ (i > c) /\ ~ (c > i) BY <1>1, <2>4, <3>1 DEF LastAbout
      <4>2. i \in Nat /\ c \in Nat BY <1>1 DEF TypeOK
      <4>3. QED BY <4>1, <4>2
    <3>2. \A i \in DOMAIN log' : LastAbout(m, i)' =>
            IF log'[i].op = "memory" THEN memories'[n][m] = log'[i].body ELSE ~Live(n, m)'
      BY <1>1, <2>4, <3>1 DEF LastAbout, About
    <3>3. Settled(n, m)' BY <1>1, <2>4, <3>2 DEF Settled, About
    <3>4. QED BY <1>3, <3>3 DEF UpToDate
  <2>5. QED BY <2>1, <2>2, <2>3, <2>4
<1>4. QED BY <1>2, <1>3

LEMMA LastsExistStep == ASSUME TypeOK, LastsExist, Next PROVE LastsExist'
<1>1. PICK n \in Store : Operations(n) \/ Push(n) \/ Pull(n) BY DEF Next
<1>2. ASSUME log' = log PROVE LastsExist'
  <2>1. \A m, i : (LastAbout(m, i)' <=> LastAbout(m, i)) /\ (About(log[i], m)' <=> About(log[i], m))
    BY <1>2 DEF LastAbout, About
  <2>2. QED BY <1>2, <2>1 DEF LastsExist
<1>3. Operations(n) => log' = log
  <2>1. \A s \in Session : CreateSession(n, s) => log' = log BY DEF CreateSession
  <2>2. \A m \in Memory : \A r \in Row : Writes(n, m, r) => log' = log BY DEF Writes
  <2>3. SomeDelete(n) => log' = log BY DEF SomeDelete, Deletes
  <2>4. \A p \in Project : Enroll(n, p) \/ Unenroll(n, p) => log' = log BY DEF Enroll, Unenroll
  <2>5. \A p, q \in Project : Merge(n, p, q) => log' = log BY DEF Merge
  <2>6. QED BY <2>1, <2>2, <2>3, <2>4, <2>5, OperationsAre
<1>4. Pull(n) => log' = log BY DEF Pull
<1>5. QED BY <1>1, <1>2, <1>3, <1>4, LastsExistAfterPush

-----------------------------------------------------------------------------
(* PeersAgree, of stores that share everything.                            *)

AllUpToDate == \A n \in Store, m \in Memory : UpToDate(n, m)

LEMMA SharedUpToDateStep ==
    ASSUME TypeOK, SharedInv, AllShared, AllUpToDate, Next
    PROVE  AllUpToDate'
<1>1. PICK n \in Store : Operations(n) \/ Push(n) \/ Pull(n) BY DEF Next
<1>2. enrolled[n] = Project BY DEF SharedInv
<1>3. ASSUME NEW s \in Session, CreateSession(n, s) PROVE AllUpToDate'
  <2> DEFINE put == PutSession(s, HomeOf[s])
  <2>1. Queue(n, HomeOf[s], <<put>>) /\ UNCHANGED <<memories, log, cursor>>
    BY <1>3 DEF CreateSession
  <2>2. put \in Mutation BY HomeAssumption, MutationsAreTyped
  <2> HIDE DEF put
  <2>3. <<put>> \in Seq(Mutation) BY <2>2
  <2>4. \A o \in Store : \A m : Outstanding(o, m) => Outstanding(o, m)'
    BY <2>1, <2>3, OutstandingAfterQueue
  <2>5. QED BY <2>1, <2>4, StaysUpToDate DEF AllUpToDate
<1>4. ASSUME NEW m \in Memory, NEW r \in Row, Writes(n, m, r) PROVE AllUpToDate'
  <2> DEFINE put == PutMemory(m, r)
  <2>1. Queue(n, r.project, <<put>>) BY <1>4, WritesSendUpserts DEF NoGhosts
  <2>2. /\ memories' = [memories EXCEPT ![n][m] = r]
        /\ UNCHANGED <<log, cursor>>
    BY <1>4 DEF Writes
  <2>3. put \in Mutation /\ About(put, m) BY MutationsAreTyped DEF About, PutMemory
  <2>4. r.project \in enrolled[n] BY <1>2 DEF Row
  <2> HIDE DEF put
  <2>5. <<put>> \in Seq(Mutation) /\ Among(put, <<put>>) BY <2>3, OneAmong
  <2>6. \A o \in Store : \A l : Outstanding(o, l) => Outstanding(o, l)'
    BY <2>1, <2>2, <2>5, OutstandingAfterQueue
  <2>7. Outstanding(n, m)' BY <2>1, <2>2, <2>3, <2>4, <2>5, OutstandingAfterQueue
  <2>8. ASSUME NEW o \in Store, NEW l \in Memory PROVE UpToDate(o, l)'
    <3>1. CASE o = n /\ l = m BY <2>7, <3>1 DEF UpToDate
    <3>2. CASE ~ (o = n /\ l = m)
      <4>1. memories'[o][l] = memories[o][l] BY <2>2, <3>2 DEF TypeOK
      <4>2. QED BY <2>2, <2>6, <4>1, StaysUpToDate DEF AllUpToDate
    <3>3. QED BY <3>1, <3>2
  <2>9. QED BY <2>8 DEF AllUpToDate
<1>5. CASE SomeDelete(n)
  <2>1. PICK p \in Project, M \in SUBSET Memory, S \in SUBSET Session, hard \in BOOLEAN,
             es \in Seq(Mutation) : Deletes(n, p, M, S, hard, es)
    BY <1>5 DEF SomeDelete
  <2>2. /\ \A m \in M : Among(MemoryGone(m, hard, p), es)
        /\ Queue(n, p, es) /\ UNCHANGED <<log, cursor>>
        /\ Gone(n, M, hard)
    BY <2>1 DEF Deletes
  <2>3. \A m \in M : About(MemoryGone(m, hard, p), m) BY DEF About, MemoryGone
  <2>4. \A o \in Store : \A m : Outstanding(o, m) => Outstanding(o, m)'
    BY <2>2, OutstandingAfterQueue
  <2>5. \A m \in M : Outstanding(n, m)' BY <1>2, <2>2, <2>3, OutstandingAfterQueue
  <2>6. ASSUME NEW o \in Store, NEW m \in Memory PROVE UpToDate(o, m)'
    <3>1. CASE o = n /\ m \in M BY <2>5, <3>1 DEF UpToDate
    <3>2. CASE ~ (o = n /\ m \in M)
      <4>1. memories'[o][m] = memories[o][m] BY <2>2, <3>2 DEF TypeOK, Gone
      <4>2. QED BY <2>2, <2>4, <4>1, StaysUpToDate DEF AllUpToDate
    <3>3. QED BY <3>1, <3>2
  <2>7. QED BY <2>6 DEF AllUpToDate
<1>6. /\ \A p \in Project : ~Enroll(n, p) /\ ~Unenroll(n, p)
      /\ \A p, q \in Project : ~Merge(n, p, q)
  BY DEF AllShared, Enroll, Unenroll, Merge, Operation
<1>7. CASE Push(n) BY <1>7, UpToDateAfterPush DEF AllUpToDate
<1>8. CASE Pull(n) BY <1>8, UpToDateAfterPull DEF AllUpToDate
<1>9. QED BY <1>1, <1>3, <1>4, <1>5, <1>6, <1>7, <1>8, OperationsAre

LEMMA QuietIsSettled ==
    ASSUME TypeOK, Quiet, NEW n \in Store, NEW m \in Memory, UpToDate(n, m)
    PROVE  Settled(n, m)
<1>1. waiting[n] = {} /\ ~Behind(n) BY DEF Quiet
<1>2. \A i \in DOMAIN log : ~ (i > cursor[n]) BY <1>1 DEF TypeOK, Behind
<1>3. QED BY <1>1, <1>2 DEF UpToDate, Outstanding, Sent

LEMMA SharedPeersAgree ==
    ASSUME TypeOK, LastsExist, AllUpToDate, Quiet, NEW n \in Store, NEW o \in Store,
           NEW m \in Memory, Live(n, m)
    PROVE  memories[o][m] = memories[n][m]
<1>1. Settled(n, m) /\ Settled(o, m) BY QuietIsSettled DEF AllUpToDate
<1>2. PICK i \in DOMAIN log : LastAbout(m, i) BY <1>1 DEF Settled, LastsExist
<1>3. log[i].op = "memory" BY <1>1, <1>2 DEF Settled
<1>4. QED BY <1>1, <1>2, <1>3 DEF Settled

-----------------------------------------------------------------------------
(* PeersAgree, of stores that come late, leave and come again.             *)

\* What is held, waits or is logged of a memory.
Body(m, r) ==
    \/ r # None /\ \E n \in Store : memories[n][m] = r
    \/ \E e : Known(e) /\ e.op = "memory" /\ e.key = m /\ e.body = r

\* It is live and of one project, and only of what was written.
Grown ==
    /\ \A m \in Memory : \A r : Body(m, r) => r.live /\ \E t \in written : t[1] = m
    /\ \A m \in Memory : \A r, q : Body(m, r) /\ Body(m, q) => r.project = q.project
    /\ \A e : Known(e) => ~IsGone(e)

RowsSeen ==
    \A n \in Store, m \in Memory : \A i \in DOMAIN log :
        i <= cursor[n] /\ About(log[i], m) => Has(n, m)

GrowsUpToDate ==
    \A n \in Store, m \in Memory :
        Live(n, m) /\ memories[n][m].project \in enrolled[n] => UpToDate(n, m)

LEMMA GrowsIs ==
    ASSUME TypeOK, OnlyGrows, NEW n \in Store, Operations(n)
    PROVE  \/ \E s \in Session : CreateSession(n, s)
           \/ \E m \in Memory : \E r \in Row : Writes(n, m, r)
           \/ \E p \in Project : Enroll(n, p) \/ Unenroll(n, p)
<1>1. ~SomeDelete(n) BY DEF SomeDelete, Deletes
<1>2. \A p, q \in Project : ~Merge(n, p, q) BY DEF OnlyGrows, Merge, Operation
<1>3. QED BY <1>1, <1>2, OperationsAre

LEMMA GrowsIsPlain == ASSUME OnlyGrows PROVE NoGhosts /\ "merge" \notin plan.ops /\ SessionsStay
BY DEF OnlyGrows, NoGhosts, SessionsStay

LEMMA GrownKept ==
    ASSUME Grown, \A m \in Memory : \A r : Body(m, r)' => Body(m, r),
           \A e : Known(e)' => Known(e) \/ ~IsGone(e), written' = written
    PROVE  Grown'
<1>1. \A m \in Memory : \A r : Body(m, r)' => r.live /\ \E t \in written' : t[1] = m BY DEF Grown
<1>2. \A m \in Memory : \A r, q : Body(m, r)' /\ Body(m, q)' => r.project = q.project BY DEF Grown
<1>3. \A e : Known(e)' => ~IsGone(e) BY DEF Grown
<1>4. QED BY <1>1, <1>2, <1>3 DEF Grown, IsGone

LEMMA WritesAreGrown ==
    ASSUME TypeOK, SharedInv, OnlyGrows, Grown, NEW n \in Store, NEW m \in Memory, NEW r \in Row,
           Writes(n, m, r)
    PROVE  Grown'
<1> DEFINE put == PutMemory(m, r)
<1>1. Queue(n, r.project, <<put>>) BY GrowsIsPlain, WritesSendUpserts
<1>2. /\ memories' = [memories EXCEPT ![n][m] = r] /\ r.live
      /\ written' = written \cup {<<m, r.text>>} /\ log' = log
      /\ \/ \A t \in written : t[1] # m
         \/ Live(n, m) /\ r.project = memories[n][m].project
  BY DEF Writes, OnlyGrows
<1>3. put \in Mutation BY MutationsAreTyped
<1>4. ~IsGone(put) /\ put.op = "memory" /\ put.key = m /\ put.body = r
  BY DEF PutMemory, IsGone
<1> HIDE DEF put
<1>5. <<put>> \in Seq(Mutation) BY <1>3
<1>6. \A e : Known(e)' => Known(e) \/ e = put BY <1>1, <1>2, <1>5, Queued, OneAmong
<1>7. \A o \in Store, l \in Memory :
        memories'[o][l] = memories[o][l] \/ (l = m /\ memories'[o][l] = r)
  BY <1>2 DEF TypeOK
<1>8. ASSUME NEW l \in Memory, NEW q, Body(l, q)' PROVE Body(l, q) \/ (l = m /\ q = r)
  BY <1>4, <1>6, <1>7, <1>8 DEF Body
<1>9. \A q : Body(m, q) => q.project = r.project
  <2>1. CASE \A t \in written : t[1] # m BY <2>1 DEF Grown
  <2>2. CASE Live(n, m) /\ r.project = memories[n][m].project
    <3>1. Body(m, memories[n][m]) BY <2>2 DEF Body, Live, Has
    <3>2. QED BY <2>2, <3>1 DEF Grown
  <2>3. QED BY <1>2, <2>1, <2>2
<1>10. \A l \in Memory : \A q : Body(l, q)' => q.live /\ \E t \in written' : t[1] = l
  <2> SUFFICES ASSUME NEW l \in Memory, NEW q, Body(l, q)'
               PROVE  q.live /\ \E t \in written' : t[1] = l
    OBVIOUS
  <2>1. CASE Body(l, q) BY <1>2, <2>1 DEF Grown
  <2>2. CASE l = m /\ q = r
    <3>1. <<m, r.text>> \in written' /\ <<m, r.text>>[1] = m BY <1>2
    <3>2. QED BY <1>2, <2>2, <3>1
  <2>3. QED BY <1>8, <2>1, <2>2
<1>11. \A l \in Memory : \A x, q : Body(l, x)' /\ Body(l, q)' => x.project = q.project
  BY <1>8, <1>9 DEF Grown
<1>12. \A e : Known(e)' => ~IsGone(e) BY <1>4, <1>6 DEF Grown
<1>13. QED BY <1>10, <1>11, <1>12 DEF Grown, IsGone

LEMMA GrownStep ==
    ASSUME TypeOK, SharedInv, OnlyGrows, Grown, Next
    PROVE  Grown'
<1>1. PICK n \in Store : Operations(n) \/ Push(n) \/ Pull(n) BY DEF Next
<1>2. ASSUME memories' = memories, \A e : Known(e)' => Known(e)
      PROVE  \A m \in Memory : \A r : Body(m, r)' => Body(m, r)
  BY <1>2 DEF Body
<1>3. ASSUME NEW s \in Session, CreateSession(n, s) PROVE Grown'
  <2> DEFINE put == PutSession(s, HomeOf[s])
  <2>1. Queue(n, HomeOf[s], <<put>>) /\ UNCHANGED <<memories, log, written>>
    BY <1>3 DEF CreateSession
  <2>2. put \in Mutation /\ put.op = "session"
    BY HomeAssumption, MutationsAreTyped DEF PutSession
  <2> HIDE DEF put
  <2>3. <<put>> \in Seq(Mutation) BY <2>2
  <2>4. \A e : Known(e)' => Known(e) \/ e = put BY <2>1, <2>3, Queued, OneAmong
  <2>5. \A m \in Memory : \A r : Body(m, r)' => Body(m, r) BY <2>1, <2>2, <2>4 DEF Body
  <2>6. \A e : Known(e)' => Known(e) \/ ~IsGone(e) BY <2>2, <2>4 DEF IsGone
  <2>7. QED BY <2>1, <2>5, <2>6, GrownKept
<1>4. ASSUME NEW p \in Project, Enroll(n, p) PROVE Grown'
  <2>1. PICK es \in Backfill(n, p) : Requeue(n, NotOf(n, p), es) BY <1>4 DEF Enroll
  <2>2. UNCHANGED <<memories, log, written>> BY <1>4 DEF Enroll, tables
  <2>3. \A e : Among(e, es) <=>
          \/ \E s \in SessionsOf(n, p) : e = PutSession(s, p)
          \/ \E m \in LiveAmong(n, RowsOf(n, p)) : e = PutMemory(m, memories[n][m])
    BY BackfillHolds
  <2>4. \A m \in LiveAmong(n, RowsOf(n, p)) : m \in Memory /\ memories[n][m] # None
    BY DEF LiveAmong, RowsOf, Has
  <2>5. NotOf(n, p) \in SUBSET waiting[n] BY DEF NotOf
  <2>6. es \in Seq(Mutation) BY BackfillHolds
  <2>7. \A e : Known(e)' => Known(e) \/ Among(e, es) BY <2>1, <2>2, <2>5, <2>6, KnownAfter
  <2>8. ASSUME NEW e, Among(e, es)
        PROVE  /\ ~IsGone(e)
               /\ e.op = "memory" =>
                    e.body # None /\ e.key \in Memory /\ memories[n][e.key] = e.body
    <3>1. CASE \E s \in SessionsOf(n, p) : e = PutSession(s, p)
      BY <3>1 DEF IsGone, PutSession
    <3>2. ASSUME NEW m \in LiveAmong(n, RowsOf(n, p)), e = PutMemory(m, memories[n][m])
          PROVE  /\ e.op = "memory" /\ e.body # None /\ e.key \in Memory
                 /\ memories[n][e.key] = e.body
      <4>1. e.op = "memory" /\ e.key = m /\ e.body = memories[n][m] BY <3>2 DEF PutMemory
      <4>2. QED BY <2>4, <4>1
    <3>3. QED BY <2>3, <2>8, <3>1, <3>2 DEF IsGone
  <2>9. ASSUME NEW m \in Memory, NEW r, Body(m, r)' PROVE Body(m, r)
    <3>1. CASE r # None /\ \E o \in Store : memories'[o][m] = r BY <2>2, <3>1 DEF Body
    <3>2. CASE \E e : Known(e)' /\ e.op = "memory" /\ e.key = m /\ e.body = r
      BY <2>7, <2>8, <3>2 DEF Body
    <3>3. QED BY <2>9, <3>1, <3>2 DEF Body
  <2>10. QED BY <2>2, <2>7, <2>8, <2>9, GrownKept
<1>5. ASSUME NEW p \in Project, Unenroll(n, p) PROVE Grown'
  <2>1. UNCHANGED <<memories, journal, waiting, log, written>>
    BY <1>5 DEF Unenroll, queue, tables
  <2>2. \A e : Known(e)' => Known(e) BY <2>1 DEF Known, Logged, Sent
  <2>3. QED BY <1>2, <2>1, <2>2, GrownKept
<1>6. CASE Push(n)
  <2>1. \A e : Known(e)' => Known(e) BY <1>6, KnownAfterPush
  <2>2. UNCHANGED <<memories, written>> BY <1>6 DEF Push, tables, history
  <2>3. QED BY <1>2, <2>1, <2>2, GrownKept
<1>7. CASE Pull(n)
  <2> DEFINE e == log[cursor[n] + 1]
  <2>1. \A f : Known(f)' <=> Known(f) BY <1>7, KnownAfterPull
  <2>2. written' = written BY <1>7 DEF Pull, history
  <2>3. cursor[n] + 1 \in DOMAIN log BY <1>7, OutstandingAfterPull
  <2>4. Known(e) BY <2>3 DEF Known, Logged
  <2>5. /\ \A o \in Store, m \in Memory : o # n => memories'[o][m] = memories[o][m]
        /\ \A m \in Memory :
             \/ memories'[n][m] = memories[n][m]
             \/ About(e, m) /\ (e.op = "memory" => memories'[n][m] = e.body)
    BY <1>7, OutstandingAfterPull
  <2> HIDE DEF e
  <2>6. ~IsGone(e) BY <2>4 DEF Grown
  <2>7. ASSUME NEW m \in Memory, NEW r, Body(m, r)' PROVE Body(m, r)
    <3>1. CASE \E f : Known(f)' /\ f.op = "memory" /\ f.key = m /\ f.body = r
      BY <2>1, <3>1 DEF Body
    <3>2. ASSUME NEW o \in Store, r # None, memories'[o][m] = r PROVE Body(m, r)
      <4>1. CASE memories'[o][m] = memories[o][m] BY <3>2, <4>1 DEF Body
      <4>2. CASE About(e, m) /\ (e.op = "memory" => memories'[n][m] = e.body) /\ o = n
        <5>1. e.op = "memory" /\ e.key = m BY <2>6, <4>2 DEF About, IsGone
        <5>2. QED BY <2>4, <3>2, <4>2, <5>1 DEF Body
      <4>3. QED BY <2>5, <4>1, <4>2
    <3>3. QED BY <2>7, <3>1, <3>2 DEF Body
  <2>8. QED BY <2>1, <2>2, <2>7, GrownKept
<1>8. QED
  BY <1>1, <1>3, <1>4, <1>5, <1>6, <1>7, GrowsIs, WritesAreGrown

LEMMA RowsSeenStep ==
    ASSUME TypeOK, OnlyGrows, Grown, RowsSeen, Next
    PROVE  RowsSeen'
<1>1. PICK n \in Store : Operations(n) \/ Push(n) \/ Pull(n) BY DEF Next
<1>2. ASSUME UNCHANGED <<log, cursor>>,
             \A o \in Store, m \in Memory : Has(o, m) => Has(o, m)'
      PROVE  RowsSeen'
  BY <1>2 DEF RowsSeen, About
<1>3. ASSUME UNCHANGED <<log, cursor, memories>> PROVE RowsSeen'
  BY <1>3 DEF RowsSeen, About, Has
<1>4. ASSUME NEW m \in Memory, NEW r \in Row, Writes(n, m, r) PROVE RowsSeen'
  <2>1. memories' = [memories EXCEPT ![n][m] = r] /\ UNCHANGED <<log, cursor>>
    BY <1>4 DEF Writes
  <2>2. r # None BY NoneAssumption
  <2>3. \A o \in Store, l \in Memory : memories'[o][l] \in {memories[o][l], r}
    BY <2>1 DEF TypeOK
  <2>4. QED BY <1>2, <2>1, <2>2, <2>3 DEF Has
<1>5. /\ \A s \in Session : CreateSession(n, s) => UNCHANGED <<log, cursor, memories>>
      /\ \A p \in Project : Enroll(n, p) \/ Unenroll(n, p) => UNCHANGED <<log, cursor, memories>>
  BY DEF CreateSession, Enroll, Unenroll, tables
<1>6. CASE Push(n)
  <2>1. /\ \A i \in DOMAIN log : i \in DOMAIN log' /\ log'[i] = log[i]
        /\ DOMAIN log' = DOMAIN log \cup {Len(log) + 1}
        /\ UNCHANGED <<memories, cursor>>
    BY <1>6, Pushed DEF tables
  <2>2. \A o \in Store : ~ (Len(log) + 1 <= cursor[o]) BY DEF TypeOK
  <2>3. \A o \in Store : \A i \in DOMAIN log' :
          i <= cursor'[o] => i \in DOMAIN log /\ i <= cursor[o] /\ log'[i] = log[i]
    BY <2>1, <2>2
  <2> SUFFICES ASSUME NEW o \in Store, NEW m \in Memory, NEW i \in DOMAIN log',
                      i <= cursor'[o], About(log'[i], m)
               PROVE  memories'[o][m] # None
    BY DEF RowsSeen, Has, About
  <2>4. i \in DOMAIN log /\ i <= cursor[o] /\ About(log[i], m) BY <2>3
  <2>5. QED BY <2>1, <2>4 DEF RowsSeen, Has
<1>7. CASE Pull(n)
  <2> DEFINE e == log[cursor[n] + 1]
  <2>1. cursor' = [cursor EXCEPT ![n] = @ + 1] BY <1>7 DEF Pull, Advance
  <2>2. /\ \A o \in Store, m \in Memory : o # n => memories'[o][m] = memories[o][m]
        /\ \A m \in Memory :
             \/ ~About(e, m) /\ memories'[n][m] = memories[n][m]
             \/ About(e, m) /\ (e.op = "memory" => memories'[n][m] = e.body)
        /\ cursor[n] + 1 \in DOMAIN log /\ log' = log
    BY <1>7, OutstandingAfterPull
  <2>3. e \in Mutation BY <2>2 DEF TypeOK
  <2>4. Known(e) BY <2>2 DEF Known, Logged
  <2>5. cursor'[n] = cursor[n] + 1 /\ \A o \in Store : o # n => cursor'[o] = cursor[o]
    BY <2>1 DEF TypeOK
  <2>6. \A i \in DOMAIN log : i <= cursor[n] + 1 => i <= cursor[n] \/ i = cursor[n] + 1
    BY DEF TypeOK
  <2>7. \A m \in Memory : About(e, m) => memories'[n][m] # None
    <3>1. \A m \in Memory : About(e, m) => e.op = "memory" BY <2>4 DEF Grown, About, IsGone
    <3>2. e.op = "memory" => e.body # None BY <2>3, MutationKinds, NoneAssumption
    <3>3. QED BY <2>2, <3>1, <3>2
  <2>8. \A o \in Store, m \in Memory : memories[o][m] # None => memories'[o][m] # None
    BY <2>2, <2>7
  <2>a. log' = log BY <2>2
  <2> SUFFICES ASSUME NEW o \in Store, NEW m \in Memory, NEW i \in DOMAIN log,
                      i <= cursor'[o], About(log[i], m)
               PROVE  memories'[o][m] # None
    BY <2>a DEF RowsSeen, Has, About
  <2>9. CASE i <= cursor[o] BY <2>8, <2>9 DEF RowsSeen, Has
  <2>10. CASE o = n /\ i = cursor[n] + 1 BY <2>7, <2>10
  <2>11. QED BY <2>5, <2>6, <2>9, <2>10
<1>8. QED BY <1>1, <1>3, <1>4, <1>5, <1>6, <1>7, GrowsIs

LEMMA EnrollUpToDate ==
    ASSUME TypeOK, FormedInv, Grown, GrowsUpToDate, NEW n \in Store, NEW p \in Project,
           Enroll(n, p)
    PROVE  GrowsUpToDate'
<1>1. PICK es \in Backfill(n, p) : Requeue(n, NotOf(n, p), es) BY DEF Enroll
<1>2. /\ UNCHANGED <<memories, log, cursor>>
      /\ enrolled' = [enrolled EXCEPT ![n] = @ \cup {p}]
  BY DEF Enroll, tables
<1>3. NotOf(n, p) \in SUBSET waiting[n] BY DEF NotOf
<1>4. /\ es \in Seq(Mutation)
      /\ \A m \in LiveAmong(n, RowsOf(n, p)) : Among(PutMemory(m, memories[n][m]), es)
  BY BackfillHolds
<1>5. /\ \A e : Among(e, es) => Sent(n, e)'
      /\ \A e : (\E k \in NotOf(n, p) : journal[n][k] = e) => Sent(n, e)'
      /\ \A o \in Store : \A e : o # n => (Sent(o, e)' <=> Sent(o, e))
  BY <1>1, <1>3, <1>4, SentAfter
<1>6. \A e : Sent(n, e) /\ e.project # p => Sent(n, e)' BY <1>5 DEF Sent, NotOf
<1>7. \A o \in Store : enrolled'[o] = IF o = n THEN enrolled[o] \cup {p} ELSE enrolled[o]
  BY <1>2 DEF TypeOK
<1> SUFFICES ASSUME NEW o \in Store, NEW m \in Memory, Live(o, m),
                    memories[o][m].project \in enrolled'[o]
             PROVE  UpToDate(o, m)'
  BY <1>2 DEF GrowsUpToDate, Live, Has
<1>8. CASE o # n
  <2>1. Outstanding(o, m) => Outstanding(o, m)' BY <1>2, <1>5, <1>8 DEF Outstanding, About
  <2>2. UpToDate(o, m) BY <1>7, <1>8 DEF GrowsUpToDate
  <2>3. QED BY <1>2, <2>1, <2>2, StaysUpToDate
<1>9. CASE o = n /\ memories[n][m].project = p
  <2>1. m \in LiveAmong(n, RowsOf(n, p)) BY <1>9 DEF LiveAmong, RowsOf, Live
  <2>2. About(PutMemory(m, memories[n][m]), m) BY DEF About, PutMemory
  <2>3. \A e : e = PutMemory(m, memories[n][m]) => Sent(n, e)' /\ About(e, m)
    BY <1>4, <1>5, <2>1, <2>2
  <2>4. Outstanding(n, m)' BY <2>3 DEF Outstanding, About
  <2>5. QED BY <1>9, <2>4 DEF UpToDate
<1>10. CASE o = n /\ memories[n][m].project # p
  <2>1. UpToDate(n, m) BY <1>7, <1>10 DEF GrowsUpToDate
  <2>2. Body(m, memories[n][m]) BY <1>10 DEF Body, Live, Has
  <2>3. ASSUME NEW e, Sent(n, e), About(e, m) PROVE Sent(n, e)'
    <3>1. Known(e) BY <2>3 DEF Known
    <3>2. e.op = "memory" /\ e.key = m BY <2>3, <3>1 DEF Grown, About, IsGone
    <3>3. Body(m, e.body) BY <3>1, <3>2 DEF Body
    <3>4. e.body.project # p BY <1>10, <2>2, <3>3 DEF Grown
    <3>5. e.project # p BY <3>1, <3>2, <3>4 DEF FormedInv, Formed
    <3>6. QED BY <1>6, <2>3, <3>5
  <2>4. Outstanding(n, m) => Outstanding(n, m)' BY <1>2, <2>3 DEF Outstanding, About
  <2>5. QED BY <1>2, <1>10, <2>1, <2>4, StaysUpToDate
<1>11. QED BY <1>8, <1>9, <1>10

LEMMA GrowsUpToDateStep ==
    ASSUME TypeOK, FormedInv, SharedInv, OnlyGrows, Grown, GrowsUpToDate, Next
    PROVE  GrowsUpToDate'
<1>1. PICK n \in Store : Operations(n) \/ Push(n) \/ Pull(n) BY DEF Next
<1>2. ASSUME NEW s \in Session, CreateSession(n, s) PROVE GrowsUpToDate'
  <2> DEFINE put == PutSession(s, HomeOf[s])
  <2>1. Queue(n, HomeOf[s], <<put>>) /\ UNCHANGED <<memories, enrolled, log, cursor>>
    BY <1>2 DEF CreateSession
  <2>2. put \in Mutation BY HomeAssumption, MutationsAreTyped
  <2> HIDE DEF put
  <2>3. <<put>> \in Seq(Mutation) BY <2>2
  <2>4. \A o \in Store : \A m : Outstanding(o, m) => Outstanding(o, m)'
    BY <2>1, <2>3, OutstandingAfterQueue
  <2>5. \A o \in Store, m \in Memory : UpToDate(o, m) => UpToDate(o, m)'
    BY <2>1, <2>4, StaysUpToDate
  <2>6. QED BY <2>1, <2>5 DEF GrowsUpToDate, Live, Has
<1>3. ASSUME NEW m \in Memory, NEW r \in Row, Writes(n, m, r) PROVE GrowsUpToDate'
  <2> DEFINE put == PutMemory(m, r)
  <2>1. Queue(n, r.project, <<put>>) BY <1>3, GrowsIsPlain, WritesSendUpserts
  <2>2. /\ memories' = [memories EXCEPT ![n][m] = r]
        /\ UNCHANGED <<enrolled, log, cursor>>
    BY <1>3 DEF Writes
  <2>3. put \in Mutation /\ About(put, m) BY MutationsAreTyped DEF About, PutMemory
  <2> HIDE DEF put
  <2>4. <<put>> \in Seq(Mutation) /\ Among(put, <<put>>) BY <2>3, OneAmong
  <2>5. \A o \in Store : \A l : Outstanding(o, l) => Outstanding(o, l)'
    BY <2>1, <2>2, <2>4, OutstandingAfterQueue
  <2>6. r.project \in enrolled[n] => Outstanding(n, m)'
    BY <2>1, <2>2, <2>3, <2>4, OutstandingAfterQueue
  <2> SUFFICES ASSUME NEW o \in Store, NEW l \in Memory, Live(o, l)',
                      memories'[o][l].project \in enrolled[o]
               PROVE  UpToDate(o, l)'
    BY <2>2 DEF GrowsUpToDate
  <2>7. CASE o = n /\ l = m
    <3>1. memories'[o][l] = r BY <2>2, <2>7 DEF TypeOK
    <3>2. QED BY <2>6, <2>7, <3>1 DEF UpToDate
  <2>8. CASE ~ (o = n /\ l = m)
    <3>1. memories'[o][l] = memories[o][l] BY <2>2, <2>8 DEF TypeOK
    <3>2. UpToDate(o, l) BY <3>1 DEF GrowsUpToDate, Live, Has
    <3>3. QED BY <2>2, <2>5, <3>1, <3>2, StaysUpToDate
  <2>9. QED BY <2>7, <2>8
<1>4. ASSUME NEW p \in Project, Unenroll(n, p) PROVE GrowsUpToDate'
  <2>1. /\ UNCHANGED <<memories, journal, waiting, log, cursor>>
        /\ \A o \in Store : enrolled'[o] \subseteq enrolled[o]
    BY <1>4 DEF TypeOK, Unenroll, queue, tables
  <2>2. \A o \in Store : \A m : Outstanding(o, m) => Outstanding(o, m)'
    BY <2>1 DEF Outstanding, Sent, About
  <2>3. \A o \in Store, m \in Memory : UpToDate(o, m) => UpToDate(o, m)'
    BY <2>1, <2>2, StaysUpToDate
  <2>4. QED BY <2>1, <2>3 DEF GrowsUpToDate, Live, Has
<1>5. CASE Push(n)
  <2>1. UNCHANGED <<memories, enrolled>> BY <1>5 DEF Push, tables
  <2>2. \A o \in Store, m \in Memory : UpToDate(o, m) => UpToDate(o, m)'
    BY <1>5, UpToDateAfterPush
  <2>3. QED BY <2>1, <2>2 DEF GrowsUpToDate, Live, Has
<1>6. CASE Pull(n)
  <2>1. enrolled' = enrolled BY <1>6 DEF Pull
  <2>2. \A o \in Store, m \in Memory :
          /\ UpToDate(o, m) => UpToDate(o, m)'
          /\ UpToDate(o, m)' \/ memories'[o][m] = memories[o][m]
    BY <1>6, UpToDateAfterPull
  <2>3. QED BY <2>1, <2>2 DEF GrowsUpToDate, Live, Has
<1>7. QED
  BY <1>1, <1>2, <1>3, <1>4, <1>5, <1>6, EnrollUpToDate, GrowsIs

LEMMA GrownPeersAgree ==
    ASSUME TypeOK, LastsExist, AllTold, Grown, RowsSeen, GrowsUpToDate, Quiet,
           NEW n \in Store, NEW o \in Store, NEW m \in Memory, Live(n, m),
           memories[n][m].project \in enrolled[n] \cap enrolled[o]
    PROVE  memories[o][m] = memories[n][m]
<1> DEFINE r == memories[n][m]
           put == PutMemory(m, r)
<1>1. waiting[n] = {} /\ ~Behind(o) BY DEF Quiet
<1>2. Spoken(n, put) BY DEF AllTold, MemoryTold
<1>3. PICK i \in DOMAIN log : log[i] = put BY <1>1, <1>2 DEF Spoken, Sent, Logged
<1>4. About(log[i], m) BY <1>3 DEF About, PutMemory
<1>5. i <= cursor[o] BY <1>1 DEF TypeOK, Behind
<1>6. Has(o, m) BY <1>4, <1>5 DEF RowsSeen
<1>7. Body(m, memories[n][m]) /\ Body(m, memories[o][m]) BY <1>6 DEF Body, Live, Has
<1>8. memories[o][m].live /\ memories[o][m].project = r.project BY <1>7 DEF Grown
<1>9. UpToDate(n, m) /\ UpToDate(o, m) BY <1>6, <1>8 DEF GrowsUpToDate, Live
<1>10. Settled(n, m) /\ Settled(o, m) BY <1>9, QuietIsSettled
<1>11. PICK l \in DOMAIN log : LastAbout(m, l) BY <1>4 DEF LastsExist
<1>12. Known(log[l]) BY DEF Known, Logged
<1>13. log[l].op = "memory" BY <1>11, <1>12 DEF Grown, LastAbout, About, IsGone
<1>14. QED BY <1>10, <1>11, <1>13 DEF Settled

(***************************************************************************)
(* Quiet stores agree on every project that both replicate: any number of  *)
(* stores that share everything from the start, whatever they create,      *)
(* edit, move, delete and prune, and stores that come late, leave and come *)
(* again, while they create and edit (apply_observation_upsert_tx,         *)
(* backfill_project_tx).                                                   *)
(***************************************************************************)
THEOREM QuietPeersAgree == Spec => []PeersAgree
<1> DEFINE Grow == AllTold /\ Grown /\ RowsSeen /\ GrowsUpToDate
           Inv == /\ FormedInv /\ SharedInv /\ LastsExist
                  /\ AllShared => AllUpToDate
                  /\ OnlyGrows => Grow
<1>1. Init => Inv
  <2> SUFFICES ASSUME Init PROVE Inv OBVIOUS
  <2>1. \A n \in Store : waiting[n] = {} BY DEF Init
  <2>2. log = <<>> BY DEF Init
  <2>3. \A e : ~Known(e) BY <2>1, <2>2 DEF Known, Logged, Sent
  <2>4. SharedInv BY DEF Init, SharedInv, AllShared
  <2>5. \A n \in Store : enrolled[n] \subseteq Project BY PlansAssumption DEF Init, Plan
  <2>6. AllTold BY <2>5, NoneAssumption DEF Init, AllTold, SessionTold, MemoryTold, Live, Has
  <2>7. \A n \in Store, m \in Memory : memories[n][m] = None BY DEF Init
  <2>8. LastsExist /\ RowsSeen BY <2>2 DEF LastsExist, RowsSeen
  <2>9. AllUpToDate /\ GrowsUpToDate
    BY <2>2, <2>7 DEF AllUpToDate, GrowsUpToDate, UpToDate, Settled, Live, Has
  <2>10. Grown BY <2>3, <2>7 DEF Grown, Body
  <2>11. QED BY <2>3, <2>4, <2>6, <2>8, <2>9, <2>10 DEF FormedInv
<1>2. TypeOK /\ Inv /\ [Next]_vars => Inv'
  <2> SUFFICES ASSUME TypeOK, Inv, [Next]_vars PROVE Inv' OBVIOUS
  <2>1. CASE UNCHANGED vars
    <3>1. UNCHANGED <<plan, sessions, memories, enrolled, journal, waiting, log, cursor, written>>
      BY <2>1 DEF vars, tables, queue, history
    <3>2. /\ \A e : Known(e)' <=> Known(e)
          /\ \A n \in Store : \A e : Sent(n, e)' <=> Sent(n, e)
          /\ \A n \in Store : \A e : Spoken(n, e)' <=> Spoken(n, e)
      BY <3>1 DEF Known, Logged, Sent, Spoken
    <3>3. FormedInv' /\ SharedInv'
      BY <3>1, <3>2 DEF FormedInv, Formed, SharedInv, AllShared
    <3>5. LastsExist' BY <3>1, NothingNews
    <3>6. \A n \in Store, m \in Memory : UpToDate(n, m)' <=> UpToDate(n, m)
      BY <3>1, NothingNews
    <3>7. /\ AllShared' <=> AllShared
          /\ OnlyGrows' <=> OnlyGrows
      BY <3>1 DEF AllShared, OnlyGrows
    <3>8. AllUpToDate => AllUpToDate' BY <3>6 DEF AllUpToDate
    <3>9. /\ AllTold => AllTold'
          /\ RowsSeen => RowsSeen'
          /\ GrowsUpToDate => GrowsUpToDate'
      <4>1. \A n, m : (Has(n, m)' <=> Has(n, m)) /\ (Live(n, m)' <=> Live(n, m))
        BY <3>1 DEF Live, Has
      <4>2. AllTold => AllTold'
        BY <3>1, <3>2, <4>1 DEF AllTold, SessionTold, MemoryTold, PutSession, PutMemory
      <4>3. RowsSeen => RowsSeen' BY <3>1, <4>1 DEF RowsSeen, About
      <4>4. GrowsUpToDate => GrowsUpToDate' BY <3>1, <3>6, <4>1 DEF GrowsUpToDate
      <4>5. QED BY <4>2, <4>3, <4>4
    <3>10. Grown => Grown'
      <4>1. \A m, r : Body(m, r)' => Body(m, r) BY <3>1, <3>2 DEF Body
      <4>2. QED BY <3>1, <3>2, <4>1, GrownKept
    <3>11. QED BY <3>3, <3>5, <3>7, <3>8, <3>9, <3>10
  <2>2. CASE Next
    <3>1. FormedInv' /\ SharedInv' /\ LastsExist' BY <2>2, FormedStep, SharedStep, LastsExistStep
    <3>2. (AllShared' <=> AllShared) /\ (OnlyGrows' <=> OnlyGrows)
      BY <2>2 DEF Next, AllShared, OnlyGrows
    <3>3. AllShared => AllUpToDate' BY <2>2, SharedUpToDateStep
    <3>4. OnlyGrows => AllTold' BY <2>2, GrowsIsPlain, ToldStep
    <3>5. OnlyGrows => Grown' /\ RowsSeen' /\ GrowsUpToDate'
      BY <2>2, GrownStep, RowsSeenStep, GrowsUpToDateStep
    <3>6. QED BY <3>1, <3>2, <3>3, <3>4, <3>5
  <2>3. QED BY <2>1, <2>2
<1>3. TypeOK /\ Inv => PeersAgree
  <2> SUFFICES ASSUME TypeOK, Inv, AllShared \/ OnlyGrows, Quiet, NEW n \in Store, NEW o \in Store
               PROVE  LiveIn(n, enrolled[n] \cap enrolled[o])
                        \subseteq LiveIn(o, enrolled[n] \cap enrolled[o])
    <3>1. \A n, o \in Store : enrolled[n] \cap enrolled[o] = enrolled[o] \cap enrolled[n] OBVIOUS
    <3>2. QED BY <3>1 DEF PeersAgree
  <2> SUFFICES ASSUME NEW t \in LiveIn(n, enrolled[n] \cap enrolled[o])
               PROVE  t \in LiveIn(o, enrolled[n] \cap enrolled[o])
    OBVIOUS
  <2>1. PICK m \in Memory : /\ t = <<m, memories[n][m]>> /\ Live(n, m)
                            /\ memories[n][m].project \in enrolled[n] \cap enrolled[o]
    BY DEF LiveIn, Live, Has
  <2>2. memories[o][m] = memories[n][m]
    <3>1. CASE AllShared BY <2>1, <3>1, SharedPeersAgree
    <3>2. CASE OnlyGrows BY <2>1, <3>2, GrownPeersAgree
    <3>3. QED BY <3>1, <3>2
  <2>3. QED BY <2>1, <2>2 DEF LiveIn, Live, Has
<1> HIDE DEF Inv
<1>4. QED BY <1>1, <1>2, <1>3, TypeCorrect, PTL DEF Spec

-----------------------------------------------------------------------------
(***************************************************************************)
(* NotSuperseded.  Where everything is shared, each edit is the newest of  *)
(* one entry, which comes before every other entry whose text knows of it: *)
(* an edit is queued behind what its store knows.  So what is logged last  *)
(* is no part of what was logged before.                                   *)
(***************************************************************************)

Newest(d, e) == e.op = "memory" /\ d \in e.body.text /\ \A c \in e.body.text : c <= d

KnownTexts ==
    \A e : Known(e) /\ e.op = "memory" =>
             e.body.text \subseteq 1..writes /\ \E d : Newest(d, e)

LogTexts ==
    \A i \in DOMAIN log : \A d : log[i].op = "memory" /\ d \in log[i].body.text =>
        \E j \in DOMAIN log : j <= i /\ Newest(d, log[j])

WaitTexts ==
    \A n \in Store : \A k \in waiting[n] : \A d :
        journal[n][k].op = "memory" /\ d \in journal[n][k].body.text =>
            \/ \E j \in DOMAIN log : Newest(d, log[j])
            \/ \E j \in waiting[n] : j <= k /\ Newest(d, journal[n][j])

RowTexts ==
    \A n \in Store, m \in Memory : \A d :
        Live(n, m) /\ d \in memories[n][m].text =>
            /\ d \in 1..writes
            /\ \/ \E j \in DOMAIN log : Newest(d, log[j])
               \/ \E j \in waiting[n] : Newest(d, journal[n][j])

LoggedOnce ==
    \A i, j \in DOMAIN log : \A d : Newest(d, log[i]) /\ Newest(d, log[j]) => i = j

LoggedOrWaiting ==
    \A n \in Store : \A k \in waiting[n] : \A i \in DOMAIN log : \A d :
        ~ (Newest(d, log[i]) /\ Newest(d, journal[n][k]))

WaitingOnce ==
    \A n, o \in Store : \A k \in waiting[n] : \A l \in waiting[o] : \A d :
        Newest(d, journal[n][k]) /\ Newest(d, journal[o][l]) => n = o /\ k = l

EachOnce == LoggedOnce /\ LoggedOrWaiting /\ WaitingOnce

WrittenAreKnown ==
    \A t \in written : \E e : Known(e) /\ e.op = "memory" /\ e.key = t[1] /\ e.body.text = t[2]

TextsInv == KnownTexts /\ LogTexts /\ WaitTexts /\ RowTexts /\ EachOnce /\ WrittenAreKnown

LEMMA OperationsCount ==
    ASSUME TypeOK, NEW n \in Store, Operations(n)
    PROVE  writes' = writes + 1 /\ writes \in Nat
<1>1. writes \in Nat BY PlansAssumption DEF TypeOK
<1>2. \A name : Operation(name) => writes' = writes + 1 BY DEF Operation
<1>3. QED
  BY <1>1, <1>2, Zenon
     DEF Operations, CreateSession, AddObservation, Consolidate, DeleteSession,
         DeleteSessionAndContents, UpdateObservation, DeleteObservation, DeleteProject,
         PruneProject, Enroll, Unenroll, Merge

\* Queueing what is not an upsert of a memory.
LEMMA TextsAfterOthers ==
    ASSUME TypeOK, TextsInv, writes' = writes + 1, writes \in Nat, UNCHANGED <<log, written>>,
           \A o \in Store : \A k \in waiting[o] :
             k \in waiting'[o] /\ journal'[o][k] = journal[o][k],
           \A o \in Store : \A k \in waiting'[o] :
             \/ k \in waiting[o] /\ journal'[o][k] = journal[o][k]
             \/ journal'[o][k].op # "memory",
           \A o \in Store, m \in Memory : Live(o, m)' =>
             Live(o, m) /\ memories'[o][m] = memories[o][m]
    PROVE  TextsInv'
<1>1. \A d : d \in 1..writes => d \in 1..writes' OBVIOUS
<1>2. /\ \A e : Known(e)' /\ e.op = "memory" => Known(e)
      /\ \A e : Known(e) => Known(e)'
  BY DEF Known, Sent, Logged
<1>3. KnownTexts' BY <1>1, <1>2 DEF TextsInv, KnownTexts, Newest
<1>4. LogTexts' BY DEF TextsInv, LogTexts, Newest
<1>5. WaitTexts'
  <2> SUFFICES ASSUME NEW o \in Store, NEW k \in waiting'[o], NEW d,
                      journal'[o][k].op = "memory", d \in journal'[o][k].body.text
               PROVE  \/ \E j \in DOMAIN log : Newest(d, log[j])
                      \/ \E j \in waiting'[o] : j <= k /\ Newest(d, journal'[o][j])
    BY DEF WaitTexts, Newest
  <2>1. k \in waiting[o] /\ journal'[o][k] = journal[o][k] OBVIOUS
  <2>2. \/ \E j \in DOMAIN log : Newest(d, log[j])
        \/ \E j \in waiting[o] : j <= k /\ Newest(d, journal[o][j])
    BY <2>1 DEF TextsInv, WaitTexts
  <2>3. QED BY <2>2
<1>6. RowTexts'
  <2> SUFFICES ASSUME NEW o \in Store, NEW m \in Memory, NEW d, Live(o, m)',
                      d \in memories'[o][m].text
               PROVE  /\ d \in 1..writes'
                      /\ \/ \E j \in DOMAIN log : Newest(d, log[j])
                         \/ \E j \in waiting'[o] : Newest(d, journal'[o][j])
    BY DEF RowTexts, Newest
  <2>1. Live(o, m) /\ memories'[o][m] = memories[o][m] OBVIOUS
  <2>2. /\ d \in 1..writes
        /\ \/ \E j \in DOMAIN log : Newest(d, log[j])
           \/ \E j \in waiting[o] : Newest(d, journal[o][j])
    BY <2>1 DEF TextsInv, RowTexts
  <2>3. QED BY <1>1, <2>2
<1>7. EachOnce'
  <2>1. \A o \in Store : \A k \in waiting'[o] : \A d : Newest(d, journal'[o][k]) =>
          k \in waiting[o] /\ Newest(d, journal[o][k])
    BY DEF Newest
  <2>2. LoggedOnce' BY DEF TextsInv, EachOnce, LoggedOnce, Newest
  <2>3. \A o \in Store : \A k \in waiting'[o] : \A i \in DOMAIN log : \A d :
          ~ (Newest(d, log[i]) /\ Newest(d, journal'[o][k]))
    BY <2>1 DEF TextsInv, EachOnce, LoggedOrWaiting
  <2>4. \A o, p \in Store : \A k \in waiting'[o] : \A l \in waiting'[p] : \A d :
          Newest(d, journal'[o][k]) /\ Newest(d, journal'[p][l]) => o = p /\ k = l
    <3>1. WaitingOnce BY DEF TextsInv, EachOnce
    <3>2. ASSUME NEW o \in Store, NEW p \in Store, NEW k \in waiting'[o], NEW l \in waiting'[p],
                 NEW d, Newest(d, journal'[o][k]), Newest(d, journal'[p][l])
          PROVE  o = p /\ k = l
      <4>1. k \in waiting[o] /\ Newest(d, journal[o][k]) BY <2>1, <3>2
      <4>2. l \in waiting[p] /\ Newest(d, journal[p][l]) BY <2>1, <3>2
      <4>3. QED BY <3>1, <4>1, <4>2 DEF WaitingOnce
    <3>3. QED BY <3>2
  <2>5. LoggedOrWaiting' BY <2>3 DEF LoggedOrWaiting, Newest
  <2>6. WaitingOnce' BY <2>4 DEF WaitingOnce, Newest
  <2>7. QED BY <2>2, <2>5, <2>6 DEF EachOnce
<1>8. WrittenAreKnown' BY <1>2 DEF TextsInv, WrittenAreKnown
<1>9. QED BY <1>3, <1>4, <1>5, <1>6, <1>7, <1>8 DEF TextsInv

\* A write queues one entry, whose newest edit is the one just made.
LEMMA TextsAfterWrite ==
    ASSUME TypeOK, SharedInv, AllShared, TextsInv, NEW n \in Store, NEW m \in Memory,
           NEW r \in Row, Writes(n, m, r), writes \in Nat
    PROVE  TextsInv'
<1> DEFINE put == PutMemory(m, r)
           w == Len(journal[n]) + 1
<1>1. Queue(n, r.project, <<put>>) BY WritesSendUpserts DEF NoGhosts
<1>2. /\ r.live
      /\ \/ r.text = {Edit}
         \/ Live(n, m) /\ r.text = memories[n][m].text \cup {Edit}
      /\ memories' = [memories EXCEPT ![n][m] = r]
      /\ written' = written \cup {<<m, r.text>>} /\ writes' = writes + 1
      /\ log' = log
  BY DEF Writes, Edit
<1>3. put \in Mutation /\ put.op = "memory" /\ put.key = m /\ put.body = r
  BY MutationsAreTyped DEF PutMemory
<1>4. r.project \in enrolled[n]
  <2>1. enrolled[n] = Project BY DEF SharedInv
  <2>2. QED BY <2>1 DEF Row
<1> HIDE DEF put
<1>5. <<put>> \in Seq(Mutation) /\ Len(<<put>>) = 1 /\ <<put>>[1] = put /\ DOMAIN <<put>> = {1}
  BY <1>3
<1>6. Requeue(n, waiting[n], <<put>>) /\ waiting[n] \in SUBSET waiting[n]
  BY <1>1, <1>4 DEF Queue, IfEnrolled
<1>7. /\ \A k \in waiting[n] : k \in waiting'[n] /\ journal'[n][k] = journal[n][k]
      /\ w \in waiting'[n] /\ journal'[n][w] = put
      /\ \A k \in waiting'[n] :
           \/ k \in waiting[n] /\ k <= Len(journal[n]) /\ journal'[n][k] = journal[n][k]
           \/ k = w
      /\ \A o \in Store : o # n => waiting'[o] = waiting[o] /\ journal'[o] = journal[o]
  <2>1. /\ \A k \in waiting[n] : k \in waiting'[n] /\ journal'[n][k] = journal[n][k]
        /\ \A i \in DOMAIN <<put>> : /\ Len(journal[n]) + i \in waiting'[n]
                                     /\ journal'[n][Len(journal[n]) + i] = <<put>>[i]
        /\ \A k \in waiting'[n] :
             \/ k \in waiting[n] /\ k <= Len(journal[n]) /\ journal'[n][k] = journal[n][k]
             \/ \E i \in DOMAIN <<put>> : k = Len(journal[n]) + i /\ journal'[n][k] = <<put>>[i]
        /\ \A o \in Store : o # n => waiting'[o] = waiting[o] /\ journal'[o] = journal[o]
    BY <1>5, <1>6, Requeued
  <2>2. QED BY <1>5, <2>1
<1>8. w \in Nat /\ \A k \in waiting[n] : k < w BY DEF TypeOK
<1> HIDE DEF w
<1>9. \A c \in r.text : c \in 1..(writes + 1)
  BY <1>2 DEF TextsInv, RowTexts, Edit
<1>10. \A d : Newest(d, put) <=> d = writes + 1
  <2>1. writes + 1 \in r.text BY <1>2 DEF Edit
  <2>2. \A d \in r.text : d <= writes + 1 /\ d \in Nat BY <1>9
  <2>3. \A d \in r.text : writes + 1 <= d => d = writes + 1 BY <2>2
  <2>4. QED BY <1>3, <2>1, <2>2, <2>3 DEF Newest
<1>11. /\ \A e : Known(e) => Known(e)'
       /\ \A e : Known(e)' => Known(e) \/ e = put
       /\ \A e : e = put => Known(e)'
  <2>1. Queue(n, r.project, <<put>>) /\ log' = log /\ <<put>> \in Seq(Mutation)
    BY <1>1, <1>2, <1>5
  <2>2. /\ \A e : Known(e)' => Known(e) \/ Among(e, <<put>>)
        /\ \A e : Logged(e)' <=> Logged(e)
        /\ \A o \in Store : \A e : Sent(o, e) => Sent(o, e)'
        /\ \A e : Among(e, <<put>>) => Sent(n, e)'
    BY <1>4, <2>1, Queued
  <2>3. \A e : Among(e, <<put>>) <=> e = put BY OneAmong
  <2>4. QED BY <2>2, <2>3 DEF Known
<1>12. \A d : \A e : Known(e) /\ Newest(d, e) => d # writes + 1
  <2>1. \A d : d \in 1..writes => d # writes + 1 OBVIOUS
  <2>2. QED BY <2>1 DEF TextsInv, KnownTexts, Newest
<1>13. /\ \A i \in DOMAIN log : Known(log[i])
       /\ \A o \in Store : \A k \in waiting[o] : Known(journal[o][k])
  BY DEF Known, Sent, Logged
<1>14. \A d : d \in 1..writes => d \in 1..writes' BY <1>2
<1>15. KnownTexts'
  <2> SUFFICES ASSUME NEW e, Known(e)', e.op = "memory"
               PROVE  e.body.text \subseteq 1..writes' /\ \E d : Newest(d, e)
    BY DEF KnownTexts, Newest
  <2>1. CASE Known(e) BY <1>14, <2>1 DEF TextsInv, KnownTexts
  <2>2. CASE e = put BY <1>2, <1>3, <1>9, <1>10, <2>2
  <2>3. QED BY <1>11, <2>1, <2>2
<1>16. LogTexts' BY <1>2 DEF TextsInv, LogTexts, Newest
<1>17. \A d \in r.text : \/ d = writes + 1 \/ \E j \in DOMAIN log : Newest(d, log[j])
                         \/ \E j \in waiting[n] : Newest(d, journal[n][j])
  BY <1>2 DEF TextsInv, RowTexts, Edit
<1>18. WaitTexts'
  <2> SUFFICES ASSUME NEW o \in Store, NEW k \in waiting'[o], NEW d,
                      journal'[o][k].op = "memory", d \in journal'[o][k].body.text
               PROVE  \/ \E j \in DOMAIN log : Newest(d, log[j])
                      \/ \E j \in waiting'[o] : j <= k /\ Newest(d, journal'[o][j])
    BY <1>2 DEF WaitTexts, Newest
  <2>1. CASE k \in waiting[o] /\ journal'[o][k] = journal[o][k]
    <3>1. \/ \E j \in DOMAIN log : Newest(d, log[j])
          \/ \E j \in waiting[o] : j <= k /\ Newest(d, journal[o][j])
      BY <2>1 DEF TextsInv, WaitTexts
    <3>2. QED BY <1>7, <3>1
  <2>2. CASE o = n /\ k = w
    <3>1. d \in r.text BY <1>3, <1>7, <2>2
    <3>2. CASE d = writes + 1
      <4>1. w <= w BY <1>8
      <4>2. QED BY <1>7, <1>10, <2>2, <3>2, <4>1
    <3>3. CASE \E j \in waiting[n] : Newest(d, journal[n][j])
      <4>1. PICK j \in waiting[n] : Newest(d, journal[n][j]) BY <3>3
      <4>2. j <= w
        <5>1. j \in Nat /\ j < w BY <1>8 DEF TypeOK
        <5>2. QED BY <1>8, <5>1
      <4>3. QED BY <1>7, <2>2, <4>1, <4>2
    <3>4. QED BY <1>17, <3>1, <3>2, <3>3
  <2>3. QED BY <1>7, <2>1, <2>2
<1>19. RowTexts'
  <2> SUFFICES ASSUME NEW o \in Store, NEW l \in Memory, NEW d, Live(o, l)',
                      d \in memories'[o][l].text
               PROVE  /\ d \in 1..writes'
                      /\ \/ \E j \in DOMAIN log : Newest(d, log[j])
                         \/ \E j \in waiting'[o] : Newest(d, journal'[o][j])
    BY <1>2 DEF RowTexts, Newest
  <2>1. CASE o = n /\ l = m
    <3>1. d \in r.text BY <1>2, <2>1 DEF TypeOK
    <3>2. QED BY <1>2, <1>7, <1>9, <1>10, <1>17, <2>1, <3>1
  <2>2. CASE ~ (o = n /\ l = m)
    <3>1. memories'[o][l] = memories[o][l] BY <1>2, <2>2 DEF TypeOK
    <3>2. /\ d \in 1..writes
          /\ \/ \E j \in DOMAIN log : Newest(d, log[j])
             \/ \E j \in waiting[o] : Newest(d, journal[o][j])
      BY <3>1 DEF TextsInv, RowTexts, Live, Has
    <3>3. QED BY <1>7, <1>14, <3>2
  <2>3. QED BY <2>1, <2>2
<1>20. EachOnce'
  <2>1. \A o \in Store : \A k \in waiting'[o] : \A d : Newest(d, journal'[o][k]) =>
          \/ k \in waiting[o] /\ Newest(d, journal[o][k]) /\ d # writes + 1
          \/ o = n /\ k = w /\ d = writes + 1
    BY <1>7, <1>10, <1>12, <1>13
  <2>2. \A i \in DOMAIN log : \A d : Newest(d, log[i]) => d # writes + 1 BY <1>12, <1>13
  <2>3. LoggedOnce' BY <1>2 DEF TextsInv, EachOnce, LoggedOnce, Newest
  <2>4. \A o \in Store : \A k \in waiting'[o] : \A i \in DOMAIN log : \A d :
          ~ (Newest(d, log[i]) /\ Newest(d, journal'[o][k]))
    BY <2>1, <2>2 DEF TextsInv, EachOnce, LoggedOrWaiting
  <2>5. \A o, p \in Store : \A k \in waiting'[o] : \A l \in waiting'[p] : \A d :
          Newest(d, journal'[o][k]) /\ Newest(d, journal'[p][l]) => o = p /\ k = l
    <3> SUFFICES ASSUME NEW o \in Store, NEW p \in Store, NEW k \in waiting'[o],
                        NEW l \in waiting'[p], NEW d,
                        Newest(d, journal'[o][k]), Newest(d, journal'[p][l])
                 PROVE  o = p /\ k = l
      OBVIOUS
    <3>1. WaitingOnce BY DEF TextsInv, EachOnce
    <3>2. \/ k \in waiting[o] /\ Newest(d, journal[o][k]) /\ d # writes + 1
          \/ o = n /\ k = w /\ d = writes + 1
      BY <2>1, Zenon
    <3>3. \/ l \in waiting[p] /\ Newest(d, journal[p][l]) /\ d # writes + 1
          \/ p = n /\ l = w /\ d = writes + 1
      BY <2>1, Zenon
    <3>4. QED BY <3>1, <3>2, <3>3, Zenon DEF WaitingOnce
  <2>6. LoggedOrWaiting' BY <1>2, <2>4 DEF LoggedOrWaiting, Newest
  <2>7. WaitingOnce' BY <2>5 DEF WaitingOnce, Newest
  <2>8. QED BY <2>3, <2>6, <2>7 DEF EachOnce
<1>21. WrittenAreKnown'
  <2> SUFFICES ASSUME NEW t \in written'
               PROVE  \E e : Known(e)' /\ e.op = "memory" /\ e.key = t[1] /\ e.body.text = t[2]
    BY DEF WrittenAreKnown
  <2>1. CASE t \in written BY <1>11, <2>1 DEF TextsInv, WrittenAreKnown
  <2>2. CASE t = <<m, r.text>>
    <3>1. t[1] = m /\ t[2] = r.text BY <2>2
    <3>2. QED BY <1>3, <1>11, <3>1
  <2>3. QED BY <1>2, <2>1, <2>2
<1>22. QED BY <1>15, <1>16, <1>18, <1>19, <1>20, <1>21 DEF TextsInv

LEMMA TextsAfterPush ==
    ASSUME TypeOK, TextsInv, NEW n \in Store, Push(n)
    PROVE  TextsInv'
<1> DEFINE c == Len(log) + 1
<1>1. PICK k \in waiting[n] :
        /\ \A j \in waiting[n] : k <= j
        /\ log'[c] = journal[n][k]
        /\ \A i \in DOMAIN log : i \in DOMAIN log' /\ log'[i] = log[i]
        /\ DOMAIN log' = DOMAIN log \cup {c} /\ c \notin DOMAIN log
        /\ waiting'[n] = waiting[n] \ {k}
        /\ \A o \in Store : o # n => waiting'[o] = waiting[o]
        /\ UNCHANGED <<memories, journal, writes, written>>
  BY Pushed DEF tables, history
<1>2. c \in Nat /\ \A i \in DOMAIN log : i <= c BY DEF TypeOK
<1>3. \A o \in Store : waiting[o] \subseteq Nat BY DEF TypeOK
<1> HIDE DEF c
<1>4. /\ \A e : Known(e)' => Known(e)
      /\ \A e : Known(e) => Known(e)'
  BY KnownAfterPush DEF Known
<1>5. \A o \in Store : \A j \in waiting[o] : j \in waiting'[o] \/ (o = n /\ j = k) BY <1>1
<1>6. \A o \in Store : \A j \in waiting'[o] : j \in waiting[o] /\ ~ (o = n /\ j = k) BY <1>1
<1>7. \A d : (\E j \in DOMAIN log : Newest(d, log[j])) => \E j \in DOMAIN log' : Newest(d, log'[j])
  BY <1>1
<1>8. KnownTexts' BY <1>1, <1>4 DEF TextsInv, KnownTexts, Newest
<1>9. LogTexts'
  <2> SUFFICES ASSUME NEW i \in DOMAIN log', NEW d, log'[i].op = "memory",
                      d \in log'[i].body.text
               PROVE  \E j \in DOMAIN log' : j <= i /\ Newest(d, log'[j])
    BY DEF LogTexts, Newest
  <2>1. CASE i \in DOMAIN log
    <3>1. \E j \in DOMAIN log : j <= i /\ Newest(d, log[j])
      BY <1>1, <2>1 DEF TextsInv, LogTexts
    <3>2. QED BY <1>1, <3>1
  <2>2. CASE i = c
    <3>1. \/ \E j \in DOMAIN log : Newest(d, log[j])
          \/ \E j \in waiting[n] : j <= k /\ Newest(d, journal[n][j])
      BY <1>1, <2>2 DEF TextsInv, WaitTexts
    <3>2. CASE \E j \in DOMAIN log : Newest(d, log[j]) BY <1>1, <1>2, <2>2, <3>2
    <3>3. CASE \E j \in waiting[n] : j <= k /\ Newest(d, journal[n][j])
      <4>1. PICK j \in waiting[n] : j <= k /\ Newest(d, journal[n][j]) BY <3>3
      <4>2. j = k
        <5>1. k <= j /\ j \in Nat /\ k \in Nat BY <1>1, <1>3
        <5>2. QED BY <4>1, <5>1
      <4>3. c <= c BY <1>2
      <4>4. QED BY <1>1, <2>2, <4>1, <4>2, <4>3
    <3>4. QED BY <3>1, <3>2, <3>3
  <2>3. QED BY <1>1, <2>1, <2>2
<1>10. WaitTexts'
  <2> SUFFICES ASSUME NEW o \in Store, NEW l \in waiting'[o], NEW d,
                      journal[o][l].op = "memory", d \in journal[o][l].body.text
               PROVE  \/ \E j \in DOMAIN log' : Newest(d, log'[j])
                      \/ \E j \in waiting'[o] : j <= l /\ Newest(d, journal[o][j])
    BY <1>1 DEF WaitTexts, Newest
  <2>1. l \in waiting[o] BY <1>6
  <2>2. \/ \E j \in DOMAIN log : Newest(d, log[j])
        \/ \E j \in waiting[o] : j <= l /\ Newest(d, journal[o][j])
    BY <2>1 DEF TextsInv, WaitTexts
  <2>3. QED BY <1>1, <1>5, <1>7, <2>2
<1>11. RowTexts'
  <2> SUFFICES ASSUME NEW o \in Store, NEW m \in Memory, NEW d, Live(o, m),
                      d \in memories[o][m].text
               PROVE  /\ d \in 1..writes
                      /\ \/ \E j \in DOMAIN log' : Newest(d, log'[j])
                         \/ \E j \in waiting'[o] : Newest(d, journal[o][j])
    BY <1>1 DEF RowTexts, Newest, Live, Has
  <2>1. /\ d \in 1..writes
        /\ \/ \E j \in DOMAIN log : Newest(d, log[j])
           \/ \E j \in waiting[o] : Newest(d, journal[o][j])
    BY DEF TextsInv, RowTexts
  <2>2. QED BY <1>1, <1>5, <1>7, <2>1
<1>12. LoggedOnce'
  <2>1. \A i \in DOMAIN log : \A d : ~ (Newest(d, log[i]) /\ Newest(d, journal[n][k]))
    BY DEF TextsInv, EachOnce, LoggedOrWaiting
  <2>2. \A i, j \in DOMAIN log : \A d : Newest(d, log[i]) /\ Newest(d, log[j]) => i = j
    BY DEF TextsInv, EachOnce, LoggedOnce
  <2>3. ASSUME NEW i \in DOMAIN log', NEW j \in DOMAIN log', NEW d,
               Newest(d, log'[i]), Newest(d, log'[j])
        PROVE  i = j
    <3>1. CASE i \in DOMAIN log /\ j \in DOMAIN log BY <1>1, <2>2, <2>3, <3>1
    <3>2. CASE i = c /\ j \in DOMAIN log BY <1>1, <2>1, <2>3, <3>2
    <3>3. CASE i \in DOMAIN log /\ j = c BY <1>1, <2>1, <2>3, <3>3
    <3>4. QED BY <1>1, <3>1, <3>2, <3>3
  <2>4. QED BY <2>3 DEF LoggedOnce, Newest
<1>13. LoggedOrWaiting'
  <2>1. ASSUME NEW o \in Store, NEW l \in waiting'[o], NEW i \in DOMAIN log', NEW d,
               Newest(d, log'[i]), Newest(d, journal[o][l])
        PROVE  FALSE
    <3>1. l \in waiting[o] /\ ~ (o = n /\ l = k) BY <1>6
    <3>2. CASE i \in DOMAIN log
      <4>1. Newest(d, log[i]) BY <1>1, <2>1, <3>2
      <4>2. QED BY <2>1, <3>1, <3>2, <4>1 DEF TextsInv, EachOnce, LoggedOrWaiting
    <3>3. CASE i = c
      <4>1. Newest(d, journal[n][k]) BY <1>1, <2>1, <3>3
      <4>2. QED BY <2>1, <3>1, <4>1 DEF TextsInv, EachOnce, WaitingOnce
    <3>4. QED BY <1>1, <3>2, <3>3
  <2>2. QED BY <1>1, <2>1 DEF LoggedOrWaiting, Newest
<1>14. WaitingOnce'
  <2>1. WaitingOnce BY DEF TextsInv, EachOnce
  <2>2. \A o, p \in Store : \A i \in waiting'[o] : \A j \in waiting'[p] : \A d :
          Newest(d, journal[o][i]) /\ Newest(d, journal[p][j]) => o = p /\ i = j
    BY <1>6, <2>1, Zenon DEF WaitingOnce
  <2>3. QED BY <1>1, <2>2 DEF WaitingOnce, Newest
<1>15. WrittenAreKnown' BY <1>1, <1>4 DEF TextsInv, WrittenAreKnown
<1>16. QED
  BY <1>8, <1>9, <1>10, <1>11, <1>12, <1>13, <1>14, <1>15 DEF TextsInv, EachOnce

LEMMA TextsAfterPull ==
    ASSUME TypeOK, TextsInv, NEW n \in Store, Pull(n)
    PROVE  TextsInv'
<1> DEFINE c == cursor[n] + 1
           e == log[c]
<1>1. UNCHANGED <<journal, waiting, log, writes, written>> BY DEF Pull, queue, history
<1>2. /\ \A o \in Store, m \in Memory : o # n => memories'[o][m] = memories[o][m]
      /\ \A m \in Memory :
           \/ memories'[n][m] = memories[n][m]
           \/ e.op = "memory" /\ memories'[n][m] = e.body
           \/ ~Live(n, m)'
      /\ c \in DOMAIN log
  BY OutstandingAfterPull
<1>3. Known(e) BY <1>2 DEF Known, Logged
<1> HIDE DEF c
<1>4. \A f : Known(f)' <=> Known(f) BY KnownAfterPull
<1>5. /\ KnownTexts' /\ LogTexts' /\ WaitTexts' /\ WrittenAreKnown'
  BY <1>1, <1>4 DEF TextsInv, KnownTexts, LogTexts, WaitTexts, WrittenAreKnown, Newest
<1>6. EachOnce'
  BY <1>1 DEF TextsInv, EachOnce, LoggedOnce, LoggedOrWaiting, WaitingOnce, Newest
<1>7. RowTexts'
  <2> SUFFICES ASSUME NEW o \in Store, NEW m \in Memory, NEW d, Live(o, m)',
                      d \in memories'[o][m].text
               PROVE  /\ d \in 1..writes
                      /\ \/ \E j \in DOMAIN log : Newest(d, log[j])
                         \/ \E j \in waiting[o] : Newest(d, journal[o][j])
    BY <1>1 DEF RowTexts, Newest
  <2>1. CASE memories'[o][m] = memories[o][m]
    BY <2>1 DEF TextsInv, RowTexts, Live, Has
  <2>2. CASE e.op = "memory" /\ memories'[o][m] = e.body
    <3>1. d \in 1..writes BY <1>3, <2>2 DEF TextsInv, KnownTexts
    <3>2. \E j \in DOMAIN log : Newest(d, log[j]) BY <1>2, <2>2 DEF TextsInv, LogTexts
    <3>3. QED BY <3>1, <3>2
  <2>3. QED BY <1>2, <2>1, <2>2
<1>8. QED BY <1>5, <1>6, <1>7 DEF TextsInv

LEMMA TextsStep ==
    ASSUME TypeOK, SharedInv, AllShared, TextsInv, Next
    PROVE  TextsInv'
<1>1. PICK n \in Store : Operations(n) \/ Push(n) \/ Pull(n) BY DEF Next
<1>2. ASSUME Operations(n) PROVE TextsInv'
  <2>1. writes' = writes + 1 /\ writes \in Nat BY <1>2, OperationsCount
  <2>2. ASSUME NEW p, NEW es \in Seq(Mutation), Queue(n, p, es), UNCHANGED <<log, written>>,
               \A e : Among(e, es) => e.op # "memory",
               \A o \in Store, m \in Memory : Live(o, m)' =>
                 Live(o, m) /\ memories'[o][m] = memories[o][m]
        PROVE  TextsInv'
    <3> DEFINE fs == IfEnrolled(p, enrolled[n], es)
    <3>1. Requeue(n, waiting[n], fs) /\ waiting[n] \in SUBSET waiting[n] BY <2>2 DEF Queue
    <3>2. fs \in Seq(Mutation) BY DEF IfEnrolled
    <3>3. \A i \in DOMAIN fs : fs[i].op # "memory" BY <2>2 DEF IfEnrolled, Among
    <3> HIDE DEF fs
    <3>4. /\ \A k \in waiting[n] : k \in waiting'[n] /\ journal'[n][k] = journal[n][k]
          /\ \A k \in waiting'[n] :
               \/ k \in waiting[n] /\ k <= Len(journal[n]) /\ journal'[n][k] = journal[n][k]
               \/ \E i \in DOMAIN fs : k = Len(journal[n]) + i /\ journal'[n][k] = fs[i]
          /\ \A o \in Store : o # n => waiting'[o] = waiting[o] /\ journal'[o] = journal[o]
      <4>1. /\ \A k \in waiting[n] : k \in waiting'[n] /\ journal'[n][k] = journal[n][k]
            /\ \A i \in DOMAIN fs : /\ Len(journal[n]) + i \in waiting'[n]
                                    /\ journal'[n][Len(journal[n]) + i] = fs[i]
            /\ \A k \in waiting'[n] :
                 \/ k \in waiting[n] /\ k <= Len(journal[n]) /\ journal'[n][k] = journal[n][k]
                 \/ \E i \in DOMAIN fs : k = Len(journal[n]) + i /\ journal'[n][k] = fs[i]
            /\ \A o \in Store : o # n => waiting'[o] = waiting[o] /\ journal'[o] = journal[o]
        BY <3>1, <3>2, Requeued
      <4>2. QED BY <4>1
    <3>5. \A o \in Store : \A k \in waiting[o] : k \in waiting'[o] /\ journal'[o][k] = journal[o][k]
      BY <3>4
    <3>6. \A o \in Store : \A k \in waiting'[o] :
            \/ k \in waiting[o] /\ journal'[o][k] = journal[o][k]
            \/ journal'[o][k].op # "memory"
      BY <3>3, <3>4
    <3>7. QED BY <2>1, <2>2, <3>5, <3>6, TextsAfterOthers
  <2>3. ASSUME NEW s \in Session, CreateSession(n, s) PROVE TextsInv'
    <3> DEFINE put == PutSession(s, HomeOf[s])
    <3>1. Queue(n, HomeOf[s], <<put>>) /\ UNCHANGED <<memories, log, written>>
      BY <2>3 DEF CreateSession
    <3>2. put \in Mutation /\ put.op # "memory"
      BY HomeAssumption, MutationsAreTyped DEF PutSession
    <3> HIDE DEF put
    <3>3. <<put>> \in Seq(Mutation) BY <3>2
    <3>4. \A e : Among(e, <<put>>) => e.op # "memory" BY <3>2, OneAmong
    <3>5. \A o \in Store, m \in Memory : Live(o, m)' =>
            Live(o, m) /\ memories'[o][m] = memories[o][m]
      BY <3>1 DEF Live, Has
    <3>6. QED BY <2>2, <3>1, <3>3, <3>4, <3>5
  <2>4. CASE SomeDelete(n)
    <3>1. PICK p \in Project, M \in SUBSET Memory, S \in SUBSET Session, hard \in BOOLEAN,
               es \in Seq(Mutation) : Deletes(n, p, M, S, hard, es)
      BY <2>4 DEF SomeDelete
    <3>2. /\ \A e : Among(e, es) => \/ \E m \in M : e = MemoryGone(m, hard, p)
                                    \/ \E s \in S : e = SessionGone(s, p)
          /\ Queue(n, p, es) /\ UNCHANGED <<log, written>>
          /\ Gone(n, M, hard) /\ \A m \in M : Has(n, m)
      BY <3>1 DEF Deletes
    <3>3. ASSUME NEW e, Among(e, es) PROVE e.op # "memory"
      <4>1. \A m \in M : MemoryGone(m, hard, p).op # "memory" BY DEF MemoryGone
      <4>2. \A s \in S : SessionGone(s, p).op # "memory" BY DEF SessionGone
      <4>3. QED BY <3>2, <3>3, <4>1, <4>2
    <3>4. \A o \in Store, m \in Memory : Live(o, m)' =>
            Live(o, m) /\ memories'[o][m] = memories[o][m]
      BY <3>2, GoneAreNotLive
    <3>5. QED BY <2>2, <3>2, <3>3, <3>4
  <2>5. /\ \A p \in Project : ~Enroll(n, p) /\ ~Unenroll(n, p)
        /\ \A p, q \in Project : ~Merge(n, p, q)
    BY DEF AllShared, Enroll, Unenroll, Merge, Operation
  <2>6. QED BY <1>2, <2>1, <2>3, <2>4, <2>5, OperationsAre, TextsAfterWrite
<1>3. QED BY <1>1, <1>2, TextsAfterPush, TextsAfterPull

LEMMA QuietTextsAreLast ==
    ASSUME TypeOK, LastsExist, AllUpToDate, TextsInv, Quiet, NEW n \in Store,
           NEW t \in written, Live(n, t[1]), memories[n][t[1]].text \subseteq t[2]
    PROVE  memories[n][t[1]].text = t[2]
<1> DEFINE m == t[1]
           x == t[2]
<1>1. m \in Memory /\ waiting[n] = {} BY DEF TypeOK, Quiet
<1>2. Settled(n, m) BY <1>1, QuietIsSettled DEF AllUpToDate
<1> HIDE DEF m, x
<1>3. PICK e : Known(e) /\ e.op = "memory" /\ e.key = m /\ e.body.text = x
  BY DEF TextsInv, WrittenAreKnown, m, x
<1>4. Logged(e) BY <1>3 DEF Known, Sent, Quiet
<1>5. PICK i \in DOMAIN log : log[i] = e BY <1>4 DEF Logged
<1>6. About(log[i], m) BY <1>3, <1>5 DEF About
<1>7. PICK l \in DOMAIN log : LastAbout(m, l) BY <1>1, <1>6 DEF LastsExist
<1>8. log[l].op = "memory" /\ memories[n][m] = log[l].body BY <1>2, <1>7 DEF Settled, m
<1>9. Known(log[l]) BY DEF Known, Logged
<1>10. PICK d : Newest(d, log[l]) BY <1>8, <1>9 DEF TextsInv, KnownTexts
<1>11. d \in x BY <1>8, <1>10 DEF Newest, m, x
<1>12. PICK j \in DOMAIN log : j <= i /\ Newest(d, log[j])
  BY <1>3, <1>5, <1>11 DEF TextsInv, LogTexts
<1>13. j = l BY <1>10, <1>12 DEF TextsInv, EachOnce, LoggedOnce
<1>14. ~ (i > l) BY <1>6, <1>7 DEF LastAbout
<1>15. i = l
  <2>1. i \in Nat /\ l \in Nat BY DEF TypeOK
  <2>2. QED BY <1>12, <1>13, <1>14, <2>1
<1>16. QED BY <1>3, <1>5, <1>8, <1>15 DEF m, x

(***************************************************************************)
(* Of two consecutive edits neither is lost: what quiet stores that share  *)
(* everything show is never a proper part of a text that was saved, by     *)
(* whichever store and in whatever order the entries were pulled           *)
(* (update_observation, apply_observation_upsert_tx).                      *)
(***************************************************************************)
THEOREM QuietTextsAreNewest == Spec => []NotSuperseded
<1> DEFINE Inv == /\ SharedInv /\ LastsExist
                  /\ AllShared => AllUpToDate /\ TextsInv
<1>1. Init => Inv
  <2> SUFFICES ASSUME Init PROVE Inv OBVIOUS
  <2>1. \A n \in Store : waiting[n] = {} BY DEF Init
  <2>2. log = <<>> /\ written = {} BY DEF Init
  <2>3. \A e : ~Known(e) BY <2>1, <2>2 DEF Known, Logged, Sent
  <2>4. SharedInv BY DEF Init, SharedInv, AllShared
  <2>5. \A n \in Store, m \in Memory : memories[n][m] = None BY DEF Init
  <2>6. LastsExist BY <2>2 DEF LastsExist
  <2>7. AllUpToDate BY <2>2, <2>5 DEF AllUpToDate, UpToDate, Settled, Live, Has
  <2>8. KnownTexts /\ LogTexts /\ WaitTexts /\ RowTexts /\ WrittenAreKnown
    BY <2>1, <2>2, <2>3, <2>5
       DEF KnownTexts, LogTexts, WaitTexts, RowTexts, WrittenAreKnown, Live, Has
  <2>9. EachOnce BY <2>1, <2>2 DEF EachOnce, LoggedOnce, LoggedOrWaiting, WaitingOnce
  <2>10. QED BY <2>4, <2>6, <2>7, <2>8, <2>9 DEF TextsInv
<1>2. TypeOK /\ Inv /\ [Next]_vars => Inv'
  <2> SUFFICES ASSUME TypeOK, Inv, [Next]_vars PROVE Inv' OBVIOUS
  <2>1. CASE UNCHANGED vars
    <3>1. UNCHANGED <<plan, memories, enrolled, journal, waiting, log, cursor, writes, written>>
      BY <2>1 DEF vars, tables, queue, history
    <3>2. /\ \A e : Known(e)' <=> Known(e)
          /\ \A n \in Store : \A e : Sent(n, e)' <=> Sent(n, e)
      BY <3>1 DEF Known, Logged, Sent
    <3>3. (AllShared' <=> AllShared) /\ SharedInv' BY <3>1 DEF SharedInv, AllShared
    <3>5. LastsExist' BY <3>1, NothingNews
    <3>6. AllUpToDate => AllUpToDate' BY <3>1, NothingNews DEF AllUpToDate
    <3>7. TextsInv => TextsInv'
      <4>1. TextsInv => KnownTexts' /\ LogTexts' /\ WaitTexts' /\ WrittenAreKnown'
        BY <3>1, <3>2 DEF TextsInv, KnownTexts, LogTexts, WaitTexts, WrittenAreKnown, Newest
      <4>2. TextsInv => EachOnce' /\ RowTexts'
        BY <3>1 DEF TextsInv, EachOnce, LoggedOnce, LoggedOrWaiting, WaitingOnce, RowTexts,
                    Newest, Live, Has
      <4>3. QED BY <4>1, <4>2 DEF TextsInv
    <3>8. QED BY <3>3, <3>5, <3>6, <3>7
  <2>2. CASE Next
    <3>1. SharedInv' /\ LastsExist' BY <2>2, SharedStep, LastsExistStep
    <3>2. AllShared' <=> AllShared BY <2>2 DEF Next, AllShared
    <3>3. AllShared => AllUpToDate' /\ TextsInv' BY <2>2, SharedUpToDateStep, TextsStep
    <3>4. QED BY <3>1, <3>2, <3>3
  <2>3. QED BY <2>1, <2>2
<1>3. TypeOK /\ Inv => NotSuperseded BY QuietTextsAreLast DEF NotSuperseded
<1> HIDE DEF Inv
<1>4. QED BY <1>1, <1>2, <1>3, TypeCorrect, PTL DEF Spec

=============================================================================
