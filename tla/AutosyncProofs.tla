--------------------------- MODULE AutosyncProofs ---------------------------
(***************************************************************************)
(* What holds of Autosync for every number of processes, memories, batch   *)
(* sizes and faults.                                                       *)
(***************************************************************************)
EXTENDS Autosync, TLAPS, SequenceTheorems, FiniteSetTheorems

-----------------------------------------------------------------------------
(* The operators the model is built from.                                  *)

\* What the server stores for a batch has the batch's length and, at each
\* place, the journal row listed there (local_mutation_entry).
LEMMA EntriesOfBatch ==
    ASSUME NEW b \in Seq(Seqs), journal \in Seq(Memory)
    PROVE  /\ Entries(b) \in Seq(Entry)
           /\ Len(Entries(b)) = Len(b)
           /\ \A k \in 1..Len(b) : Entries(b)[k] = Own(b[k])
<1>1. Len(b) \in Nat /\ DOMAIN b = 1..Len(b)
  BY LenProperties
<1>2. \A k \in 1..Len(b) : b[k] \in Seqs /\ Own(b[k]) \in Entry
  BY <1>1, ElementOfSeq DEF Own, Entry, Seqs
<1>3. Entries(b) = [k \in 1..Len(b) |-> Own(b[k])]
  BY <1>1 DEF Entries
<1>4. Entries(b) \in [1..Len(b) -> Entry]
  BY <1>2, <1>3
<1>5. Entries(b) \in Seq(Entry)
  BY <1>1, <1>2, <1>3, IsASeq
<1>6. Len(Entries(b)) = Len(b)
  BY <1>1, <1>4, <1>5, LenProperties
<1> QED BY <1>3, <1>5, <1>6

\* The unacknowledged rows are finitely many, and so is every set of them.
LEMMA PendingFinite ==
    ASSUME journal \in Seq(Memory), NEW S \in SUBSET Pending
    PROVE  IsFiniteSet(S) /\ Cardinality(S) \in Nat
<1>1. IsFiniteSet(1..Len(journal))
  BY FS_Interval, LenProperties
<1>2. S \in SUBSET (1..Len(journal))
  BY DEF Pending, Seqs
<1> QED BY <1>1, <1>2, FS_Subset, FS_CardinalityType

\* A batch taken from the front of the journal is closed downwards: every
\* older row is acknowledged or goes in the same batch
\* (list_pending_sync_mutations orders by seq).
LEMMA NextBatchClosed ==
    ASSUME journal \in Seq(Memory),
           NEW i \in NextBatch, NEW j \in Pending, j < i
    PROVE  j \in NextBatch
<1> DEFINE Below(n) == {x \in Pending : x < n}
<1>1. i \in Pending /\ i \in Nat /\ j \in Nat /\ Pending \subseteq Nat
  BY LenProperties DEF NextBatch, Pending, Seqs
<1>2. Below(j) \in SUBSET Below(i)
  <2>1. \A x \in Pending : x < j => x < i
    BY <1>1
  <2> QED BY <2>1
<1>3. /\ IsFiniteSet(Below(i)) /\ Cardinality(Below(i)) \in Nat
      /\ Cardinality(Below(j)) \in Nat
  BY PendingFinite
<1>4. Cardinality(Below(j)) <= Cardinality(Below(i))
  BY <1>2, <1>3, FS_Subset
<1>5. Cardinality(Below(i)) < PushBatch
  BY DEF NextBatch
<1>6. Cardinality(Below(j)) < PushBatch
  BY <1>3, <1>4, <1>5, BatchAssumption
<1> QED BY <1>6 DEF NextBatch

\* The order of a batch is a sequence of exactly the rows chosen.
LEMMA BatchInOrder ==
    ASSUME journal \in Seq(Memory), NEW b \in InOrder(NextBatch)
    PROVE  /\ b \in Seq(Seqs)
           /\ \A k \in DOMAIN b : b[k] \in NextBatch
           /\ \A i \in NextBatch : \E k \in DOMAIN b : b[k] = i
           /\ \A k, l \in DOMAIN b : k < l => b[k] < b[l]
<1>1. Cardinality(NextBatch) \in Nat
  BY PendingFinite DEF NextBatch
<1>2. b \in [1..Cardinality(NextBatch) -> NextBatch]
  BY DEF InOrder
<1>3. NextBatch \subseteq Seqs
  BY LenProperties DEF NextBatch, Pending, Seqs
<1>4. b \in Seq(Seqs)
  <2>1. b = [k \in 1..Cardinality(NextBatch) |-> b[k]]
    BY <1>2
  <2>2. \A k \in 1..Cardinality(NextBatch) : b[k] \in Seqs
    BY <1>2, <1>3
  <2> QED BY <1>1, <2>1, <2>2, IsASeq
<1> QED BY <1>2, <1>4 DEF InOrder

\* Rows already listed stay rows when the journal grows.
LEMMA JournalGrows ==
    ASSUME NEW m \in Memory, journal \in Seq(Memory), journal' = Append(journal, m)
    PROVE  /\ journal' \in Seq(Memory)
           /\ Len(journal') = Len(journal) + 1
           /\ Seqs \subseteq Seqs'
           /\ Seq(Seqs) \subseteq Seq(Seqs')
           /\ \A i \in Seqs : journal'[i] = journal[i] /\ Own(i)' = Own(i)
<1>1. journal' \in Seq(Memory) /\ Len(journal') = Len(journal) + 1
  OBVIOUS
<1>2. Seqs \subseteq Seqs'
  BY <1>1 DEF Seqs
<1>3. \A s \in Seq(Seqs) : s \in Seq(Seqs')
  BY <1>2, SeqMonotonic
<1>4. \A i \in Seqs : journal'[i] = journal[i]
  BY DEF Seqs
<1> QED BY <1>1, <1>2, <1>3, <1>4 DEF Own

\* The peers' entries are counted by a number.
LEMMA PeerEntriesFinite ==
    ASSUME cloud \in Seq(Entry)
    PROVE  Cardinality(PeerEntries) \in Nat
<1>1. IsFiniteSet(1..Len(cloud))
  BY FS_Interval, LenProperties
<1>2. PeerEntries \in SUBSET (1..Len(cloud))
  BY DEF PeerEntries
<1> QED BY <1>1, <1>2, FS_Subset, FS_CardinalityType

\* What a batch adds to the cloud log, wherever it was sent from.
LEMMA CloudGrows ==
    ASSUME journal \in Seq(Memory), cloud \in Seq(Entry), NEW b \in Seq(Seqs)
    PROVE  LET new == cloud \o Entries(b) IN
           /\ new \in Seq(Entry)
           /\ Len(new) = Len(cloud) + Len(b)
           /\ \A p \in 1..Len(cloud) : new[p] = cloud[p]
           /\ \A k \in 1..Len(b) : new[Len(cloud) + k] = Own(b[k])
<1>1. /\ Entries(b) \in Seq(Entry)
      /\ Len(Entries(b)) = Len(b)
      /\ \A k \in 1..Len(b) : Entries(b)[k] = Own(b[k])
  BY EntriesOfBatch
<1>2. Len(cloud) \in Nat /\ Len(b) \in Nat
  BY LenProperties
<1>3. \A k \in 1..Len(b) : (cloud \o Entries(b))[Len(cloud) + k] = Entries(b)[k]
  <2> SUFFICES ASSUME NEW k \in 1..Len(b)
               PROVE  (cloud \o Entries(b))[Len(cloud) + k] = Entries(b)[k]
    OBVIOUS
  <2>1. Len(cloud) + k \in 1..(Len(cloud) + Len(Entries(b)))
    BY <1>1, <1>2
  <2>2. ~ (Len(cloud) + k <= Len(cloud)) /\ (Len(cloud) + k) - Len(cloud) = k
    BY <1>2
  <2> QED BY <1>1, <2>1, <2>2, ConcatProperties
<1>4. \A p \in 1..Len(cloud) : (cloud \o Entries(b))[p] = cloud[p]
  BY <1>1, <1>2, ConcatProperties
<1>5. /\ cloud \o Entries(b) \in Seq(Entry)
      /\ Len(cloud \o Entries(b)) = Len(cloud) + Len(Entries(b))
  BY <1>1, ConcatProperties
<1> QED BY <1>1, <1>3, <1>4, <1>5

-----------------------------------------------------------------------------
(* Type correctness.                                                       *)

\* Splitting a step of the system into its actions, once for every proof.
LEMMA NextActions ==
    ASSUME [Next]_vars
    PROVE  \/ \E m \in Memory : Edit(m)
           \/ \E m \in Memory : PeerPush(m)
           \/ \E w \in Worker :
                \/ ReadState(w) \/ AcquireLease(w) \/ LeaseRefused(w)
                \/ NothingToPush(w) \/ SendBatch(w) \/ CloudAccepts(w)
                \/ ResponseArrives(w) \/ AckBatch(w)
                \/ ReadCursor(w) \/ PageArrives(w) \/ ApplyNext(w) \/ PageDone(w)
                \/ ReleaseLease(w) \/ MarkOutcome(w)
                \/ CycleFails(w) \/ ReleaseFails(w) \/ StoreCallFails(w)
                \/ Shutdown(w) \/ Crash(w)
           \/ LeaseExpires
           \/ BackoffElapses
           \/ \E r \in late : LateArrival(r)
           \/ UNCHANGED vars
BY DEF Next, CycleStep

\* A batch that is given up leaves the requests in flight well typed.
LEMMA AbandonTypeOK ==
    ASSUME TypeOK, NEW w \in Worker, Abandon(w)
    PROVE  late' \subseteq [id : Nat, entries : Seq(Seqs)]
<1>1. [id |-> faults, entries |-> batch[w]] \in [id : Nat, entries : Seq(Seqs)]
  BY DEF TypeOK
<1> QED BY <1>1 DEF TypeOK, Abandon

\* Every reachable state is well typed, the cursor and the pages lie within
\* the log and a listed row is a row of the journal.
THEOREM TypeCorrect == Spec => []TypeOK
<1>1. Init => TypeOK
  <2> SUFFICES ASSUME Init PROVE TypeOK
    OBVIOUS
  <2>1. <<>> \in Seq(Memory) /\ <<>> \in Seq(Entry) /\ <<>> \in Seq(Seqs) /\ Len(<<>>) = 0
    BY EmptySeq
  <2>2. None \in Worker \cup {None, Dead} /\ "idle" \in Phase
    BY DEF Phase
  <2>3. row \in [Memory -> Entry \cup {None}] /\ pc \in [Worker -> Phase]
    BY <2>2 DEF Init
  <2>4. /\ batch \in [Worker -> Seq(Seqs)] /\ since \in [Worker -> Nat]
        /\ pageEnd \in [Worker -> 0..Len(cloud)] /\ more \in [Worker -> BOOLEAN]
    BY <2>1 DEF Init
  <2>5. journal \in Seq(Memory) /\ cloud \in Seq(Entry) /\ cursor \in 0..Len(cloud)
    BY <2>1 DEF Init
  <2>6. /\ acked \subseteq Seqs /\ late \subseteq [id : Nat, entries : Seq(Seqs)]
        /\ leaseOwner \in Worker \cup {None, Dead} /\ faults \in Nat
        /\ leaseLive \in BOOLEAN /\ backoff \in BOOLEAN
    BY DEF Init
  <2> QED BY <2>3, <2>4, <2>5, <2>6 DEF TypeOK
<1>2. TypeOK /\ [Next]_vars => TypeOK'
  <2> SUFFICES ASSUME TypeOK, [Next]_vars PROVE TypeOK'
    OBVIOUS
  <2> USE DEF Goto, storeVars, leaseVars, workerVars
  <2>0. Len(cloud) \in Nat /\ Len(journal) \in Nat
    BY LenProperties DEF TypeOK
  <2>1. ASSUME NEW m \in Memory, Edit(m) PROVE TypeOK'
    <3>1. /\ journal' \in Seq(Memory)
          /\ Len(journal') = Len(journal) + 1
          /\ Seqs \subseteq Seqs'
          /\ Seq(Seqs) \subseteq Seq(Seqs')
      BY <2>1, JournalGrows DEF Edit, TypeOK
    <3>2. row' \in [Memory -> Entry \cup {None}]
      <4>1. [mem |-> m, src |-> "own", seq |-> Len(journal) + 1] \in Entry
        BY <2>0 DEF Entry
      <4> QED BY <2>1, <4>1 DEF Edit, TypeOK
    <3>3. late' \subseteq [id : Nat, entries : Seq(Seqs')]
      BY <2>1, <3>1 DEF Edit, TypeOK
    <3>4. batch' \in [Worker -> Seq(Seqs')]
      BY <2>1, <3>1 DEF Edit, TypeOK
    <3>5. acked' \subseteq Seqs'
      BY <2>1, <3>1 DEF Edit, TypeOK
    <3> QED BY <2>1, <3>1, <3>2, <3>3, <3>4, <3>5 DEF Edit, TypeOK
  <2>2. ASSUME NEW m \in Memory, PeerPush(m) PROVE TypeOK'
    <3>1. [mem |-> m, src |-> "peer", seq |-> Cardinality(PeerEntries) + 1] \in Entry
      BY PeerEntriesFinite DEF Entry, TypeOK
    <3>2. cloud' \in Seq(Entry) /\ Len(cloud') = Len(cloud) + 1
      BY <2>2, <3>1 DEF PeerPush, TypeOK
    <3> QED BY <2>0, <2>2, <3>2 DEF PeerPush, TypeOK, Seqs
  <2>3. ASSUME NEW w \in Worker,
               ReadState(w) \/ AcquireLease(w) \/ LeaseRefused(w)
               \/ NothingToPush(w) \/ ResponseArrives(w)
        PROVE  TypeOK'
    BY <2>3 DEF ReadState, AcquireLease, LeaseRefused, NothingToPush, ResponseArrives,
                TypeOK, Phase, Seqs
  <2>4. ASSUME NEW w \in Worker, SendBatch(w) PROVE TypeOK'
    <3>1. batch' \in [Worker -> Seq(Seqs)]
      BY <2>4, BatchInOrder DEF SendBatch, TypeOK
    <3>2. pc' \in [Worker -> Phase]
      BY <2>4 DEF SendBatch, TypeOK, Phase
    <3> QED BY <2>4, <3>1, <3>2 DEF SendBatch, TypeOK, Seqs
  <2>5. ASSUME NEW w \in Worker, CloudAccepts(w) PROVE TypeOK'
    <3>1. batch[w] \in Seq(Seqs) /\ Len(batch[w]) \in Nat
      BY LenProperties DEF TypeOK
    <3>2. cloud' \in Seq(Entry) /\ Len(cloud') = Len(cloud) + Len(batch[w])
      BY <2>5, <3>1, CloudGrows DEF CloudAccepts, TypeOK
    <3>3. /\ pc' \in [Worker -> Phase]
          /\ UNCHANGED <<journal, acked, row, cursor, leaseOwner, leaseLive, backoff, batch, since,
                         pageEnd, more, late, faults>>
      BY <2>5 DEF CloudAccepts, TypeOK, Phase
    <3>4. /\ 0..Len(cloud) \subseteq 0..Len(cloud')
          /\ Seqs' = Seqs
      BY <2>0, <3>1, <3>2, <3>3 DEF Seqs
    <3>5. cursor' \in 0..Len(cloud') /\ pageEnd' \in [Worker -> 0..Len(cloud')]
      BY <3>3, <3>4 DEF TypeOK
    <3> QED BY <3>2, <3>3, <3>4, <3>5 DEF TypeOK
  <2>6. ASSUME NEW w \in Worker, AckBatch(w) PROVE TypeOK'
    <3>1. AckedBy(w) \subseteq Seqs
      BY LenProperties, ElementOfSeq DEF TypeOK, AckedBy
    <3>2. batch' \in [Worker -> Seq(Seqs)]
      BY <2>6, EmptySeq DEF AckBatch, TypeOK
    <3>3. pc' \in [Worker -> Phase]
      BY <2>6 DEF AckBatch, TypeOK, Phase
    <3> QED BY <2>6, <3>1, <3>2, <3>3 DEF AckBatch, TypeOK, Seqs
  <2>7. ASSUME NEW w \in Worker, ReadCursor(w) PROVE TypeOK'
    BY <2>0, <2>7 DEF ReadCursor, TypeOK, Phase, Seqs
  <2>8. ASSUME NEW w \in Worker, PageArrives(w) PROVE TypeOK'
    <3>1. LastOfPage(w) \in 0..Len(cloud) /\ HasMore(w) \in BOOLEAN
      BY <2>0, BatchAssumption DEF LastOfPage, HasMore, TypeOK
    <3> QED BY <2>8, <3>1 DEF PageArrives, TypeOK, Phase, Seqs
  <2>9. ASSUME NEW w \in Worker, ApplyNext(w) PROVE TypeOK'
    <3> DEFINE pos == since[w] + 1
    <3>1. pos \in 1..Len(cloud)
      BY <2>0, <2>9 DEF ApplyNext, TypeOK
    <3>2. cloud[pos] \in Entry
      BY <3>1, ElementOfSeq DEF TypeOK
    <3>2a. cloud[pos].mem \in Memory
      BY <3>2 DEF Entry
    <3>3. row' \in [Memory -> Entry \cup {None}]
      BY <2>9, <3>2, <3>2a DEF ApplyNext, Applied, TypeOK
    <3>4. cursor' \in 0..Len(cloud)
      BY <2>0, <2>9, <3>1 DEF ApplyNext, TypeOK
    <3>5. since' \in [Worker -> Nat]
      BY <2>9 DEF ApplyNext, TypeOK
    <3> QED BY <2>9, <3>3, <3>4, <3>5 DEF ApplyNext, TypeOK, Seqs
  <2>10. ASSUME NEW w \in Worker, PageDone(w) PROVE TypeOK'
    <3>1. <<>> \in Seq(Seqs)
      BY EmptySeq
    <3>2. /\ batch' \in [Worker -> Seq(Seqs)]
          /\ since' \in [Worker -> Nat]
          /\ pageEnd' \in [Worker -> 0..Len(cloud)]
          /\ more' \in [Worker -> BOOLEAN]
      <4>1. CASE UNCHANGED <<batch, since, pageEnd, more>>
        BY <2>10, <4>1 DEF PageDone, TypeOK
      <4>2. CASE Forget(w)
        BY <2>0, <3>1, <4>2 DEF Forget, TypeOK
      <4> QED BY <2>10, <4>1, <4>2 DEF PageDone
    <3>3. pc' \in [Worker -> Phase]
      BY <2>10 DEF PageDone, TypeOK, Phase
    <3> QED BY <2>10, <3>2, <3>3 DEF PageDone, TypeOK, Seqs
  <2>11. ASSUME NEW w \in Worker, ReleaseLease(w) \/ MarkOutcome(w) PROVE TypeOK'
    BY <2>11 DEF ReleaseLease, MarkOutcome, Release, TypeOK, Phase, Seqs
  <2>12. ASSUME NEW w \in Worker, CycleFails(w) \/ Shutdown(w) \/ Crash(w) PROVE TypeOK'
    <3>1. <<>> \in Seq(Seqs)
      BY EmptySeq
    <3>2. late' \subseteq [id : Nat, entries : Seq(Seqs)]
      BY <2>12, AbandonTypeOK DEF CycleFails, Shutdown, Crash
    <3>3. Forget(w) /\ Fault
      BY <2>12 DEF CycleFails, Shutdown, Crash
    <3>4. /\ batch' \in [Worker -> Seq(Seqs)]
          /\ since' \in [Worker -> Nat]
          /\ pageEnd' \in [Worker -> 0..Len(cloud)]
          /\ more' \in [Worker -> BOOLEAN]
      BY <2>0, <3>1, <3>3 DEF Forget, TypeOK
    <3>6. faults' \in Nat
      BY <3>3 DEF Fault, TypeOK
    <3>7. \E phase \in {"failed", "idle"} : Goto(w, phase)
      BY <2>12 DEF CycleFails, Shutdown, Crash
    <3>8. pc' \in [Worker -> Phase]
      BY <3>7 DEF TypeOK, Phase
    <3>5. leaseOwner' \in Worker \cup {None, Dead} /\ leaseLive' \in BOOLEAN
      BY <2>12 DEF CycleFails, Shutdown, Crash, Release, TypeOK
    <3> QED BY <2>12, <3>2, <3>4, <3>5, <3>6, <3>8 DEF CycleFails, Shutdown, Crash, TypeOK, Seqs
  <2>13. ASSUME NEW w \in Worker, ReleaseFails(w) \/ StoreCallFails(w) PROVE TypeOK'
    <3>1. Fault /\ faults' \in Nat
      BY <2>13 DEF ReleaseFails, StoreCallFails, Fault, TypeOK
    <3>2. \E phase \in {"idle", "healthy", "unwell"} : Goto(w, phase)
      BY <2>13 DEF ReleaseFails, StoreCallFails
    <3>3. pc' \in [Worker -> Phase]
      BY <3>2 DEF TypeOK, Phase
    <3> QED BY <2>13, <3>1, <3>3 DEF ReleaseFails, StoreCallFails, TypeOK, Seqs
  <2>14. CASE LeaseExpires \/ BackoffElapses
    BY <2>14 DEF LeaseExpires, BackoffElapses, TypeOK, Seqs
  <2>15. ASSUME NEW r \in late, LateArrival(r) PROVE TypeOK'
    <3>1. r.entries \in Seq(Seqs) /\ Len(r.entries) \in Nat
      BY LenProperties DEF TypeOK
    <3>2. cloud' \in Seq(Entry) /\ Len(cloud') = Len(cloud) + Len(r.entries)
      BY <2>15, <3>1, CloudGrows DEF LateArrival, TypeOK
    <3>3. UNCHANGED <<storeVars, leaseVars, workerVars, faults>> /\ late' = late \ {r}
      BY <2>15 DEF LateArrival
    <3>4. /\ cursor' \in 0..Len(cloud')
          /\ pageEnd' \in [Worker -> 0..Len(cloud')]
      <4>1. Len(cloud) \in Nat /\ 0..Len(cloud) \subseteq 0..Len(cloud')
        BY <3>1, <3>2, LenProperties DEF TypeOK
      <4> QED BY <3>3, <4>1 DEF TypeOK, storeVars, workerVars
    <3>5. late' \subseteq [id : Nat, entries : Seq(Seqs)]
      BY <3>3 DEF TypeOK
    <3> QED BY <3>2, <3>3, <3>4, <3>5 DEF TypeOK, Seqs, storeVars, leaseVars, workerVars
  <2>16. CASE UNCHANGED vars
    BY <2>16 DEF vars, TypeOK, Seqs
  <2> QED
    BY NextActions, <2>1, <2>2, <2>3, <2>4, <2>5, <2>6, <2>7, <2>8, <2>9, <2>10, <2>11,
       <2>12, <2>13, <2>14, <2>15, <2>16
<1> QED BY <1>1, <1>2, PTL DEF Spec

-----------------------------------------------------------------------------
(* One cycle at a time.                                                    *)

\* OneCycle alone is not inductive: what keeps a second process out is that
\* whoever is in a cycle still owns a live lease.
HoldsLease ==
    LeaseOutlives =>
        \A w \in Worker : pc[w] \in InCycle => leaseOwner = w /\ leaseLive

\* While a lease outlives its cycle, two processes never replicate the store
\* at the same time (acquire_sync_lease).
THEOREM OneCycleAtATime == Spec => []OneCycle
<1>1. Init => HoldsLease
  BY DEF Init, HoldsLease, InCycle
<1>2. TypeOK /\ HoldsLease /\ [Next]_vars => HoldsLease'
  <2> SUFFICES ASSUME TypeOK, HoldsLease, [Next]_vars, LeaseOutlives,
                      NEW v \in Worker, pc'[v] \in InCycle
               PROVE  leaseOwner' = v /\ leaseLive'
    BY DEF HoldsLease
  <2> USE DEF Goto, InCycle, storeVars, leaseVars, workerVars
  <2>0. pc[v] \in InCycle => leaseOwner = v /\ leaseLive
    BY DEF HoldsLease
  <2>1. ASSUME NEW m \in Memory, Edit(m) \/ PeerPush(m)
        PROVE  leaseOwner' = v /\ leaseLive'
    BY <2>0, <2>1 DEF Edit, PeerPush
  <2>2. ASSUME NEW w \in Worker,
               ReadState(w) \/ LeaseRefused(w) \/ NothingToPush(w)
               \/ SendBatch(w) \/ CloudAccepts(w) \/ ResponseArrives(w) \/ ReadCursor(w)
        PROVE  leaseOwner' = v /\ leaseLive'
    BY <2>0, <2>2 DEF ReadState, LeaseRefused, NothingToPush, SendBatch, CloudAccepts,
                      ResponseArrives, ReadCursor, TypeOK
  <2>3. ASSUME NEW w \in Worker, AckBatch(w) \/ PageArrives(w) \/ ApplyNext(w)
        PROVE  leaseOwner' = v /\ leaseLive'
    BY <2>0, <2>3 DEF AckBatch, PageArrives, ApplyNext, TypeOK
  <2>4. ASSUME NEW w \in Worker, PageDone(w)
        PROVE  leaseOwner' = v /\ leaseLive'
    BY <2>0, <2>4 DEF PageDone, TypeOK
  <2>5. ASSUME NEW w \in Worker, AcquireLease(w)
        PROVE  leaseOwner' = v /\ leaseLive'
    <3>1. CASE w = v
      BY <2>5, <3>1 DEF AcquireLease
    <3>2. CASE w # v
      <4>1. pc[v] \in InCycle
        BY <2>5, <3>2 DEF AcquireLease, TypeOK
      <4>2. leaseOwner \in {None, w} \/ ~leaseLive
        BY <2>5 DEF AcquireLease, LeaseFree
      <4> QED BY <2>0, <3>2, <4>1, <4>2, NoneAssumption
    <3> QED BY <3>1, <3>2
  <2>6. ASSUME NEW w \in Worker, ReleaseLease(w) \/ ReleaseFails(w)
        PROVE  leaseOwner' = v /\ leaseLive'
    <3>1. w # v /\ pc[v] \in InCycle
      BY <2>6 DEF ReleaseLease, ReleaseFails, TypeOK
    <3> QED BY <2>0, <2>6, <3>1 DEF ReleaseLease, ReleaseFails, Release
  <2>7. ASSUME NEW w \in Worker, MarkOutcome(w) \/ StoreCallFails(w)
        PROVE  leaseOwner' = v /\ leaseLive'
    BY <2>0, <2>7 DEF MarkOutcome, StoreCallFails, TypeOK
  <2>8. ASSUME NEW w \in Worker, CycleFails(w)
        PROVE  leaseOwner' = v /\ leaseLive'
    <3>1. pc[v] \in InCycle
      BY <2>8 DEF CycleFails, TypeOK
    <3> QED BY <2>0, <2>8, <3>1 DEF CycleFails
  <2>9. ASSUME NEW w \in Worker, Shutdown(w)
        PROVE  leaseOwner' = v /\ leaseLive'
    <3>1. w # v /\ pc[v] \in InCycle
      BY <2>9 DEF Shutdown, TypeOK
    <3> QED BY <2>0, <2>9, <3>1 DEF Shutdown, Release
  <2>10. ASSUME NEW w \in Worker, Crash(w)
        PROVE  leaseOwner' = v /\ leaseLive'
    <3>1. w # v /\ pc[v] \in InCycle
      BY <2>10 DEF Crash, TypeOK
    <3> QED BY <2>0, <2>10, <3>1 DEF Crash
  <2>11. CASE LeaseExpires
    <3>1. pc[v] \in InCycle
      BY <2>11 DEF LeaseExpires
    <3> QED BY <2>0, <2>11, <3>1 DEF LeaseExpires
  <2>12. CASE BackoffElapses
    BY <2>0, <2>12 DEF BackoffElapses
  <2>13. ASSUME NEW r \in late, LateArrival(r)
        PROVE  leaseOwner' = v /\ leaseLive'
    BY <2>0, <2>13 DEF LateArrival
  <2>14. CASE UNCHANGED vars
    BY <2>0, <2>14 DEF vars
  <2> QED
    BY NextActions, <2>1, <2>2, <2>3, <2>4, <2>5, <2>6, <2>7, <2>8, <2>9, <2>10, <2>11,
       <2>12, <2>13, <2>14
<1>3. HoldsLease => OneCycle
  BY DEF HoldsLease, OneCycle
<1> QED BY <1>1, <1>2, <1>3, TypeCorrect, PTL DEF Spec

-----------------------------------------------------------------------------
(* The push side: nothing is lost and nothing overtakes.                   *)

\* The rows the cloud has.
Stored == {i \in Seqs : InCloud(i)}

\* Every row before one of b's is in S or goes earlier in b.
Causal(b, S) ==
    \A k \in 1..Len(b) : \A i \in 1..(b[k] - 1) : i \in S \/ \E l \in 1..(k - 1) : b[l] = i

\* The store's entries in the cloud are its journal rows.
EntriesAreRows ==
    \A p \in Position : cloud[p].src = "own" =>
        cloud[p].seq \in Seqs /\ cloud[p] = Own(cloud[p].seq)

\* Whatever is still to be served can be appended without a gap.
RequestsCausal ==
    /\ \A w \in Worker : Causal(batch[w], Stored)
    /\ \A r \in late : Causal(r.entries, Stored)

\* A batch the server answered for is in the cloud.
AnsweredStored ==
    \A w \in Worker : pc[w] \in {"accepted", "ack"} =>
        \A k \in 1..Len(batch[w]) : batch[w][k] \in Stored

PushInv ==
    /\ EntriesAreRows
    /\ CausalDelivery
    /\ RequestsCausal
    /\ AnsweredStored
    /\ acked \subseteq Stored

\* An empty batch waits for nothing.
LEMMA EmptyCausal == \A S : Causal(<<>>, S)
BY DEF Causal

\* A request that could be appended still can when the cloud has more.
LEMMA CausalMonotonic ==
    ASSUME NEW b, NEW S, NEW T, S \subseteq T, Causal(b, S)
    PROVE  Causal(b, T)
BY DEF Causal

\* Neither an edit nor a longer log takes a row out of the cloud.
LEMMA StoredGrows ==
    ASSUME Seqs \subseteq Seqs',
           \A i \in Seqs : Own(i)' = Own(i),
           Position \subseteq Position',
           \A p \in Position : cloud'[p] = cloud[p]
    PROVE  Stored \subseteq Stored'
<1> SUFFICES ASSUME NEW i \in Stored PROVE i \in Stored'
  OBVIOUS
<1>1. PICK p \in Position : cloud[p] = Own(i)
  BY DEF Stored, InCloud
<1>2. cloud'[p] = Own(i)'
  BY <1>1 DEF Stored
<1>3. InCloud(i)'
  BY <1>1, <1>2 DEF InCloud
<1> QED BY <1>3 DEF Stored

\* The server takes a request in: wherever it comes from and however late,
\* the log keeps its order and gains the rows of the batch.
LEMMA Receive ==
    ASSUME TypeOK, PushInv, NEW b \in Seq(Seqs), Causal(b, Stored),
           cloud' = cloud \o Entries(b), journal' = journal
    PROVE  /\ EntriesAreRows'
           /\ CausalDelivery'
           /\ Stored \subseteq Stored'
           /\ \A k \in 1..Len(b) : b[k] \in Stored'
<1>1. /\ Len(cloud') = Len(cloud) + Len(b)
      /\ \A p \in 1..Len(cloud) : cloud'[p] = cloud[p]
      /\ \A k \in 1..Len(b) : cloud'[Len(cloud) + k] = Own(b[k])
  BY CloudGrows DEF TypeOK
<1>2. /\ Len(cloud) \in Nat /\ Len(b) \in Nat /\ Len(journal) \in Nat
      /\ \A k \in 1..Len(b) : b[k] \in Seqs
  BY LenProperties, ElementOfSeq DEF TypeOK
<1>3. Seqs' = Seqs /\ \A i : Own(i)' = Own(i)
  BY DEF Seqs, Own
<1>4. Position \subseteq Position'
  BY <1>1, <1>2 DEF Position
<1>5. Stored \subseteq Stored'
  BY <1>1, <1>3, <1>4, StoredGrows DEF Position
<1>6. ASSUME NEW p \in Position', p \notin Position
      PROVE  \E k \in 1..Len(b) : p = Len(cloud) + k
  <2>1. p - Len(cloud) \in 1..Len(b) /\ p = Len(cloud) + (p - Len(cloud))
    BY <1>1, <1>2, <1>6 DEF Position
  <2> QED BY <2>1
<1>7. \A k \in 1..Len(b) : Len(cloud) + k \in Position'
  BY <1>1, <1>2 DEF Position
<1>8. \A k \in 1..Len(b) : b[k] \in Stored'
  <2> SUFFICES ASSUME NEW k \in 1..Len(b) PROVE b[k] \in Stored'
    OBVIOUS
  <2>1. \E p \in Position' : cloud'[p] = Own(b[k])'
    BY <1>1, <1>3, <1>7
  <2> QED BY <1>2, <1>3, <2>1 DEF Stored, InCloud, Position, Own
<1>9. EntriesAreRows'
  <2> SUFFICES ASSUME NEW p \in Position', cloud'[p].src = "own"
               PROVE  (cloud[p].seq \in Seqs /\ cloud[p] = Own(cloud[p].seq))'
    BY DEF EntriesAreRows
  <2>1. CASE p \in Position
    BY <1>1, <1>3, <2>1 DEF PushInv, EntriesAreRows, Position, Own
  <2>2. CASE p \notin Position
    <3>1. PICK k \in 1..Len(b) : p = Len(cloud) + k
      BY <1>6, <2>2
    <3>2. cloud'[p] = Own(b[k])
      BY <1>1, <3>1
    <3>3. Own(b[k]).seq = b[k]
      BY DEF Own
    <3>4. b[k] \in Seqs'
      BY <1>2, <1>3
    <3> QED BY <1>3, <3>2, <3>3, <3>4 DEF Own
  <2> QED BY <2>1, <2>2
<1>10. CausalDelivery'
  <2> SUFFICES ASSUME NEW p \in Position', cloud'[p].src = "own",
                      NEW i \in 1..(cloud'[p].seq - 1)
               PROVE  \E q \in 1..(p - 1) : cloud'[q] = Own(i)'
    BY DEF CausalDelivery
  <2>1. CASE p \in Position
    <3>1. PICK q \in 1..(p - 1) : cloud[q] = Own(i)
      BY <1>1, <2>1 DEF PushInv, CausalDelivery, Position
    <3>2. q \in 1..Len(cloud)
      BY <1>2, <2>1 DEF Position
    <3> QED BY <1>1, <1>3, <3>1, <3>2
  <2>2. CASE p \notin Position
    <3>1. PICK k \in 1..Len(b) : p = Len(cloud) + k
      BY <1>6, <2>2
    <3>2. cloud'[p].seq = b[k]
      <4>1. cloud'[p] = Own(b[k])
        BY <1>1, <3>1
      <4>2. Own(b[k]).seq = b[k]
        BY DEF Own
      <4> QED BY <4>1, <4>2
    <3>3. CASE i \in Stored
      <4>1. PICK q \in 1..Len(cloud) : cloud[q] = Own(i)
        BY <3>3 DEF Stored, InCloud, Position
      <4>2. q \in 1..(p - 1)
        BY <1>2, <3>1
      <4> QED BY <1>1, <1>3, <4>1, <4>2
    <3>4. CASE i \notin Stored
      <4>1. PICK l \in 1..(k - 1) : b[l] = i
        BY <3>2, <3>4 DEF Causal
      <4>2. l \in 1..Len(b) /\ Len(cloud) + l \in 1..(p - 1)
        BY <1>2, <3>1
      <4> QED BY <1>1, <1>3, <4>1, <4>2
    <3> QED BY <3>3, <3>4
  <2> QED BY <2>1, <2>2
<1> QED BY <1>5, <1>8, <1>9, <1>10

\* A batch listed from the journal leaves no gap: older rows are acknowledged,
\* and so stored, or go earlier in it.
LEMMA ListedCausal ==
    ASSUME TypeOK, acked \subseteq Stored, NEW b \in InOrder(NextBatch)
    PROVE  Causal(b, Stored)
<1>1. /\ b \in Seq(Seqs) /\ DOMAIN b = 1..Len(b) /\ Len(b) \in Nat
      /\ \A k \in DOMAIN b : b[k] \in NextBatch
      /\ \A i \in NextBatch : \E k \in DOMAIN b : b[k] = i
      /\ \A k, l \in DOMAIN b : k < l => b[k] < b[l]
  BY BatchInOrder, LenProperties DEF TypeOK
<1> SUFFICES ASSUME NEW k \in 1..Len(b), NEW i \in 1..(b[k] - 1), i \notin Stored
             PROVE  \E l \in 1..(k - 1) : b[l] = i
  BY DEF Causal
<1>2. b[k] \in NextBatch /\ b[k] \in Seqs /\ Len(journal) \in Nat
  BY <1>1, LenProperties DEF NextBatch, Pending, TypeOK
<1>3. i \in Pending /\ i < b[k]
  BY <1>2 DEF Pending, Seqs
<1>4. i \in NextBatch
  BY <1>2, <1>3, NextBatchClosed DEF TypeOK
<1>5. PICK l \in 1..Len(b) : b[l] = i
  BY <1>1, <1>4
<1>6. ~ (k <= l)
  <2>1. b[k] \in Nat /\ b[l] \in Nat
    BY <1>1, <1>2, <1>5 DEF Seqs
  <2>2. k < l => b[k] < b[l]
    BY <1>1, <1>5
  <2> QED BY <1>3, <1>5, <2>1, <2>2
<1> QED BY <1>1, <1>5, <1>6

\* A step that touches neither the journal nor the log leaves what is said of
\* the two alone.
LEMMA LogFrame ==
    ASSUME UNCHANGED <<journal, cloud>>
    PROVE  /\ Stored' = Stored
           /\ EntriesAreRows => EntriesAreRows'
           /\ CausalDelivery => CausalDelivery'
BY DEF Stored, InCloud, EntriesAreRows, CausalDelivery, Position, Seqs, Own

\* Giving a batch up leaves only requests that can still be appended.
LEMMA AbandonCausal ==
    ASSUME PushInv, NEW w \in Worker, Abandon(w), UNCHANGED <<journal, cloud>>
    PROVE  \A r \in late' : Causal(r.entries, Stored')
<1>1. \A r \in late : Causal(r.entries, Stored)
  BY DEF PushInv, RequestsCausal
<1>2. Causal([id |-> faults, entries |-> batch[w]].entries, Stored)
  BY DEF PushInv, RequestsCausal
<1> QED BY <1>1, <1>2, LogFrame DEF Abandon

\* PushInv is inductive: every way a batch reaches the cloud, or fails to, keeps
\* the journal, the acknowledgements and the requests in flight consistent.
LEMMA PushInvHolds == Spec => []PushInv
<1>1. Init => PushInv
  <2> SUFFICES ASSUME Init PROVE PushInv
    OBVIOUS
  <2>1. Position = {} /\ Len(<<>>) = 0
    BY EmptySeq DEF Init, Position
  <2>2. RequestsCausal
    BY EmptyCausal DEF Init, RequestsCausal
  <2>3. AnsweredStored
    BY DEF Init, AnsweredStored
  <2> QED BY <2>1, <2>2, <2>3 DEF Init, PushInv, EntriesAreRows, CausalDelivery
<1>2. TypeOK /\ PushInv /\ [Next]_vars => PushInv'
  <2> SUFFICES ASSUME TypeOK, PushInv, [Next]_vars PROVE PushInv'
    OBVIOUS
  <2> USE DEF Goto, storeVars, leaseVars, workerVars
  <2>0. /\ EntriesAreRows /\ CausalDelivery /\ acked \subseteq Stored
        /\ \A w \in Worker : Causal(batch[w], Stored)
        /\ \A r \in late : Causal(r.entries, Stored)
        /\ \A w \in Worker : pc[w] \in {"accepted", "ack"} =>
             \A k \in 1..Len(batch[w]) : batch[w][k] \in Stored
        /\ Len(journal) \in Nat /\ Len(cloud) \in Nat
    BY LenProperties DEF PushInv, RequestsCausal, AnsweredStored, TypeOK
  <2>1. ASSUME NEW m \in Memory, Edit(m) PROVE PushInv'
    <3>1. /\ Seqs \subseteq Seqs' /\ \A i \in Seqs : Own(i)' = Own(i)
          /\ cloud' = cloud /\ Position' = Position
      BY <2>1, JournalGrows DEF Edit, TypeOK, Position
    <3>2. Stored \subseteq Stored'
      BY <3>1, StoredGrows
    <3>3. EntriesAreRows'
      <4> SUFFICES ASSUME NEW p \in Position, cloud[p].src = "own"
                   PROVE  (cloud[p].seq \in Seqs /\ cloud[p] = Own(cloud[p].seq))'
        BY <3>1 DEF EntriesAreRows
      <4>1. cloud[p].seq \in Seqs /\ cloud[p] = Own(cloud[p].seq)
        BY <2>0 DEF EntriesAreRows
      <4>2. journal'[cloud[p].seq] = journal[cloud[p].seq]
        BY <2>1, <4>1, JournalGrows DEF Edit, TypeOK
      <4> QED BY <3>1, <4>1, <4>2 DEF Own
    <3>4. CausalDelivery'
      <4> SUFFICES ASSUME NEW p \in Position, cloud[p].src = "own",
                          NEW i \in 1..(cloud[p].seq - 1)
                   PROVE  \E q \in 1..(p - 1) : cloud[q] = Own(i)'
        BY <3>1 DEF CausalDelivery
      <4>1. cloud[p].seq \in Seqs
        BY <2>0 DEF EntriesAreRows
      <4>2. i \in Seqs
        BY <2>0, <4>1 DEF Seqs
      <4> QED BY <2>0, <3>1, <4>2 DEF CausalDelivery
    <3>5. RequestsCausal' /\ AnsweredStored'
      BY <2>0, <2>1, <3>2, CausalMonotonic DEF Edit, RequestsCausal, AnsweredStored
    <3> QED BY <2>0, <2>1, <3>2, <3>3, <3>4, <3>5 DEF Edit, PushInv
  <2>2. ASSUME NEW m \in Memory, PeerPush(m) PROVE PushInv'
    <3> DEFINE e == [mem |-> m, src |-> "peer", seq |-> Cardinality(PeerEntries) + 1]
    <3>1. e \in Entry
      BY PeerEntriesFinite DEF Entry, TypeOK
    <3>2. /\ cloud' = Append(cloud, e) /\ journal' = journal
          /\ UNCHANGED <<acked, pc, batch, late>>
      BY <2>2 DEF PeerPush
    <3>3. /\ Len(cloud') = Len(cloud) + 1
          /\ \A p \in 1..Len(cloud) : cloud'[p] = cloud[p]
          /\ cloud'[Len(cloud) + 1] = e
      BY <2>0, <3>1, <3>2 DEF TypeOK
    <3>4. /\ Seqs' = Seqs /\ \A i : Own(i)' = Own(i)
          /\ Position \subseteq Position'
          /\ \A p \in Position' : p \in Position \/ p = Len(cloud) + 1
      BY <2>0, <3>2, <3>3 DEF Seqs, Own, Position
    <3>5. Stored \subseteq Stored'
      BY <3>3, <3>4, StoredGrows DEF Position
    <3>6. \A p \in Position' : cloud'[p].src = "own" => p \in Position
      BY <3>3, <3>4
    <3>7. EntriesAreRows'
      <4> SUFFICES ASSUME NEW p \in Position, cloud'[p].src = "own"
                   PROVE  (cloud[p].seq \in Seqs /\ cloud[p] = Own(cloud[p].seq))'
        BY <3>6 DEF EntriesAreRows
      <4>1. cloud'[p] = cloud[p]
        BY <3>3 DEF Position
      <4>2. cloud[p].seq \in Seqs /\ cloud[p] = Own(cloud[p].seq)
        BY <2>0, <4>1 DEF EntriesAreRows
      <4> QED BY <3>2, <3>4, <4>1, <4>2 DEF Own
    <3>8. CausalDelivery'
      <4> SUFFICES ASSUME NEW p \in Position, cloud'[p].src = "own",
                          NEW i \in 1..(cloud'[p].seq - 1)
                   PROVE  \E q \in 1..(p - 1) : cloud'[q] = Own(i)'
        BY <3>6 DEF CausalDelivery
      <4>1. PICK q \in 1..(p - 1) : cloud[q] = Own(i)
        BY <2>0, <3>3 DEF CausalDelivery, Position
      <4>2. q \in 1..Len(cloud)
        BY <2>0 DEF Position
      <4> QED BY <3>3, <3>4, <4>1, <4>2
    <3>9. RequestsCausal' /\ AnsweredStored'
      BY <2>0, <3>2, <3>5, CausalMonotonic DEF RequestsCausal, AnsweredStored
    <3> QED BY <2>0, <3>2, <3>5, <3>7, <3>8, <3>9 DEF PushInv
  <2>3. ASSUME NEW w \in Worker, CloudAccepts(w) PROVE PushInv'
    <3>1. batch[w] \in Seq(Seqs)
      BY DEF TypeOK
    <3>2. /\ EntriesAreRows' /\ CausalDelivery' /\ Stored \subseteq Stored'
          /\ \A k \in 1..Len(batch[w]) : batch[w][k] \in Stored'
      BY <2>0, <2>3, <3>1, Receive DEF CloudAccepts
    <3>3. RequestsCausal'
      BY <2>0, <2>3, <3>2, CausalMonotonic DEF CloudAccepts, RequestsCausal
    <3>4. AnsweredStored'
      BY <2>0, <2>3, <3>2 DEF CloudAccepts, AnsweredStored, TypeOK
    <3> QED BY <2>0, <2>3, <3>2, <3>3, <3>4 DEF CloudAccepts, PushInv
  <2>4. ASSUME NEW r \in late, LateArrival(r) PROVE PushInv'
    <3>1. r.entries \in Seq(Seqs)
      BY DEF TypeOK
    <3>2. /\ EntriesAreRows' /\ CausalDelivery' /\ Stored \subseteq Stored'
      BY <2>0, <2>4, <3>1, Receive DEF LateArrival
    <3>3. RequestsCausal' /\ AnsweredStored'
      BY <2>0, <2>4, <3>2, CausalMonotonic
      DEF LateArrival, RequestsCausal, AnsweredStored
    <3> QED BY <2>0, <2>4, <3>2, <3>3 DEF LateArrival, PushInv
  <2>5. ASSUME NEW w \in Worker, SendBatch(w) PROVE PushInv'
    <3>1. PICK b \in InOrder(NextBatch) : batch' = [batch EXCEPT ![w] = b]
      BY <2>5 DEF SendBatch
    <3>2. /\ Stored' = Stored /\ EntriesAreRows' /\ CausalDelivery'
      BY <2>0, <2>5, LogFrame DEF SendBatch
    <3>3. RequestsCausal'
      BY <2>0, <2>5, <3>1, <3>2, ListedCausal DEF SendBatch, RequestsCausal, TypeOK
    <3>4. AnsweredStored'
      BY <2>0, <2>5, <3>2 DEF SendBatch, AnsweredStored, TypeOK
    <3> QED BY <2>0, <2>5, <3>2, <3>3, <3>4 DEF SendBatch, PushInv
  <2>6. ASSUME NEW w \in Worker, AckBatch(w) PROVE PushInv'
    <3>1. /\ Stored' = Stored /\ EntriesAreRows' /\ CausalDelivery'
      BY <2>0, <2>6, LogFrame DEF AckBatch
    <3>2. AckedBy(w) \subseteq Stored
      BY <2>0, <2>6, LenProperties DEF AckBatch, AckedBy, TypeOK
    <3>3. RequestsCausal'
      BY <2>0, <2>6, <3>1, EmptyCausal DEF AckBatch, RequestsCausal, TypeOK
    <3>4. AnsweredStored'
      BY <2>0, <2>6, <3>1 DEF AckBatch, AnsweredStored, TypeOK
    <3> QED BY <2>0, <2>6, <3>1, <3>2, <3>3, <3>4 DEF AckBatch, PushInv
  <2>7. ASSUME NEW w \in Worker,
               \/ UNCHANGED batch
               \/ batch' = [batch EXCEPT ![w] = <<>>],
               UNCHANGED <<journal, cloud, acked>>,
               \/ UNCHANGED late
               \/ Abandon(w),
               \A v \in Worker : pc'[v] \in {"accepted", "ack"} =>
                                   pc[v] \in {"accepted", "ack"} /\ batch'[v] = batch[v]
        PROVE  PushInv'
    <3>1. /\ Stored' = Stored /\ EntriesAreRows' /\ CausalDelivery'
      BY <2>0, <2>7, LogFrame
    <3>2. \A v \in Worker : Causal(batch'[v], Stored')
      BY <2>0, <2>7, <3>1, EmptyCausal DEF TypeOK
    <3>3. \A r \in late' : Causal(r.entries, Stored')
      BY <2>0, <2>7, <3>1, AbandonCausal
    <3>4. AnsweredStored'
      BY <2>0, <2>7, <3>1 DEF AnsweredStored
    <3> QED BY <2>0, <2>7, <3>1, <3>2, <3>3, <3>4 DEF PushInv, RequestsCausal
  <2>8. ASSUME NEW w \in Worker,
               ReadState(w) \/ AcquireLease(w) \/ LeaseRefused(w) \/ NothingToPush(w)
               \/ ResponseArrives(w) \/ ReadCursor(w) \/ PageArrives(w) \/ ApplyNext(w)
        PROVE  PushInv'
    BY <2>7, <2>8
    DEF ReadState, AcquireLease, LeaseRefused, NothingToPush, ResponseArrives, ReadCursor,
        PageArrives, ApplyNext, TypeOK
  <2>9. ASSUME NEW w \in Worker,
               PageDone(w) \/ ReleaseLease(w) \/ MarkOutcome(w) \/ ReleaseFails(w)
               \/ StoreCallFails(w)
        PROVE  PushInv'
    BY <2>7, <2>9
    DEF PageDone, Forget, ReleaseLease, MarkOutcome, ReleaseFails, StoreCallFails, TypeOK
  <2>10. ASSUME NEW w \in Worker, CycleFails(w) \/ Shutdown(w) \/ Crash(w)
         PROVE  PushInv'
    BY <2>7, <2>10 DEF CycleFails, Shutdown, Crash, Forget, TypeOK
  <2>11. CASE LeaseExpires \/ BackoffElapses \/ UNCHANGED vars
    <3>1. UNCHANGED <<journal, cloud, acked, batch, late, pc>>
      BY <2>11 DEF LeaseExpires, BackoffElapses, vars
    <3> QED BY <2>0, <3>1, LogFrame DEF PushInv, RequestsCausal, AnsweredStored
  <2> QED
    BY NextActions, <2>1, <2>2, <2>3, <2>4, <2>5, <2>6, <2>8, <2>9, <2>10, <2>11
<1> QED BY <1>1, <1>2, TypeCorrect, PTL DEF Spec

\* A journal row is acknowledged only when the cloud has it, whatever was
\* cancelled, timed out or ran twice (ack_sync_mutation_seqs).
THEOREM NothingIsLost == Spec => []NoLostWrite
<1>1. PushInv => NoLostWrite
  BY DEF PushInv, NoLostWrite, Stored
<1> QED BY <1>1, PushInvHolds, PTL

\* What was journaled first reaches the cloud first, also through retries and
\* requests that arrive late.
THEOREM DeliveryIsCausal == Spec => []CausalDelivery
<1>1. PushInv => CausalDelivery
  BY DEF PushInv
<1> QED BY <1>1, PushInvHolds, PTL

-----------------------------------------------------------------------------
(* The pull side: every entry is applied, once, and the rows follow the    *)
(* log.                                                                    *)

\* What a worker remembers of the cursor never runs ahead of the stored one.
Behind == \A w \in Worker : pc[w] \in {"pulling", "apply"} => since[w] <= cursor

\* Whichever cycles overlap, no worker's own position passes the stored cursor
\* (apply_pulled_sync_mutation moves both).
LEMMA BehindHolds == Spec => []Behind
<1>1. Init => Behind
  BY DEF Init, Behind
<1>2. TypeOK /\ Behind /\ [Next]_vars => Behind'
  <2> SUFFICES ASSUME TypeOK, Behind, [Next]_vars, NEW v \in Worker,
                      pc'[v] \in {"pulling", "apply"}
               PROVE  since'[v] <= cursor'
    BY DEF Behind
  <2> USE DEF Goto, storeVars, leaseVars, workerVars
  <2>0. /\ pc[v] \in {"pulling", "apply"} => since[v] <= cursor
        /\ cursor \in Nat /\ since[v] \in Nat
    BY LenProperties DEF Behind, TypeOK
  <2>1. ASSUME NEW m \in Memory, Edit(m) \/ PeerPush(m) PROVE since'[v] <= cursor'
    BY <2>0, <2>1 DEF Edit, PeerPush
  <2>2. ASSUME NEW w \in Worker,
               ReadState(w) \/ AcquireLease(w) \/ LeaseRefused(w) \/ NothingToPush(w)
               \/ SendBatch(w) \/ CloudAccepts(w) \/ ResponseArrives(w) \/ AckBatch(w)
        PROVE  since'[v] <= cursor'
    BY <2>0, <2>2
    DEF ReadState, AcquireLease, LeaseRefused, NothingToPush, SendBatch, CloudAccepts,
        ResponseArrives, AckBatch, TypeOK
  <2>3. ASSUME NEW w \in Worker, ReadCursor(w) \/ PageArrives(w) PROVE since'[v] <= cursor'
    BY <2>0, <2>3 DEF ReadCursor, PageArrives, TypeOK
  <2>4. ASSUME NEW w \in Worker, ApplyNext(w) PROVE since'[v] <= cursor'
    <3>1. pc' = pc /\ since[w] \in Nat
      BY <2>4 DEF ApplyNext, TypeOK
    <3>2. /\ cursor' = cursor \/ cursor' = since[w] + 1
          /\ cursor <= cursor' /\ since[w] + 1 <= cursor'
      BY <2>0, <2>4, <3>1 DEF ApplyNext, AlreadyApplied
    <3>3. since'[v] = IF v = w THEN since[w] + 1 ELSE since[v]
      BY <2>4 DEF ApplyNext, TypeOK
    <3> QED BY <2>0, <3>1, <3>2, <3>3
  <2>5. ASSUME NEW w \in Worker, PageDone(w) PROVE since'[v] <= cursor'
    <3>1. CASE w = v
      BY <2>0, <2>5, <3>1 DEF PageDone, TypeOK
    <3>2. CASE w # v
      BY <2>0, <2>5, <3>2 DEF PageDone, Forget, TypeOK
    <3> QED BY <3>1, <3>2
  <2>6. ASSUME NEW w \in Worker,
               ReleaseLease(w) \/ MarkOutcome(w) \/ ReleaseFails(w) \/ StoreCallFails(w)
        PROVE  since'[v] <= cursor'
    BY <2>0, <2>6 DEF ReleaseLease, MarkOutcome, ReleaseFails, StoreCallFails, TypeOK
  <2>7. ASSUME NEW w \in Worker, CycleFails(w) \/ Shutdown(w) \/ Crash(w)
        PROVE  since'[v] <= cursor'
    <3>1. w # v
      BY <2>7 DEF CycleFails, Shutdown, Crash, TypeOK
    <3> QED BY <2>0, <2>7, <3>1 DEF CycleFails, Shutdown, Crash, Forget, TypeOK
  <2>8. CASE LeaseExpires \/ BackoffElapses \/ UNCHANGED vars
    BY <2>0, <2>8 DEF LeaseExpires, BackoffElapses, vars
  <2>9. ASSUME NEW r \in late, LateArrival(r) PROVE since'[v] <= cursor'
    BY <2>0, <2>9 DEF LateArrival
  <2> QED
    BY NextActions, <2>1, <2>2, <2>3, <2>4, <2>5, <2>6, <2>7, <2>8, <2>9
<1> QED BY <1>1, <1>2, TypeCorrect, PTL DEF Spec

\* What a step may do to the rows and the cursor.
LEMMA RowSteps ==
    ASSUME TypeOK, Behind, [Next]_vars
    PROVE  \/ UNCHANGED <<row, cursor>>
           \/ \E m \in Memory : Edit(m)
           \/ /\ cursor' = cursor + 1
              /\ cursor' \in Position
              /\ row' = [row EXCEPT ![cloud[cursor'].mem] = cloud[cursor']]
              /\ UNCHANGED <<journal, cloud>>
<1> USE DEF storeVars, leaseVars, workerVars
<1>1. ASSUME NEW w \in Worker, ApplyNext(w)
      PROVE  \/ UNCHANGED <<row, cursor>>
             \/ /\ cursor' = cursor + 1
                /\ cursor' \in Position
                /\ row' = [row EXCEPT ![cloud[cursor'].mem] = cloud[cursor']]
                /\ UNCHANGED <<journal, cloud>>
  <2>1. CASE AlreadyApplied(since[w] + 1)
    BY <1>1, <2>1 DEF ApplyNext
  <2>2. CASE ~AlreadyApplied(since[w] + 1)
    <3>1. /\ since[w] <= cursor /\ since[w] \in Nat /\ cursor \in Nat
          /\ since[w] + 1 <= pageEnd[w] /\ pageEnd[w] \in 0..Len(cloud)
          /\ Len(cloud) \in Nat
      BY <1>1, LenProperties DEF ApplyNext, Behind, TypeOK
    <3>2. since[w] + 1 = cursor + 1 /\ since[w] + 1 \in Position
      BY <2>2, <3>1 DEF AlreadyApplied, Position
    <3> QED BY <1>1, <2>2, <3>2 DEF ApplyNext, Applied
  <2> QED BY <2>1, <2>2
<1>2. ASSUME NEW m \in Memory, PeerPush(m) PROVE UNCHANGED <<row, cursor>>
  BY <1>2 DEF PeerPush
<1>3. ASSUME NEW w \in Worker,
             ReadState(w) \/ AcquireLease(w) \/ LeaseRefused(w) \/ NothingToPush(w)
             \/ SendBatch(w) \/ CloudAccepts(w) \/ ResponseArrives(w) \/ AckBatch(w)
             \/ ReadCursor(w) \/ PageArrives(w) \/ PageDone(w)
      PROVE  UNCHANGED <<row, cursor>>
  BY <1>3 DEF ReadState, AcquireLease, LeaseRefused, NothingToPush, SendBatch, CloudAccepts,
              ResponseArrives, AckBatch, ReadCursor, PageArrives, PageDone
<1>4. ASSUME NEW w \in Worker,
             ReleaseLease(w) \/ MarkOutcome(w) \/ CycleFails(w) \/ ReleaseFails(w)
             \/ StoreCallFails(w) \/ Shutdown(w) \/ Crash(w)
      PROVE  UNCHANGED <<row, cursor>>
  BY <1>4 DEF ReleaseLease, MarkOutcome, CycleFails, ReleaseFails, StoreCallFails,
              Shutdown, Crash
<1>5. CASE LeaseExpires \/ BackoffElapses \/ UNCHANGED vars
  BY <1>5 DEF LeaseExpires, BackoffElapses, vars
<1>6. ASSUME NEW r \in late, LateArrival(r) PROVE UNCHANGED <<row, cursor>>
  BY <1>6 DEF LateArrival
<1> QED BY NextActions, <1>1, <1>2, <1>3, <1>4, <1>5, <1>6

\* The pull applies every cloud entry once and in order, also when two
\* processes apply pages at the same time (apply_pulled_sync_mutation).
THEOREM EachEntryAppliedOnce == Spec => AppliesEachOnce
<1>1. TypeOK /\ Behind /\ [Next]_vars =>
        [cursor' # cursor =>
           /\ cursor' = cursor + 1
           /\ row' = [row EXCEPT ![cloud[cursor'].mem] = cloud[cursor']]]_vars
  <2> SUFFICES ASSUME TypeOK, Behind, [Next]_vars, cursor' # cursor
               PROVE  /\ cursor' = cursor + 1
                      /\ row' = [row EXCEPT ![cloud[cursor'].mem] = cloud[cursor']]
    OBVIOUS
  <2>1. ASSUME NEW m \in Memory, Edit(m) PROVE cursor' = cursor
    BY <2>1 DEF Edit
  <2> QED BY <2>1, RowSteps
<1> QED BY <1>1, TypeCorrect, BehindHolds, PTL DEF Spec, AppliesEachOnce

\* A row the log has not caught up with yet holds an edit of this store whose
\* echo is still to come.
Ahead(m) ==
    \E i \in Seqs : /\ row[m] = Own(i)
                    /\ journal[i] = m
                    /\ \A p \in 1..cursor : cloud[p] # Own(i)

RowsFollowLog == \A m \in Memory : IsLatest(row[m], m, cursor) \/ Ahead(m)

\* What the log said last does not depend on what was appended since.
LEMMA LatestFrame ==
    ASSUME NEW e, NEW m, NEW n \in Nat, IsLatest(e, m, n),
           \A p \in 1..n : cloud'[p] = cloud[p]
    PROVE  IsLatest(e, m, n)'
BY DEF IsLatest

\* No step changes an entry the log already holds.
LEMMA LogOnlyGrows ==
    ASSUME TypeOK, [Next]_vars
    PROVE  /\ \A p \in Position : cloud'[p] = cloud[p]
           /\ Seqs \subseteq Seqs'
           /\ \A i \in Seqs : Own(i)' = Own(i) /\ journal'[i] = journal[i]
<1> USE DEF storeVars, leaseVars, workerVars
<1>1. ASSUME NEW m \in Memory, Edit(m)
      PROVE  /\ cloud' = cloud /\ Seqs \subseteq Seqs'
             /\ \A i \in Seqs : Own(i)' = Own(i) /\ journal'[i] = journal[i]
  BY <1>1, JournalGrows DEF Edit, TypeOK
<1>2. ASSUME journal' = journal
      PROVE  /\ Seqs \subseteq Seqs'
             /\ \A i \in Seqs : Own(i)' = Own(i) /\ journal'[i] = journal[i]
  BY <1>2 DEF Seqs, Own
<1>3. ASSUME NEW m \in Memory, PeerPush(m)
      PROVE  (\A p \in Position : cloud'[p] = cloud[p]) /\ journal' = journal
  <2>1. [mem |-> m, src |-> "peer", seq |-> Cardinality(PeerEntries) + 1] \in Entry
    BY PeerEntriesFinite DEF Entry, TypeOK
  <2> QED BY <1>3, <2>1 DEF PeerPush, Position, TypeOK
<1>4. ASSUME NEW w \in Worker, CloudAccepts(w)
      PROVE  (\A p \in Position : cloud'[p] = cloud[p]) /\ journal' = journal
  BY <1>4, CloudGrows DEF CloudAccepts, Position, TypeOK
<1>5. ASSUME NEW r \in late, LateArrival(r)
      PROVE  (\A p \in Position : cloud'[p] = cloud[p]) /\ journal' = journal
  BY <1>5, CloudGrows DEF LateArrival, Position, TypeOK
<1>6. ASSUME NEW w \in Worker,
             ReadState(w) \/ AcquireLease(w) \/ LeaseRefused(w) \/ NothingToPush(w)
             \/ SendBatch(w) \/ ResponseArrives(w) \/ AckBatch(w)
             \/ ReadCursor(w) \/ PageArrives(w) \/ ApplyNext(w) \/ PageDone(w)
      PROVE  UNCHANGED <<cloud, journal>>
  BY <1>6 DEF ReadState, AcquireLease, LeaseRefused, NothingToPush, SendBatch,
              ResponseArrives, AckBatch, ReadCursor, PageArrives, ApplyNext, PageDone
<1>7. ASSUME NEW w \in Worker,
             ReleaseLease(w) \/ MarkOutcome(w) \/ CycleFails(w) \/ ReleaseFails(w)
             \/ StoreCallFails(w) \/ Shutdown(w) \/ Crash(w)
      PROVE  UNCHANGED <<cloud, journal>>
  BY <1>7 DEF ReleaseLease, MarkOutcome, CycleFails, ReleaseFails, StoreCallFails,
              Shutdown, Crash
<1>8. CASE LeaseExpires \/ BackoffElapses \/ UNCHANGED vars
  BY <1>2, <1>8 DEF LeaseExpires, BackoffElapses, vars
<1> QED BY NextActions, <1>1, <1>2, <1>3, <1>4, <1>5, <1>6, <1>7, <1>8

\* Every step keeps each memory at what the log says up to the cursor, or at a
\* local edit whose entry is yet to be pulled.
LEMMA RowsFollowLogHolds == Spec => []RowsFollowLog
<1>1. Init => RowsFollowLog
  BY DEF Init, RowsFollowLog, IsLatest
<1>2. TypeOK /\ PushInv /\ Behind /\ RowsFollowLog /\ [Next]_vars => RowsFollowLog'
  <2> SUFFICES ASSUME TypeOK, PushInv, Behind, RowsFollowLog, [Next]_vars,
                      NEW m \in Memory
               PROVE  (IsLatest(row[m], m, cursor) \/ Ahead(m))'
    BY DEF RowsFollowLog
  <2>0. /\ IsLatest(row[m], m, cursor) \/ Ahead(m)
        /\ Len(cloud) \in Nat /\ Len(journal) \in Nat
        /\ cursor \in Nat /\ cursor <= Len(cloud)
        /\ 1..cursor \subseteq Position
    BY LenProperties DEF RowsFollowLog, TypeOK, Position
  <2>1. /\ \A p \in Position : cloud'[p] = cloud[p]
        /\ Seqs \subseteq Seqs'
        /\ \A i \in Seqs : Own(i)' = Own(i) /\ journal'[i] = journal[i]
    BY LogOnlyGrows
  <2>2. ASSUME row'[m] = row[m], cursor' = cursor
        PROVE  (IsLatest(row[m], m, cursor) \/ Ahead(m))'
    <3>1. CASE IsLatest(row[m], m, cursor)
      <4>1. IsLatest(row[m], m, cursor)'
        <5>1. \A p \in 1..cursor : cloud'[p] = cloud[p]
          BY <2>0, <2>1
        <5> QED BY <2>0, <2>2, <3>1, <5>1 DEF IsLatest
      <4> QED BY <4>1
    <3>2. CASE Ahead(m)
      <4>1. Ahead(m)'
        BY <2>0, <2>1, <2>2, <3>2 DEF Ahead
      <4> QED BY <4>1
    <3> QED BY <2>0, <3>1, <3>2
  <2>3. CASE UNCHANGED <<row, cursor>>
    BY <2>2, <2>3
  <2>4. ASSUME NEW n \in Memory, Edit(n)
        PROVE  (IsLatest(row[m], m, cursor) \/ Ahead(m))'
    <3>1. CASE n # m
      BY <2>2, <2>4, <3>1 DEF Edit, TypeOK
    <3>2. CASE n = m
      <4>0. PICK i \in Nat : i = Len(journal) + 1
        BY <2>0
      <4>1. /\ journal' = Append(journal, m) /\ cloud' = cloud /\ cursor' = cursor
            /\ row'[m] = [mem |-> m, src |-> "own", seq |-> i]
        BY <2>4, <3>2, <4>0 DEF Edit, TypeOK
      <4>2. journal'[i] = m /\ i \in Seqs' /\ i \notin Seqs
        BY <2>0, <4>0, <4>1 DEF Seqs, TypeOK
      <4>3. row'[m] = Own(i)'
        BY <4>1, <4>2 DEF Own
      <4>4. \A p \in 1..cursor : cloud[p] # row'[m]
        <5>1. row'[m].src = "own" /\ row'[m].seq = i
          BY <4>1
        <5> QED BY <2>0, <4>2, <5>1 DEF PushInv, EntriesAreRows
      <4>5. Ahead(m)'
        BY <4>1, <4>2, <4>3, <4>4 DEF Ahead
      <4> QED BY <4>5
    <3> QED BY <3>1, <3>2
  <2>5. ASSUME cursor' = cursor + 1, cursor' \in Position,
               row' = [row EXCEPT ![cloud[cursor'].mem] = cloud[cursor']],
               UNCHANGED <<journal, cloud>>
        PROVE  (IsLatest(row[m], m, cursor) \/ Ahead(m))'
    <3> DEFINE e == cloud[cursor + 1]
    <3>0. e.mem \in Memory
      <4>1. e \in Entry
        BY <2>5, ElementOfSeq DEF TypeOK, Position
      <4> QED BY <4>1 DEF Entry
    <3>1. CASE e.mem = m
      <4>1. row'[m] = e
        BY <2>5, <3>0, <3>1 DEF TypeOK
      <4>2. cursor + 1 \in 1..(cursor + 1) /\ ((cursor + 1) + 1)..(cursor + 1) = {}
        BY <2>0
      <4>3. IsLatest(row[m], m, cursor)'
        BY <2>5, <3>1, <4>1, <4>2 DEF IsLatest
      <4> QED BY <4>3
    <3>2. CASE e.mem # m
      <4>1. row'[m] = row[m]
        BY <2>5, <3>0, <3>2 DEF TypeOK
      <4>2. \A p \in 1..(cursor + 1) : p \in 1..cursor \/ p = cursor + 1
        BY <2>0
      <4>3. CASE IsLatest(row[m], m, cursor)
        <5>1. CASE row[m] = None /\ \A p \in 1..cursor : cloud[p].mem # m
          <6>1. IsLatest(row[m], m, cursor)'
            BY <2>5, <3>2, <4>1, <4>2, <5>1 DEF IsLatest
          <6> QED BY <6>1
        <5>2. ASSUME NEW p \in 1..cursor, cloud[p] = row[m], cloud[p].mem = m,
                     \A q \in (p + 1)..cursor : cloud[q].mem # m
              PROVE  (IsLatest(row[m], m, cursor) \/ Ahead(m))'
          <6>1. p \in 1..(cursor + 1)
            BY <2>0
          <6>2. \A q \in (p + 1)..(cursor + 1) : q \in (p + 1)..cursor \/ q = cursor + 1
            BY <2>0
          <6>3. \A q \in (p + 1)..(cursor + 1) : cloud[q].mem # m
            BY <3>2, <5>2, <6>2
          <6>4. IsLatest(row[m], m, cursor)'
            BY <2>5, <4>1, <5>2, <6>1, <6>3 DEF IsLatest
          <6> QED BY <6>4
        <5> QED BY <4>3, <5>1, <5>2 DEF IsLatest
      <4>4. CASE Ahead(m)
        <5>1. PICK i \in Seqs : /\ row[m] = Own(i) /\ journal[i] = m
                                /\ \A p \in 1..cursor : cloud[p] # Own(i)
          BY <4>4 DEF Ahead
        <5>2. Own(i).mem = m
          BY <5>1 DEF Own
        <5>3. \A p \in 1..(cursor + 1) : cloud[p] # Own(i)
          BY <3>2, <4>2, <5>1, <5>2
        <5>4. Ahead(m)'
          BY <2>1, <2>5, <4>1, <5>1, <5>3 DEF Ahead
        <5> QED BY <5>4
      <4> QED BY <2>0, <4>3, <4>4
    <3> QED BY <3>1, <3>2
  <2> QED BY <2>3, <2>4, <2>5, RowSteps
<1> QED BY <1>1, <1>2, TypeCorrect, PushInvHolds, BehindHolds, PTL DEF Spec

\* Once nothing is left to push or pull, every memory holds what the cloud log
\* says last: two stores that both went quiet agree (pull_remote filters none
\* of the store's own mutations out).
THEOREM QuietStoresAgree == Spec => []ConvergesOnLog
<1>1. TypeOK /\ PushInv /\ RowsFollowLog => ConvergesOnLog
  <2> SUFFICES ASSUME TypeOK, PushInv, RowsFollowLog, Quiet, NEW m \in Memory
               PROVE  IsLatest(row[m], m, Len(cloud))
    BY DEF ConvergesOnLog
  <2>1. cursor = Len(cloud) /\ Seqs \subseteq acked
    BY DEF Quiet, Pending
  <2>2. ~Ahead(m)
    <3> SUFFICES ASSUME NEW i \in Seqs, \A p \in 1..cursor : cloud[p] # Own(i)
                 PROVE  FALSE
      BY DEF Ahead
    <3>1. i \in Stored
      BY <2>1 DEF PushInv
    <3> QED BY <2>1, <3>1 DEF Stored, InCloud, Position
  <2> QED BY <2>1, <2>2 DEF RowsFollowLog
<1> QED BY <1>1, TypeCorrect, PushInvHolds, RowsFollowLogHolds, PTL

-----------------------------------------------------------------------------
(* One cycle at a time and no request that outlives its client: the log    *)
(* ends on the newest edit of every memory.                                *)

PushPhase == {"pushing", "accepted", "ack"}

\* Rows are acknowledged from the front, and a row that reached the cloud but
\* is not acknowledged is among those the next batch takes.
FromTheFront ==
    /\ \A i \in acked : \A j \in 1..(i - 1) : j \in acked
    /\ Stored \ acked \subseteq NextBatch

\* A batch on its way is a front part of what is pending, in order ...
BatchIsFront(w) ==
    /\ AckedBy(w) \subseteq NextBatch
    /\ \A i \in AckedBy(w) : \A j \in Pending : j < i => j \in AckedBy(w)
    /\ \A k, l \in DOMAIN batch[w] : k < l => batch[w][k] < batch[w][l]

\* ... and, until it is served, repeats whatever an answer was lost for.
BatchRepeats(w) == Stored \ acked \subseteq AckedBy(w)

\* An older row that follows a newer one in the log is followed by it again.
NewerFollows ==
    \A p, q \in Position :
        /\ p < q /\ cloud[p].src = "own" /\ cloud[q].src = "own"
        /\ cloud[q].seq < cloud[p].seq
        => \E r \in (q + 1)..Len(cloud) : cloud[r] = cloud[p]

InTurn ==
    /\ late = {}
    /\ FromTheFront
    /\ \A w \in Worker : pc[w] \in PushPhase => BatchIsFront(w)
    /\ \A w \in Worker : pc[w] = "pushing" => BatchRepeats(w)
    /\ NewerFollows

RetryInv == LeaseOutlives /\ ~LateRequests => InTurn

\* A row stays in the next batch when others are journaled behind it.
LEMMA NextBatchGrows ==
    ASSUME NEW m \in Memory, journal \in Seq(Memory), Edit(m)
    PROVE  NextBatch \subseteq NextBatch' /\ Pending \subseteq Pending'
<1>1. /\ Len(journal') = Len(journal) + 1 /\ acked' = acked /\ Len(journal) \in Nat
      /\ journal' \in Seq(Memory)
  BY JournalGrows, LenProperties DEF Edit
<1>2. Pending \subseteq Pending' /\ \A j \in Pending' : j \in Pending \/ j = Len(journal) + 1
  BY <1>1 DEF Pending, Seqs
<1> SUFFICES ASSUME NEW i \in NextBatch PROVE i \in NextBatch'
  BY <1>2
<1>3. i \in Pending /\ i \in 1..Len(journal)
  BY DEF NextBatch, Pending, Seqs
<1>4. {j \in Pending' : j < i} = {j \in Pending : j < i}
  <2>1. ~ (Len(journal) + 1 < i)
    BY <1>1, <1>3
  <2>2. \A j : j \in Pending' /\ j < i <=> j \in Pending /\ j < i
    BY <1>2, <2>1
  <2> QED BY <2>2
<1>5. i \in Pending' /\ Cardinality({j \in Pending' : j < i}) < PushBatch
  BY <1>2, <1>3, <1>4 DEF NextBatch
<1> QED BY <1>5 DEF NextBatch

\* ... and when others are acknowledged.
LEMMA NextBatchMovesOn ==
    ASSUME journal \in Seq(Memory), journal' = journal, acked \subseteq acked',
           NEW i \in NextBatch, i \notin acked'
    PROVE  i \in NextBatch'
<1>1. Pending' \subseteq Pending /\ i \in Pending'
  BY DEF NextBatch, Pending, Seqs
<1> DEFINE Now == {j \in Pending : j < i}
           Then == {j \in Pending' : j < i}
<1>2. Now \in SUBSET Pending /\ Then \in SUBSET Pending /\ Then \in SUBSET Now
  BY <1>1
<1> HIDE DEF Now, Then
<1>3. /\ IsFiniteSet(Now) /\ Cardinality(Now) \in Nat /\ Cardinality(Then) \in Nat
  BY <1>2, PendingFinite
<1>4. Cardinality(Then) <= Cardinality(Now)
  BY <1>2, <1>3, FS_Subset
<1>5. Cardinality(Now) < PushBatch
  BY DEF Now, NextBatch
<1>6. Cardinality(Then) < PushBatch
  BY <1>3, <1>4, <1>5, BatchAssumption
<1> QED BY <1>1, <1>6 DEF Then, NextBatch

\* Rows of a batch are places of a sequence of row numbers.
LEMMA BatchRows ==
    ASSUME TypeOK, NEW w \in Worker
    PROVE  /\ DOMAIN batch[w] = 1..Len(batch[w]) /\ Len(batch[w]) \in Nat
           /\ AckedBy(w) \subseteq Seqs /\ Seqs \subseteq Nat
           /\ \A k \in 1..Len(batch[w]) : batch[w][k] \in AckedBy(w)
<1>1. batch[w] \in Seq(Seqs)
  BY DEF TypeOK
<1>2. DOMAIN batch[w] = 1..Len(batch[w]) /\ Len(batch[w]) \in Nat
  BY <1>1, LenProperties
<1>3. \A k \in 1..Len(batch[w]) : batch[w][k] \in Seqs
  BY <1>1, <1>2, ElementOfSeq
<1>4. Len(journal) \in Nat
  BY LenProperties DEF TypeOK
<1> QED BY <1>2, <1>3, <1>4 DEF AckedBy, Seqs

\* A step that moves no row, entry or batch.
LEMMA InTurnFrame ==
    ASSUME InTurn, UNCHANGED <<journal, cloud, acked, late>>,
           \A v \in Worker : pc'[v] \in PushPhase =>
                               pc[v] \in PushPhase /\ batch'[v] = batch[v],
           \A v \in Worker : pc'[v] = "pushing" => pc[v] = "pushing"
    PROVE  InTurn'
<1>1. /\ Stored' = Stored /\ Pending' = Pending /\ NextBatch' = NextBatch
      /\ Position' = Position
  BY LogFrame DEF Pending, NextBatch, Seqs, Position
<1>2. FromTheFront' /\ NewerFollows' /\ late' = {}
  BY <1>1 DEF InTurn, FromTheFront, NewerFollows
<1>3. ASSUME NEW v \in Worker, pc'[v] \in PushPhase PROVE BatchIsFront(v)'
  <2>1. batch'[v] = batch[v] /\ AckedBy(v)' = AckedBy(v) /\ BatchIsFront(v)
    BY <1>3 DEF InTurn, AckedBy
  <2> QED BY <1>1, <2>1 DEF BatchIsFront
<1>4. ASSUME NEW v \in Worker, pc'[v] = "pushing" PROVE BatchRepeats(v)'
  <2>1. batch'[v] = batch[v] /\ AckedBy(v)' = AckedBy(v) /\ BatchRepeats(v)
    BY <1>4 DEF InTurn, AckedBy, PushPhase
  <2> QED BY <1>1, <2>1 DEF BatchRepeats
<1> QED BY <1>2, <1>3, <1>4 DEF InTurn

\* An edit is journaled behind everything the cloud has.
LEMMA InTurnEdit ==
    ASSUME TypeOK, PushInv, InTurn, NEW m \in Memory, Edit(m)
    PROVE  InTurn'
<1>0. journal \in Seq(Memory) /\ Len(journal) \in Nat /\ Len(cloud) \in Nat
  BY LenProperties DEF TypeOK
<1>1. /\ journal' = Append(journal, m) /\ Seqs \subseteq Seqs'
      /\ \A i \in Seqs : Own(i)' = Own(i)
      /\ Len(journal') = Len(journal) + 1
      /\ UNCHANGED <<cloud, acked, late, pc, batch>>
  BY <1>0, JournalGrows DEF Edit, workerVars
<1>2. NextBatch \subseteq NextBatch' /\ Pending \subseteq Pending'
  BY <1>0, NextBatchGrows
<1>3. Stored' \subseteq Stored
  <2> SUFFICES ASSUME NEW i \in Stored' PROVE i \in Stored
    OBVIOUS
  <2>1. PICK p \in Position : cloud[p] = Own(i)'
    BY <1>1 DEF Stored, InCloud, Position
  <2>2. cloud[p].src = "own" /\ cloud[p].seq = i
    BY <2>1 DEF Own
  <2>3. i \in Seqs /\ cloud[p] = Own(i)
    BY <2>2 DEF PushInv, EntriesAreRows
  <2> QED BY <2>3 DEF Stored, InCloud
<1>4. FromTheFront' /\ NewerFollows' /\ late' = {}
  BY <1>1, <1>2, <1>3 DEF InTurn, FromTheFront, NewerFollows, Position
<1>5. ASSUME NEW v \in Worker, pc'[v] \in PushPhase PROVE BatchIsFront(v)'
  <2>1. AckedBy(v)' = AckedBy(v) /\ BatchIsFront(v)
    BY <1>1, <1>5 DEF InTurn, AckedBy
  <2>2. AckedBy(v) \subseteq Seqs
    BY BatchRows
  <2>3. \A i \in AckedBy(v) : \A j \in Pending' : j < i => j \in Pending
    BY <1>0, <1>1, <2>2 DEF Pending, Seqs
  <2> QED BY <1>1, <1>2, <2>1, <2>3 DEF BatchIsFront
<1>6. ASSUME NEW v \in Worker, pc'[v] = "pushing" PROVE BatchRepeats(v)'
  <2>1. AckedBy(v)' = AckedBy(v) /\ BatchRepeats(v)
    BY <1>1, <1>6 DEF InTurn, AckedBy
  <2> QED BY <1>1, <1>3, <2>1 DEF BatchRepeats
<1> QED BY <1>4, <1>5, <1>6 DEF InTurn

\* Another device's entry leaves the store's own rows where they are.
LEMMA InTurnPeer ==
    ASSUME TypeOK, InTurn, NEW m \in Memory, PeerPush(m)
    PROVE  InTurn'
<1> DEFINE e == [mem |-> m, src |-> "peer", seq |-> Cardinality(PeerEntries) + 1]
<1>0. Len(cloud) \in Nat /\ e \in Entry /\ cloud \in Seq(Entry)
  BY PeerEntriesFinite, LenProperties DEF Entry, TypeOK
<1>1. /\ cloud' = Append(cloud, e) /\ UNCHANGED <<journal, acked, late, pc, batch>>
  BY DEF PeerPush, storeVars, workerVars
<1>2. /\ Len(cloud') = Len(cloud) + 1 /\ cloud'[Len(cloud) + 1] = e
      /\ \A p \in Position : cloud'[p] = cloud[p]
      /\ \A p \in Position' : p \in Position \/ p = Len(cloud) + 1
  BY <1>0, <1>1 DEF Position
<1>3. \A p \in Position' : cloud'[p].src = "own" => p \in Position
  BY <1>2
<1>4. Stored' \subseteq Stored /\ Pending' = Pending /\ NextBatch' = NextBatch
  <2>1. ASSUME NEW i \in Stored' PROVE i \in Stored
    <3>1. PICK p \in Position' : cloud'[p] = Own(i)'
      BY <2>1 DEF Stored, InCloud
    <3>2. Own(i)' = Own(i) /\ Own(i).src = "own"
      BY <1>1 DEF Own
    <3>3. p \in Position /\ cloud[p] = Own(i)
      BY <1>2, <1>3, <3>1, <3>2
    <3> QED BY <1>1, <2>1, <3>3 DEF Stored, InCloud, Seqs
  <2> QED BY <1>1, <2>1 DEF Pending, NextBatch, Seqs
<1>5. NewerFollows'
  <2> SUFFICES ASSUME NEW p \in Position', NEW q \in Position',
                      p < q, cloud'[p].src = "own", cloud'[q].src = "own",
                      cloud'[q].seq < cloud'[p].seq
               PROVE  \E r \in (q + 1)..Len(cloud') : cloud'[r] = cloud'[p]
    BY DEF NewerFollows
  <2>1. /\ p \in Position /\ q \in Position
        /\ cloud'[p] = cloud[p] /\ cloud'[q] = cloud[q]
    BY <1>2, <1>3
  <2>2. PICK r \in (q + 1)..Len(cloud) : cloud[r] = cloud[p]
    BY <2>1 DEF InTurn, NewerFollows
  <2>3. r \in (q + 1)..Len(cloud') /\ r \in Position
    BY <1>0, <1>2, <2>1 DEF Position
  <2> QED BY <1>2, <2>1, <2>2, <2>3
<1>6. \A v \in Worker : AckedBy(v)' = AckedBy(v)
  BY <1>1 DEF AckedBy
<1> QED BY <1>1, <1>4, <1>5, <1>6 DEF InTurn, FromTheFront, BatchIsFront, BatchRepeats

\* A batch is listed from the front and takes in whatever an answer was lost for.
LEMMA InTurnSend ==
    ASSUME TypeOK, InTurn, NEW w \in Worker, SendBatch(w)
    PROVE  InTurn'
<1>1. PICK b \in InOrder(NextBatch) : batch' = [batch EXCEPT ![w] = b]
  BY DEF SendBatch
<1>2. /\ UNCHANGED <<journal, cloud, acked, late>>
      /\ pc' = [pc EXCEPT ![w] = "pushing"]
  BY DEF SendBatch, Goto, storeVars
<1>3. /\ Stored' = Stored /\ Pending' = Pending /\ NextBatch' = NextBatch
      /\ Position' = Position
  BY <1>2, LogFrame DEF Pending, NextBatch, Seqs, Position
<1>4. /\ \A k \in DOMAIN b : b[k] \in NextBatch
      /\ \A i \in NextBatch : \E k \in DOMAIN b : b[k] = i
      /\ \A k, l \in DOMAIN b : k < l => b[k] < b[l]
  BY BatchInOrder DEF TypeOK
<1>5. batch'[w] = b /\ AckedBy(w)' = NextBatch
  <2>1. batch'[w] = b
    BY <1>1 DEF TypeOK
  <2> QED BY <1>4, <2>1 DEF AckedBy
<1>6. FromTheFront' /\ NewerFollows' /\ late' = {}
  BY <1>2, <1>3 DEF InTurn, FromTheFront, NewerFollows
<1>7. BatchIsFront(w)'
  <2>1. \A i \in NextBatch : \A j \in Pending : j < i => j \in NextBatch
    BY NextBatchClosed DEF TypeOK
  <2> QED BY <1>3, <1>4, <1>5, <2>1 DEF BatchIsFront
<1>8. BatchRepeats(w)'
  BY <1>2, <1>3, <1>5 DEF InTurn, FromTheFront, BatchRepeats
<1>9. ASSUME NEW v \in Worker, v # w
      PROVE  /\ pc'[v] \in PushPhase => BatchIsFront(v)'
             /\ pc'[v] = "pushing" => BatchRepeats(v)'
  <2>1. pc'[v] = pc[v] /\ batch'[v] = batch[v] /\ AckedBy(v)' = AckedBy(v)
    BY <1>1, <1>2, <1>9 DEF TypeOK, AckedBy
  <2>2. /\ pc'[v] \in PushPhase => BatchIsFront(v)
        /\ pc'[v] = "pushing" => BatchRepeats(v)
    BY <2>1 DEF InTurn
  <2> QED BY <1>2, <1>3, <2>1, <2>2 DEF BatchIsFront, BatchRepeats
<1> QED BY <1>6, <1>7, <1>8, <1>9 DEF InTurn

\* Whoever is between a listing and its acknowledgement is alone in a cycle.
LEMMA OnlyPusher ==
    ASSUME OneCycle, LeaseOutlives, NEW w \in Worker, NEW v \in Worker, v # w,
           pc[w] \in PushPhase
    PROVE  pc[v] \notin PushPhase
BY DEF OneCycle, PushPhase, InCycle

\* The server takes a batch in behind everything it repeats.
LEMMA InTurnAccepts ==
    ASSUME TypeOK, PushInv, OneCycle, LeaseOutlives, InTurn,
           NEW w \in Worker, CloudAccepts(w)
    PROVE  InTurn'
<1> DEFINE b == batch[w]
<1>0. /\ b \in Seq(Seqs) /\ Len(cloud) \in Nat /\ Len(b) \in Nat
      /\ DOMAIN b = 1..Len(b) /\ \A k \in 1..Len(b) : b[k] \in Seqs
      /\ AckedBy(w) \subseteq Seqs /\ Seqs \subseteq Nat
      /\ \A k \in 1..Len(b) : b[k] \in AckedBy(w)
  BY BatchRows, LenProperties DEF TypeOK
<1>1. /\ cloud' = cloud \o Entries(b) /\ UNCHANGED <<journal, acked, late, batch>>
      /\ pc' = [pc EXCEPT ![w] = "accepted"] /\ pc[w] = "pushing"
  BY DEF CloudAccepts, Goto, storeVars
<1>2. /\ Len(cloud') = Len(cloud) + Len(b)
      /\ \A p \in 1..Len(cloud) : cloud'[p] = cloud[p]
      /\ \A k \in 1..Len(b) : cloud'[Len(cloud) + k] = Own(b[k])
  BY <1>0, <1>1, CloudGrows DEF TypeOK
<1>3. BatchIsFront(w) /\ BatchRepeats(w) /\ FromTheFront
  BY <1>1 DEF InTurn, PushPhase
<1>4. ASSUME NEW p \in Position', p \notin Position
      PROVE  \E k \in 1..Len(b) : p = Len(cloud) + k
  <2>1. p - Len(cloud) \in 1..Len(b) /\ p = Len(cloud) + (p - Len(cloud))
    BY <1>0, <1>2, <1>4 DEF Position
  <2> QED BY <2>1
<1>5. /\ Pending' = Pending /\ NextBatch' = NextBatch /\ Seqs' = Seqs
      /\ \A i : Own(i)' = Own(i)
      /\ \A v \in Worker : AckedBy(v)' = AckedBy(v)
  BY <1>1 DEF Pending, NextBatch, Seqs, Own, AckedBy
<1>6. ASSUME NEW i \in Stored' PROVE i \in Stored \/ i \in AckedBy(w)
  <2>1. PICK p \in Position' : cloud'[p] = Own(i)
    BY <1>5, <1>6 DEF Stored, InCloud
  <2>2. CASE p \in Position
    BY <1>2, <1>5, <1>6, <2>1, <2>2 DEF Stored, InCloud, Position
  <2>3. CASE p \notin Position
    <3>1. PICK k \in 1..Len(b) : p = Len(cloud) + k
      BY <1>4, <2>3
    <3>2. Own(i) = Own(b[k])
      BY <1>2, <2>1, <3>1
    <3>3. i = b[k]
      BY <3>2 DEF Own
    <3> QED BY <1>0, <3>1, <3>3
  <2> QED BY <2>2, <2>3
<1>7. FromTheFront'
  <2>1. Stored' \ acked \subseteq NextBatch
    BY <1>3, <1>6 DEF FromTheFront, BatchIsFront
  <2> QED BY <1>1, <1>3, <1>5, <2>1 DEF FromTheFront
<1>8. ASSUME NEW v \in Worker
      PROVE  /\ pc'[v] \in PushPhase => BatchIsFront(v)'
             /\ pc'[v] # "pushing"
  <2>1. BatchIsFront(v) => BatchIsFront(v)'
    BY <1>1, <1>5 DEF BatchIsFront
  <2>2. CASE v = w
    BY <1>1, <1>3, <2>1, <2>2 DEF TypeOK
  <2>3. CASE v # w
    <3>1. pc'[v] = pc[v] /\ pc[v] \notin PushPhase
      BY <1>1, <2>3, OnlyPusher DEF TypeOK, PushPhase
    <3> QED BY <3>1 DEF PushPhase
  <2> QED BY <2>2, <2>3
<1>9. NewerFollows'
  <2> SUFFICES ASSUME NEW p \in Position', NEW q \in Position',
                      p < q, cloud'[p].src = "own", cloud'[q].src = "own",
                      cloud'[q].seq < cloud'[p].seq
               PROVE  \E r \in (q + 1)..Len(cloud') : cloud'[r] = cloud'[p]
    BY DEF NewerFollows
  <2>0. p \in Nat /\ q \in Nat
    BY DEF Position
  <2>1. CASE q \in Position
    <3>1. p \in Position
      BY <1>0, <2>0, <2>1 DEF Position
    <3>2. cloud'[p] = cloud[p] /\ cloud'[q] = cloud[q]
      BY <1>2, <2>1, <3>1 DEF Position
    <3>3. PICK r \in (q + 1)..Len(cloud) : cloud[r] = cloud[p]
      BY <2>1, <3>1, <3>2 DEF InTurn, NewerFollows
    <3>4. r \in (q + 1)..Len(cloud') /\ r \in 1..Len(cloud)
      BY <1>0, <1>2, <2>0
    <3> QED BY <1>2, <3>2, <3>3, <3>4
  <2>2. CASE q \notin Position
    <3>1. PICK k \in 1..Len(b) : q = Len(cloud) + k
      BY <1>4, <2>2
    <3>2. cloud'[q] = Own(b[k]) /\ cloud'[q].seq = b[k] /\ b[k] \in Seqs
      BY <1>0, <1>2, <3>1 DEF Own
    <3>3. CASE p \in Position
      <4>1. cloud'[p] = cloud[p] /\ cloud[p].src = "own"
        BY <1>2, <3>3 DEF Position
      <4>2. PICK s \in Seqs : s = cloud[p].seq /\ cloud[p] = Own(s)
        BY <3>3, <4>1 DEF PushInv, EntriesAreRows
      <4>3. s \in Stored /\ b[k] < s
        BY <3>2, <3>3, <4>1, <4>2 DEF Stored, InCloud
      <4>4. s \notin acked
        <5>1. b[k] \notin acked
          BY <1>0, <1>3 DEF BatchIsFront, NextBatch, Pending
        <5>2. b[k] \in 1..(s - 1)
          BY <3>2, <4>2, <4>3 DEF Seqs
        <5> QED BY <1>3, <5>1, <5>2 DEF FromTheFront
      <4>5. PICK l \in 1..Len(b) : b[l] = s
        BY <1>0, <1>3, <4>3, <4>4 DEF BatchRepeats, AckedBy
      <4>6. l > k
        <5>1. ~ (l < k)
          <6>1. l < k => b[l] < b[k]
            BY <1>0, <1>3, <4>5 DEF BatchIsFront
          <6>2. b[l] \in Nat /\ b[k] \in Nat /\ b[k] < b[l]
            BY <1>0, <4>3, <4>5
          <6> QED BY <6>1, <6>2
        <5>2. l # k
          BY <1>0, <4>3, <4>5
        <5> QED BY <5>1, <5>2
      <4>7. Len(cloud) + l \in (q + 1)..Len(cloud')
        BY <1>0, <1>2, <3>1, <4>6
      <4> QED BY <1>2, <4>1, <4>2, <4>5, <4>7
    <3>4. CASE p \notin Position
      <4>1. PICK j \in 1..Len(b) : p = Len(cloud) + j
        BY <1>4, <3>4
      <4>2. cloud'[p] = Own(b[j]) /\ Own(b[j]).seq = b[j]
        BY <1>2, <4>1 DEF Own
      <4>3. j < k
        BY <1>0, <3>1, <4>1
      <4>4. b[j] < b[k]
        BY <1>0, <1>3, <4>3 DEF BatchIsFront
      <4>5. b[j] \in Nat /\ b[k] \in Nat /\ b[k] < b[j]
        BY <1>0, <3>2, <4>2
      <4> QED BY <4>4, <4>5
    <3> QED BY <3>3, <3>4
  <2> QED BY <2>1, <2>2
<1> QED BY <1>1, <1>7, <1>8, <1>9 DEF InTurn

\* Acknowledging a front part leaves a front part.
LEMMA InTurnAck ==
    ASSUME TypeOK, OneCycle, LeaseOutlives, InTurn, NEW w \in Worker, AckBatch(w)
    PROVE  InTurn'
<1>1. /\ acked' = acked \cup AckedBy(w) /\ UNCHANGED <<journal, cloud, late>>
      /\ pc[w] = "ack" /\ pc'[w] \in {"pull", "push"}
      /\ \A v \in Worker : v # w => pc'[v] = pc[v]
  BY DEF AckBatch, Goto, TypeOK
<1>2. BatchIsFront(w) /\ FromTheFront
  BY <1>1 DEF InTurn, PushPhase
<1>3. /\ Stored' = Stored /\ Position' = Position
      /\ AckedBy(w) \subseteq Seqs /\ Len(journal) \in Nat
  BY <1>1, LogFrame, BatchRows, LenProperties DEF Position, TypeOK
<1>4. \A i \in acked' : \A j \in 1..(i - 1) : j \in acked'
  <2> SUFFICES ASSUME NEW i \in AckedBy(w), NEW j \in 1..(i - 1), j \notin acked
               PROVE  j \in AckedBy(w)
    BY <1>1, <1>2 DEF FromTheFront
  <2>1. j \in Pending /\ j < i
    BY <1>3 DEF Pending, Seqs
  <2> QED BY <1>2, <2>1 DEF BatchIsFront
<1>5. Stored' \ acked' \subseteq NextBatch'
  <2> SUFFICES ASSUME NEW i \in Stored, i \notin acked' PROVE i \in NextBatch'
    BY <1>3
  <2>1. i \in NextBatch
    BY <1>1, <1>2 DEF FromTheFront
  <2> QED BY <1>1, <2>1, NextBatchMovesOn DEF TypeOK
<1>6. \A v \in Worker : pc'[v] \notin PushPhase
  BY <1>1, OnlyPusher DEF PushPhase
<1>7. NewerFollows'
  BY <1>1, <1>3 DEF InTurn, NewerFollows
<1> QED BY <1>1, <1>4, <1>5, <1>6, <1>7 DEF InTurn, FromTheFront, PushPhase

\* With one cycle at a time and no request that arrives late, every retry
\* repeats what it puts older rows behind (push_pending).
LEMMA RetryInvHolds == Spec => []RetryInv
<1>1. Init => RetryInv
  <2> SUFFICES ASSUME Init PROVE InTurn
    BY DEF RetryInv
  <2>1. Position = {} /\ Stored = {} /\ acked = {} /\ late = {}
    BY EmptySeq DEF Init, Position, Stored, InCloud
  <2>2. \A w \in Worker : pc[w] \notin PushPhase /\ pc[w] # "pushing"
    BY DEF Init, PushPhase
  <2> QED BY <2>1, <2>2 DEF InTurn, FromTheFront, NewerFollows
<1>2. TypeOK /\ PushInv /\ OneCycle /\ RetryInv /\ [Next]_vars => RetryInv'
  <2> SUFFICES ASSUME TypeOK, PushInv, OneCycle, LeaseOutlives, ~LateRequests,
                      InTurn, [Next]_vars
               PROVE  InTurn'
    BY DEF RetryInv
  <2> USE DEF Goto, storeVars, leaseVars, workerVars
  <2>1. ASSUME NEW w \in Worker,
               ReadState(w) \/ AcquireLease(w) \/ LeaseRefused(w) \/ NothingToPush(w)
               \/ ResponseArrives(w) \/ ReadCursor(w) \/ PageArrives(w) \/ ApplyNext(w)
        PROVE  InTurn'
    BY <2>1, InTurnFrame
    DEF ReadState, AcquireLease, LeaseRefused, NothingToPush, ResponseArrives, ReadCursor,
        PageArrives, ApplyNext, TypeOK, PushPhase
  <2>2. ASSUME NEW w \in Worker,
               PageDone(w) \/ ReleaseLease(w) \/ MarkOutcome(w) \/ ReleaseFails(w)
               \/ StoreCallFails(w)
        PROVE  InTurn'
    BY <2>2, InTurnFrame
    DEF PageDone, Forget, ReleaseLease, MarkOutcome, ReleaseFails, StoreCallFails, TypeOK,
        PushPhase
  <2>3. ASSUME NEW w \in Worker, CycleFails(w) \/ Shutdown(w) \/ Crash(w)
        PROVE  InTurn'
    BY <2>3, InTurnFrame
    DEF CycleFails, Shutdown, Crash, Abandon, Forget, TypeOK, PushPhase
  <2>4. CASE LeaseExpires \/ BackoffElapses \/ UNCHANGED vars
    BY <2>4, InTurnFrame DEF LeaseExpires, BackoffElapses, vars
  <2>5. late = {}
    BY DEF InTurn
  <2> QED
    BY NextActions, <2>1, <2>2, <2>3, <2>4, <2>5, InTurnEdit, InTurnPeer, InTurnSend,
       InTurnAccepts, InTurnAck
<1> QED BY <1>1, <1>2, TypeCorrect, PushInvHolds, OneCycleAtATime, PTL DEF Spec

\* A quiet store nobody else writes to holds its newest edit of every memory,
\* while leases outlive cycles and requests die with their clients: a retry
\* never leaves an older edit as the log's last word (push_pending).
THEOREM NewestEditIsKept == Spec => []NewestEditSurvives
<1>1. TypeOK /\ PushInv /\ RetryInv /\ ConvergesOnLog => NewestEditSurvives
  <2> SUFFICES ASSUME TypeOK, PushInv, InTurn, ConvergesOnLog, Quiet, PeerEntries = {},
                      NEW i \in Seqs
               PROVE  row[journal[i]] # None /\ row[journal[i]].seq >= i
    BY DEF NewestEditSurvives, RetryInv
  <2> DEFINE m == journal[i]
  <2>0. m \in Memory /\ Len(cloud) \in Nat /\ i \in Nat
    BY ElementOfSeq, LenProperties DEF TypeOK, Seqs
  <2>1. PICK p \in Position : cloud[p] = Own(i)
    <3>1. i \in Stored
      BY DEF Quiet, Pending, PushInv
    <3> QED BY <3>1 DEF Stored, InCloud
  <2>2. cloud[p].mem = m /\ cloud[p].src = "own" /\ cloud[p].seq = i
    BY <2>1 DEF Own
  <2>3. PICK q \in Position : /\ cloud[q] = row[m] /\ cloud[q].mem = m
                              /\ \A r \in (q + 1)..Len(cloud) : cloud[r].mem # m
    BY <2>0, <2>1, <2>2 DEF ConvergesOnLog, IsLatest, Position
  <2>4. cloud[q] \in Entry
    BY <2>3, ElementOfSeq DEF TypeOK, Position
  <2>5. cloud[q].src = "own" /\ cloud[q].seq \in Nat
    <3>1. cloud[q].src # "peer"
      BY DEF PeerEntries, Position
    <3> QED BY <2>4, <3>1 DEF Entry
  <2>6. row[m] # None
    BY <2>3, <2>4, NoVersionAssumption
  <2>7. ~ (cloud[q].seq < i)
    <3> SUFFICES ASSUME cloud[q].seq < i PROVE FALSE
      OBVIOUS
    <3>1. ~ (q < p)
      BY <2>0, <2>2, <2>3 DEF Position
    <3>2. p < q
      BY <2>2, <2>5, <3>1 DEF Position
    <3>3. PICK r \in (q + 1)..Len(cloud) : cloud[r] = cloud[p]
      BY <2>2, <2>5, <3>2 DEF InTurn, NewerFollows
    <3> QED BY <2>2, <2>3, <3>3
  <2> QED BY <2>0, <2>3, <2>5, <2>6, <2>7
<1> QED BY <1>1, TypeCorrect, PushInvHolds, RetryInvHolds, QuietStoresAgree, PTL

-----------------------------------------------------------------------------
(* Replication implements Delivery.                                        *)

\* However a batch reaches the cloud, its rows follow the earlier ones.
LEMMA DeliverStep ==
    ASSUME TypeOK, PushInv, NEW b \in Seq(Seqs), Causal(b, Stored),
           cloud' = cloud \o Entries(b), UNCHANGED <<journal, acked, cursor, row>>
    PROVE  Promise!Deliver
<1>1. /\ Len(cloud') = Len(cloud) + Len(b)
      /\ \A p \in 1..Len(cloud) : cloud'[p] = cloud[p]
      /\ \A k \in 1..Len(b) : cloud'[Len(cloud) + k] = Own(b[k])
  BY CloudGrows DEF TypeOK
<1>2. /\ Len(cloud) \in Nat /\ Len(b) \in Nat
      /\ \A k \in 1..Len(b) : b[k] \in 1..Len(journal)
  BY LenProperties, ElementOfSeq DEF TypeOK, Seqs
<1>3. CausalDelivery' /\ Len(cloud') >= Len(cloud)
  BY <1>1, <1>2, Receive
<1>4. ASSUME NEW p \in (Len(cloud) + 1)..Len(cloud')
      PROVE  \E i \in 1..Len(journal) :
               /\ cloud'[p] = Own(i)
               /\ \A j \in 1..(i - 1) : \E q \in 1..(p - 1) : cloud'[q] = Own(j)
  <2>1. p - Len(cloud) \in 1..Len(b) /\ p = Len(cloud) + (p - Len(cloud))
    BY <1>1, <1>2
  <2>2. PICK k \in 1..Len(b) : p = Len(cloud) + k
    BY <2>1
  <2>3. cloud'[p] = Own(b[k]) /\ b[k] \in 1..Len(journal)
    BY <1>1, <1>2, <2>2
  <2>4. cloud'[p].src = "own" /\ cloud'[p].seq = b[k] /\ p \in Position'
    BY <1>2, <2>3 DEF Own, Position
  <2>5. \A j \in 1..(b[k] - 1) : \E q \in 1..(p - 1) : cloud'[q] = Own(j)
    <3>1. \A j \in 1..(b[k] - 1) : \E q \in 1..(p - 1) : cloud'[q] = Own(j)'
      BY <1>3, <2>4 DEF CausalDelivery
    <3>2. \A j : Own(j)' = Own(j) BY DEF Own
    <3> QED BY <3>1, <3>2
  <2> QED BY <2>3, <2>5
<1>5. \A i : Promise!Own(i) = Own(i)
  BY DEF Promise!Own, Own
<1>6. \A p \in (Len(cloud) + 1)..Len(cloud') : \E i \in 1..Len(journal) :
        /\ cloud'[p] = Promise!Own(i)
        /\ \A j \in 1..(i - 1) : \E q \in 1..(p - 1) : cloud'[q] = Promise!Own(j)
  <2> SUFFICES ASSUME NEW p \in (Len(cloud) + 1)..Len(cloud')
               PROVE  \E i \in 1..Len(journal) :
                        /\ cloud'[p] = Promise!Own(i)
                        /\ \A j \in 1..(i - 1) : \E q \in 1..(p - 1) : cloud'[q] = Promise!Own(j)
    OBVIOUS
  <2>1. PICK i \in 1..Len(journal) :
          /\ cloud'[p] = Own(i)
          /\ \A j \in 1..(i - 1) : \E q \in 1..(p - 1) : cloud'[q] = Own(j)
    BY <1>4
  <2> QED BY <1>5, <2>1
<1> QED BY <1>1, <1>3, <1>6 DEF Promise!Deliver

\* With its workers, leases, requests and faults hidden, replication does only
\* what Delivery allows: rows reach the cloud in order, are confirmed when they
\* are there, and the log is applied entry by entry (run_cycle).
THEOREM PromiseKept == Spec => KeepsPromise
<1>1. Init => Promise!Init
  BY DEF Init, Promise!Init
<1>2. TypeOK /\ PushInv /\ Behind /\ [Next]_vars => [Promise!Next]_(Promise!vars)
  <2> SUFFICES ASSUME TypeOK, PushInv, Behind, [Next]_vars
               PROVE  Promise!Next \/ UNCHANGED <<journal, cloud, acked, cursor, row>>
    BY DEF Promise!vars
  <2> USE DEF storeVars, leaseVars, workerVars
  <2>0. /\ \A w \in Worker : batch[w] \in Seq(Seqs) /\ Causal(batch[w], Stored)
        /\ \A r \in late : r.entries \in Seq(Seqs) /\ Causal(r.entries, Stored)
    BY DEF PushInv, RequestsCausal, TypeOK
  <2>1. ASSUME NEW m \in Memory, Edit(m) PROVE Promise!Write(m)
    BY <2>1 DEF Edit, Promise!Write
  <2>2. ASSUME NEW m \in Memory, PeerPush(m) PROVE Promise!Receive(m)
    <3> DEFINE k == Cardinality(PeerEntries) + 1
    <3>1. k \in 1..(Len(cloud) + 1)
      <4>0. Len(cloud) \in Nat
        BY LenProperties DEF TypeOK
      <4>n. PICK n \in Nat : n = Len(cloud)
        BY <4>0
      <4>i. IsFiniteSet(1..n) /\ Cardinality(1..n) = IF 1 > n THEN 0 ELSE n - 1 + 1
        BY FS_Interval
      <4>1. IsFiniteSet(1..Len(cloud)) /\ Cardinality(1..Len(cloud)) = Len(cloud)
        BY <4>n, <4>i
      <4>2. PeerEntries \in SUBSET (1..Len(cloud))
        BY DEF PeerEntries
      <4>3. Cardinality(PeerEntries) <= Len(cloud)
        BY <4>1, <4>2, FS_Subset
      <4> QED BY <4>0, <4>3, PeerEntriesFinite DEF TypeOK
    <3>2. cloud' = Append(cloud, [mem |-> m, src |-> "peer", seq |-> k])
      BY <2>2 DEF PeerPush
    <3> QED BY <2>2, <3>1, <3>2 DEF PeerPush, Promise!Receive
  <2>3. ASSUME NEW w \in Worker, CloudAccepts(w) PROVE Promise!Deliver
    BY <2>0, <2>3, DeliverStep DEF CloudAccepts
  <2>4. ASSUME NEW r \in late, LateArrival(r) PROVE Promise!Deliver
    BY <2>0, <2>4, DeliverStep DEF LateArrival
  <2>5. ASSUME NEW w \in Worker, AckBatch(w) PROVE Promise!Confirm
    <3>1. acked' \subseteq Stored
      <4>1. AckedBy(w) \subseteq Stored
        BY <2>5, LenProperties DEF AckBatch, AckedBy, TypeOK, PushInv, AnsweredStored
      <4> QED BY <2>5, <4>1 DEF AckBatch, PushInv
    <3>2. \A i \in acked' : \E p \in 1..Len(cloud) : cloud[p] = Promise!Own(i)
      BY <3>1 DEF Stored, InCloud, Position, Own, Promise!Own
    <3> QED BY <2>5, <3>2 DEF AckBatch, Promise!Confirm
  <2>6. ASSUME NEW w \in Worker, ApplyNext(w)
        PROVE  Promise!Apply \/ UNCHANGED <<journal, cloud, acked, cursor, row>>
    <3>1. UNCHANGED <<journal, cloud, acked>>
      BY <2>6 DEF ApplyNext
    <3>2. CASE UNCHANGED <<row, cursor>>
      BY <3>1, <3>2
    <3>3. CASE /\ cursor' = cursor + 1
               /\ cursor' \in Position
               /\ row' = [row EXCEPT ![cloud[cursor'].mem] = cloud[cursor']]
      <4>1. cursor < Len(cloud)
        BY <3>3, LenProperties DEF Position, TypeOK
      <4> QED BY <3>1, <3>3, <4>1 DEF Promise!Apply
    <3>4. ASSUME NEW m \in Memory PROVE ~Edit(m)
      <4>1. Edit(m) => Len(journal') = Len(journal) + 1
        BY JournalGrows DEF Edit, TypeOK
      <4> QED BY <3>1, <4>1, LenProperties DEF TypeOK
    <3> QED BY <3>2, <3>3, <3>4, RowSteps
  <2>7. ASSUME NEW w \in Worker,
               ReadState(w) \/ AcquireLease(w) \/ LeaseRefused(w) \/ NothingToPush(w)
               \/ SendBatch(w) \/ ResponseArrives(w)
               \/ ReadCursor(w) \/ PageArrives(w) \/ PageDone(w)
        PROVE  UNCHANGED <<journal, cloud, acked, cursor, row>>
    BY <2>7 DEF ReadState, AcquireLease, LeaseRefused, NothingToPush, SendBatch,
                ResponseArrives, ReadCursor, PageArrives, PageDone
  <2>8. ASSUME NEW w \in Worker,
               ReleaseLease(w) \/ MarkOutcome(w) \/ CycleFails(w) \/ ReleaseFails(w)
               \/ StoreCallFails(w) \/ Shutdown(w) \/ Crash(w)
        PROVE  UNCHANGED <<journal, cloud, acked, cursor, row>>
    BY <2>8 DEF ReleaseLease, MarkOutcome, CycleFails, ReleaseFails, StoreCallFails,
                Shutdown, Crash
  <2>9. CASE LeaseExpires \/ BackoffElapses \/ UNCHANGED vars
    BY <2>9 DEF LeaseExpires, BackoffElapses, vars
  <2> QED BY NextActions, <2>1, <2>2, <2>3, <2>4, <2>5, <2>6, <2>7, <2>8, <2>9
          DEF Promise!Next
<1> QED BY <1>1, <1>2, TypeCorrect, PushInvHolds, BehindHolds, PTL
        DEF Spec, KeepsPromise, Promise!Spec

=============================================================================
