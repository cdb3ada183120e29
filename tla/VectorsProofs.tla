---------------------------- MODULE VectorsProofs ---------------------------
(***************************************************************************)
(* Proofs about Vectors, for any memories, texts and bounds: its types and *)
(* that a vector that counts as current is of the memory's text.           *)
(*                                                                         *)
(* Texts that never come back are written in ascending order, so the proof *)
(* follows that order: what a worker read first is no later than what it   *)
(* reads next, and neither is later than what the memory says now.         *)
(***************************************************************************)
EXTENDS Vectors, FiniteSetTheorems, TLAPS

Found == [mem : Memory, key : Text]
Read == [mem : Memory, key : Text, of : Text]

\* There are finitely many memories; None is nothing else.
Assumptions ==
    /\ IsFiniteSet(Memory) /\ Memory \subseteq Nat /\ Text \subseteq Nat
    /\ MaxEdits \in Nat /\ MaxBusy \in Nat
    /\ None \notin Memory \cup Text \cup Stored \cup Read

-----------------------------------------------------------------------------
(* Types.                                                                  *)

LEMMA StaleAnyTyped ==
    ASSUME Assumptions, TypeOK, NEW found \in StaleAny
    PROVE  [i \in DOMAIN found |-> [mem |-> found[i], key |-> text[found[i]]]] \in Seq(Found)
<1> DEFINE S == {m \in Memory : IsStale(m)
                   /\ Cardinality({n \in Memory : n >= m /\ IsStale(n)}) <= Budget}
           q == [i \in DOMAIN found |-> [mem |-> found[i], key |-> text[found[i]]]]
<1>1. found \in SetToSeqs(S) BY DEF StaleAny
<1>2. Cardinality(S) \in Nat
  BY FS_Subset, FS_CardinalityType DEF Assumptions
<1>3. found \in [1..Cardinality(S) -> S] BY <1>1 DEF SetToSeqs
<1>4. \A m \in S : m \in Memory /\ text[m] \in Text BY DEF IsStale, TypeOK
<1>5. q \in [1..Cardinality(S) -> Found]
  <2> HIDE DEF S
  <2>1. DOMAIN found = 1..Cardinality(S) BY <1>3
  <2>2. \A i \in 1..Cardinality(S) : found[i] \in S BY <1>3
  <2>3. QED BY <1>4, <2>1, <2>2 DEF Found
<1>6. QED
  <2> HIDE DEF S, q
  <2>1. q \in Seq(Found) BY <1>2, <1>5, SMT
  <2>2. QED BY <2>1 DEF q

LEMMA TypeStep == ASSUME Assumptions, TypeOK, [Next]_vars PROVE TypeOK'
<1> USE DEF TypeOK
<1>1. CASE UNCHANGED vars BY <1>1 DEF vars, rows, model, job
<1>2. ASSUME NEW m \in Memory, NEW t \in Text, Writes(m, t)
      PROVE  /\ text' \in [Memory -> Text \cup {None}] /\ edits' \in 0..MaxEdits
             /\ UNCHANGED <<visible, vector>>
  BY <1>2 DEF Writes, Edited, Assumptions
<1>3. ASSUME NEW m \in Memory, NEW t \in Text, Save(m, t) PROVE TypeOK'
  BY <1>2, <1>3 DEF Save, model
<1>4. ASSUME NEW m \in Memory, NEW t \in Text, Pulled(m, t) PROVE TypeOK'
  BY <1>2, <1>4 DEF Pulled, model, job
<1>5. ASSUME NEW m \in Memory, Leave(m) PROVE TypeOK'
  <2>1. edits' \in 0..MaxEdits BY <1>5 DEF Leave, Edited, Assumptions
  <2>2. /\ text' \in [Memory -> Text \cup {None}]
        /\ visible' \in [Memory -> BOOLEAN]
        /\ vector' \in [Memory -> Stored \cup {None}]
    <3>1. CASE text' = [text EXCEPT ![m] = None] /\ vector' = [vector EXCEPT ![m] = None]
               /\ UNCHANGED visible
      BY <3>1
    <3>2. CASE visible' = [visible EXCEPT ![m] = FALSE] /\ UNCHANGED <<text, vector>>
      BY <3>2
    <3>3. QED BY <1>5, <3>1, <3>2 DEF Leave
  <2>3. QED BY <1>5, <2>1, <2>2 DEF Leave, model, job
<1>6. CASE Install \/ Search
  BY <1>6 DEF Install, Search, rows, job
<1>7. CASE ListWritten
  <2>1. wrote \in Memory BY <1>7 DEF ListWritten
  <2>2. IsStale(wrote) => <<[mem |-> wrote, key |-> text[wrote]]>> \in Seq(Found)
    <3>1. IsStale(wrote) => [mem |-> wrote, key |-> text[wrote]] \in Found
      BY <2>1 DEF IsStale, Found
    <3>2. QED BY <3>1
  <2>3. <<>> \in Seq(Found) OBVIOUS
  <2>4. stale' \in [Worker -> Seq(Found)]
    BY <1>7, <2>2, <2>3 DEF ListWritten, Found
  <2>5. QED BY <1>7, <2>4 DEF ListWritten, rows, Found
<1>8. CASE ListStale
  <2>1. stale' \in [Worker -> Seq(Found)]
    BY <1>8, StaleAnyTyped DEF ListStale, Found
  <2>2. QED BY <1>8, <2>1 DEF ListStale, rows, model, Found
<1>9. ASSUME NEW w \in Worker, ReadText(w) PROVE TypeOK'
  <2>1. stale[w] \in Seq(Found) /\ stale[w] # <<>> BY <1>9 DEF ReadText, Found
  <2>2. Head(stale[w]) \in Found /\ Tail(stale[w]) \in Seq(Found) BY <2>1
  <2>3. stale' \in [Worker -> Seq(Found)]
    BY <1>9, <2>2 DEF ReadText, Found
  <2>4. batch' \in [Worker -> Read \cup {None}]
    <3>1. text[Head(stale[w]).mem] # None =>
            [mem |-> Head(stale[w]).mem, key |-> Head(stale[w]).key,
             of |-> text[Head(stale[w]).mem]] \in Read
      BY <2>2 DEF Found, Read
    <3>2. QED BY <1>9, <3>1 DEF ReadText, Read
  <2>5. QED BY <1>9, <2>3, <2>4 DEF ReadText, rows, model, Found, Read
<1>10. ASSUME NEW w \in Worker, KeepVector(w) PROVE TypeOK'
  <2>1. batch[w] \in Read BY <1>10 DEF KeepVector, Read
  <2>2. [key |-> KeptKey(batch[w]), of |-> batch[w].of] \in Stored
    BY <2>1 DEF Stored, KeptKey, Read
  <2>3. vector' \in [Memory -> Stored \cup {None}] BY <1>10, <2>2 DEF KeepVector
  <2>4. QED BY <1>10, <2>3 DEF KeepVector, model
<1>11. ASSUME NEW w \in Worker, GiveUp(w) PROVE TypeOK'
  <2>1. busy' \in 0..MaxBusy BY <1>11 DEF GiveUp, Assumptions
  <2>2. stale' \in [Worker -> Seq(Found)]
    <3>1. <<>> \in Seq(Found) OBVIOUS
    <3>2. QED BY <1>11, <3>1 DEF GiveUp, Found
  <2>3. batch' \in [Worker -> Read \cup {None}] BY <1>11 DEF GiveUp, Read
  <2>4. QED BY <1>11, <2>1, <2>2, <2>3 DEF GiveUp, rows, model, Found, Read
<1>12. QED
  BY <1>1, <1>3, <1>4, <1>5, <1>6, <1>7, <1>8, <1>9, <1>10, <1>11 DEF Next, Work

LEMMA InitTyped == ASSUME Assumptions PROVE Init => TypeOK
<1> SUFFICES ASSUME Init PROVE TypeOK OBVIOUS
<1>1. stale \in [Worker -> Seq(Found)]
  <2>1. <<>> \in Seq(Found) OBVIOUS
  <2>2. QED BY <2>1 DEF Init
<1>2. toxic \in SUBSET Text BY DEF Init
<1>3. edits \in 0..MaxEdits /\ busy \in 0..MaxBusy BY DEF Init, Assumptions
<1>4. QED BY <1>1, <1>2, <1>3 DEF Init, TypeOK, Found

(***************************************************************************)
(* Memories, vectors and jobs keep their types, however workers and        *)
(* writers interleave (semantic_stage.rs).                                 *)
(***************************************************************************)
THEOREM TypeCorrect == ASSUME Assumptions PROVE Spec => []TypeOK
<1>1. Init => TypeOK BY InitTyped
<1>2. TypeOK /\ [Next]_vars => TypeOK' BY TypeStep
<1>3. QED BY <1>1, <1>2, PTL DEF Spec

-----------------------------------------------------------------------------
(* Texts in the order they were written.                                   *)

\* What the memory says is not earlier than t.
NotBefore(m, t) == text[m] = None \/ t <= text[m]

InOrder ==
    /\ \A m \in Memory : text[m] # None => text[m] <= edits
    /\ \A w \in Worker : \A i \in DOMAIN stale[w] :
         stale[w][i].key <= edits /\ NotBefore(stale[w][i].mem, stale[w][i].key)
    /\ \A w \in Worker : batch[w] # None =>
         /\ batch[w].key <= batch[w].of /\ batch[w].of <= edits
         /\ NotBefore(batch[w].mem, batch[w].of)
    /\ \A m \in Memory : vector[m] # None =>
         /\ vector[m].key <= vector[m].of /\ vector[m].of <= edits
         /\ NotBefore(m, vector[m].of)

\* The text of a memory goes, or a later one comes.
LEMMA RowsChange ==
    ASSUME Assumptions, TypeOK, InOrder,
           UNCHANGED <<stale, batch>>, edits' = edits + 1,
           \A m \in Memory : text'[m] \in {text[m], None, edits + 1},
           \A m \in Memory : vector'[m] \in {vector[m], None}
    PROVE  InOrder'
<1> USE DEF TypeOK, NotBefore
<1>1. edits \in Nat /\ \A t \in Text : t \in Nat BY DEF Assumptions
<1>2. ASSUME NEW m \in Memory, NEW t \in Nat, t <= edits, NotBefore(m, t)
      PROVE  t <= edits' /\ (text'[m] = None \/ t <= text'[m])
  BY <1>1, <1>2
<1>3. \A m \in Memory : text'[m] # None => text'[m] <= edits'
  BY <1>1 DEF InOrder
<1>4. \A w \in Worker : \A i \in DOMAIN stale[w] :
        stale[w][i].mem \in Memory /\ stale[w][i].key \in Nat
  <2>1. SUFFICES ASSUME NEW w \in Worker, NEW i \in DOMAIN stale[w]
                 PROVE  stale[w][i].mem \in Memory /\ stale[w][i].key \in Nat
    OBVIOUS
  <2>2. stale[w] \in Seq(Found) BY DEF Found
  <2>3. stale[w][i] \in Found BY <2>2
  <2>4. QED BY <1>1, <2>3 DEF Found
<1>5. \A w \in Worker : batch[w] # None =>
        batch[w].mem \in Memory /\ batch[w].of \in Nat
  BY <1>1
<1>6. \A m \in Memory : vector[m] # None => vector[m].of \in Nat
  BY <1>1 DEF Stored
<1>7. \A w \in Worker : \A i \in DOMAIN stale'[w] :
        stale'[w][i].key <= edits'
        /\ (text'[stale'[w][i].mem] = None \/ stale'[w][i].key <= text'[stale'[w][i].mem])
  BY <1>2, <1>4 DEF InOrder
<1>8. \A w \in Worker : batch'[w] # None =>
        /\ batch'[w].key <= batch'[w].of /\ batch'[w].of <= edits'
        /\ text'[batch'[w].mem] = None \/ batch'[w].of <= text'[batch'[w].mem]
  BY <1>2, <1>5 DEF InOrder
<1>9. \A m \in Memory : vector'[m] # None =>
        /\ vector'[m].key <= vector'[m].of /\ vector'[m].of <= edits'
        /\ text'[m] = None \/ vector'[m].of <= text'[m]
  BY <1>2, <1>6 DEF InOrder
<1>10. QED BY <1>3, <1>7, <1>8, <1>9 DEF InOrder

LEMMA InOrderStep ==
    ASSUME Assumptions, TypeOK, InOrder, ~reverts, [Next]_vars PROVE InOrder'
<1> USE DEF NotBefore
<1>1. CASE UNCHANGED <<text, vector, stale, batch, edits>>
  BY <1>1 DEF InOrder
<1>2. ASSUME NEW m \in Memory, NEW t \in Text, Save(m, t) \/ Pulled(m, t)
      PROVE  InOrder'
  <2>1. t = edits + 1 /\ text' = [text EXCEPT ![m] = t] /\ edits' = edits + 1
    BY <1>2 DEF Save, Pulled, Writes, Writable, Edited
  <2>2. UNCHANGED <<stale, batch, vector>> BY <1>2 DEF Save, Pulled, Writes, job
  <2>3. QED BY <2>1, <2>2, RowsChange DEF TypeOK
<1>3. ASSUME NEW m \in Memory, Leave(m) PROVE InOrder'
  BY <1>3, RowsChange DEF Leave, Edited, job, TypeOK
<1>4. CASE ListWritten
  <2>1. /\ UNCHANGED <<text, vector, batch, edits>>
        /\ stale' = [stale EXCEPT !["written"] =
             IF installed /\ IsStale(wrote) THEN <<[mem |-> wrote, key |-> text[wrote]]>>
             ELSE <<>>]
    BY <1>4 DEF ListWritten, rows
  <2>2. wrote \in Memory BY <1>4 DEF ListWritten, TypeOK
  <2>3. IsStale(wrote) => text[wrote] <= edits BY <2>2 DEF IsStale, InOrder
  <2>4. text[wrote] <= text[wrote] \/ ~IsStale(wrote)
    <3>1. IsStale(wrote) => text[wrote] \in Nat BY <2>2 DEF IsStale, TypeOK, Assumptions
    <3>2. QED BY <3>1
  <2>5. \A w \in Worker : \A i \in DOMAIN stale'[w] :
          stale'[w][i].key <= edits /\ NotBefore(stale'[w][i].mem, stale'[w][i].key)
    BY <2>1, <2>3, <2>4 DEF InOrder, TypeOK
  <2>6. QED BY <2>1, <2>5 DEF InOrder
<1>5. CASE ListStale
  <2>1. PICK found \in StaleAny :
          stale' = [stale EXCEPT !["backfill"] =
            [i \in DOMAIN found |-> [mem |-> found[i], key |-> text[found[i]]]]]
    BY <1>5 DEF ListStale
  <2>2. \A i \in DOMAIN found : found[i] \in Memory /\ text[found[i]] \in Text
    BY DEF StaleAny, SetToSeqs, IsStale, TypeOK
  <2>3. \A i \in DOMAIN found : text[found[i]] <= edits /\ text[found[i]] <= text[found[i]]
    BY <2>2 DEF InOrder, Assumptions
  <2>4. UNCHANGED <<text, vector, batch, edits>> BY <1>5 DEF ListStale, rows
  <2>5. \A w \in Worker : \A i \in DOMAIN stale'[w] :
          stale'[w][i].key <= edits /\ NotBefore(stale'[w][i].mem, stale'[w][i].key)
    BY <2>1, <2>3 DEF InOrder, TypeOK
  <2>6. QED BY <2>4, <2>5 DEF InOrder
<1>6. ASSUME NEW w \in Worker, ReadText(w) PROVE InOrder'
  <2> DEFINE next == Head(stale[w])
  <2>1. stale[w] \in Seq(Found) /\ stale[w] # <<>> BY <1>6 DEF ReadText, TypeOK, Found
  <2>2. next = stale[w][1] /\ 1 \in DOMAIN stale[w] /\ next \in Found BY <2>1
  <2>3. next.key <= edits /\ NotBefore(next.mem, next.key) BY <2>2 DEF InOrder
  <2>4. \A i \in DOMAIN Tail(stale[w]) :
          i + 1 \in DOMAIN stale[w] /\ Tail(stale[w])[i] = stale[w][i + 1]
    BY <2>1
  <2>5. UNCHANGED <<text, vector, edits>> BY <1>6 DEF ReadText, rows
  <2>6. /\ stale' = [stale EXCEPT ![w] = Tail(stale[w])]
        /\ batch' = [batch EXCEPT ![w] =
             IF text[next.mem] = None THEN None
             ELSE [mem |-> next.mem, key |-> next.key, of |-> text[next.mem]]]
    BY <1>6 DEF ReadText
  <2>7. \A v \in Worker : \A i \in DOMAIN stale'[v] :
          stale'[v][i].key <= edits /\ NotBefore(stale'[v][i].mem, stale'[v][i].key)
    <3>1. \A i \in DOMAIN Tail(stale[w]) :
            Tail(stale[w])[i].key <= edits
            /\ NotBefore(Tail(stale[w])[i].mem, Tail(stale[w])[i].key)
      BY <2>4 DEF InOrder
    <3>2. \A v \in Worker : stale'[v] = IF v = w THEN Tail(stale[w]) ELSE stale[v]
      BY <2>6 DEF TypeOK
    <3>3. QED BY <3>1, <3>2 DEF InOrder
  <2>8. text[next.mem] # None =>
          next.key <= text[next.mem] /\ text[next.mem] <= edits
          /\ text[next.mem] <= text[next.mem]
    <3>1. next.mem \in Memory BY <2>2 DEF Found
    <3>2. text[next.mem] # None => text[next.mem] \in Nat BY <3>1 DEF TypeOK, Assumptions
    <3>3. QED BY <2>3, <3>1, <3>2 DEF InOrder
  <2>9. \A v \in Worker : batch'[v] # None =>
          /\ batch'[v].key <= batch'[v].of /\ batch'[v].of <= edits
          /\ NotBefore(batch'[v].mem, batch'[v].of)
    <3> HIDE DEF next
    <3>1. QED BY <2>6, <2>8 DEF InOrder, TypeOK
  <2>10. QED BY <2>5, <2>7, <2>9 DEF InOrder
<1>7. ASSUME NEW w \in Worker, KeepVector(w) PROVE InOrder'
  <2>1. UNCHANGED <<text, stale, edits>> /\ batch[w] # None
    BY <1>7 DEF KeepVector
  <2>2. \A m \in Memory : \/ vector'[m] \in {vector[m], None}
                          \/ /\ m = batch[w].mem
                             /\ vector'[m] = [key |-> batch[w].key, of |-> batch[w].of]
    BY <1>7 DEF KeepVector, KeptKey, TypeOK
  <2>3. \A v \in Worker : batch'[v] = IF v = w THEN None ELSE batch[v]
    BY <1>7 DEF KeepVector, TypeOK
  <2>4. \A m \in Memory : vector'[m] # None =>
          /\ vector'[m].key <= vector'[m].of /\ vector'[m].of <= edits
          /\ NotBefore(m, vector'[m].of)
    BY <2>1, <2>2 DEF InOrder
  <2>5. QED BY <2>1, <2>3, <2>4 DEF InOrder
<1>8. ASSUME NEW w \in Worker, GiveUp(w) PROVE InOrder'
  <2>1. UNCHANGED <<text, vector, edits>> BY <1>8 DEF GiveUp, rows
  <2>2. \A v \in Worker : stale'[v] = IF v = w THEN <<>> ELSE stale[v]
    BY <1>8 DEF GiveUp, TypeOK
  <2>3. \A v \in Worker : batch'[v] = IF v = w THEN None ELSE batch[v]
    BY <1>8 DEF GiveUp, TypeOK
  <2>4. QED BY <2>1, <2>2, <2>3 DEF InOrder
<1>9. CASE UNCHANGED vars BY <1>1, <1>9 DEF vars, rows, job
<1>10. CASE Install \/ Search BY <1>1, <1>10 DEF Install, Search, rows, job
<1>11. QED
  BY <1>2, <1>3, <1>4, <1>5, <1>6, <1>7, <1>8, <1>9, <1>10 DEF Next, Work

LEMMA RevertsStays == ASSUME [Next]_vars PROVE reverts' = reverts
BY DEF Next, vars, Save, Pulled, Leave, Install, Search, Work, ListWritten, ListStale,
       ReadText, KeepVector, GiveUp

(***************************************************************************)
(* A vector that counts as current was made from what the memory says, for *)
(* any number of memories and any interleaving of the two workers with     *)
(* writes, pulls and deletes, where no text comes back (embed_and_keep).   *)
(***************************************************************************)
THEOREM VectorsAreCurrent == ASSUME Assumptions PROVE Spec => []CurrentIsOfText
<1> DEFINE Inv == TypeOK /\ (~reverts => InOrder)
<1>1. Init => Inv
  <2>1. Init => InOrder BY DEF Init, InOrder
  <2>2. Init => TypeOK BY InitTyped
  <2>3. QED BY <2>1, <2>2
<1>2. Inv /\ [Next]_vars => Inv'
  BY TypeStep, InOrderStep, RevertsStays
<1>3. Inv => CurrentIsOfText
  <2> SUFFICES ASSUME TypeOK, InOrder, NEW m \in Memory, vector[m] # None,
                      vector[m].key = text[m]
               PROVE  vector[m].of = text[m]
    BY DEF CurrentIsOfText
  <2>1. text[m] \in Nat /\ text[m] # None /\ vector[m].of \in Nat
    BY DEF TypeOK, Stored, Assumptions
  <2>2. QED BY <2>1 DEF InOrder, NotBefore
<1>4. QED BY <1>1, <1>2, <1>3, PTL DEF Spec

=============================================================================
