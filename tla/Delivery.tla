------------------------------ MODULE Delivery ------------------------------
(***************************************************************************)
(* What background replication promises the store it runs for, with no     *)
(* workers, leases, requests or faults in it: every row of the journal     *)
(* reaches the cloud log after the rows before it, perhaps more than once; *)
(* a row is confirmed only when the log has it; and the log is applied     *)
(* entry by entry, each once and in order.                                 *)
(*                                                                         *)
(* Autosync implements it (Autosync!KeepsPromise).                         *)
(***************************************************************************)
EXTENDS Naturals, Sequences

CONSTANTS Memory, None

VARIABLES
    journal,    \* what was written here, oldest first
    log,        \* what the cloud has
    confirmed,  \* the rows of the journal known to be there
    applied,    \* how much of the log was applied
    row         \* the version each memory holds

vars == <<journal, log, confirmed, applied, row>>

Own(i) == [mem |-> journal[i], src |-> "own", seq |-> i]

Init ==
    /\ journal = <<>>
    /\ log = <<>>
    /\ confirmed = {}
    /\ applied = 0
    /\ row = [m \in Memory |-> None]

Write(m) ==
    /\ journal' = Append(journal, m)
    /\ row' = [row EXCEPT ![m] = [mem |-> m, src |-> "own", seq |-> Len(journal) + 1]]
    /\ UNCHANGED <<log, confirmed, applied>>

\* Rows are appended to the log, each with the earlier ones before it.
Deliver ==
    /\ Len(log') >= Len(log)
    /\ \A p \in 1..Len(log) : log'[p] = log[p]
    /\ \A p \in (Len(log) + 1)..Len(log') : \E i \in 1..Len(journal) :
         /\ log'[p] = Own(i)
         /\ \A j \in 1..(i - 1) : \E q \in 1..(p - 1) : log'[q] = Own(j)
    /\ UNCHANGED <<journal, confirmed, applied, row>>

\* Somebody else's entry.
Receive(m) ==
    /\ \E k \in 1..(Len(log) + 1) : log' = Append(log, [mem |-> m, src |-> "peer", seq |-> k])
    /\ UNCHANGED <<journal, confirmed, applied, row>>

Confirm ==
    /\ confirmed \subseteq confirmed'
    /\ \A i \in confirmed' : \E p \in 1..Len(log) : log[p] = Own(i)
    /\ UNCHANGED <<journal, log, applied, row>>

Apply ==
    /\ applied < Len(log)
    /\ applied' = applied + 1
    /\ row' = [row EXCEPT ![log[applied'].mem] = log[applied']]
    /\ UNCHANGED <<journal, log, confirmed>>

Next ==
    \/ \E m \in Memory : Write(m) \/ Receive(m)
    \/ Deliver \/ Confirm \/ Apply

Spec == Init /\ [][Next]_vars

=============================================================================
