----------------------------- MODULE MCCloudLog -----------------------------
\* CloudLog for TLC: two projects, each with a session and memories of it.
EXTENDS CloudLog, TLC

\* Items 1 and 3 are sessions, 2 and 4 memories of them.
MCProjectOf == [i \in Item |-> IF i \in {1, 2} THEN 1 ELSE 2]
MCSessionOf == [i \in Item |-> CASE i = 2 -> 1 [] i = 4 -> 3 [] OTHER -> None]

AllGranted == [d \in Device |-> Project]

Symmetry == Permutations(Device)

=============================================================================
