----------------------------- MODULE MCReplicas ----------------------------
(***************************************************************************)
(* Replicas for TLC: where sessions belong, and the plans.                 *)
(***************************************************************************)
EXTENDS Replicas

CONSTANTS s1, s2, p1, p2, a, b

\* One session in each project, the first in p1.
MCHomeOf == [s \in Session |-> IF s = s1 THEN p1 ELSE p2]

Both == [n \in Store |-> Project]
OnlyA == [n \in Store |-> IF n = a THEN Project ELSE {}]
OnlyP1 == [n \in Store |-> {p1}]

Edits == {"create", "add", "consolidate", "update", "move", "soft delete", "hard delete"}

\* The stores share everything and edit side by side, or also delete sessions
\* and projects; one comes late, leaves and comes again, with nothing moved or
\* deleted, or with every operation but merges; every operation is made.
MCPlans ==
    {[ops |-> Edits, writes |-> 5, sessions |-> {s1}, enrolled |-> Both],
     [ops |-> AllOps \ {"enroll", "unenroll", "merge"}, writes |-> 4,
      sessions |-> {s1}, enrolled |-> Both],
     [ops |-> {"create", "add", "update", "enroll", "unenroll"}, writes |-> 5,
      sessions |-> {s1}, enrolled |-> OnlyA],
     [ops |-> AllOps \ {"merge"}, writes |-> 4, sessions |-> {s1}, enrolled |-> OnlyA],
     [ops |-> AllOps, writes |-> 4, sessions |-> {s1, s2}, enrolled |-> OnlyA]}

\* Memories move to a project that no store replicates.
MovesOut ==
    {[ops |-> {"create", "add", "move"}, writes |-> 3, sessions |-> {s1},
      enrolled |-> OnlyP1]}

MemorySymmetry == Permutations(Memory)

=============================================================================
