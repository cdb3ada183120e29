---------------------------- MODULE MCRelations ----------------------------
\* Relations for TLC.
EXTENDS Relations, TLC

\* Either both memories are there from the start, or the second one is made by
\* a consolidation of the first.
MCStarts == {Memory} \cup {{m} : m \in Memory}

Symmetry == Permutations(Store) \cup Permutations(Relation)

=============================================================================
