----------------------------- MODULE MCAutosync -----------------------------
\* Autosync for TLC: which processes, memories and bounds.
EXTENDS Autosync, TLC

Symmetry == Permutations(Worker) \cup Permutations(Memory)

=============================================================================
