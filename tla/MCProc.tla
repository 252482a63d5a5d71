------------------------------- MODULE MCProc -------------------------------
EXTENDS ProcProps, TLC

\* Procs and requests are alike; sound where only invariants are checked.
Symmetry == Permutations(Child) \cup Permutations(Req)
=============================================================================
