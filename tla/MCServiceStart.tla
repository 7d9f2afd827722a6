----------------------------- MODULE MCServiceStart -----------------------------
EXTENDS ServiceStart, TLC

\* Clients are alike, and so are processes.
Symmetry == Permutations(Client) \cup Permutations(Proc)
===============================================================================
