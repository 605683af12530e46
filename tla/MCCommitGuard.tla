--------------------------- MODULE MCCommitGuard ---------------------------
(* Two requests in service at a time and two changes: enough for two       *)
(* handlers to overlap at every pair of awaits.                            *)
EXTENDS CommitGuard, TLC

Symmetry == Permutations(Ops) \cup Permutations(Requests)
=============================================================================
