--------------------------- MODULE MCShellClients ---------------------------
EXTENDS ShellClients, FiniteSets, TLC

\* One kind of trouble at a time.
OneTrouble == Cardinality(trouble) <= 1

Symmetry == Permutations(Changes)
=============================================================================
