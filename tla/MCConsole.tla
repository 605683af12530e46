----------------------------- MODULE MCConsole ------------------------------
EXTENDS Console

MCText == STRING

\* Every editor of the console.
MCAll == AllPages
=============================================================================
