---------------------------- MODULE MCEnrollment ----------------------------
(* Two tokens, one retry of the scrub, one regeneration of the identity.    *)
EXTENDS Enrollment, FiniteSets

\* Behaviours are followed until two kinds of trouble have happened.
OneTrouble == Cardinality(broken) <= 1
=============================================================================
