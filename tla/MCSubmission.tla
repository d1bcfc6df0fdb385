----------------------------- MODULE MCSubmission -----------------------------
(* Daily requests of one product of one store.                               *)
EXTENDS Submission, TLC

CONSTANTS m1, m2

MCSymmetry == Permutations({m1, m2})
=============================================================================
