--------------------------- MODULE MCAdministration ---------------------------
(* Users and requests differ only in their names.                            *)
EXTENDS Administration, TLC

MCSymmetry == Permutations(User) \union Permutations(Request)
=============================================================================
