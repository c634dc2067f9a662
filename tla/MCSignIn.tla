------------------------------ MODULE MCSignIn ------------------------------
(* Small instances of SignIn for TLC.                                       *)
EXTENDS SignIn, TLC

CONSTANTS u1, c1, c2, s1, s2, s3

mcSymmetry == Permutations(Calls) \cup Permutations(Sids)
=============================================================================
