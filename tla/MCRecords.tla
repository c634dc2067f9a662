----------------------------- MODULE MCRecords -----------------------------
(* Small instances of Records for TLC. Calls, mobiles, cities and uploaders *)
(* are interchangeable; keys are not, once a mutant names one.              *)
EXTENDS Records, TLC

CONSTANTS c1, c2, m1, m2, pune, nagpur, centre1, up1, up2, photo1, k1, k2, k3

mcSymmetry == Permutations(Calls) \cup Permutations(Mobiles) \cup Permutations(Cities)
              \cup Permutations(Uploaders)
=============================================================================
