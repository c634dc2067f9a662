---------------------------- MODULE MCPartsStock ----------------------------
(* Small instances of PartsStock, with its desk, for TLC: two transactions  *)
(* open at a time.                                                          *)
EXTENDS PartsDesk, TLC

CONSTANTS centreA, centreB, w1, w2

mcCentres == {centreA, centreB}
mcWorkers == {w1, w2}

(* Bound: a behaviour has usage lines or part requests. No handler reads    *)
(* both; each meets the same moves, ends and reopenings.                    *)
mcOneKind == \/ \A r \in RequestIds : requests[r].status = "UNUSED"
             \/ \A u \in UsageIds : usage[u].status = "UNUSED"

mcStockSymmetry == Permutations(mcCentres) \cup Permutations(mcWorkers)
=============================================================================
