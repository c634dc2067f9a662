------------------------- MODULE MCStockAndSessions -------------------------
(* Small instances, for TLC, of two parts of the server whose requests      *)
(* overlap and that share no state: parts and their stock, and sessions.    *)
(* Each behaviour is one of them. Both take what is interchangeable from    *)
(* the same values, requests of one and transactions of the other, session  *)
(* ids and usage lines, so that one symmetry serves both.                   *)
EXTENDS MCPartsStock, MCSignIn

VARIABLE part      \* which of the two this behaviour is about
mcVars == <<stockVars, vars, part>>

mcInit == part \in {"stock", "sessions"} /\ StockInit /\ Init
mcNext == /\ part' = part
          /\ \/ part = "stock" /\ StockNext /\ UNCHANGED vars
             \/ part = "sessions" /\ Next /\ UNCHANGED stockVars
mcSpec == mcInit /\ [][mcNext]_mcVars

mcBothSymmetry == mcStockSymmetry \cup mcSymmetry
=============================================================================
