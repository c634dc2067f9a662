------------------------- MODULE MCClockAndRecords -------------------------
(* Small instances, for TLC, of two parts of the server that share no       *)
(* state: the SLA clock with its pages, and the records made and the photos *)
(* taken in across restarts. Each behaviour is one of them.                 *)
EXTENDS MCSlaClock, MCRecords

VARIABLE part      \* which of the two this behaviour is about
mcVars == <<vars, recordVars, part>>

mcInit == /\ part \in {"clock", "records"}
          /\ Init /\ RecordsInit
          /\ part = "clock" => db.centres = {}
          /\ part = "records" => status = "NEW" /\ rule.resolutionMinutes = 1
mcNext == /\ part' = part
          /\ \/ part = "clock" /\ Next /\ UNCHANGED recordVars
             \/ part = "records" /\ RecordsNext /\ UNCHANGED vars
mcSpec == mcInit /\ [][mcNext]_mcVars
=============================================================================
