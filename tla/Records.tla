------------------------------ MODULE Records ------------------------------
(* Intake and uploads served by one process: both may be under way when it  *)
(* restarts. MaxRequests bounds how many requests a behaviour serves, of    *)
(* either kind.                                                             *)
EXTENDS Intake, Uploads

CONSTANT MaxRequests   \* bound: requests served in a behaviour

ASSUME RequestsAssumption == MaxRequests \in Nat

VARIABLE requests      \* requests that have arrived
recordVars == <<intakeVars, uploadVars, requests>>

RecordsInit == IntakeInit /\ UploadsInit /\ requests = 0

Arrive == /\ requests < MaxRequests
          /\ requests' = requests + 1
          /\ \/ requestArrives /\ UNCHANGED uploadVars
             \/ uploadArrives /\ UNCHANGED intakeVars

Proceed == /\ UNCHANGED requests
           /\ \/ (requestProceeds \/ NewYear) /\ UNCHANGED uploadVars
              \/ (uploadProceeds \/ NextTrip) /\ UNCHANGED intakeVars

Stop == /\ UNCHANGED requests
        /\ \/ Restart /\ restart
           \/ Restart /\ (\A c \in Uploaders : upload[c] = Resting) /\ UNCHANGED uploadVars
           \/ restart /\ (\A c \in Calls : call[c] = Waiting) /\ UNCHANGED intakeVars

RecordsNext == Arrive \/ Proceed \/ Stop

RecordsSpec == RecordsInit /\ [][RecordsNext]_recordVars

RecordsTypeOK == IntakeTypeOK /\ UploadsTypeOK /\ requests \in 0..MaxRequests
=============================================================================
