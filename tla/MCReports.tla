----------------------------- MODULE MCReports -----------------------------
(* The workflow as the API takes it, with the reports over it.              *)
EXTENDS Reports, MCComplaintWorkflow

(* Bound: parts are asked for where no code was wrong, as no handler reads  *)
(* both; and the last visit, there for the order of the resolutions, is     *)
(* booked where neither was and nothing reopened.                           *)
OneThingAtATime ==
    LET asked == \E r \in RequestIds : requests[r].status # "UNUSED"
        mistyped == complaint.happyCode.attempts > 0
    IN  /\ ~(asked /\ mistyped)
        /\ visits[MaxVisits].status # "UNBOOKED"
              => ~asked /\ ~mistyped /\ complaint.reopenCount = 0
=============================================================================
