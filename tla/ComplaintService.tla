-------------------------- MODULE ComplaintService --------------------------
(* The workflow seen from outside: how its stored complaint reads as the    *)
(* lifecycle the desk promises, and that every request keeps to it.         *)
EXTENDS ComplaintWorkflow

stageOf(status) ==
    CASE status \in {"IN_PROGRESS", "WAITING_FOR_PARTS", "REVISIT_REQUIRED",
                     "RESOLUTION_SUBMITTED", "ADMIN_CONFIRMATION"} -> "attended"
      [] status = "CLOSED" -> "closed"
      [] status = "CANCELLED" -> "cancelled"
      [] OTHER -> "waiting"

Standing == IF complaint.status = "CLOSED"
            THEN [closedBy |-> complaint.closedBy, rating |-> complaint.serviceRating]
            ELSE None

Lifecycle == INSTANCE ServiceLifecycle
                 WITH Desk <- ADMIN,
                      stage <- stageOf(complaint.status),
                      holder <- complaint.serviceCenterId,
                      confirmed <- IsVerified(complaint.happyCode),
                      standing <- Standing,
                      closures <- complaint.closureHistory

(* Whatever the API is asked, and in whatever order, a complaint moves only *)
(* as the desk promises: closed by Admin or on the customer's word, never   *)
(* unattended; rated for its own closure; reopened with nothing carried     *)
(* over and nothing forgotten; moved without its history (workflow.service, *)
(* every handler).                                                          *)
KeepsLifecycle == Lifecycle!Spec
=============================================================================
