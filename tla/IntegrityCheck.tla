-------------------------- MODULE IntegrityCheck --------------------------
(* What scripts/check-integrity.ts looks for in one complaint and its       *)
(* visits, whenever somebody runs it: each definition is a filter of the    *)
(* script, and what it finds the script reports as an error. Dates, numbers *)
(* and reasons are not kept by the workflow, nor are the checks on them.    *)
EXTENDS ComplaintWorkflow

(* checkComplaintState *)
closedUnverified == complaint.status = "CLOSED" /\ ~IsVerified(complaint.happyCode)

assignedNowhere == /\ complaint.status \notin {"NEW", "CANCELLED"}
                   /\ complaint.serviceCenterId = None

assignedNobody == /\ complaint.status \in {"TECHNICIAN_ASSIGNED", "VISIT_SCHEDULED", "IN_PROGRESS"}
                  /\ complaint.technicianId = None

reopenedWithoutHistory == complaint.reopenCount > 0 /\ complaint.closureHistory = <<>>

(* checkVisits *)
mismatched == {v \in VisitIds \ VisitsIn({"UNBOOKED"}) :
                  visits[v].serviceCenterId # complaint.serviceCenterId}

stranded ==
    (IF complaint.status = "VISIT_SCHEDULED" THEN {} ELSE VisitsIn({"SCHEDULED"}))
    \cup (IF complaint.status \in {"IN_PROGRESS", "WAITING_FOR_PARTS"}
          THEN {} ELSE VisitsIn({"IN_PROGRESS"}))

(* The script calls all of these broken data (check-integrity.ts 240-300,   *)
(* 314-400). Driven from its screens the workflow gives rise to four of     *)
(* them, each sound: a complaint Admin closed without the code; one         *)
(* cancelled before it had a centre, and reopened; one reopened that was    *)
(* only ever cancelled, and bears no trace of a closure but one that        *)
(* stands; and visits a former centre had before the complaint moved. Any   *)
(* other report would be of a real fault, and there is none to report.      *)
AlarmsAreExplained ==
    /\ closedUnverified => complaint.closedBy = ADMIN
    /\ assignedNowhere => complaint.status = "REOPENED" /\ reopenedWithoutHistory
    /\ ~assignedNobody
    /\ reopenedWithoutHistory /\ complaint.closedBy # None => complaint.status = "CLOSED"
    /\ mismatched \subseteq VisitsIn({"COMPLETED", "CANCELLED"})
    /\ stranded = {}
=============================================================================
