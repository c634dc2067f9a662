--------------------------- MODULE Screens_proofs ---------------------------
(* What the workflow keeps to as its screens drive it, for every value of   *)
(* the constants: the safety properties of ScreenSpec, that the integrity   *)
(* checker reports nothing new, that the dashboards hide nothing, and what  *)
(* becomes of the words left on a technician's phone.                       *)
EXTENDS ComplaintWorkflow_proofs, IntegrityCheck, VisitDrafts, Dashboards,
        FiniteSetTheorems

(* A job in order without a technician has no visit open when a centre is   *)
(* first chosen, which calls none off.                                      *)
WorkInv ==
    /\ NoStrandedVisit
    /\ OpenVisitHasItsHolder
    /\ WorkUnderReviewIsCredited
    /\ ClockFollowsWork

ScreenInv == JobInv /\ WorkInv

-----------------------------------------------------------------------------
(* Steps that leave no visit open.                                          *)
LEMMA NothingOpen ==
    ASSUME OpenVisits' = {}, complaint'.status # "VISIT_SCHEDULED"
    PROVE  NoStrandedVisit' /\ OpenVisitHasItsHolder'
  <1>1. VisitsIn({"SCHEDULED"})' \subseteq OpenVisits'
    BY DEF OpenVisits, VisitsIn
  <1> QED
    BY <1>1 DEF NoStrandedVisit, OpenVisitHasItsHolder

LEMMA NotUnderReview ==
    ASSUME complaint'.status \notin {"RESOLUTION_SUBMITTED", "ADMIN_CONFIRMATION"}
    PROVE  WorkUnderReviewIsCredited'
  BY DEF WorkUnderReviewIsCredited

LEMMA AllCalledOff ==
    ASSUME TypeInv, visits' = cancelOpenVisits
    PROVE  OpenVisits' = {}
  BY DEF TypeInv, TypeOK, Visit, cancelOpenVisits, OpenVisits, VisitsIn

(* A step within the status that touches nothing but the code, the rating,  *)
(* the requests or the accounts, or records a breach.                       *)
LEMMA StaysPut ==
    ASSUME ScreenInv, visits' = visits,
           complaint'.status = complaint.status,
           complaint'.serviceCenterId = complaint.serviceCenterId,
           complaint'.technicianId = complaint.technicianId,
           complaint'.resolutionReview = complaint.resolutionReview,
           complaint'.lastResolutionVisitId = complaint.lastResolutionVisitId,
           complaint'.sla \in {complaint.sla, applyBreach(complaint.sla)}
    PROVE  WorkInv'
  <1>1. complaint.sla \in SlaTracking
    BY DEF ScreenInv, JobInv, PromiseInv, TypeInv, TypeOK, Complaint
  <1>2. ClockFollowsWork'
    <2>1. CASE complaint'.sla = complaint.sla
      BY <2>1 DEF ScreenInv, WorkInv, ClockFollowsWork
    <2>2. CASE complaint'.sla = applyBreach(complaint.sla)
      <3> DEFINE sla == complaint.sla
                 after == applyBreach(sla)
      <3>1. /\ after.respondedAt = sla.respondedAt
            /\ \/ after.state = sla.state /\ after.breachedAt = sla.breachedAt
               \/ sla.state = "RUNNING" /\ after.state = "BREACHED" /\ after.breachedAt = "set"
        BY <1>1, ClockSteps
      <3> HIDE DEF after
      <3> QED
        BY <2>2, <3>1 DEF ScreenInv, WorkInv, ClockFollowsWork, after
    <2> QED
      BY <2>1, <2>2
  <1>3. NoStrandedVisit' /\ OpenVisitHasItsHolder' /\ WorkUnderReviewIsCredited'
    BY DEF ScreenInv, WorkInv, NoStrandedVisit, OpenVisitHasItsHolder,
           WorkUnderReviewIsCredited, OpenVisits, VisitsIn
  <1> QED
    BY <1>2, <1>3 DEF WorkInv

-----------------------------------------------------------------------------
(* One lemma per handler.                                                   *)
LEMMA AssignServiceCenterWork ==
    ASSUME ScreenInv, NEW centre \in Centres, NEW reason \in BOOLEAN,
           assignServiceCenter(centre, reason)
    PROVE  WorkInv'
  <1> DEFINE technician == technicianAfterMove(complaint.serviceCenterId # None)
  <1>1. complaint.status \in Into("ASSIGNED") \cup {"ASSIGNED"}
    BY MoveFrom DEF assignServiceCenter, projected
  <1>2. /\ complaint'.status = "ASSIGNED"
        /\ complaint'.serviceCenterId = centre
        /\ \/ complaint.status = "ASSIGNED" /\ complaint'.sla = complaint.sla
           \/ complaint'.sla = resume(complaint.sla)
    <2> HIDE DEF technician
    <2> QED
      BY DEF assignServiceCenter, ScreenInv, JobInv, PromiseInv, TypeInv, TypeOK, Complaint,
             technician
  <1>3. complaint.status # "CLOSED"
    BY <1>1 DEF Into, CENTRE_REASSIGNABLE_FROM
  <1>4. OpenVisits' = {}
    <2>1. CASE visits' = cancelOpenVisits
      BY <2>1, AllCalledOff DEF ScreenInv, JobInv, PromiseInv
    <2>2. CASE visits' = visits /\ (complaint.status = "ASSIGNED" \/ complaint.serviceCenterId = None)
      <3>1. complaint.status \notin OnTheJob
        BY <2>2, CentreOfAssumption, NoneAssumption
           DEF ScreenInv, JobInv, JobInOrder, JobHasItsPeople, PromiseInv,
               TechnicianWorksForHolder, TypeInv, TypeOK, Complaint, OnTheJob
      <3>2. OpenVisits = {}
        BY <3>1 DEF ScreenInv, WorkInv, NoStrandedVisit, OnTheJob
      <3> QED
        BY <2>2, <3>2 DEF OpenVisits, VisitsIn
    <2> QED
      BY <2>1, <2>2 DEF assignServiceCenter
  <1>5. complaint.sla \in SlaTracking
    BY DEF ScreenInv, JobInv, PromiseInv, TypeInv, TypeOK, Complaint
  <1>6. ClockFollowsWork'
    BY <1>2, <1>3, <1>5, ClockSteps DEF ScreenInv, WorkInv, ClockFollowsWork
  <1> QED
    BY <1>2, <1>4, <1>6, NothingOpen, NotUnderReview DEF WorkInv

(* A change of technician takes the booked visit along and ends the one     *)
(* under way.                                                               *)
LEMMA AssignTechnicianWork ==
    ASSUME ScreenInv, NEW auth, NEW technician \in Technicians,
           assignTechnician(auth, technician)
    PROVE  WorkInv'
  <1> DEFINE changesStatus == complaint.status \in {"ASSIGNED", "REOPENED"}
  <1>1. /\ complaint.status \in TECHNICIAN_ASSIGNABLE
        /\ complaint'.status = IF changesStatus THEN "TECHNICIAN_ASSIGNED" ELSE complaint.status
        /\ complaint'.technicianId = technician
        /\ complaint'.serviceCenterId = complaint.serviceCenterId
        /\ complaint.serviceCenterId # None
        /\ complaint'.sla = complaint.sla
        /\ ~changesStatus => technician # complaint.technicianId
    BY DEF assignTechnician, ScreenInv, JobInv, PromiseInv, TypeInv, TypeOK, Complaint
  <1>2. PICK pending \in VisitsIn({"SCHEDULED"}) \cup {0} :
            /\ VisitsIn({"SCHEDULED"}) # {} => pending # 0
            /\ visits' = handOver(technician, pending)
    BY DEF assignTechnician
  <1>3. NoStrandedVisit' /\ OpenVisitHasItsHolder'
    <2>1. CASE complaint.status = "VISIT_SCHEDULED"
      <3>1. PICK v \in VisitIds : VisitsIn({"SCHEDULED"}) = {v} /\ OpenVisits = {v}
        BY <2>1 DEF ScreenInv, WorkInv, NoStrandedVisit
      <3>2. /\ pending = v /\ visits[v].status = "SCHEDULED"
            /\ visits[v].serviceCenterId = complaint.serviceCenterId
        BY <1>2, <3>1 DEF VisitsIn, ScreenInv, WorkInv, OpenVisitHasItsHolder
      <3>3. \A w \in VisitIds \ {v} : visits[w].status \notin {"SCHEDULED", "IN_PROGRESS"}
        BY <3>1 DEF OpenVisits, VisitsIn
      <3>4. /\ visits'[v].status = "SCHEDULED" /\ visits'[v].technicianId = technician
            /\ visits'[v].serviceCenterId = complaint.serviceCenterId
            /\ \A w \in VisitIds \ {v} : visits'[w] = visits[w]
        BY <1>2, <3>2, <3>3 DEF handOver, ScreenInv, JobInv, PromiseInv, TypeInv, TypeOK, Visit
      <3>5. VisitsIn({"SCHEDULED"})' = {v} /\ OpenVisits' = {v}
        BY <3>3, <3>4 DEF OpenVisits, VisitsIn
      <3> QED
        BY <1>1, <2>1, <3>4, <3>5 DEF NoStrandedVisit, OpenVisitHasItsHolder
    <2>2. CASE complaint.status # "VISIT_SCHEDULED"
      <3>1. VisitsIn({"SCHEDULED"}) = {}
        BY <2>2 DEF ScreenInv, WorkInv, NoStrandedVisit, OpenVisits, VisitsIn
      <3>2. \A w \in OpenVisits : ~changesStatus /\ visits[w].technicianId = complaint.technicianId
        BY DEF ScreenInv, WorkInv, NoStrandedVisit, OpenVisitHasItsHolder
      <3>3. ASSUME NEW w \in VisitIds
            PROVE  visits'[w].status \notin {"SCHEDULED", "IN_PROGRESS"}
        <4>1. CASE w \in OpenVisits
          BY <1>1, <1>2, <3>1, <3>2, <4>1
             DEF handOver, OpenVisits, VisitsIn, ScreenInv, JobInv, PromiseInv, TypeInv, TypeOK,
                 Visit
        <4>2. CASE w \notin OpenVisits
          BY <1>2, <4>2
             DEF handOver, OpenVisits, VisitsIn, ScreenInv, JobInv, PromiseInv, TypeInv, TypeOK,
                 Visit
        <4> QED
          BY <4>1, <4>2
      <3>4. OpenVisits' = {}
        BY <3>3 DEF OpenVisits, VisitsIn
      <3> QED
        BY <1>1, <2>2, <3>4, NothingOpen
    <2> QED
      BY <2>1, <2>2
  <1>4. ClockFollowsWork'
    BY <1>1, NoneAssumption
       DEF ScreenInv, WorkInv, ClockFollowsWork, TECHNICIAN_ASSIGNABLE
  <1> QED
    BY <1>1, <1>3, <1>4, NotUnderReview DEF WorkInv, TECHNICIAN_ASSIGNABLE

(* A booking closes the visit it replaces and is the only open one.         *)
LEMMA ScheduleVisitWork ==
    ASSUME ScreenInv, NEW auth, NEW named \in Technicians \cup {None}, NEW reason \in BOOLEAN,
           scheduleVisit(auth, named, reason)
    PROVE  WorkInv'
  <1> DEFINE technician == IF named = None THEN complaint.technicianId ELSE named
  <1>1. complaint.status \in Into("VISIT_SCHEDULED")
    BY MoveFrom DEF scheduleVisit, projected
  <1>2. technician # None
    BY DEF scheduleVisit
  <1>3. PICK v \in VisitIds : IsNext(v) /\ visits' = book(v, technician)
    BY DEF scheduleVisit
  <1> HIDE DEF technician
  <1>4. /\ complaint'.status = "VISIT_SCHEDULED"
        /\ complaint'.technicianId = technician
        /\ complaint'.serviceCenterId = complaint.serviceCenterId
        /\ complaint'.sla = resume(complaint.sla)
    BY DEF scheduleVisit, technician, ScreenInv, JobInv, PromiseInv, TypeInv, TypeOK, Complaint
  <1>5. NoStrandedVisit' /\ OpenVisitHasItsHolder'
    <2>1. VisitsIn({"SCHEDULED"}) = {}
      BY <1>1 DEF Into, ScreenInv, WorkInv, NoStrandedVisit, OpenVisits, VisitsIn
    <2>2. /\ visits'[v].status = "SCHEDULED" /\ visits'[v].technicianId = technician
          /\ visits'[v].serviceCenterId = complaint.serviceCenterId
      BY <1>3 DEF book
    <2>3. \A w \in VisitIds \ {v} : visits'[w].status \notin {"SCHEDULED", "IN_PROGRESS"}
      BY <1>3, <2>1 DEF book, VisitsIn, ScreenInv, JobInv, PromiseInv, TypeInv, TypeOK, Visit
    <2>4. VisitsIn({"SCHEDULED"})' = {v} /\ OpenVisits' = {v}
      BY <2>2, <2>3 DEF OpenVisits, VisitsIn
    <2> QED
      BY <1>4, <2>2, <2>4 DEF NoStrandedVisit, OpenVisitHasItsHolder
  <1>6. complaint.sla \in SlaTracking /\ complaint.status # "CLOSED"
    BY <1>1 DEF Into, ScreenInv, JobInv, PromiseInv, TypeInv, TypeOK, Complaint
  <1>7. ClockFollowsWork'
    BY <1>4, <1>6, ClockSteps DEF ScreenInv, WorkInv, ClockFollowsWork
  <1> QED
    BY <1>4, <1>5, <1>7, NotUnderReview DEF WorkInv

(* The visit called off was the only open one.                              *)
LEMMA CancelVisitWork ==
    ASSUME ScreenInv, NEW auth, NEW v \in VisitIds, cancelScheduledVisit(auth, v)
    PROVE  WorkInv'
  <1>1. v \in VisitsIn({"SCHEDULED"}) /\ v \in OpenVisits
    BY DEF cancelScheduledVisit, VisitsIn, OpenVisits
  <1>2. complaint.status = "VISIT_SCHEDULED" /\ VisitsIn({"SCHEDULED"}) = {v} /\ OpenVisits = {v}
    BY <1>1 DEF ScreenInv, WorkInv, NoStrandedVisit
  <1>3. /\ complaint'.status = "TECHNICIAN_ASSIGNED"
        /\ complaint'.technicianId = complaint.technicianId
        /\ complaint'.serviceCenterId = complaint.serviceCenterId
        /\ complaint'.sla = complaint.sla
    BY <1>2 DEF cancelScheduledVisit, statusAfterCancel, ScreenInv, JobInv, PromiseInv, TypeInv,
                TypeOK, Complaint
  <1>4. OpenVisits' = {}
    BY <1>2 DEF cancelScheduledVisit, OpenVisits, VisitsIn, ScreenInv, JobInv, PromiseInv,
                TypeInv, TypeOK, Visit
  <1>5. ClockFollowsWork'
    BY <1>2, <1>3
       DEF ScreenInv, WorkInv, ClockFollowsWork
  <1> QED
    BY <1>3, <1>4, <1>5, NothingOpen, NotUnderReview DEF WorkInv

(* The visit started is the one booked; its start stops the response clock. *)
LEMMA StartVisitWork ==
    ASSUME ScreenInv, NEW auth, NEW endsHere \in BOOLEAN, startVisit(auth, endsHere)
    PROVE  WorkInv'
  <1>1. PICK v \in VisitIds :
            /\ IsLatest(v, {"SCHEDULED"})
            /\ visits' = [visits EXCEPT ![v].status =
                             IF endsHere THEN "COMPLETED" ELSE "IN_PROGRESS"]
    BY DEF startVisit
  <1>2. v \in VisitsIn({"SCHEDULED"}) /\ v \in OpenVisits
    BY <1>1 DEF IsLatest, VisitsIn, OpenVisits
  <1>3. complaint.status = "VISIT_SCHEDULED" /\ OpenVisits = {v}
    BY <1>2 DEF ScreenInv, WorkInv, NoStrandedVisit
  <1>4. /\ complaint'.status = "IN_PROGRESS"
        /\ complaint'.technicianId = complaint.technicianId
        /\ complaint'.serviceCenterId = complaint.serviceCenterId
        /\ complaint'.sla = markResponded(complaint.sla)
    BY DEF startVisit, ScreenInv, JobInv, PromiseInv, TypeInv, TypeOK, Complaint
  <1>5. NoStrandedVisit' /\ OpenVisitHasItsHolder'
    <2>1. /\ visits'[v].status \in {"COMPLETED", "IN_PROGRESS"}
          /\ visits'[v].technicianId = visits[v].technicianId
          /\ visits'[v].serviceCenterId = visits[v].serviceCenterId
          /\ \A w \in VisitIds \ {v} : visits'[w] = visits[w]
      BY <1>1 DEF ScreenInv, JobInv, PromiseInv, TypeInv, TypeOK, Visit
    <2>2. OpenVisits' \subseteq {v} /\ VisitsIn({"SCHEDULED"})' = {}
      BY <1>3, <2>1 DEF OpenVisits, VisitsIn
    <2>3. /\ visits[v].technicianId = complaint.technicianId
          /\ visits[v].serviceCenterId = complaint.serviceCenterId
      BY <1>2 DEF ScreenInv, WorkInv, OpenVisitHasItsHolder
    <2> QED
      BY <1>4, <2>1, <2>2, <2>3 DEF NoStrandedVisit, OpenVisitHasItsHolder
  <1>6. complaint.sla \in SlaTracking
    BY DEF ScreenInv, JobInv, PromiseInv, TypeInv, TypeOK, Complaint
  <1>7. ClockFollowsWork'
    BY <1>3, <1>4, <1>6, ClockSteps DEF ScreenInv, WorkInv, ClockFollowsWork
  <1> QED
    BY <1>4, <1>5, <1>7, NotUnderReview DEF WorkInv

(* What is submitted is the visit under way, and nobody else's work.        *)
LEMMA SubmitResolutionWork ==
    ASSUME ScreenInv, NEW auth, auth.role \in Roles, NEW code \in {"none", "right", "wrong"},
           NEW late \in BOOLEAN, submitResolution(auth, code, late)
    PROVE  WorkInv'
  <1> DEFINE meta == IF code = "none" THEN complaint.happyCode
                     ELSE verifyHappyCode(code, complaint.happyCode)
             closed == code # "none" /\ IsVerified(meta)
             to == IF closed THEN "CLOSED" ELSE "RESOLUTION_SUBMITTED"
             closedBy == IF closed THEN auth.role ELSE complaint.closedBy
             sla == IF closed THEN complete(complaint.sla, late) ELSE complaint.sla
  <1>1. PICK v \in VisitIds :
            /\ IsLatest(v, {"IN_PROGRESS"})
            /\ assertTransition(
                   projected(complaint.serviceCenterId, complaint.technicianId, meta),
                   to, auth.role, FALSE)
            /\ visits' = [visits EXCEPT ![v].status = "COMPLETED", ![v].resolution = "set"]
            /\ complaint' = [complaint EXCEPT
                                !.status = to,
                                !.happyCode = meta,
                                !.closedBy = closedBy,
                                !.sla = sla,
                                !.lastResolutionVisitId = v,
                                !.resolutionReview = None]
    BY DEF submitResolution
  <1>2. complaint.status = "IN_PROGRESS"
    <2> DEFINE view == projected(complaint.serviceCenterId, complaint.technicianId, meta)
    <2>1. view.status = complaint.status
      BY DEF projected
    <2>2. v \in OpenVisits
      BY <1>1 DEF IsLatest, OpenVisits, VisitsIn
    <2>3. complaint.status \in {"VISIT_SCHEDULED", "IN_PROGRESS", "WAITING_FOR_PARTS"}
      BY <2>2 DEF ScreenInv, WorkInv, NoStrandedVisit
    <2>4. to \in {"CLOSED", "RESOLUTION_SUBMITTED"}
      <3> HIDE DEF closed
      <3> QED
        OBVIOUS
    <2> HIDE DEF view, to
    <2>5. assertTransition(view, to, auth.role, FALSE)
      BY <1>1 DEF view
    <2>6. complaint.status \in Into(to)
      BY <2>1, <2>5, MoveFrom
    <2> QED
      BY <2>3, <2>4, <2>6 DEF Into
  <1>3. \/ to = "CLOSED" /\ closedBy = auth.role /\ sla = complete(complaint.sla, late)
        \/ to = "RESOLUTION_SUBMITTED" /\ closedBy = complaint.closedBy /\ sla = complaint.sla
    <2> HIDE DEF closed
    <2> QED
      OBVIOUS
  <1> HIDE DEF meta, closed, to, closedBy, sla
  <1>4. /\ complaint'.status = to
        /\ complaint'.sla = sla
        /\ complaint'.lastResolutionVisitId = v
        /\ complaint'.resolutionReview = None
        /\ complaint'.serviceCenterId = complaint.serviceCenterId
        /\ complaint'.technicianId = complaint.technicianId
    BY <1>1 DEF ScreenInv, JobInv, PromiseInv, TypeInv, TypeOK, Complaint
  <1>5. v \in OpenVisits /\ \A w \in OpenVisits : w = v
    BY <1>1, <1>2 DEF IsLatest, OpenVisits, VisitsIn, ScreenInv, WorkInv, NoStrandedVisit
  <1>6. /\ visits'[v].status = "COMPLETED" /\ visits'[v].resolution = "set"
        /\ visits'[v].technicianId = visits[v].technicianId
        /\ visits'[v].serviceCenterId = visits[v].serviceCenterId
        /\ \A w \in VisitIds \ {v} : visits'[w] = visits[w]
    BY <1>1 DEF ScreenInv, JobInv, PromiseInv, TypeInv, TypeOK, Visit
  <1>7. OpenVisits' = {}
    BY <1>5, <1>6 DEF OpenVisits, VisitsIn
  <1>8. /\ visits[v].technicianId = complaint.technicianId
        /\ visits[v].serviceCenterId = complaint.serviceCenterId
    BY <1>5 DEF ScreenInv, WorkInv, OpenVisitHasItsHolder
  <1>9. WorkUnderReviewIsCredited'
    BY <1>3, <1>4, <1>6, <1>8 DEF WorkUnderReviewIsCredited
  <1>10. complaint.sla \in SlaTracking
    BY DEF ScreenInv, JobInv, PromiseInv, TypeInv, TypeOK, Complaint
  <1>11. ClockFollowsWork'
    BY <1>2, <1>3, <1>4, <1>10, ClockEnds DEF ScreenInv, WorkInv, ClockFollowsWork
  <1> QED
    BY <1>3, <1>4, <1>7, <1>9, <1>11, NothingOpen DEF WorkInv

(* Going on hold, for parts or to be done again: no visit changes, and the  *)
(* clock may stop.                                                          *)
LEMMA HoldWork ==
    ASSUME ScreenInv, visits' = visits,
           \/ complaint.status = "IN_PROGRESS" /\ complaint'.status = "WAITING_FOR_PARTS"
           \/ /\ complaint.status \in {"RESOLUTION_SUBMITTED", "ADMIN_CONFIRMATION"}
              /\ complaint'.status = "REVISIT_REQUIRED",
           complaint'.serviceCenterId = complaint.serviceCenterId,
           complaint'.technicianId = complaint.technicianId,
           complaint'.sla \in {complaint.sla, pause(complaint.sla)}
    PROVE  WorkInv'
  <1>1. NoStrandedVisit' /\ OpenVisitHasItsHolder'
    BY DEF ScreenInv, WorkInv, NoStrandedVisit, OpenVisitHasItsHolder, OpenVisits, VisitsIn
  <1>2. ClockFollowsWork'
    <2>1. CASE complaint'.sla = complaint.sla
      BY <2>1 DEF ScreenInv, WorkInv, ClockFollowsWork
    <2>2. CASE complaint'.sla = pause(complaint.sla)
      <3> DEFINE sla == complaint.sla
                 after == pause(sla)
      <3>1. sla \in SlaTracking
        BY DEF ScreenInv, JobInv, PromiseInv, TypeInv, TypeOK, Complaint
      <3>2. /\ after.state = IF sla.state = "RUNNING" THEN "PAUSED" ELSE sla.state
            /\ after.breachedAt = sla.breachedAt
            /\ after.respondedAt = sla.respondedAt
        BY <3>1, ClockSteps
      <3> HIDE DEF after
      <3> QED
        BY <2>2, <3>2 DEF ScreenInv, WorkInv, ClockFollowsWork, after
    <2> QED
      BY <2>1, <2>2
  <1> QED
    BY <1>1, <1>2, NotUnderReview DEF WorkInv

LEMMA ReviewWork ==
    ASSUME ScreenInv, NEW auth, NEW accepted \in BOOLEAN, NEW reason \in BOOLEAN,
           NEW pauses \in BOOLEAN, reviewResolution(auth, accepted, reason, pauses)
    PROVE  WorkInv'
  <1> DEFINE to == IF accepted THEN "ADMIN_CONFIRMATION" ELSE "REVISIT_REQUIRED"
             review == IF accepted THEN "ACCEPTED" ELSE "REVISIT_REQUIRED"
             sla == IF pauses THEN pause(complaint.sla) ELSE complaint.sla
  <1>1. complaint.status \in Into(to) /\ pauses \in shouldPause(to)
    BY StoredMoveFrom DEF reviewResolution
  <1>2. /\ complaint'.status = to
        /\ complaint'.resolutionReview = review
        /\ complaint'.sla = sla
        /\ complaint'.serviceCenterId = complaint.serviceCenterId
        /\ complaint'.technicianId = complaint.technicianId
        /\ complaint'.lastResolutionVisitId = complaint.lastResolutionVisitId
        /\ visits' = visits
    <2> HIDE DEF to, review, sla
    <2> QED
      BY DEF to, review, sla, reviewResolution, ScreenInv, JobInv, PromiseInv, TypeInv, TypeOK,
             Complaint
  <1>3. CASE accepted
    <2>1. complaint.status = "RESOLUTION_SUBMITTED" /\ complaint'.sla = complaint.sla
      BY <1>1, <1>2, <1>3 DEF Into, shouldPause
    <2>2. OpenVisits = {} /\ OpenVisits' = {}
      BY <1>2, <2>1 DEF ScreenInv, WorkInv, NoStrandedVisit, OpenVisits, VisitsIn
    <2>3. WorkUnderReviewIsCredited' /\ ClockFollowsWork'
      BY <1>2, <1>3, <2>1
         DEF ScreenInv, WorkInv, WorkUnderReviewIsCredited, ClockFollowsWork
    <2> QED
      BY <1>2, <1>3, <2>2, <2>3, NothingOpen DEF WorkInv
  <1>4. CASE ~accepted
    BY <1>1, <1>2, <1>4, HoldWork DEF Into
  <1> QED
    BY <1>3, <1>4

LEMMA RequireReworkWork ==
    ASSUME ScreenInv, NEW reason \in BOOLEAN, NEW pauses \in BOOLEAN,
           requireRework(reason, pauses)
    PROVE  WorkInv'
  <1>1. complaint.status \in {"RESOLUTION_SUBMITTED", "ADMIN_CONFIRMATION"}
    BY StoredMoveFrom DEF requireRework, Into
  <1>2. /\ complaint'.status = "REVISIT_REQUIRED"
        /\ complaint'.sla \in {complaint.sla, pause(complaint.sla)}
        /\ complaint'.serviceCenterId = complaint.serviceCenterId
        /\ complaint'.technicianId = complaint.technicianId
        /\ visits' = visits
    BY DEF requireRework, ScreenInv, JobInv, PromiseInv, TypeInv, TypeOK, Complaint
  <1> QED
    BY <1>1, <1>2, HoldWork

LEMMA WaitingWork ==
    ASSUME ScreenInv, NEW auth, NEW reason \in BOOLEAN, NEW pauses \in BOOLEAN,
           markWaitingForParts(auth, reason, pauses)
    PROVE  WorkInv'
  <1>1. complaint.status = "IN_PROGRESS"
    BY StoredMoveFrom DEF markWaitingForParts, Into
  <1>2. /\ complaint'.status = "WAITING_FOR_PARTS"
        /\ complaint'.sla \in {complaint.sla, pause(complaint.sla)}
        /\ complaint'.serviceCenterId = complaint.serviceCenterId
        /\ complaint'.technicianId = complaint.technicianId
        /\ visits' = visits
    BY DEF markWaitingForParts, ScreenInv, JobInv, PromiseInv, TypeInv, TypeOK, Complaint
  <1> QED
    BY <1>1, <1>2, HoldWork

(* The screens resume a hold only: what was under way before it still is.   *)
LEMMA ResumeWork ==
    ASSUME ScreenInv, NEW auth, complaint.status = "WAITING_FOR_PARTS", resumeWork(auth)
    PROVE  WorkInv'
  <1>1. /\ complaint'.status = "IN_PROGRESS"
        /\ complaint'.sla = resume(complaint.sla)
        /\ complaint'.serviceCenterId = complaint.serviceCenterId
        /\ complaint'.technicianId = complaint.technicianId
        /\ visits' = visits /\ complaint.sla \in SlaTracking
    BY DEF resumeWork, ScreenInv, JobInv, PromiseInv, TypeInv, TypeOK, Complaint
  <1>2. NoStrandedVisit' /\ OpenVisitHasItsHolder'
    BY <1>1
       DEF ScreenInv, WorkInv, NoStrandedVisit, OpenVisitHasItsHolder, OpenVisits, VisitsIn
  <1>3. ClockFollowsWork'
    <2> DEFINE sla == complaint.sla
               after == resume(sla)
    <2>1. /\ after.state = IF sla.state = "PAUSED" THEN "RUNNING" ELSE sla.state
          /\ after.breachedAt = sla.breachedAt
          /\ after.respondedAt = sla.respondedAt
      BY <1>1, ClockSteps
    <2> HIDE DEF after
    <2> QED
      BY <1>1, <2>1 DEF ScreenInv, WorkInv, ClockFollowsWork, after
  <1> QED
    BY <1>1, <1>2, <1>3, NotUnderReview DEF WorkInv

(* Closing from IN_PROGRESS ends the one visit that may be under way.       *)
LEMMA CloseWork ==
    ASSUME ScreenInv, NEW auth, auth.role \in Roles, NEW code \in {"none", "right"},
           NEW late \in BOOLEAN, closeComplaint(auth, code, late)
    PROVE  WorkInv'
  <1> DEFINE meta == IF code = "none" THEN complaint.happyCode
                     ELSE verifyHappyCode(code, complaint.happyCode)
             sla == complete(complaint.sla, late)
             view == projected(complaint.serviceCenterId, complaint.technicianId, meta)
             underWay == IF complaint.status = "IN_PROGRESS"
                         THEN {v \in VisitIds : IsLatest(v, {"IN_PROGRESS"})} ELSE {}
  <1>1. /\ assertTransition(view, "CLOSED", auth.role, FALSE)
        /\ complaint' = [complaint EXCEPT !.status = "CLOSED", !.happyCode = meta,
                                          !.closedBy = auth.role, !.sla = sla]
        /\ visits' = [v \in VisitIds |->
                        IF v \in underWay THEN [visits[v] EXCEPT !.status = "COMPLETED"]
                        ELSE visits[v]]
    BY DEF closeComplaint
  <1>2. complaint.status \in {"IN_PROGRESS", "RESOLUTION_SUBMITTED", "ADMIN_CONFIRMATION"}
    <2>1. view.status = complaint.status
      BY DEF projected
    <2>2. assertTransition(view, "CLOSED", auth.role, FALSE)
      BY <1>1
    <2> HIDE DEF view
    <2>3. complaint.status \in Into("CLOSED")
      BY <2>1, <2>2, MoveFrom
    <2> QED
      BY <2>3 DEF Into
  <1> HIDE DEF meta, sla, view
  <1>3. /\ complaint'.status = "CLOSED"
        /\ complaint'.sla = sla
        /\ complaint'.serviceCenterId = complaint.serviceCenterId
        /\ complaint'.technicianId = complaint.technicianId
    BY <1>1 DEF ScreenInv, JobInv, PromiseInv, TypeInv, TypeOK, Complaint
  <1>4. OpenVisits' = {}
    <2>1. OpenVisits \subseteq underWay
      <3>1. CASE complaint.status = "IN_PROGRESS"
        BY <3>1 DEF ScreenInv, WorkInv, NoStrandedVisit, OpenVisits, VisitsIn, IsLatest,
                    VisitIds
      <3>2. CASE complaint.status # "IN_PROGRESS"
        BY <1>2, <3>2 DEF ScreenInv, WorkInv, NoStrandedVisit
      <3> QED
        BY <3>1, <3>2
    <2> HIDE DEF underWay
    <2> QED
      BY <1>1, <2>1 DEF OpenVisits, VisitsIn, ScreenInv, JobInv, PromiseInv, TypeInv, TypeOK,
                        Visit
  <1>5. sla.state = "COMPLETED"
    BY ClockEnds DEF sla, ScreenInv, JobInv, PromiseInv, TypeInv, TypeOK, Complaint
  <1>6. ClockFollowsWork'
    BY <1>2, <1>3, <1>5, NoneAssumption
       DEF ScreenInv, WorkInv, ClockFollowsWork
  <1> QED
    BY <1>3, <1>4, <1>6, NothingOpen, NotUnderReview DEF WorkInv

LEMMA ReopenWork ==
    ASSUME ScreenInv, NEW reason \in BOOLEAN, reopenComplaint(reason)
    PROVE  WorkInv'
  <1>1. complaint.status \in TerminalStatuses
    BY StoredMoveFrom DEF reopenComplaint, Into
  <1>2. /\ complaint'.status = "REOPENED"
        /\ complaint'.sla = startTracking
        /\ complaint'.serviceCenterId = complaint.serviceCenterId
        /\ visits' = visits
    BY DEF reopenComplaint, ScreenInv, JobInv, PromiseInv, TypeInv, TypeOK, Complaint
  <1>3. OpenVisits' = {}
    BY <1>1, <1>2
       DEF ScreenInv, WorkInv, NoStrandedVisit, TerminalStatuses, OpenVisits, VisitsIn
  <1>4. ClockFollowsWork'
    BY <1>2 DEF ClockFollowsWork, startTracking
  <1> QED
    BY <1>2, <1>3, <1>4, NothingOpen, NotUnderReview DEF WorkInv

LEMMA CancelWork ==
    ASSUME ScreenInv, NEW reason \in BOOLEAN, cancelComplaint(reason)
    PROVE  WorkInv'
  <1>1. complaint.status \notin TerminalStatuses
    BY StoredMoveFrom DEF cancelComplaint, Into
  <1>2. /\ complaint'.status = "CANCELLED"
        /\ complaint'.sla = complaint.sla
        /\ complaint'.serviceCenterId = complaint.serviceCenterId
        /\ OpenVisits' = {}
    BY AllCalledOff DEF cancelComplaint, ScreenInv, JobInv, PromiseInv, TypeInv, TypeOK,
                        Complaint
  <1>3. ClockFollowsWork'
    BY <1>1, <1>2
       DEF ScreenInv, WorkInv, ClockFollowsWork, TerminalStatuses
  <1> QED
    BY <1>2, <1>3, NothingOpen, NotUnderReview DEF WorkInv

(* Codes, ratings, part requests, breaches and accounts move no visit.      *)
LEMMA AsideWork ==
    ASSUME ScreenInv, Aside
    PROVE  WorkInv'
  <1>1. TypeInv
    BY DEF ScreenInv, JobInv, PromiseInv
  <1> QED
    BY <1>1, AsideKeeps, StaysPut

-----------------------------------------------------------------------------
LEMMA InitWork == Init => ScreenInv
  <1> SUFFICES ASSUME Init PROVE ScreenInv
    OBVIOUS
  <1>1. PICK c \in Centres \cup {None} : complaint = NewComplaint(c)
    BY DEF Init
  <1>2. /\ complaint.status = IF c = None THEN "NEW" ELSE "ASSIGNED"
        /\ complaint.sla = startTracking
    BY <1>1 DEF NewComplaint
  <1>3. OpenVisits = {} /\ VisitsIn({"SCHEDULED"}) = {}
    BY DEF Init, OpenVisits, VisitsIn, Unbooked
  <1> QED
    BY <1>2, <1>3, InitJob
       DEF ScreenInv, WorkInv, NoStrandedVisit, OpenVisitHasItsHolder,
           WorkUnderReviewIsCredited, ClockFollowsWork, startTracking

LEMMA NextWork == ScreenInv /\ [ScreenNext]_vars => ScreenInv'
  <1> SUFFICES ASSUME ScreenInv, [ScreenNext]_vars PROVE WorkInv'
    BY NextJob DEF ScreenInv, ScreenNext, Next
  <1>1. CASE AdminSteps
    BY <1>1, CallersHaveRoles, AssignServiceCenterWork, CancelVisitWork, RequireReworkWork,
       AsideWork, CloseWork, ReopenWork, CancelWork DEF AdminSteps, Aside
  <1>2. CASE OwnerSteps
    <2>1. PICK auth \in Owners :
            \/ \E t \in Technicians : assignTechnician(auth, t)
            \/ \E t \in Technicians \cup {None}, reason \in BOOLEAN : scheduleVisit(auth, t, reason)
            \/ \E v \in VisitIds : cancelScheduledVisit(auth, v)
            \/ \E accepted, reason, pauses \in BOOLEAN :
                  reviewResolution(auth, accepted, reason, pauses)
            \/ \E code \in {"none", "right"}, late \in BOOLEAN : closeComplaint(auth, code, late)
            \/ \E reason, pauses \in BOOLEAN : markWaitingForParts(auth, reason, pauses)
            \/ Aside
      BY <1>2 DEF OwnerSteps, Aside
    <2> QED
      BY <2>1, CallersHaveRoles, AssignTechnicianWork, ScheduleVisitWork, CancelVisitWork,
         ReviewWork, AsideWork, CloseWork, WaitingWork
  <1>3. CASE TechnicianSteps
    <2>1. PICK auth \in Techs :
            \/ \E endsHere \in BOOLEAN : startVisit(auth, endsHere)
            \/ \E code \in {"none", "right", "wrong"}, late \in BOOLEAN :
                  submitResolution(auth, code, late)
            \/ \E reason, pauses \in BOOLEAN : markWaitingForParts(auth, reason, pauses)
            \/ Aside
      BY <1>3 DEF TechnicianSteps, Aside
    <2> QED
      BY <2>1, CallersHaveRoles, StartVisitWork, SubmitResolutionWork, WaitingWork, AsideWork
  <1>4. CASE BackgroundSteps \/ UNCHANGED vars
    BY <1>4, AsideWork DEF Aside
  <1>5. CASE /\ complaint.status = "WAITING_FOR_PARTS"
             /\ \E auth \in Owners \cup Techs : resumeWork(auth)
    BY <1>5, ResumeWork
  <1> QED
    BY <1>1, <1>2, <1>3, <1>4, <1>5 DEF ScreenNext, OtherSteps

LEMMA ScreensHold == ScreenSpec => []ScreenInv
  BY InitWork, NextWork, PTL DEF ScreenSpec

(* Driven from its screens, no complaint ever disagrees with its visits:    *)
(* whatever is handed over, called off, moved or closed, the visits open    *)
(* are the ones its status tells of.                                        *)
THEOREM NothingStranded == ScreenSpec => []NoStrandedVisit
  <1>1. ScreenInv => NoStrandedVisit
    BY DEF ScreenInv, WorkInv
  <1> QED
    BY ScreensHold, <1>1, PTL

(* Every open visit is with the technician and the centre that hold the     *)
(* complaint now.                                                           *)
THEOREM OpenVisitsAreHeld == ScreenSpec => []OpenVisitHasItsHolder
  <1>1. ScreenInv => OpenVisitHasItsHolder
    BY DEF ScreenInv, WorkInv
  <1> QED
    BY ScreensHold, <1>1, PTL

(* Work under review is always a finished visit of the technician and the   *)
(* centre credited with it, and the review that stands is of that work.     *)
THEOREM ReviewedWorkIsCredited == ScreenSpec => []WorkUnderReviewIsCredited
  <1>1. ScreenInv => WorkUnderReviewIsCredited
    BY DEF ScreenInv, WorkInv
  <1> QED
    BY ScreensHold, <1>1, PTL

(* The complaint's clock stands still, breaches and finishes with the work, *)
(* through every hold, hand-over, closure and reopening.                    *)
THEOREM ClockKeepsWithWork == ScreenSpec => []ClockFollowsWork
  <1>1. ScreenInv => ClockFollowsWork
    BY DEF ScreenInv, WorkInv
  <1> QED
    BY ScreensHold, <1>1, PTL

(* The integrity checker never raises an alarm about a complaint driven     *)
(* from the screens but the four that have a sound explanation.             *)
THEOREM AlarmsExplained == ScreenSpec => []AlarmsAreExplained
  <1>1. ScreenInv => AlarmsAreExplained
    <2> SUFFICES ASSUME ScreenInv PROVE AlarmsAreExplained
      OBVIOUS
    <2>1. closedUnverified => complaint.closedBy = ADMIN
      BY DEF ScreenInv, JobInv, PromiseInv, ClosedOnConfirmation, closedUnverified
    <2>2. assignedNowhere => complaint.status = "REOPENED" /\ reopenedWithoutHistory
      <3> SUFFICES ASSUME assignedNowhere
                   PROVE  complaint.status = "REOPENED" /\ reopenedWithoutHistory
        OBVIOUS
      <3>1. complaint.technicianId = None
        BY CentreOfAssumption, NoneAssumption
           DEF assignedNowhere, ScreenInv, JobInv, PromiseInv, TechnicianWorksForHolder,
               TypeInv, TypeOK,
               Complaint
      <3>2. complaint.status = "REOPENED"
        BY <3>1 DEF assignedNowhere, ScreenInv, JobInv, JobInOrder, JobHasItsPeople, OnTheJob,
                    PromiseInv, TypeInv, TypeOK, Complaint, Statuses
      <3> QED
        BY <3>2 DEF assignedNowhere, reopenedWithoutHistory, ScreenInv, JobInv, JobInOrder,
                    RecordAddsUp
    <2>3. ~assignedNobody
      BY DEF assignedNobody, ScreenInv, JobInv, JobInOrder, JobHasItsPeople, OnTheJob
    <2>4. reopenedWithoutHistory /\ complaint.closedBy # None => complaint.status = "CLOSED"
      BY DEF ScreenInv, JobInv, JobInOrder, RecordAddsUp
    <2>5. mismatched \subseteq VisitsIn({"COMPLETED", "CANCELLED"})
      BY DEF mismatched, VisitsIn, OpenVisits, ScreenInv, WorkInv, OpenVisitHasItsHolder,
             JobInv, PromiseInv, TypeInv, TypeOK, Visit
    <2>6. stranded = {}
      BY DEF stranded, VisitsIn, OpenVisits, ScreenInv, WorkInv, NoStrandedVisit
    <2> QED
      BY <2>1, <2>2, <2>3, <2>4, <2>5, <2>6 DEF AlarmsAreExplained
  <1> QED
    BY ScreensHold, <1>1, PTL
-----------------------------------------------------------------------------
(* The dashboards. A rule of the table whose preconditions hold is a move   *)
(* the pages are told of, and where they are told of a booking.             *)
LEMMA RuleOffered ==
    ASSUME NEW from, NEW to, NEW roles, NEW requires, NEW needsReason,
           Rule(from, to, roles, requires, needsReason) \in TRANSITIONS,
           NEW role \in roles, complaint.status = from,
           \A req \in requires : meetsRequirement(req, stateViewOf)
    PROVE  to \in nextActions(role)
  <1> DEFINE rule == Rule(from, to, roles, requires, needsReason)
  <1>1. /\ rule \in TRANSITIONS /\ rule.from = complaint.status /\ rule.to = to
        /\ rule.roles = roles /\ rule.requires = requires
    BY DEF Rule
  <1>2. stateViewOf.status = complaint.status
    BY DEF stateViewOf, projected
  <1> HIDE DEF rule
  <1>3. rule \in availableTransitions(stateViewOf, role)
    BY <1>1, <1>2 DEF availableTransitions, transitionsFrom, Ready
  <1> QED
    BY <1>1, <1>3 DEF nextActions

LEMMA OwnerMoves ==
    ASSUME ScreenInv
    PROVE  /\ "VISIT_SCHEDULED" \in nextActions(OWNER)
                 <=> complaint.status \in {"TECHNICIAN_ASSIGNED", "WAITING_FOR_PARTS",
                                           "IN_PROGRESS", "REVISIT_REQUIRED"}
           /\ complaint.status = "WAITING_FOR_PARTS" => "IN_PROGRESS" \in nextActions(OWNER)
  <1>1. ASSUME "VISIT_SCHEDULED" \in nextActions(OWNER)
        PROVE  complaint.status \in Into("VISIT_SCHEDULED")
    <2>1. PICK rule \in TRANSITIONS : rule.from = complaint.status /\ rule.to = "VISIT_SCHEDULED"
      BY <1>1 DEF nextActions, availableTransitions, transitionsFrom, stateViewOf, projected
    <2> QED
      BY <2>1, MovesStart
  <1>2. ASSUME complaint.status \in OnTheJob, NEW req \in HasTechnician
        PROVE  meetsRequirement(req, stateViewOf)
    BY <1>2 DEF HasTechnician, meetsRequirement, stateViewOf, projected, ScreenInv, JobInv,
                JobInOrder, JobHasItsPeople
  <1>3. ASSUME NEW from \in {"TECHNICIAN_ASSIGNED", "WAITING_FOR_PARTS", "IN_PROGRESS",
                             "REVISIT_REQUIRED"},
               complaint.status = from
        PROVE  "VISIT_SCHEDULED" \in nextActions(OWNER)
    <2>1. Rule(from, "VISIT_SCHEDULED", {OWNER}, HasTechnician, from = "IN_PROGRESS")
            \in TRANSITIONS
      BY DEF TRANSITIONS, Rule
    <2> QED
      BY <1>2, <1>3, <2>1, RuleOffered DEF OnTheJob
  <1>4. ASSUME complaint.status = "WAITING_FOR_PARTS"
        PROVE  "IN_PROGRESS" \in nextActions(OWNER)
    <2>1. Rule("WAITING_FOR_PARTS", "IN_PROGRESS", {OWNER, TECHNICIAN}, {}, FALSE) \in TRANSITIONS
      BY DEF TRANSITIONS
    <2> DEFINE none == {}
               roles == {OWNER, TECHNICIAN}
    <2>2. /\ \A req \in none : meetsRequirement(req, stateViewOf)
          /\ OWNER \in roles
          /\ Rule("WAITING_FOR_PARTS", "IN_PROGRESS", roles, none, FALSE) \in TRANSITIONS
      BY <2>1
    <2> HIDE DEF none, roles
    <2> QED
      BY <1>4, <2>2, RuleOffered
  <1> QED
    BY <1>1, <1>3, <1>4 DEF Into

LEMMA AdminMoves ==
    /\ complaint.status = "REOPENED" /\ complaint.serviceCenterId # None
          => "ASSIGNED" \in nextActions(ADMIN)
    /\ complaint.status = "RESOLUTION_SUBMITTED" => "CLOSED" \in nextActions(ADMIN)
    /\ complaint.status = "ADMIN_CONFIRMATION" /\ IsVerified(complaint.happyCode)
          => "CLOSED" \in nextActions(ADMIN)
  <1>1. /\ Rule("REOPENED", "ASSIGNED", {ADMIN}, HasCentre, FALSE) \in TRANSITIONS
        /\ Rule("RESOLUTION_SUBMITTED", "CLOSED", {ADMIN}, {}, FALSE) \in TRANSITIONS
        /\ Rule("ADMIN_CONFIRMATION", "CLOSED", {ADMIN}, Verified, FALSE) \in TRANSITIONS
    BY DEF TRANSITIONS
  <1>2. /\ complaint.serviceCenterId # None
              => \A req \in HasCentre : meetsRequirement(req, stateViewOf)
        /\ IsVerified(complaint.happyCode)
              => \A req \in Verified : meetsRequirement(req, stateViewOf)
    BY DEF HasCentre, Verified, meetsRequirement, stateViewOf, projected, IsVerified
  <1> DEFINE none == {}
  <1>3. /\ \A req \in none : meetsRequirement(req, stateViewOf)
        /\ Rule("RESOLUTION_SUBMITTED", "CLOSED", {ADMIN}, none, FALSE) \in TRANSITIONS
    BY <1>1
  <1> HIDE DEF none
  <1>4. complaint.status = "REOPENED" /\ complaint.serviceCenterId # None
           => "ASSIGNED" \in nextActions(ADMIN)
    BY <1>1, <1>2, <1>3, RuleOffered
  <1>5. complaint.status = "RESOLUTION_SUBMITTED" => "CLOSED" \in nextActions(ADMIN)
    BY <1>1, <1>3, RuleOffered
  <1>6. complaint.status = "ADMIN_CONFIRMATION" /\ IsVerified(complaint.happyCode)
           => "CLOSED" \in nextActions(ADMIN)
    BY <1>1, <1>2, <1>3, RuleOffered
  <1> QED
    BY <1>4, <1>5, <1>6

(* Admin may move a complaint with a centre, but for one that has not begun *)
(* and one that waits for his closing.                                      *)
LEMMA CentreMoves ==
    ASSUME complaint.status \in {"REOPENED"} \cup CENTRE_REASSIGNABLE_FROM,
           complaint.serviceCenterId # None
    PROVE  "ASSIGNED" \in nextActions(ADMIN)
  <1> DEFINE move(reason) == Rule(complaint.status, "ASSIGNED", {ADMIN}, HasCentre, reason)
  <1>1. CASE complaint.status = "REOPENED"
    BY <1>1, AdminMoves
  <1>2. CASE complaint.status \in CENTRE_REASSIGNABLE_FROM
    <2>1. move(TRUE) \in centreReassignmentRules
      BY <1>2 DEF centreReassignmentRules, HasCentre
    <2>2. move(TRUE) \in TRANSITIONS
      BY <2>1 DEF TRANSITIONS
    <2>3. \A req \in HasCentre : meetsRequirement(req, stateViewOf)
      BY DEF HasCentre, meetsRequirement, stateViewOf, projected
    <2> QED
      BY <2>2, <2>3, RuleOffered
  <1> QED
    BY <1>1, <1>2

(* The open visits are those of the holder's page, and while work is in     *)
(* progress or on hold there is one at most, under way.                     *)
LEMMA OpenVisitsOnPage ==
    ASSUME ScreenInv, NEW c \in Centres, complaint.serviceCenterId = c
    PROVE  /\ CentreVisits(c, {"SCHEDULED", "IN_PROGRESS"}) = OpenVisits
           /\ complaint.status \in {"IN_PROGRESS", "WAITING_FOR_PARTS"}
                 => /\ onSite(c) <=> OpenVisits # {}
                    /\ currentVisit = OpenVisits
                    /\ OpenVisits \subseteq VisitsIn({"IN_PROGRESS"})
  <1>1. CentreVisits(c, {"SCHEDULED", "IN_PROGRESS"}) = OpenVisits
    BY DEF CentreVisits, OpenVisits, VisitsIn, ScreenInv, WorkInv, OpenVisitHasItsHolder
  <1>2. ASSUME complaint.status \in {"IN_PROGRESS", "WAITING_FOR_PARTS"}
        PROVE  /\ onSite(c) <=> OpenVisits # {}
               /\ currentVisit = OpenVisits
               /\ OpenVisits \subseteq VisitsIn({"IN_PROGRESS"})
    <2>1. /\ VisitsIn({"SCHEDULED"}) = {}
          /\ \A v, w \in OpenVisits : v = w
      BY <1>2 DEF ScreenInv, WorkInv, NoStrandedVisit
    <2>2. \A v \in OpenVisits : v \in Nat /\ visits[v].status = "IN_PROGRESS" /\ v \in VisitIds
      BY <2>1, BoundsAssumption DEF OpenVisits, VisitsIn, VisitIds
    <2>3. \A v, w \in OpenVisits : w <= v
      BY <2>1, <2>2
    <2>4. openVisit(c) = OpenVisits
      BY <1>1, <2>3 DEF openVisit
    <2>5. currentVisit = OpenVisits
      BY <2>3 DEF currentVisit
    <2> QED
      BY <2>2, <2>4, <2>5 DEF onSite, VisitsIn
  <1> QED
    BY <1>1, <1>2

LEMMA BookingOffered ==
    ASSUME ScreenInv, NEW c \in Centres, complaint.serviceCenterId = c
    PROVE  ownerPage(c).schedule
             <=> \/ complaint.status \in {"TECHNICIAN_ASSIGNED", "REVISIT_REQUIRED",
                                          "WAITING_FOR_PARTS"}
                 \/ needsRebooking
  <1>1. ownerPage(c).schedule <=> /\ "VISIT_SCHEDULED" \in nextActions(OWNER)
                                  /\ ~(complaint.status = "IN_PROGRESS" /\ onSite(c))
    BY Zenon DEF ownerPage
  <1>2. complaint.status = "IN_PROGRESS" => (needsRebooking <=> ~onSite(c))
    BY OpenVisitsOnPage DEF needsRebooking
  <1>3. needsRebooking => complaint.status = "IN_PROGRESS"
    BY DEF needsRebooking
  <1> QED
    BY <1>1, <1>2, <1>3, OwnerMoves

LEMMA AtMostOne ==
    ASSUME NEW S, NEW x, S \subseteq {x}
    PROVE  Cardinality(S) <= 1
  <1>1. CASE S = {}
    BY <1>1, FS_EmptySet
  <1>2. CASE S = {x}
    <2>1. Cardinality({x}) = 1
      BY FS_Singleton
    <2> QED
      BY <1>2, <2>1
  <1> QED
    BY <1>1, <1>2

(* Whatever waits for a person is where he looks for it: in one of the      *)
(* Owner's queues with its button on the page, on the schedule, on hold or  *)
(* with Admin; and an open visit is in one section of one phone.            *)
THEOREM NothingUnseen == ScreenSpec => []NothingWaitsUnseen
  <1>1. ScreenInv => NothingWaitsUnseen
    <2> SUFFICES ASSUME ScreenInv, NEW c \in Centres, complaint.serviceCenterId = c, IS_OPEN
                 PROVE  LET q == queues(c)
                            queued == {name \in DOMAIN q : q[name]}
                            page == ownerPage(c)
                        IN  /\ Cardinality(queued) <= 1
                            /\ q.toAssign /\ technicianOptions(c) # {} => page.assign
                            /\ q.toBook => page.schedule
                            /\ q.toReview => page.accept /\ page.sendBack
                            /\ page.schedule /\ complaint.status # "WAITING_FOR_PARTS" => q.toBook
                            /\ \A day \in [OpenVisits -> Days] :
                                  LET booked == onSchedule(Owner(c), day)
                                  IN  /\ \/ queued # {} \/ booked # {}
                                         \/ complaint.status \in {"WAITING_FOR_PARTS",
                                                                  "ADMIN_CONFIRMATION"}
                                      /\ OpenVisits \subseteq booked
                                      /\ \A v \in OpenVisits : \E t \in Technicians :
                                            Cardinality({s \in {"inProgress", "today", "upcoming"} :
                                                            v \in jobSections(t, day)[s]}) = 1
      BY DEF NothingWaitsUnseen
    <2> DEFINE q == queues(c)
               queued == {name \in DOMAIN q : q[name]}
               page == ownerPage(c)
    <2>1. complaint.status \in Statuses \ (TerminalStatuses \cup {"NEW"})
      BY NoneAssumption DEF IS_OPEN, ScreenInv, JobInv, JobInOrder, JobHasItsPeople, PromiseInv,
                            TypeInv, TypeOK, Complaint
    <2>2. /\ DOMAIN q = {"toAssign", "toBook", "toReview"}
          /\ q.toAssign <=> complaint.status \in {"ASSIGNED", "REOPENED"}
          /\ q.toBook <=> \/ complaint.status \in {"TECHNICIAN_ASSIGNED", "REVISIT_REQUIRED"}
                          \/ needsRebooking
          /\ q.toReview <=> complaint.status = "RESOLUTION_SUBMITTED"
      <3>1. complaintScope(Owner(c))
        BY DEF complaintScope, Owner, OWNER, TECHNICIAN
      <3>2. needsRebooking => complaint.status = "IN_PROGRESS"
        BY DEF needsRebooking
      <3> QED
        BY <3>1, <3>2, Zenon DEF queues, QUEUE_STATUSES
    <2>3. /\ page.assign <=> complaint.status \in {"ASSIGNED", "REOPENED"} /\ technicianOptions(c) # {}
          /\ page.accept <=> /\ complaint.status = "RESOLUTION_SUBMITTED"
                             /\ complaint.lastResolutionVisitId \in CentreVisits(c, {"COMPLETED"})
          /\ page.sendBack <=> page.accept
      BY Zenon DEF ownerPage
    <2>4. complaint.status = "RESOLUTION_SUBMITTED"
             => complaint.lastResolutionVisitId \in CentreVisits(c, {"COMPLETED"})
      BY DEF ScreenInv, WorkInv, WorkUnderReviewIsCredited, CentreVisits, VisitsIn
    <2>5. needsRebooking => complaint.status = "IN_PROGRESS"
      BY DEF needsRebooking
    <2> HIDE DEF q, page
    <2>6. Cardinality(queued) <= 1
      <3>1. \/ queued \subseteq {"toAssign"} \/ queued \subseteq {"toBook"}
            \/ queued \subseteq {"toReview"}
        BY <2>2, <2>5
      <3> QED
        BY <3>1, AtMostOne
    <2>7. page.schedule <=> complaint.status = "WAITING_FOR_PARTS" \/ q.toBook
      BY <2>2, BookingOffered DEF page
    <2>8. ASSUME NEW day \in [OpenVisits -> Days]
          PROVE  /\ OpenVisits \subseteq onSchedule(Owner(c), day)
                 /\ \/ queued # {} \/ onSchedule(Owner(c), day) # {}
                    \/ complaint.status \in {"WAITING_FOR_PARTS", "ADMIN_CONFIRMATION"}
                 /\ \A v \in OpenVisits : \E t \in Technicians :
                       Cardinality({s \in {"inProgress", "today", "upcoming"} :
                                       v \in jobSections(t, day)[s]}) = 1
      <3>1. OpenVisits \subseteq onSchedule(Owner(c), day)
        <4> SUFFICES ASSUME NEW v \in OpenVisits PROVE v \in onSchedule(Owner(c), day)
          OBVIOUS
        <4>1. v \in visitScope(Owner(c))
          <5>1. visitScope(Owner(c)) = {w \in VisitIds : visits[w].serviceCenterId = c}
            BY DEF visitScope, Owner, OWNER, TECHNICIAN
          <5> QED
            BY <5>1 DEF OpenVisits, VisitsIn, ScreenInv, WorkInv, OpenVisitHasItsHolder
        <4>2. day[v] \in RANGES.missed \cup RANGES.all
          BY DEF Days, RANGES, Today
        <4>3. v \in VisitsIn({"SCHEDULED"}) \/ v \in VisitsIn({"IN_PROGRESS"})
          BY DEF OpenVisits, VisitsIn
        <4> QED
          BY <4>1, <4>2, <4>3 DEF onSchedule, Booked
      <3>2. \/ queued # {} \/ OpenVisits # {}
            \/ complaint.status \in {"WAITING_FOR_PARTS", "ADMIN_CONFIRMATION"}
        <4>1. CASE complaint.status = "VISIT_SCHEDULED"
          BY <4>1 DEF ScreenInv, WorkInv, NoStrandedVisit
        <4>2. CASE complaint.status = "IN_PROGRESS"
          <5>1. needsRebooking \/ OpenVisits # {}
            BY <4>2, OpenVisitsOnPage DEF needsRebooking
          <5>2. needsRebooking => "toBook" \in queued
            BY <2>2
          <5> QED
            BY <5>1, <5>2
        <4>3. CASE complaint.status \in {"ASSIGNED", "REOPENED"}
          <5>1. "toAssign" \in queued
            BY <2>2, <4>3
          <5> QED
            BY <5>1
        <4>4. CASE complaint.status \in {"TECHNICIAN_ASSIGNED", "REVISIT_REQUIRED"}
          <5>1. "toBook" \in queued
            BY <2>2, <4>4
          <5> QED
            BY <5>1
        <4>5. CASE complaint.status = "RESOLUTION_SUBMITTED"
          <5>1. "toReview" \in queued
            BY <2>2, <4>5
          <5> QED
            BY <5>1
        <4> QED
          BY <2>1, <4>1, <4>2, <4>3, <4>4, <4>5 DEF Statuses, TerminalStatuses
      <3>3. ASSUME NEW v \in OpenVisits
            PROVE  \E t \in Technicians :
                      Cardinality({s \in {"inProgress", "today", "upcoming"} :
                                      v \in jobSections(t, day)[s]}) = 1
        <4> DEFINE t == complaint.technicianId
                   sections == {s \in {"inProgress", "today", "upcoming"} :
                                   v \in jobSections(t, day)[s]}
        <4>1. complaint.status \in OnTheJob
          BY DEF OnTheJob, ScreenInv, WorkInv, NoStrandedVisit
        <4>2. t \in Technicians
          BY <4>1 DEF ScreenInv, JobInv, JobInOrder, JobHasItsPeople, PromiseInv, TypeInv,
                      TypeOK, Complaint
        <4>3. v \in visitScope(Tech(t))
          BY DEF visitScope, Tech, OWNER, TECHNICIAN, OpenVisits, VisitsIn, ScreenInv, WorkInv,
                 OpenVisitHasItsHolder
        <4>4. /\ v \in jobSections(t, day).inProgress <=> visits[v].status = "IN_PROGRESS"
              /\ v \in jobSections(t, day).today
                   <=> /\ visits[v].status = "SCHEDULED"
                       /\ day[v] \in {"earlier", "earlierToday", "laterToday"}
              /\ v \in jobSections(t, day).upcoming
                   <=> visits[v].status = "SCHEDULED" /\ day[v] \in {"thisWeek", "later"}
          BY <4>3 DEF jobSections, Booked, Today, OpenVisits, VisitsIn
        <4>5. visits[v].status \in {"SCHEDULED", "IN_PROGRESS"} /\ day[v] \in Days
          BY DEF OpenVisits, VisitsIn
        <4>6. \/ sections = {"inProgress"} \/ sections = {"today"} \/ sections = {"upcoming"}
          BY <4>4, <4>5 DEF Days
        <4> HIDE DEF sections
        <4>7. Cardinality(sections) = 1
          BY <4>6, FS_Singleton
        <4> QED
          BY <4>2, <4>7 DEF sections
      <3> QED
        BY <3>1, <3>2, <3>3
    <2> HIDE DEF queued
    <2>9. q.toAssign /\ technicianOptions(c) # {} => page.assign
      BY <2>2, <2>3
    <2>10. q.toReview => page.accept /\ page.sendBack
      BY <2>2, <2>3, <2>4
    <2> QED
      BY <2>6, <2>7, <2>8, <2>9, <2>10 DEF q, queued, page
  <1> QED
    BY ScreensHold, <1>1, PTL

(* What a page tells somebody to do, or tells another that he will do, is   *)
(* on his page; what a deactivated centre leaves behind can be moved; and   *)
(* the visit column says what the status says.                              *)
THEOREM ToldIsOffered == ScreenSpec => []ToldIsOnThePage
  <1>1. ScreenInv => ToldIsOnThePage
    <2> SUFFICES ASSUME ScreenInv PROVE ToldIsOnThePage
      OBVIOUS
    <2>1. ASSUME NEW c \in Centres, complaint.serviceCenterId = c, NEW button \in NextStep(c)
          PROVE  \/ ownerPage(c)[button]
                 \/ button = "resume" /\ ~ownVisitUnderWay(c)
                 \/ button = "assign" /\ technicianOptions(c) = {}
      <3> DEFINE page == ownerPage(c)
      <3>1. /\ page["assign"] <=> /\ complaint.status \in {"ASSIGNED", "REOPENED"}
                                  /\ technicianOptions(c) # {}
            /\ page["resume"] <=> /\ "IN_PROGRESS" \in nextActions(OWNER)
                                  /\ complaint.status = "WAITING_FOR_PARTS"
                                  /\ ownVisitUnderWay(c)
            /\ page["accept"] <=> /\ complaint.status = "RESOLUTION_SUBMITTED"
                                  /\ complaint.lastResolutionVisitId \in CentreVisits(c, {"COMPLETED"})
            /\ page["sendBack"] <=> page["accept"]
            /\ page["closeWithCode"] <=> complaint.status \in {"IN_PROGRESS", "RESOLUTION_SUBMITTED"}
        BY Zenon DEF ownerPage
      <3>2. page["schedule"] <=> \/ complaint.status \in {"TECHNICIAN_ASSIGNED", "REVISIT_REQUIRED",
                                                          "WAITING_FOR_PARTS"}
                                 \/ needsRebooking
        BY <2>1, BookingOffered
      <3>3. complaint.status = "RESOLUTION_SUBMITTED"
               => complaint.lastResolutionVisitId \in CentreVisits(c, {"COMPLETED"})
        BY <2>1 DEF ScreenInv, WorkInv, WorkUnderReviewIsCredited, CentreVisits, VisitsIn
      <3>4. complaint.status = "IN_PROGRESS" /\ ~onSite(c) => needsRebooking
        BY <2>1, OpenVisitsOnPage DEF needsRebooking
      <3> HIDE DEF page
      <3>5. /\ button \in {"assign", "schedule", "resume", "accept", "sendBack", "closeWithCode"}
            /\ button = "assign" => complaint.status \in {"ASSIGNED", "REOPENED"}
            /\ button = "schedule" => \/ complaint.status \in {"TECHNICIAN_ASSIGNED",
                                                               "REVISIT_REQUIRED",
                                                               "WAITING_FOR_PARTS"}
                                      \/ complaint.status = "IN_PROGRESS" /\ ~onSite(c)
            /\ button = "resume" => complaint.status = "WAITING_FOR_PARTS"
            /\ button \in {"accept", "sendBack", "closeWithCode"}
                  => complaint.status = "RESOLUTION_SUBMITTED"
        BY <2>1 DEF NextStep
      <3>6. button = "resume" /\ ownVisitUnderWay(c) => page["resume"]
        BY <3>1, <3>5, OwnerMoves
      <3> QED
        BY <3>1, <3>2, <3>3, <3>4, <3>5, <3>6 DEF page
    <2>2. ASSUME NEW c \in Centres, openJobsNeedingReassignment(c)
          PROVE  \/ ownerPage(c).assign \/ ownerPage(c).reassign
                 \/ technicianOptions(c) = {}
                 \/ complaint.status \in {"RESOLUTION_SUBMITTED", "ADMIN_CONFIRMATION"}
      <3>1. complaint.technicianId \in Technicians /\ IS_OPEN
        BY <2>2 DEF openJobsNeedingReassignment, Team
      <3>2. complaint.technicianId # None
        BY <3>1, NoneAssumption
      <3>3. complaint.status \in {"REOPENED"} \cup REASSIGNABLE
                                   \cup {"RESOLUTION_SUBMITTED", "ADMIN_CONFIRMATION"}
        BY <3>1, <3>2 DEF IS_OPEN, TerminalStatuses, Statuses, REASSIGNABLE, ScreenInv, JobInv,
                          PromiseInv, TechnicianWorksForHolder, TypeInv, TypeOK, Complaint
      <3>4. /\ ownerPage(c).assign <=> /\ complaint.status \in {"ASSIGNED", "REOPENED"}
                                       /\ technicianOptions(c) # {}
            /\ ownerPage(c).reassign <=> /\ complaint.technicianId # None
                                         /\ complaint.status \in REASSIGNABLE
                                         /\ technicianOptions(c) # {}
        BY Zenon DEF ownerPage
      <3> QED
        BY <3>2, <3>3, <3>4
    <2>3. ASSUME NEW button \in NextStepBanner
          PROVE  \/ adminPage[button]
                 \/ adminPage.newCode
                 \/ button = "assignCentre" /\ centreOptions = {}
      <3> DEFINE page == adminPage
                 locked == Locked(complaint.happyCode)
                 verified == IsVerified(complaint.happyCode)
      <3>1. /\ page["assignCentre"] <=> (needsCentre \/ canReassign) /\ centreOptions # {}
            /\ page["verify"] <=> HappyCodePanel /\ ~verified /\ ~locked
            /\ page["newCode"] <=> HappyCodePanel /\ locked
            /\ page["close"] <=> HappyCodePanel /\ ~locked /\ "CLOSED" \in nextActions(ADMIN)
        BY Zenon DEF adminPage
      <3>2. complaint.status \in {"NEW", "REOPENED"} => needsCentre \/ canReassign
        BY AdminMoves DEF needsCentre, canReassign
      <3>3. complaint.status \in {"RESOLUTION_SUBMITTED", "ADMIN_CONFIRMATION"} <=> HappyCodePanel
        BY DEF HappyCodePanel
      <3>4. locked => ~verified
        BY DEF Locked
      <3> HIDE DEF page, locked
      <3>5. \/ button = "assignCentre" /\ complaint.status \in {"NEW", "REOPENED"}
            \/ button = "close" /\ complaint.status = "RESOLUTION_SUBMITTED"
            \/ button = "close" /\ complaint.status = "ADMIN_CONFIRMATION" /\ verified
            \/ button = "verify" /\ complaint.status = "ADMIN_CONFIRMATION" /\ ~verified
        BY <2>3 DEF NextStepBanner
      <3> QED
        BY <3>1, <3>2, <3>3, <3>4, <3>5, AdminMoves DEF page
    <2>4. ASSUME NEW c \in Centres, complaint.serviceCenterId = c
          PROVE  /\ awaited \subseteq NextStep(c)
                 /\ \A t \in Technicians : complaintScope(Tech(t)) => Waiting(t) \subseteq NextStep(c)
      <3>1. awaited \subseteq NextStep(c)
        BY DEF awaited, NextStep
      <3>2. ASSUME NEW t \in Technicians, complaintScope(Tech(t)), NEW button \in Waiting(t)
            PROVE  button \in NextStep(c)
        <4>1. complaint.technicianId = t
          BY <3>2 DEF complaintScope, Tech
        <4>2. \/ complaint.status \in {"TECHNICIAN_ASSIGNED", "REVISIT_REQUIRED"} /\ button = "schedule"
              \/ /\ complaint.status \in {"IN_PROGRESS", "WAITING_FOR_PARTS"} /\ ~working(t)
                 /\ button = "schedule"
              \/ complaint.status = "RESOLUTION_SUBMITTED" /\ button \in {"accept", "sendBack"}
          BY <3>2 DEF Waiting
        <4>3. CASE complaint.status = "IN_PROGRESS" /\ ~working(t) /\ button = "schedule"
          <5>1. OpenVisits = {}
            BY <4>1, <4>3, <2>4, OpenVisitsOnPage
               DEF working, OwnVisits, OpenVisits, VisitsIn, ScreenInv, WorkInv,
                   OpenVisitHasItsHolder
          <5>2. ~onSite(c)
            BY <5>1, <4>3, <2>4, OpenVisitsOnPage
          <5> QED
            BY <4>3, <5>2 DEF NextStep
        <4> QED
          BY <4>2, <4>3 DEF NextStep
      <3> QED
        BY <3>1, <3>2
    <2>5. ASSUME complaint.status = "VISIT_SCHEDULED"
          PROVE  VisitCell = "booked"
      <3>1. PICK v \in VisitIds : VisitsIn({"SCHEDULED"}) = {v} /\ OpenVisits = {v}
        BY <2>5 DEF ScreenInv, WorkInv, NoStrandedVisit
      <3>2. currentVisit = {v}
        BY <3>1, BoundsAssumption DEF currentVisit, VisitIds
      <3>3. v \notin VisitsIn({"IN_PROGRESS"}) /\ v \in VisitsIn({"SCHEDULED"})
        BY <3>1 DEF VisitsIn
      <3>4. ~needsRebooking /\ currentVisit \cap VisitsIn({"IN_PROGRESS"}) = {}
            /\ currentVisit \cap VisitsIn({"SCHEDULED"}) # {}
        BY <2>5, <3>2, <3>3 DEF needsRebooking
      <3> QED
        BY <3>4 DEF VisitCell
    <2>6. ASSUME complaint.status = "IN_PROGRESS"
          PROVE  VisitCell \in {"On site now", "Needs rebooking"}
      <3>1. complaint.serviceCenterId \in Centres
        BY <2>6, CentreOfAssumption, NoneAssumption
           DEF ScreenInv, JobInv, JobInOrder, JobHasItsPeople, OnTheJob, PromiseInv, TypeInv,
               TypeOK, Complaint, TechnicianWorksForHolder
      <3>2. currentVisit = OpenVisits /\ OpenVisits \subseteq VisitsIn({"IN_PROGRESS"})
        BY <2>6, <3>1, OpenVisitsOnPage
      <3>3. /\ needsRebooking <=> currentVisit \cap VisitsIn({"IN_PROGRESS"}) = {}
            /\ currentVisit \cap VisitsIn({"SCHEDULED"}) = {}
        BY <2>6, <3>2 DEF needsRebooking, VisitsIn
      <3>4. CASE needsRebooking
        BY <3>3, <3>4 DEF VisitCell
      <3>5. CASE ~needsRebooking
        BY <3>3, <3>5 DEF VisitCell
      <3> QED
        BY <3>4, <3>5
    <2>7. ASSUME NEW c \in Centres, NeedsNewCentre(c), centreOptions # {},
                 complaint.status # "ADMIN_CONFIRMATION"
          PROVE  adminPage.assignCentre
      <3>1. complaint.serviceCenterId = c /\ IS_OPEN
        BY <2>7 DEF NeedsNewCentre, serviceCenterOverview, countWhere
      <3>2. c # None
        BY NoneAssumption
      <3>3. complaint.status \in {"NEW", "ASSIGNED", "REOPENED"} \cup CENTRE_REASSIGNABLE_FROM
        BY <2>7, <3>1 DEF IS_OPEN, TerminalStatuses, Statuses, CENTRE_REASSIGNABLE_FROM,
                          ScreenInv, JobInv, PromiseInv, TypeInv, TypeOK, Complaint
      <3>4. needsCentre \/ canReassign
        BY <3>1, <3>2, <3>3, CentreMoves DEF needsCentre, canReassign
      <3>5. adminPage.assignCentre <=> (needsCentre \/ canReassign) /\ centreOptions # {}
        BY Zenon DEF adminPage
      <3> QED
        BY <2>7, <3>4, <3>5
    <2> QED
      BY <2>1, <2>2, <2>3, <2>4, <2>5, <2>6, <2>7 DEF ToldIsOnThePage
  <1> QED
    BY ScreensHold, <1>1, PTL

-----------------------------------------------------------------------------
(* The technician's phone. What is kept under a key was written by its      *)
(* technician of its visit; a submission under way carries its own words,   *)
(* and while no answer has come its visit is the only one under way; what   *)
(* the server took belongs to a visit that is over.                         *)
DraftInv ==
    /\ drafts \in [Keys -> Words \cup {None}]
    /\ \A t \in Technicians, v \in VisitIds :
          drafts[keyFor(t, v)] # None => drafts[keyFor(t, v)] = [writer |-> t, visit |-> v]

SendingInv ==
    sending # None =>
        /\ sending \in Submission
        /\ sending.words = [writer |-> sending.technician, visit |-> sending.visit]
        /\ sending.reply = "pending" => \A v \in VisitsIn({"IN_PROGRESS"}) : v = sending.visit
        /\ sending.reply = "accepted" => visits[sending.visit].status = "COMPLETED"

FiledInv ==
    \A v \in VisitIds : filed[v] # None =>
        /\ visits[v].status = "COMPLETED"
        /\ filed[v] = [writer |-> visits[v].technicianId, visit |-> v]

PhoneInv == ScreenInv /\ DraftInv /\ SendingInv /\ FiledInv

(* The handlers that leave every visit as it is.                            *)
LEMMA OtherVisitsStill ==
    /\ \A reason, pauses : requireRework(reason, pauses) => visits' = visits
    /\ \A auth, code : verifyComplaintHappyCode(auth, code) => visits' = visits
    /\ regenerateComplaintHappyCode => visits' = visits
    /\ \A auth : closeWithWrongCode(auth) => visits' = visits
    /\ rateService => visits' = visits
    /\ \A reason : reopenComplaint(reason) => visits' = visits
    /\ \A auth, accepted, reason, pauses :
          reviewResolution(auth, accepted, reason, pauses) => visits' = visits
    /\ \A auth, reason, pauses : markWaitingForParts(auth, reason, pauses) => visits' = visits
    /\ \A auth : resumeWork(auth) => visits' = visits
    /\ \A auth, r : createPartRequest(auth, r) => visits' = visits
    /\ \A auth, r, decision : decidePartRequest(auth, r, decision) => visits' = visits
    /\ recordBreach => visits' = visits
  <1>1. \A reason, pauses : requireRework(reason, pauses) => visits' = visits
    BY DEF requireRework
  <1>2. \A auth, code : verifyComplaintHappyCode(auth, code) => visits' = visits
    BY DEF verifyComplaintHappyCode
  <1>3. (regenerateComplaintHappyCode \/ rateService \/ recordBreach) => visits' = visits
    BY DEF regenerateComplaintHappyCode, rateService, recordBreach
  <1>4. \A auth : closeWithWrongCode(auth) \/ resumeWork(auth) => visits' = visits
    BY DEF closeWithWrongCode, resumeWork
  <1>5. \A reason : reopenComplaint(reason) => visits' = visits
    BY DEF reopenComplaint
  <1>6. \A auth, accepted, reason, pauses :
           reviewResolution(auth, accepted, reason, pauses) => visits' = visits
    BY DEF reviewResolution
  <1>7. \A auth, reason, pauses : markWaitingForParts(auth, reason, pauses) => visits' = visits
    BY DEF markWaitingForParts
  <1>8. /\ \A auth, r : createPartRequest(auth, r) => visits' = visits
        /\ \A auth, r, decision : decidePartRequest(auth, r, decision) => visits' = visits
    BY DEF createPartRequest, decidePartRequest
  <1> QED
    BY <1>1, <1>2, <1>3, <1>4, <1>5, <1>6, <1>7, <1>8

(* A visit under way was booked before: nobody sets out to one that was     *)
(* never booked or is over.                                                 *)
LEMMA WorkWasBooked ==
    ASSUME ScreenInv, [ScreenNext]_vars, NEW v \in VisitIds, visits'[v].status = "IN_PROGRESS"
    PROVE  visits[v].status \in {"SCHEDULED", "IN_PROGRESS"}
  <1>1. visits \in [VisitIds -> Visit]
    BY DEF ScreenInv, JobInv, PromiseInv, TypeInv, TypeOK
  <1>2. CASE visits' = visits
    BY <1>2
  <1>3. CASE visits' = cancelOpenVisits
    BY <1>1, <1>3 DEF cancelOpenVisits
  <1>4. ASSUME NEW auth, NEW t, assignTechnician(auth, t)
        PROVE  visits[v].status = "IN_PROGRESS"
    BY <1>1, <1>4 DEF assignTechnician, handOver, Visit
  <1>5. ASSUME NEW auth, NEW t, NEW reason, scheduleVisit(auth, t, reason)
        PROVE  FALSE
    <2> DEFINE technician == IF t = None THEN complaint.technicianId ELSE t
    <2>1. PICK w \in VisitIds : visits' = book(w, technician)
      BY <1>5 DEF scheduleVisit
    <2> HIDE DEF technician
    <2> QED
      BY <1>1, <2>1 DEF book, Visit
  <1>6. ASSUME NEW auth, NEW w \in VisitIds, cancelScheduledVisit(auth, w)
        PROVE  visits[v].status = "IN_PROGRESS"
    BY <1>1, <1>6 DEF cancelScheduledVisit, Visit
  <1>7. ASSUME NEW auth, NEW endsHere, startVisit(auth, endsHere)
        PROVE  visits[v].status \in {"SCHEDULED", "IN_PROGRESS"}
    BY <1>1, <1>7 DEF startVisit, IsLatest, VisitsIn, Visit
  <1>8. ASSUME NEW auth, NEW code, NEW late, submitResolution(auth, code, late)
        PROVE  visits[v].status = "IN_PROGRESS"
    <2>1. PICK w \in VisitIds :
            visits' = [visits EXCEPT ![w].status = "COMPLETED", ![w].resolution = "set"]
      BY <1>8 DEF submitResolution
    <2> QED
      BY <1>1, <2>1 DEF Visit
  <1>9. ASSUME NEW auth, NEW code, NEW late, closeComplaint(auth, code, late)
        PROVE  visits[v].status = "IN_PROGRESS"
    <2>1. PICK over : visits' = [w \in VisitIds |->
                                   IF w \in over THEN [visits[w] EXCEPT !.status = "COMPLETED"]
                                   ELSE visits[w]]
      BY <1>9 DEF closeComplaint
    <2> QED
      BY <1>1, <2>1 DEF Visit
  <1>10. ASSUME NEW c, NEW reason, assignServiceCenter(c, reason)
         PROVE  visits' = visits \/ visits' = cancelOpenVisits
    BY <1>10 DEF assignServiceCenter
  <1>11. ASSUME NEW reason, cancelComplaint(reason)
         PROVE  visits' = cancelOpenVisits
    BY <1>11 DEF cancelComplaint
  <1>12. CASE AdminSteps
    BY <1>2, <1>3, <1>6, <1>9, <1>10, <1>11, <1>12, OtherVisitsStill DEF AdminSteps
  <1>13. CASE OwnerSteps
    BY <1>2, <1>4, <1>5, <1>6, <1>9, <1>13, OtherVisitsStill DEF OwnerSteps
  <1>14. CASE TechnicianSteps
    BY <1>2, <1>7, <1>8, <1>14, OtherVisitsStill DEF TechnicianSteps
  <1>15. CASE BackgroundSteps \/ UNCHANGED vars \/ \E auth \in Owners \cup Techs : resumeWork(auth)
    BY <1>2, <1>15, OtherVisitsStill
       DEF BackgroundSteps, sweepBreaches, getComplaint, deactivate, reactivate, vars
  <1> QED
    BY <1>12, <1>13, <1>14, <1>15 DEF ScreenNext, OtherSteps

(* Nothing happens on the phone that the screens could not send.            *)
LEMMA PhoneDrivesScreens ==
    ASSUME PhoneInv, [DraftsNext]_draftVars
    PROVE  [ScreenNext]_vars
  <1>1. CASE arrive
    <2>1. sending.technician \in Technicians
      BY <1>1 DEF arrive, PhoneInv, SendingInv, Submission
    <2>2. PICK code \in {"none", "right", "wrong"}, late \in BOOLEAN :
            submitResolution(Tech(sending.technician), code, late)
      BY <1>1 DEF arrive, SubmitStep
    <2> QED
      BY <2>1, <2>2 DEF Techs, TechnicianSteps, OtherSteps, ScreenNext
  <1>2. CASE elsewhere
    BY <1>2 DEF elsewhere
  <1>3. CASE UNCHANGED draftVars
    BY <1>3 DEF draftVars
  <1>4. ASSUME NEW t, NEW v, update(t, v) \/ submit(t, v)
        PROVE  UNCHANGED vars
    BY <1>4 DEF update, submit
  <1>5. CASE fail \/ onSuccess \/ onError
    BY <1>5 DEF fail, onSuccess, onError
  <1>6. ASSUME NEW t, forgetFinishedDrafts(t)
        PROVE  UNCHANGED vars
    BY <1>6 DEF forgetFinishedDrafts
  <1> QED
    BY <1>1, <1>2, <1>3, <1>4, <1>5, <1>6 DEF DraftsNext

(* What the screens do to a visit whose words are sent or filed.            *)
LEMMA ElsewherePhone ==
    ASSUME PhoneInv, [ScreenNext]_vars, sending # None => ~SetsOut, UNCHANGED phoneVars
    PROVE  DraftInv' /\ SendingInv' /\ FiledInv'
  <1>1. VisitsStand
    BY NextPromises DEF PhoneInv, ScreenInv, JobInv, ScreenNext, Next, Promised
  <1>2. DraftInv'
    BY DEF PhoneInv, DraftInv, phoneVars
  <1>3. SendingInv'
    <2> SUFFICES ASSUME sending # None PROVE SendingInv'
      BY DEF SendingInv, phoneVars
    <2>1. ASSUME NEW v \in VisitIds, visits'[v].status = "IN_PROGRESS"
          PROVE  visits[v].status = "IN_PROGRESS"
      BY <2>1, WorkWasBooked DEF PhoneInv, SetsOut, VisitsIn
    <2>2. sending' = sending
      BY DEF phoneVars
    <2> QED
      BY <1>1, <2>1, <2>2 DEF PhoneInv, SendingInv, Submission, VisitsIn, VisitsStand
  <1>4. FiledInv'
    BY <1>1 DEF PhoneInv, FiledInv, VisitsStand, phoneVars
  <1> QED
    BY <1>2, <1>3, <1>4

LEMMA UpdateAndSubmitPhone ==
    ASSUME PhoneInv, NEW t \in Technicians, NEW v \in VisitIds, update(t, v) \/ submit(t, v)
    PROVE  DraftInv' /\ SendingInv' /\ FiledInv'
  <1>1. v \in VisitsIn({"IN_PROGRESS"}) /\ complaint.status = "IN_PROGRESS"
    BY DEF update, submit, ShowsForm, newestVisit, OwnVisits, phonePage
  <1>2. \A w \in VisitsIn({"IN_PROGRESS"}) : w = v
    BY <1>1 DEF PhoneInv, ScreenInv, WorkInv, NoStrandedVisit, OpenVisits, VisitsIn
  <1>3. UNCHANGED <<vars, filed>>
    BY DEF update, submit
  <1>4. FiledInv'
    BY <1>3 DEF PhoneInv, FiledInv, vars
  <1>5. CASE update(t, v)
    <2> DEFINE words == [writer |-> t, visit |-> v]
    <2>1. words \in Words /\ words.writer = t /\ words.visit = v
      BY DEF Words
    <2>2. drafts' = [drafts EXCEPT ![<<t, v>>] = words] /\ sending' = sending
      BY <1>5 DEF update, keyFor
    <2> HIDE DEF words
    <2>3. DraftInv'
      <3>1. drafts' \in [Keys -> Words \cup {None}]
        BY <2>1, <2>2 DEF PhoneInv, DraftInv
      <3>2. ASSUME NEW u \in Technicians, NEW w \in VisitIds, drafts'[<<u, w>>] # None
            PROVE  drafts'[<<u, w>>] = [writer |-> u, visit |-> w]
        <4>1. CASE <<u, w>> = <<t, v>>
          BY <2>2, <4>1 DEF words, PhoneInv, DraftInv, Keys
        <4>2. CASE <<u, w>> # <<t, v>>
          BY <2>2, <3>2, <4>2 DEF PhoneInv, DraftInv, Keys, keyFor
        <4> QED
          BY <4>1, <4>2
      <3> QED
        BY <3>1, <3>2 DEF DraftInv, keyFor
    <2>4. SendingInv'
      BY <1>3, <2>2 DEF PhoneInv, SendingInv, VisitsIn, vars
    <2> QED
      BY <1>4, <2>3, <2>4
  <1>6. CASE submit(t, v)
    <2>1. /\ sending' = [technician |-> t, visit |-> v, words |-> drafts[<<t, v>>],
                         reply |-> "pending"]
          /\ drafts' = drafts /\ drafts[<<t, v>>] # None
      BY <1>6 DEF submit, keyFor
    <2>2. drafts[<<t, v>>] = [writer |-> t, visit |-> v]
      BY <2>1 DEF PhoneInv, DraftInv, keyFor
    <2>3. drafts[<<t, v>>] \in Words
      BY <2>2 DEF Words
    <2>4. SendingInv'
      BY <1>2, <1>3, <2>1, <2>2, <2>3 DEF SendingInv, Submission, VisitsIn, vars
    <2>5. DraftInv'
      BY <2>1 DEF PhoneInv, DraftInv
    <2> QED
      BY <1>4, <2>4, <2>5
  <1> QED
    BY <1>5, <1>6

(* The server finds the visit the words are of: no other is under way.      *)
LEMMA ArrivePhone ==
    ASSUME PhoneInv, arrive
    PROVE  DraftInv' /\ SendingInv' /\ FiledInv'
  <1> DEFINE t == sending.technician
             sent == sending.visit
  <1>1. /\ sending \in Submission /\ sending.words = [writer |-> t, visit |-> sent]
        /\ \A v \in VisitsIn({"IN_PROGRESS"}) : v = sent
    BY DEF arrive, PhoneInv, SendingInv
  <1>2. PICK v \in VisitIds :
          /\ v \in VisitsIn({"IN_PROGRESS"}) /\ visits[v].technicianId = t
          /\ visits' = [visits EXCEPT ![v].status = "COMPLETED", ![v].resolution = "set"]
    BY DEF arrive, SubmitStep, submitResolution, IsLatest, Tech
  <1>3. v = sent
    BY <1>1, <1>2
  <1>4. visits \in [VisitIds -> Visit]
    BY DEF PhoneInv, ScreenInv, JobInv, PromiseInv, TypeInv, TypeOK
  <1>5. /\ visits'[v].status = "COMPLETED" /\ visits'[v].technicianId = t
        /\ \A w \in VisitIds \ {v} : visits'[w] = visits[w]
    BY <1>2, <1>4 DEF Visit
  <1>6. visits[v].status = "IN_PROGRESS"
    BY <1>2 DEF VisitsIn
  <1>7. \A w \in VisitIds : filed'[w] = IF w = v THEN sending.words ELSE filed[w]
    BY <1>5, <1>6 DEF arrive
  <1>8. PICK reply \in {"accepted", "failed"} : sending' = [sending EXCEPT !.reply = reply]
    BY DEF arrive
  <1>9. FiledInv'
    BY <1>1, <1>3, <1>5, <1>7 DEF PhoneInv, FiledInv
  <1>10. /\ sending' \in Submission /\ sending'.reply = reply /\ sending'.visit = sent
         /\ sending'.words = sending.words /\ sending'.technician = t
    BY <1>1, <1>8 DEF Submission
  <1>11. SendingInv'
    BY <1>1, <1>3, <1>5, <1>10 DEF SendingInv
  <1>12. DraftInv'
    BY DEF arrive, PhoneInv, DraftInv
  <1> QED
    BY <1>9, <1>11, <1>12

LEMMA AnswerPhone ==
    ASSUME PhoneInv, fail \/ onSuccess \/ onError
    PROVE  DraftInv' /\ SendingInv' /\ FiledInv'
  <1>1. sending \in Submission /\ UNCHANGED <<vars, filed>>
    BY DEF fail, onSuccess, onError, PhoneInv, SendingInv
  <1>2. FiledInv'
    BY <1>1 DEF PhoneInv, FiledInv, vars
  <1>3. DraftInv'
    <2>1. CASE drafts' = drafts
      BY <2>1 DEF PhoneInv, DraftInv
    <2>2. CASE discard(sending.visit)
      BY <1>1, <2>2 DEF discard, PhoneInv, DraftInv, Keys, keyFor, Submission
    <2> QED
      BY <2>1, <2>2 DEF fail, onSuccess, onError
  <1>4. SendingInv'
    <2>1. CASE fail
      BY <1>1, <2>1 DEF fail, PhoneInv, SendingInv, Submission
    <2>2. CASE onSuccess \/ onError
      BY <2>2 DEF onSuccess, onError, SendingInv
    <2> QED
      BY <2>1, <2>2
  <1> QED
    BY <1>2, <1>3, <1>4

LEMMA ForgetPhone ==
    ASSUME PhoneInv, NEW t \in Technicians, forgetFinishedDrafts(t)
    PROVE  DraftInv' /\ SendingInv' /\ FiledInv'
  <1>1. UNCHANGED <<vars, sending, filed>>
    BY DEF forgetFinishedDrafts
  <1>2. DraftInv'
    BY DEF forgetFinishedDrafts, PhoneInv, DraftInv, Keys, keyFor
  <1>3. SendingInv' /\ FiledInv'
    BY <1>1 DEF PhoneInv, SendingInv, FiledInv, VisitsIn, vars
  <1> QED
    BY <1>2, <1>3

LEMMA PhoneHolds == DraftsSpec => []PhoneInv
  <1>1. DraftsInit => PhoneInv
    <2> SUFFICES ASSUME DraftsInit PROVE PhoneInv
      OBVIOUS
    <2>1. ScreenInv
      BY InitWork DEF DraftsInit
    <2>2. DraftInv /\ SendingInv /\ FiledInv
      BY DEF DraftsInit, DraftInv, SendingInv, FiledInv, Keys, keyFor
    <2> QED
      BY <2>1, <2>2 DEF PhoneInv
  <1>2. PhoneInv /\ [DraftsNext]_draftVars => PhoneInv'
    <2> SUFFICES ASSUME PhoneInv, [DraftsNext]_draftVars PROVE PhoneInv'
      OBVIOUS
    <2>1. ScreenInv'
      BY NextWork, PhoneDrivesScreens DEF PhoneInv
    <2>2. DraftInv' /\ SendingInv' /\ FiledInv'
      <3>1. CASE elsewhere
        BY <3>1, ElsewherePhone DEF elsewhere
      <3>2. CASE UNCHANGED draftVars
        <4>1. ~SetsOut /\ [ScreenNext]_vars /\ UNCHANGED phoneVars
          BY <3>2 DEF SetsOut, VisitsIn, draftVars, vars
        <4> QED
          BY <4>1, ElsewherePhone
      <3> QED
        BY <3>1, <3>2, UpdateAndSubmitPhone, ArrivePhone, AnswerPhone, ForgetPhone DEF
                                                                                       DraftsNext
    <2> QED
      BY <2>1, <2>2 DEF PhoneInv
  <1> QED
    BY <1>1, <1>2, PTL DEF DraftsSpec

(* A phone with its drafts is one more way of sending what the screens send: *)
(* all that is proved of the screens holds beside it.                       *)
THEOREM PhoneIsAScreen == DraftsSpec => ScreenSpec
  <1>1. DraftsInit => Init
    BY DEF DraftsInit
  <1>2. PhoneInv /\ [DraftsNext]_draftVars => [ScreenNext]_vars
    BY PhoneDrivesScreens
  <1> QED
    BY PhoneHolds, <1>1, <1>2, PTL DEF DraftsSpec, ScreenSpec

(* Whatever is typed on a shared phone, sent, lost and sent again, the      *)
(* server files words only with the visit they were written of, under the   *)
(* name of the technician whose visit it is.                                *)
THEOREM WordsFiledRightly == DraftsSpec => []WordsAreTheirOwn
  <1>1. PhoneInv => WordsAreTheirOwn
    BY DEF PhoneInv, FiledInv, WordsAreTheirOwn
  <1> QED
    BY PhoneHolds, <1>1, PTL

(* No draft is lost to bad signal, another technician or a hold: it goes    *)
(* once its visit is over, or with the one mistaken confirmation.           *)
THEOREM DraftsKept == DraftsSpec => DraftsOutliveTrouble
  <1>1. PhoneInv /\ [DraftsNext]_draftVars
           => [\A k \in Keys : drafts[k] # None /\ drafts'[k] = None =>
                 \/ visits[k[2]].status \in {"COMPLETED", "CANCELLED"}
                 \/ /\ sending # None /\ sending.reply = "failed" /\ sending.visit = k[2]
                    /\ complaint.status # "IN_PROGRESS"]_draftVars
    <2> SUFFICES ASSUME PhoneInv, DraftsNext, NEW k \in Keys,
                        drafts[k] # None, drafts'[k] = None
                 PROVE  \/ visits[k[2]].status \in {"COMPLETED", "CANCELLED"}
                        \/ /\ sending # None /\ sending.reply = "failed"
                           /\ sending.visit = k[2]
                           /\ complaint.status # "IN_PROGRESS"
      OBVIOUS
    <2>0. drafts \in [Keys -> Words \cup {None}]
      BY DEF PhoneInv, DraftInv
    <2>1. ASSUME discard(sending.visit)
          PROVE  sending.visit = k[2]
      BY <2>0, <2>1 DEF discard, keyFor, Keys
    <2>2. CASE onSuccess
      BY <2>1, <2>2 DEF onSuccess, PhoneInv, SendingInv
    <2>3. CASE onError
      BY <2>1, <2>3 DEF onError, confirmed
    <2>4. ASSUME NEW t \in Technicians, forgetFinishedDrafts(t)
          PROVE  visits[k[2]].status \in {"COMPLETED", "CANCELLED"}
      BY <2>4 DEF forgetFinishedDrafts, OwnVisits, VisitsIn
    <2>5. ASSUME NEW t \in Technicians, NEW v \in VisitIds, update(t, v)
          PROVE  FALSE
      <3>1. CASE k = <<t, v>>
        BY <2>5, <3>1 DEF update, keyFor
      <3>2. CASE k # <<t, v>>
        BY <2>0, <2>5, <3>2 DEF update, keyFor
      <3> QED
        BY <3>1, <3>2
    <2>6. CASE arrive \/ fail \/ elsewhere \/ \E t \in Technicians, v \in VisitIds : submit(t, v)
      BY <2>6 DEF arrive, fail, elsewhere, submit, phoneVars
    <2> QED
      BY <2>2, <2>3, <2>4, <2>5, <2>6 DEF DraftsNext
  <1> QED
    BY PhoneHolds, <1>1, PTL DEF DraftsSpec, DraftsOutliveTrouble
=============================================================================
