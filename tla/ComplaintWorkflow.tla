------------------------- MODULE ComplaintWorkflow -------------------------
(* One complaint of the service desk, from its creation to its closure: the *)
(* complaint document, its visits, its part requests, and the accounts that *)
(* may act on it. Each action is one handler of workflow.service.ts or      *)
(* parts.service.ts, run as the one transaction the code runs it as; what   *)
(* two transactions may do to each other is outside this module.            *)
EXTENDS StatusMachine, Naturals, Sequences, FiniteSets

CONSTANTS Centres,      \* service centres
          Technicians,  \* technicians' user ids
          CentreOf,     \* the centre a technician works at (users.service never moves one)
          RequestIds,   \* part requests that may be raised
          MaxVisits,    \* bound: visits ever booked for the complaint
          MaxAttempts,  \* config.HAPPY_CODE_MAX_ATTEMPTS
          MaxReopens,   \* bound: times the complaint is reopened
          MaxInactive   \* bound: accounts and centres deactivated at one time

ASSUME CentreOfAssumption == CentreOf \in [Technicians -> Centres]
ASSUME NoneAssumption ==
    None \notin Centres \cup Technicians \cup Roles \cup {"set", "ACCEPTED", "REVISIT_REQUIRED"}
ASSUME DisjointAssumption == Centres \cap Technicians = {}
ASSUME BoundsAssumption == /\ MaxVisits \in Nat
                           /\ MaxAttempts \in Nat \ {0}
                           /\ MaxReopens \in Nat
                           /\ MaxInactive \in Nat

VARIABLES complaint,    \* the stored complaint
          visits,       \* its visits, by sequence number
          requests,     \* its part requests
          active        \* the centres and technicians whose isActive is set
vars == <<complaint, visits, requests, active>>

-----------------------------------------------------------------------------
(* The stored shapes. Of a date or a sub-document only its presence is kept: *)
(* it is "set", or None.                                                    *)
Stamp == {"set", None}

VisitIds == 1..MaxVisits

Visit == [status : {"UNBOOKED", "SCHEDULED", "IN_PROGRESS", "COMPLETED", "CANCELLED"},
          technicianId : Technicians \cup {None},
          serviceCenterId : Centres \cup {None},
          resolution : Stamp]

Unbooked == [status |-> "UNBOOKED", technicianId |-> None,
             serviceCenterId |-> None, resolution |-> None]

PartRequest == [status : {"UNUSED", "REQUESTED", "APPROVED", "ISSUED",
                          "UNAVAILABLE", "REJECTED", "CANCELLED"},
                serviceCenterId : Centres \cup {None}]

HappyCode == [verifiedAt : Stamp, attempts : 0..MaxAttempts, lockedAt : Stamp]

SlaTracking == [state : {"RUNNING", "PAUSED", "BREACHED", "COMPLETED"},
                respondedAt : Stamp, breachedAt : Stamp]

Closure == [closedBy : Roles, rating : Centres \cup {None}]

Complaint ==
    [status : Statuses,
     serviceCenterId : Centres \cup {None},
     technicianId : Technicians \cup {None},
     happyCode : HappyCode,
     sla : SlaTracking,
     resolutionReview : {None, "ACCEPTED", "REVISIT_REQUIRED"},
     lastResolutionVisitId : 0..MaxVisits,            \* 0: none submitted yet
     closedBy : Roles \cup {None},
     cancelledAt : Stamp,
     serviceRating : Centres \cup {None},             \* the centre rated
     reopenCount : 0..MaxReopens,
     closureHistory : Seq(Closure)]

-----------------------------------------------------------------------------
(* The Happy Code (core/happyCode.ts). A code typed is right or wrong.      *)
issueHappyCode == [verifiedAt |-> None, attempts |-> 0, lockedAt |-> None]

IsVerified(meta) == meta.verifiedAt # None
Locked(meta) == ~IsVerified(meta) /\ meta.lockedAt # None   \* verifyHappyCode throws

(* Mutant: the last attempt no longer locks the code.                       *)
verifyWithoutLock(code, meta) ==
    IF IsVerified(meta) THEN meta
    ELSE IF code = "right" THEN [meta EXCEPT !.verifiedAt = "set", !.attempts = 0]
    ELSE [meta EXCEPT !.attempts = @ + 1]

verifyHappyCode(code, meta) ==
    IF IsVerified(meta) THEN meta
    ELSE IF code = "right" THEN [meta EXCEPT !.verifiedAt = "set", !.attempts = 0]
    ELSE IF meta.attempts + 1 < MaxAttempts THEN [meta EXCEPT !.attempts = @ + 1]
    ELSE [meta EXCEPT !.attempts = @ + 1, !.lockedAt = "set"]

-----------------------------------------------------------------------------
(* The SLA clock (core/sla.ts). Deadlines are left out: whether one has     *)
(* passed is a choice of the environment.                                   *)
startTracking == [state |-> "RUNNING", respondedAt |-> None, breachedAt |-> None]

(* What the complaint's rule may answer: its switches are edited at any time *)
(* and read when a job goes on hold or is sent back.                        *)
shouldPause(status) ==
    IF status \in {"WAITING_FOR_PARTS", "REVISIT_REQUIRED"} THEN BOOLEAN ELSE {FALSE}

pause(sla) == IF sla.state = "RUNNING" THEN [sla EXCEPT !.state = "PAUSED"] ELSE sla

(* Mutant: work goes on and the clock stays stopped.                        *)
resumeForgotten(sla) == sla

resume(sla) == IF sla.state = "PAUSED" THEN [sla EXCEPT !.state = "RUNNING"] ELSE sla

markResponded(sla) == [sla EXCEPT !.respondedAt = "set"]

Breachable(sla) == sla.state = "RUNNING" /\ sla.breachedAt = None

applyBreach(sla) ==
    IF Breachable(sla) THEN [sla EXCEPT !.state = "BREACHED", !.breachedAt = "set"] ELSE sla

complete(sla, late) ==
    LET settled == IF late THEN applyBreach(resume(sla)) ELSE resume(sla)
    IN  [settled EXCEPT !.state = "COMPLETED"]

-----------------------------------------------------------------------------
(* Who calls, and on which complaint (authenticate.ts, authorize.ts,        *)
(* scope.ts). An Owner is its centre.                                       *)
Admin == [role |-> ADMIN, userId |-> None, serviceCenterId |-> None]
Owner(c) == [role |-> OWNER, userId |-> None, serviceCenterId |-> c]
Tech(t) == [role |-> TECHNICIAN, userId |-> t, serviceCenterId |-> CentreOf[t]]

Owners == {Owner(c) : c \in Centres}
Techs == {Tech(t) : t \in Technicians}

authenticate(auth) ==
    {auth.userId, auth.serviceCenterId} \ {None} \subseteq active

complaintScope(auth) ==
    /\ auth.role = OWNER => complaint.serviceCenterId = auth.serviceCenterId
    /\ auth.role = TECHNICIAN => complaint.technicianId = auth.userId

MayAct(auth) == authenticate(auth) /\ complaintScope(auth)

(* The view assertTransition judges: the complaint with pending changes.    *)
projected(centre, technician, code) ==
    [status |-> complaint.status, serviceCenterId |-> centre,
     technicianId |-> technician, happyCodeVerifiedAt |-> code.verifiedAt]

stateViewOf ==
    projected(complaint.serviceCenterId, complaint.technicianId, complaint.happyCode)

transition(to, auth, reason) == assertTransition(stateViewOf, to, auth.role, reason)

-----------------------------------------------------------------------------
(* Visits and requests of the complaint.                                    *)
VisitsIn(statuses) == {v \in VisitIds : visits[v].status \in statuses}

(* The visit `sort({ sequence: -1 })` finds first.                          *)
IsLatest(v, statuses) ==
    v \in VisitsIn(statuses) /\ \A w \in VisitsIn(statuses) : w <= v

(* countDocuments + 1: visits are never deleted, so the next free number.   *)
IsNext(v) == /\ visits[v].status = "UNBOOKED"
             /\ \A w \in 1..(v - 1) : visits[w].status # "UNBOOKED"

(* Mutant: a move to another centre calls off finished visits as well.      *)
cancelEveryVisit ==
    [v \in VisitIds |-> IF visits[v].status # "UNBOOKED"
                        THEN [visits[v] EXCEPT !.status = "CANCELLED"] ELSE visits[v]]

(* The visits with every open one cancelled.                                *)
cancelOpenVisits ==
    [v \in VisitIds |-> IF v \in VisitsIn({"SCHEDULED", "IN_PROGRESS"})
                        THEN [visits[v] EXCEPT !.status = "CANCELLED"] ELSE visits[v]]

WAITING_REQUEST_STATUSES == {"REQUESTED", "APPROVED"}

(* Mutant: pending requests stay in the queue they were raised in.          *)
keepRequests == requests

withdrawRequests ==
    [r \in RequestIds |-> IF requests[r].status \in WAITING_REQUEST_STATUSES
                          THEN [requests[r] EXCEPT !.status = "CANCELLED"] ELSE requests[r]]

-----------------------------------------------------------------------------
(* A new complaint: without a centre, or sent to an active one at creation. *)
NewComplaint(centre) ==
    [status |-> IF centre = None THEN "NEW" ELSE "ASSIGNED",
     serviceCenterId |-> centre, technicianId |-> None,
     happyCode |-> issueHappyCode, sla |-> startTracking,
     resolutionReview |-> None, lastResolutionVisitId |-> 0,
     closedBy |-> None, cancelledAt |-> None, serviceRating |-> None,
     reopenCount |-> 0, closureHistory |-> <<>>]

Init == /\ complaint \in {NewComplaint(c) : c \in Centres \cup {None}}
        /\ visits = [v \in VisitIds |-> Unbooked]
        /\ requests = [r \in RequestIds |-> [status |-> "UNUSED", serviceCenterId |-> None]]
        /\ active = Centres \cup Technicians

-----------------------------------------------------------------------------
(* Assigning and moving the complaint.                                      *)

(* Mutant: the technician goes with the complaint to the new centre.        *)
technicianKept(isReassignment) == complaint.technicianId

(* The new centre has its own staff, so a move drops the technician.        *)
technicianAfterMove(isReassignment) ==
    IF isReassignment THEN None ELSE complaint.technicianId

(* While ASSIGNED the centre is corrected in place; from any other status   *)
(* this is a transition, and a move calls off the old centre's work.        *)
assignServiceCenter(centre, reason) ==
    LET isReassignment == complaint.serviceCenterId # None
        technician == technicianAfterMove(isReassignment)
    IN  /\ centre \in active \cap Centres
        /\ centre # complaint.serviceCenterId
        /\ isReassignment => reason
        /\ \/ /\ complaint.status = "ASSIGNED"
              /\ complaint' = [complaint EXCEPT !.serviceCenterId = centre,
                                                !.technicianId = technician]
              /\ UNCHANGED <<visits, requests>>
           \/ /\ assertTransition(projected(centre, technician, complaint.happyCode),
                                  "ASSIGNED", ADMIN, reason)
              /\ complaint' = [complaint EXCEPT !.status = "ASSIGNED",
                                                !.serviceCenterId = centre,
                                                !.technicianId = technician,
                                                !.sla = resume(@)]
              /\ visits' = IF isReassignment THEN cancelOpenVisits ELSE visits
              /\ requests' = IF isReassignment THEN withdrawRequests ELSE requests
        /\ UNCHANGED active

(* Mutant: the guard before the pre-launch security review.                 *)
AssignableWhileUnderReview == Statuses \ (TerminalStatuses \cup {"NEW"})

TECHNICIAN_ASSIGNABLE ==
    {"ASSIGNED", "REOPENED", "TECHNICIAN_ASSIGNED", "VISIT_SCHEDULED",
     "IN_PROGRESS", "WAITING_FOR_PARTS", "REVISIT_REQUIRED"}

(* Mutant: the booked visit stays with the technician who lost the job.     *)
handOverUnderWayOnly(technician, pending) ==
    [v \in VisitIds |->
        IF visits[v].status = "IN_PROGRESS" /\ visits[v].technicianId # technician
        THEN [visits[v] EXCEPT !.status = "CANCELLED"]
        ELSE visits[v]]

(* A visit another technician has under way ends; one booked visit, the one *)
(* findOne returns, goes to the new technician.                             *)
handOver(technician, pending) ==
    [v \in VisitIds |->
        IF visits[v].status = "IN_PROGRESS" /\ visits[v].technicianId # technician
        THEN [visits[v] EXCEPT !.status = "CANCELLED"]
        ELSE IF v = pending /\ visits[v].status = "SCHEDULED"
             THEN [visits[v] EXCEPT !.technicianId = technician]
             ELSE visits[v]]

(* From ASSIGNED and REOPENED this is a transition; from the other statuses *)
(* it is a change of technician within the status.                          *)
assignTechnician(auth, technician) ==
    LET changesStatus == complaint.status \in {"ASSIGNED", "REOPENED"}
        booked == VisitsIn({"SCHEDULED"})
    IN  /\ MayAct(auth)
        /\ complaint.serviceCenterId # None
        /\ complaint.status \in TECHNICIAN_ASSIGNABLE
        /\ technician \in active \cap Technicians
        /\ CentreOf[technician] = complaint.serviceCenterId
        /\ IF changesStatus
           THEN assertTransition(
                    projected(complaint.serviceCenterId, technician, complaint.happyCode),
                    "TECHNICIAN_ASSIGNED", auth.role, TRUE)
           ELSE technician # complaint.technicianId
        /\ complaint' = [complaint EXCEPT
                            !.status = IF changesStatus THEN "TECHNICIAN_ASSIGNED" ELSE @,
                            !.technicianId = technician]
        /\ \E pending \in booked \cup {0} :
              /\ (booked # {}) => (pending # 0)
              /\ visits' = handOver(technician, pending)
        /\ UNCHANGED <<requests, active>>

-----------------------------------------------------------------------------
(* Booking and calling off a visit.                                         *)

(* Mutant: the visit under way is left open beside the new one.             *)
bookBesideUnfinished(v, technician) ==
    [visits EXCEPT ![v] = [status |-> "SCHEDULED", technicianId |-> technician,
                           serviceCenterId |-> complaint.serviceCenterId,
                           resolution |-> None]]

(* A new booking closes the visit it replaces.                              *)
book(v, technician) ==
    [w \in VisitIds |->
        IF w = v
        THEN [status |-> "SCHEDULED", technicianId |-> technician,
              serviceCenterId |-> complaint.serviceCenterId, resolution |-> None]
        ELSE IF visits[w].status = "IN_PROGRESS"
             THEN [visits[w] EXCEPT !.status = "COMPLETED"]
             ELSE visits[w]]

(* The booking may name a technician; otherwise the assigned one goes.      *)
scheduleVisit(auth, named, reason) ==
    LET technician == IF named = None THEN complaint.technicianId ELSE named
    IN  /\ MayAct(auth)
        /\ named # None => CentreOf[named] = complaint.serviceCenterId
        /\ technician # None
        /\ technician \in active
        /\ assertTransition(
               projected(complaint.serviceCenterId, technician, complaint.happyCode),
               "VISIT_SCHEDULED", auth.role, reason)
        /\ \E v \in VisitIds : IsNext(v) /\ visits' = book(v, technician)
        /\ complaint' = [complaint EXCEPT !.status = "VISIT_SCHEDULED",
                                          !.technicianId = technician,
                                          !.sla = resume(@)]
        /\ UNCHANGED <<requests, active>>

(* With no other visit booked the complaint returns to TECHNICIAN_ASSIGNED. *)
statusAfterCancel(v) ==
    IF complaint.status = "VISIT_SCHEDULED" /\ VisitsIn({"SCHEDULED"}) = {v}
    THEN "TECHNICIAN_ASSIGNED" ELSE complaint.status

(* The caller must manage the visit as well as the complaint; a reason is   *)
(* always given.                                                            *)
cancelScheduledVisit(auth, v) ==
    /\ MayAct(auth)
    /\ auth.role = OWNER => visits[v].serviceCenterId = auth.serviceCenterId
    /\ visits[v].status = "SCHEDULED"
    /\ statusAfterCancel(v) # complaint.status
          => transition(statusAfterCancel(v), auth, TRUE)
    /\ visits' = [visits EXCEPT ![v].status = "CANCELLED"]
    /\ complaint' = [complaint EXCEPT !.status = statusAfterCancel(v)]
    /\ UNCHANGED <<requests, active>>

-----------------------------------------------------------------------------
(* The technician's visit.                                                  *)

(* endsHere: nobody home, or another day asked for; the trip ends at once.  *)
startVisit(auth, endsHere) ==
    \E v \in VisitIds :
        /\ MayAct(auth)
        /\ IsLatest(v, {"SCHEDULED"})
        /\ visits[v].technicianId = auth.userId
        /\ transition("IN_PROGRESS", auth, FALSE)
        /\ visits' = [visits EXCEPT ![v].status =
                         IF endsHere THEN "COMPLETED" ELSE "IN_PROGRESS"]
        /\ complaint' = [complaint EXCEPT !.status = "IN_PROGRESS",
                                          !.sla = markResponded(@)]
        /\ UNCHANGED <<requests, active>>

(* A right code, or any code once one was verified, closes the complaint;   *)
(* a wrong one costs an attempt and the work goes to review.                *)
submitResolution(auth, code, late) ==
    LET meta == IF code = "none" THEN complaint.happyCode
                ELSE verifyHappyCode(code, complaint.happyCode)
        closed == code # "none" /\ IsVerified(meta)
        to == IF closed THEN "CLOSED" ELSE "RESOLUTION_SUBMITTED"
    IN  \E v \in VisitIds :
        /\ MayAct(auth)
        /\ IsLatest(v, {"IN_PROGRESS"})
        /\ visits[v].technicianId = auth.userId
        /\ code # "none" => ~Locked(complaint.happyCode)
        /\ assertTransition(
               projected(complaint.serviceCenterId, complaint.technicianId, meta),
               to, auth.role, FALSE)
        /\ visits' = [visits EXCEPT ![v].status = "COMPLETED", ![v].resolution = "set"]
        /\ complaint' = [complaint EXCEPT
                            !.status = to,
                            !.happyCode = meta,
                            !.closedBy = IF closed THEN auth.role ELSE @,
                            !.sla = IF closed THEN complete(@, late) ELSE @,
                            !.lastResolutionVisitId = v,
                            !.resolutionReview = None]
        /\ UNCHANGED <<requests, active>>

-----------------------------------------------------------------------------
(* Review, confirmation and closure.                                        *)
reviewResolution(auth, accepted, reason, pauses) ==
    LET to == IF accepted THEN "ADMIN_CONFIRMATION" ELSE "REVISIT_REQUIRED"
    IN  /\ MayAct(auth)
        /\ transition(to, auth, reason)
        /\ pauses \in shouldPause(to)
        /\ complaint' = [complaint EXCEPT
                            !.status = to,
                            !.resolutionReview =
                                IF accepted THEN "ACCEPTED" ELSE "REVISIT_REQUIRED",
                            !.sla = IF pauses THEN pause(@) ELSE @]
        /\ UNCHANGED <<visits, requests, active>>

(* Admin sends accepted work back; a verified code is cleared.              *)
requireRework(reason, pauses) ==
    /\ transition("REVISIT_REQUIRED", Admin, reason)
    /\ pauses \in shouldPause("REVISIT_REQUIRED")
    /\ complaint' = [complaint EXCEPT !.status = "REVISIT_REQUIRED",
                                      !.resolutionReview = "REVISIT_REQUIRED",
                                      !.happyCode.verifiedAt = None,
                                      !.sla = IF pauses THEN pause(@) ELSE @]
    /\ UNCHANGED <<visits, requests, active>>

VERIFIABLE == {"IN_PROGRESS", "RESOLUTION_SUBMITTED", "ADMIN_CONFIRMATION"}

verifyComplaintHappyCode(auth, code) ==
    /\ MayAct(auth)
    /\ complaint.status \in VERIFIABLE
    /\ ~Locked(complaint.happyCode)
    /\ complaint' = [complaint EXCEPT !.happyCode = verifyHappyCode(code, @)]
    /\ UNCHANGED <<visits, requests, active>>

regenerateComplaintHappyCode ==
    /\ ~IsVerified(complaint.happyCode)
    /\ complaint' = [complaint EXCEPT !.happyCode = issueHappyCode]
    /\ UNCHANGED <<visits, requests, active>>

(* A wrong code is recorded and nothing closes. Nothing asks for a status   *)
(* here: the attempt counts wherever the complaint stands.                  *)
closeWithWrongCode(auth) ==
    LET meta == verifyHappyCode("wrong", complaint.happyCode)
    IN  /\ MayAct(auth)
        /\ ~Locked(complaint.happyCode)
        /\ ~IsVerified(meta)
        /\ complaint' = [complaint EXCEPT !.happyCode = meta]
        /\ UNCHANGED <<visits, requests, active>>

(* Closing from IN_PROGRESS completes the visit under way.                  *)
closeComplaint(auth, code, late) ==
    LET meta == IF code = "none" THEN complaint.happyCode
                ELSE verifyHappyCode(code, complaint.happyCode)
        underWay == IF complaint.status = "IN_PROGRESS"
                    THEN {v \in VisitIds : IsLatest(v, {"IN_PROGRESS"})} ELSE {}
    IN  /\ MayAct(auth)
        /\ code # "none" => ~Locked(complaint.happyCode) /\ IsVerified(meta)
        /\ assertTransition(
               projected(complaint.serviceCenterId, complaint.technicianId, meta),
               "CLOSED", auth.role, FALSE)
        /\ visits' = [v \in VisitIds |->
                        IF v \in underWay THEN [visits[v] EXCEPT !.status = "COMPLETED"]
                        ELSE visits[v]]
        /\ complaint' = [complaint EXCEPT !.status = "CLOSED",
                                          !.happyCode = meta,
                                          !.closedBy = auth.role,
                                          !.sla = complete(@, late)]
        /\ UNCHANGED <<requests, active>>

(* Rating again replaces the rating; stars, note and revisions are left out. *)
rateService ==
    /\ complaint.status = "CLOSED"
    /\ complaint.serviceCenterId # None
    /\ complaint' = [complaint EXCEPT !.serviceRating = complaint.serviceCenterId]
    /\ UNCHANGED <<visits, requests, active>>

(* Mutant: the closure is forgotten when the complaint reopens.             *)
historyOverwritten(wasClosed) == complaint.closureHistory

historyAfterReopen(wasClosed) ==
    IF wasClosed /\ complaint.closedBy # None
    THEN Append(complaint.closureHistory,
                [closedBy |-> complaint.closedBy, rating |-> complaint.serviceRating])
    ELSE complaint.closureHistory

(* Mutant: the rating stays on the complaint and travels with it.           *)
ratingTravels(rating) == rating

ratingAfterReopen(rating) == None

(* A fresh code, a fresh clock, and the standing closure filed away.        *)
reopenComplaint(reason) ==
    /\ complaint.reopenCount < MaxReopens                        \* bound
    /\ transition("REOPENED", Admin, reason)
    /\ complaint' = [complaint EXCEPT
                        !.status = "REOPENED",
                        !.closureHistory = historyAfterReopen(complaint.status = "CLOSED"),
                        !.serviceRating = ratingAfterReopen(@),
                        !.reopenCount = @ + 1,
                        !.closedBy = None,
                        !.cancelledAt = None,
                        !.resolutionReview = None,
                        !.happyCode = issueHappyCode,
                        !.sla = startTracking]
    /\ UNCHANGED <<visits, requests, active>>

cancelComplaint(reason) ==
    /\ transition("CANCELLED", Admin, reason)
    /\ complaint' = [complaint EXCEPT !.status = "CANCELLED", !.cancelledAt = "set"]
    /\ visits' = cancelOpenVisits
    /\ UNCHANGED <<requests, active>>

-----------------------------------------------------------------------------
(* Holding for parts.                                                       *)
markWaitingForParts(auth, reason, pauses) ==
    /\ MayAct(auth)
    /\ transition("WAITING_FOR_PARTS", auth, reason)
    /\ pauses \in shouldPause("WAITING_FOR_PARTS")
    /\ complaint' = [complaint EXCEPT !.status = "WAITING_FOR_PARTS",
                                      !.sla = IF pauses THEN pause(@) ELSE @]
    /\ UNCHANGED <<visits, requests, active>>

(* A visit under way is asked for only while WAITING_FOR_PARTS; the table   *)
(* also lets a technician go from VISIT_SCHEDULED to IN_PROGRESS.           *)
resumeWork(auth) ==
    LET underWay == {v \in VisitsIn({"IN_PROGRESS"}) :
                        visits[v].technicianId = complaint.technicianId}
    IN  /\ MayAct(auth)
        /\ ~(complaint.status = "WAITING_FOR_PARTS" /\ underWay = {})
        /\ transition("IN_PROGRESS", auth, FALSE)
        /\ complaint' = [complaint EXCEPT !.status = "IN_PROGRESS", !.sla = resume(@)]
        /\ UNCHANGED <<visits, requests, active>>

(* A technician asks the complaint's centre for a part.                     *)
createPartRequest(auth, r) ==
    /\ MayAct(auth)
    /\ complaint.status \notin TerminalStatuses
    /\ complaint.serviceCenterId # None
    /\ requests[r].status = "UNUSED"
    /\ requests' = [requests EXCEPT ![r] =
                      [status |-> "REQUESTED", serviceCenterId |-> complaint.serviceCenterId]]
    /\ UNCHANGED <<complaint, visits, active>>

COMMITS_A_PART == {"APPROVED", "ISSUED"}

(* The Owner decides a request of its own centre, on its own complaint.     *)
decidePartRequest(auth, r, decision) ==
    /\ MayAct(auth)
    /\ requests[r].serviceCenterId = auth.serviceCenterId
    /\ requests[r].status \in WAITING_REQUEST_STATUSES
    /\ ~(complaint.status \in TerminalStatuses /\ decision \in COMMITS_A_PART)
    /\ requests' = [requests EXCEPT ![r].status = decision]
    /\ UNCHANGED <<complaint, visits, active>>

-----------------------------------------------------------------------------
(* A deadline has passed: the sweep behind the reports records the breach,  *)
(* and so does whoever opens the complaint.                                 *)
recordBreach ==
    /\ Breachable(complaint.sla)
    /\ complaint' = [complaint EXCEPT !.sla = applyBreach(@)]
    /\ UNCHANGED <<visits, requests, active>>

sweepBreaches == complaint.status \notin TerminalStatuses /\ recordBreach

getComplaint(auth) == MayAct(auth) /\ recordBreach

(* Admin, or for a technician the Owner of his centre, deactivates or       *)
(* reactivates the account; only Admin a centre (updateServiceCenter).      *)
deactivate(account) ==
    /\ account \in active
    /\ Cardinality((Centres \cup Technicians) \ active) < MaxInactive   \* bound
    /\ active' = active \ {account}
    /\ UNCHANGED <<complaint, visits, requests>>

reactivate(account) ==
    /\ account \in (Centres \cup Technicians) \ active
    /\ active' = active \cup {account}
    /\ UNCHANGED <<complaint, visits, requests>>

-----------------------------------------------------------------------------
(* Which role may call what: complaint.routes.ts, parts.routes.ts and       *)
(* visits.routes.ts.                                                        *)
AdminSteps ==
    \/ \E c \in Centres, reason \in BOOLEAN : assignServiceCenter(c, reason)
    \/ \E v \in VisitIds : cancelScheduledVisit(Admin, v)
    \/ \E reason, pauses \in BOOLEAN : requireRework(reason, pauses)
    \/ \E code \in {"right", "wrong"} : verifyComplaintHappyCode(Admin, code)
    \/ regenerateComplaintHappyCode
    \/ closeWithWrongCode(Admin)
    \/ \E code \in {"none", "right"}, late \in BOOLEAN : closeComplaint(Admin, code, late)
    \/ rateService
    \/ \E reason \in BOOLEAN : reopenComplaint(reason)
    \/ \E reason \in BOOLEAN : cancelComplaint(reason)

OwnerSteps == \E auth \in Owners :
    \/ \E t \in Technicians : assignTechnician(auth, t)
    \/ \E t \in Technicians \cup {None}, reason \in BOOLEAN : scheduleVisit(auth, t, reason)
    \/ \E v \in VisitIds : cancelScheduledVisit(auth, v)
    \/ \E accepted, reason, pauses \in BOOLEAN :
          reviewResolution(auth, accepted, reason, pauses)
    \/ \E code \in {"right", "wrong"} : verifyComplaintHappyCode(auth, code)
    \/ closeWithWrongCode(auth)
    \/ \E code \in {"none", "right"}, late \in BOOLEAN : closeComplaint(auth, code, late)
    \/ \E reason, pauses \in BOOLEAN : markWaitingForParts(auth, reason, pauses)
    \/ \E r \in RequestIds, decision \in {"APPROVED", "ISSUED", "UNAVAILABLE",
                                          "REJECTED", "CANCELLED"} :
          decidePartRequest(auth, r, decision)

TechnicianSteps == \E auth \in Techs :
    \/ \E endsHere \in BOOLEAN : startVisit(auth, endsHere)
    \/ \E code \in {"none", "right", "wrong"}, late \in BOOLEAN :
          submitResolution(auth, code, late)
    \/ \E reason, pauses \in BOOLEAN : markWaitingForParts(auth, reason, pauses)
    \/ \E r \in RequestIds : createPartRequest(auth, r)

BackgroundSteps ==
    \/ sweepBreaches
    \/ \E auth \in {Admin} \cup Owners \cup Techs : getComplaint(auth)
    \/ \E account \in Centres \cup Technicians : deactivate(account) \/ reactivate(account)

OtherSteps == AdminSteps \/ OwnerSteps \/ TechnicianSteps \/ BackgroundSteps

(* Every request the API accepts.                                           *)
Next == OtherSteps \/ \E auth \in Owners \cup Techs : resumeWork(auth)

Spec == Init /\ [][Next]_vars

(* The requests the client's screens send. They offer "resume" on           *)
(* WAITING_FOR_PARTS only (JobDetailPage.tsx, ComplaintDetailPage.tsx); the *)
(* API itself takes it from a booked visit too, see NoStrandedVisit.        *)
ScreenNext ==
    \/ OtherSteps
    \/ /\ complaint.status = "WAITING_FOR_PARTS"
       /\ \E auth \in Owners \cup Techs : resumeWork(auth)

ScreenSpec == Init /\ [][ScreenNext]_vars

-----------------------------------------------------------------------------
(* Properties of every request the API accepts.                             *)

(* Every stored document keeps its shape, through every handler.            *)
TypeOK == /\ complaint \in Complaint
          /\ visits \in [VisitIds -> Visit]
          /\ requests \in [RequestIds -> PartRequest]
          /\ active \subseteq Centres \cup Technicians

(* The technician on a complaint works at the centre that holds it, and a   *)
(* complaint that waits for its centre to pick one (NEW, ASSIGNED) has none *)
(* - across moves, cancellations and reopenings (workflow.service.ts 238,   *)
(* 244-251).                                                                *)
TechnicianWorksForHolder ==
    /\ complaint.technicianId # None
          => CentreOf[complaint.technicianId] = complaint.serviceCenterId
    /\ complaint.status \in {"NEW", "ASSIGNED"} => complaint.technicianId = None

(* A part request that still waits is in the queue of the centre that holds *)
(* the complaint: withdrawCentreWork leaves nothing behind in the old one.  *)
WaitingRequestsFollowComplaint ==
    \A r \in RequestIds :
        requests[r].status \in WAITING_REQUEST_STATUSES
            => requests[r].serviceCenterId = complaint.serviceCenterId

(* A complaint is closed on the customer's word or on Admin's: whoever else *)
(* closed it, the Happy Code stands verified, and stays so while closed.    *)
ClosedOnConfirmation ==
    complaint.status = "CLOSED"
        => IsVerified(complaint.happyCode) \/ complaint.closedBy = ADMIN

(* What a visit was when it ended is never rewritten, whatever moves,       *)
(* cancellations and new bookings follow (section 22, workflow.service.ts   *)
(* 541-543 and 1346-1347).                                                  *)
EndedVisitsStand ==
    [][\A v \in VisitIds :
          visits[v].status \in {"COMPLETED", "CANCELLED"} => visits'[v] = visits[v]]_vars

(* No closure is ever lost: the history only grows, and the closure that    *)
(* stood - who closed it, how it was rated - is its next entry when the     *)
(* complaint leaves CLOSED (rule 16).                                       *)
ClosuresAreKept ==
    [][/\ SubSeq(complaint'.closureHistory, 1, Len(complaint.closureHistory))
             = complaint.closureHistory
       /\ complaint.status = "CLOSED" /\ complaint'.status # "CLOSED"
             => complaint'.closureHistory =
                   Append(complaint.closureHistory,
                          [closedBy |-> complaint.closedBy,
                           rating |-> complaint.serviceRating])]_vars

(* A rating judges the closure that stands: only a closed complaint carries *)
(* one, and it names the centre that holds the complaint, so no centre is   *)
(* ever rated for another's work (reopenComplaint, 1296-1304).              *)
RatingJudgesStandingClosure ==
    complaint.serviceRating # None
        => complaint.status = "CLOSED" /\ complaint.serviceRating = complaint.serviceCenterId

-----------------------------------------------------------------------------
(* Properties of the requests the screens send. NoStrandedVisit is also run *)
(* against Spec, where resumeWork breaks it.                                *)
OpenVisits == VisitsIn({"SCHEDULED", "IN_PROGRESS"})

(* The complaint and its visits tell one story: VISIT_SCHEDULED means one   *)
(* booked visit and no other open one; a visit is under way only while the  *)
(* complaint is in progress or on hold for parts; no other status has an    *)
(* open visit (scripts/check-integrity.ts 347-391).                         *)
NoStrandedVisit ==
    /\ complaint.status = "VISIT_SCHEDULED"
          => \E v \in VisitIds : VisitsIn({"SCHEDULED"}) = {v} /\ OpenVisits = {v}
    /\ complaint.status \in {"IN_PROGRESS", "WAITING_FOR_PARTS"}
          => /\ VisitsIn({"SCHEDULED"}) = {}
             /\ \A v, w \in OpenVisits : v = w
    /\ complaint.status \notin {"VISIT_SCHEDULED", "IN_PROGRESS", "WAITING_FOR_PARTS"}
          => OpenVisits = {}

(* An open visit is one somebody can act on: it is with the technician and  *)
(* the centre that hold the complaint now, so its technician may start or   *)
(* submit it and its Owner may manage it (assignTechnician 496-503,         *)
(* 527-543; assignServiceCenter 300-315).                                   *)
OpenVisitHasItsHolder ==
    \A v \in OpenVisits : /\ visits[v].technicianId = complaint.technicianId
                          /\ visits[v].serviceCenterId = complaint.serviceCenterId

(* Work under review is a finished visit of the technician and the centre   *)
(* the complaint credits for it, with its resolution recorded, and the      *)
(* review that stands is a review of that work: none before the Owner's, an *)
(* acceptance when it waits for Admin.                                      *)
WorkUnderReviewIsCredited ==
    /\ complaint.status \in {"RESOLUTION_SUBMITTED", "ADMIN_CONFIRMATION"}
          => /\ complaint.lastResolutionVisitId \in VisitIds
             /\ LET v == visits[complaint.lastResolutionVisitId]
                IN  /\ v.status = "COMPLETED" /\ v.resolution = "set"
                    /\ v.technicianId = complaint.technicianId
                    /\ v.serviceCenterId = complaint.serviceCenterId
    /\ complaint.status = "RESOLUTION_SUBMITTED" => complaint.resolutionReview = None
    /\ complaint.status = "ADMIN_CONFIRMATION" => complaint.resolutionReview = "ACCEPTED"

(* The clock follows the work: it stands still only on a hold (or a         *)
(* complaint cancelled on one), it is finished exactly while the complaint  *)
(* is closed, a breach stays on record, and nobody is at work on a          *)
(* complaint whose response clock was never stopped.                        *)
ClockFollowsWork ==
    /\ complaint.sla.state = "PAUSED"
          => complaint.status \in {"WAITING_FOR_PARTS", "REVISIT_REQUIRED", "CANCELLED"}
    /\ complaint.sla.state = "COMPLETED" <=> complaint.status = "CLOSED"
    /\ complaint.sla.state = "BREACHED" => complaint.sla.breachedAt = "set"
    /\ complaint.status \in {"IN_PROGRESS", "WAITING_FOR_PARTS", "REVISIT_REQUIRED",
                             "RESOLUTION_SUBMITTED", "ADMIN_CONFIRMATION"}
          => complaint.sla.respondedAt = "set"

(* A centre that can work: its people can sign in and one is a technician.  *)
Staffed(c) == c \in active /\ \E t \in Technicians \cap active : CentreOf[t] = c

(* A complaint sent back to be done again has no verified code: the rework  *)
(* needs its own confirmation (requireRework, 1379-1380). The Owner's       *)
(* rejection in reviewResolution clears nothing, and breaks it.             *)
ReworkNeedsItsOwnConfirmation ==
    complaint.status = "REVISIT_REQUIRED" => ~IsVerified(complaint.happyCode)
=============================================================================
