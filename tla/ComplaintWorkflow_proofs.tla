---------------------- MODULE ComplaintWorkflow_proofs ----------------------
(* Theorems about the workflow, for every value of its constants: that      *)
(* every document keeps its shape, the safety properties of Spec whatever   *)
(* the API is asked, the lifecycle it implements, and the order in which a  *)
(* job is kept, on which the screens and the reports build.                 *)
EXTENDS ComplaintService, TLAPS

(* The Happy Code locks in time: an attempt is only ever taken while one is *)
(* left, so the count cannot pass MaxAttempts; a verified code has spent    *)
(* none (requireRework takes the verification away again).                  *)
CodeInv ==
    /\ IsVerified(complaint.happyCode) => complaint.happyCode.attempts = 0
    /\ ~IsVerified(complaint.happyCode) /\ complaint.happyCode.lockedAt = None
          => complaint.happyCode.attempts < MaxAttempts

TypeInv == TypeOK /\ CodeInv

(* An attempt at a code that is not locked keeps the invariant.             *)
LEMMA VerifyKeepsCode ==
    ASSUME NEW meta \in HappyCode, NEW code, ~Locked(meta),
           IsVerified(meta) => meta.attempts = 0,
           ~IsVerified(meta) /\ meta.lockedAt = None => meta.attempts < MaxAttempts,
           NEW after, after = verifyHappyCode(code, meta)
    PROVE  /\ after \in HappyCode
           /\ IsVerified(after) => after.attempts = 0
           /\ ~IsVerified(after) /\ after.lockedAt = None => after.attempts < MaxAttempts
  <1>1. CASE IsVerified(meta)
    BY <1>1 DEF verifyHappyCode
  <1>2. CASE ~IsVerified(meta) /\ code = "right"
    <2>1. after = [meta EXCEPT !.verifiedAt = "set", !.attempts = 0]
      BY <1>2 DEF verifyHappyCode
    <2>2. 0 \in 0..MaxAttempts
      BY BoundsAssumption
    <2>3. after \in HappyCode /\ after.verifiedAt = "set" /\ after.attempts = 0
      BY <2>1, <2>2, Zenon DEF HappyCode, Stamp
    <2> QED
      BY <2>3, NoneAssumption DEF IsVerified
  <1>3. CASE ~IsVerified(meta) /\ code # "right"
    <2>1. meta.attempts \in Nat /\ meta.attempts < MaxAttempts /\ meta.verifiedAt = None
      BY <1>3 DEF HappyCode, Locked, IsVerified
    <2>2. CASE meta.attempts + 1 < MaxAttempts
      <3>1. after = [meta EXCEPT !.attempts = @ + 1]
        BY <1>3, <2>2 DEF verifyHappyCode
      <3> QED
        BY <2>1, <2>2, <3>1, BoundsAssumption DEF HappyCode, IsVerified, Stamp
    <2>3. CASE ~(meta.attempts + 1 < MaxAttempts)
      <3>1. after = [meta EXCEPT !.attempts = @ + 1, !.lockedAt = "set"]
        BY <1>3, <2>3 DEF verifyHappyCode
      <3>2. meta.attempts + 1 \in 0..MaxAttempts
        BY <2>1, BoundsAssumption
      <3>3. after \in HappyCode /\ after.verifiedAt = None /\ after.lockedAt = "set"
        BY <2>1, <3>1, <3>2, Zenon DEF HappyCode, Stamp
      <3> QED
        BY <3>3, NoneAssumption DEF IsVerified
    <2> QED
      BY <2>2, <2>3
  <1> QED
    BY <1>1, <1>2, <1>3

LEMMA IssuedCode ==
    /\ issueHappyCode \in HappyCode
    /\ issueHappyCode.attempts = 0
    /\ ~IsVerified(issueHappyCode)
  BY BoundsAssumption DEF issueHappyCode, HappyCode, IsVerified, Stamp

LEMMA SlaTypes ==
    ASSUME NEW sla \in SlaTracking, NEW late \in BOOLEAN
    PROVE  /\ startTracking \in SlaTracking
           /\ pause(sla) \in SlaTracking
           /\ resume(sla) \in SlaTracking
           /\ markResponded(sla) \in SlaTracking
           /\ applyBreach(sla) \in SlaTracking
           /\ complete(sla, late) \in SlaTracking
  BY DEF startTracking, pause, resume, markResponded, applyBreach, Breachable,
         complete, SlaTracking, Stamp

LEMMA InitTypeInv == Init => TypeInv
  <1> SUFFICES ASSUME Init PROVE TypeInv
    OBVIOUS
  <1>1. complaint \in Complaint /\ CodeInv
    <2>1. PICK c \in Centres \cup {None} : complaint = NewComplaint(c)
      BY DEF Init
    <2>2. startTracking \in SlaTracking
      BY DEF startTracking, SlaTracking, Stamp
    <2> QED
      BY <2>1, <2>2, IssuedCode, BoundsAssumption
         DEF NewComplaint, Complaint, CodeInv, Statuses, Stamp
  <1>2. visits \in [VisitIds -> Visit]
    BY DEF Init, Unbooked, Visit, Stamp
  <1>3. requests \in [RequestIds -> PartRequest]
    BY DEF Init, PartRequest
  <1> QED
    BY <1>1, <1>2, <1>3 DEF Init, TypeInv, TypeOK

LEMMA AssignServiceCenterTypes ==
    ASSUME TypeInv, NEW centre \in Centres, NEW reason \in BOOLEAN,
           assignServiceCenter(centre, reason)
    PROVE  TypeInv'
  <1> DEFINE isReassignment == complaint.serviceCenterId # None
  <1>1. technicianAfterMove(isReassignment) \in Technicians \cup {None}
    BY DEF technicianAfterMove, TypeInv, TypeOK, Complaint
  <1>2. resume(complaint.sla) \in SlaTracking
    BY SlaTypes DEF TypeInv, TypeOK, Complaint
  <1>3. complaint' \in Complaint /\ complaint'.happyCode = complaint.happyCode
    BY <1>1, <1>2 DEF assignServiceCenter, TypeInv, TypeOK, Complaint, Statuses
  <1>4. visits' \in [VisitIds -> Visit]
    BY DEF assignServiceCenter, TypeInv, TypeOK, cancelOpenVisits, Visit
  <1>5. requests' \in [RequestIds -> PartRequest]
    BY DEF assignServiceCenter, TypeInv, TypeOK, withdrawRequests, PartRequest
  <1> QED
    BY <1>3, <1>4, <1>5 DEF assignServiceCenter, TypeInv, TypeOK, CodeInv

LEMMA AssignTechnicianTypes ==
    ASSUME TypeInv, NEW auth, NEW technician \in Technicians,
           assignTechnician(auth, technician)
    PROVE  TypeInv'
  <1>1. complaint' \in Complaint /\ complaint'.happyCode = complaint.happyCode
    BY DEF assignTechnician, TypeInv, TypeOK, Complaint, Statuses
  <1>2. visits' \in [VisitIds -> Visit]
    BY DEF assignTechnician, TypeInv, TypeOK, handOver, Visit
  <1> QED
    BY <1>1, <1>2 DEF assignTechnician, TypeInv, TypeOK, CodeInv

LEMMA ScheduleVisitTypes ==
    ASSUME TypeInv, NEW auth, NEW named \in Technicians \cup {None}, NEW reason \in BOOLEAN,
           scheduleVisit(auth, named, reason)
    PROVE  TypeInv'
  <1> DEFINE technician == IF named = None THEN complaint.technicianId ELSE named
  <1>1. technician \in Technicians \cup {None}
    BY DEF TypeInv, TypeOK, Complaint
  <1>2. resume(complaint.sla) \in SlaTracking
    BY SlaTypes DEF TypeInv, TypeOK, Complaint
  <1>3. complaint' \in Complaint /\ complaint'.happyCode = complaint.happyCode
    BY <1>1, <1>2 DEF scheduleVisit, TypeInv, TypeOK, Complaint, Statuses
  <1>4. visits' \in [VisitIds -> Visit]
    BY <1>1 DEF scheduleVisit, TypeInv, TypeOK, book, Visit, Complaint, Stamp
  <1> QED
    BY <1>3, <1>4 DEF scheduleVisit, TypeInv, TypeOK, CodeInv

LEMMA CancelVisitTypes ==
    ASSUME TypeInv, NEW auth, NEW v \in VisitIds, cancelScheduledVisit(auth, v)
    PROVE  TypeInv'
  <1>1. complaint' \in Complaint /\ complaint'.happyCode = complaint.happyCode
    BY DEF cancelScheduledVisit, statusAfterCancel, TypeInv, TypeOK, Complaint, Statuses
  <1>2. visits' \in [VisitIds -> Visit]
    BY DEF cancelScheduledVisit, TypeInv, TypeOK, Visit
  <1> QED
    BY <1>1, <1>2 DEF cancelScheduledVisit, TypeInv, TypeOK, CodeInv

LEMMA StartVisitTypes ==
    ASSUME TypeInv, NEW auth, NEW endsHere \in BOOLEAN, startVisit(auth, endsHere)
    PROVE  TypeInv'
  <1>1. markResponded(complaint.sla) \in SlaTracking
    BY SlaTypes DEF TypeInv, TypeOK, Complaint
  <1>2. complaint' \in Complaint /\ complaint'.happyCode = complaint.happyCode
    BY <1>1 DEF startVisit, TypeInv, TypeOK, Complaint, Statuses
  <1>3. visits' \in [VisitIds -> Visit]
    BY DEF startVisit, TypeInv, TypeOK, Visit
  <1> QED
    BY <1>2, <1>3 DEF startVisit, TypeInv, TypeOK, CodeInv

LEMMA SubmitResolutionTypes ==
    ASSUME TypeInv, NEW auth, auth.role \in Roles, NEW code \in {"none", "right", "wrong"},
           NEW late \in BOOLEAN, submitResolution(auth, code, late)
    PROVE  TypeInv'
  <1> DEFINE meta == IF code = "none" THEN complaint.happyCode
                     ELSE verifyHappyCode(code, complaint.happyCode)
             closed == code # "none" /\ IsVerified(meta)
             to == IF closed THEN "CLOSED" ELSE "RESOLUTION_SUBMITTED"
             closedBy == IF closed THEN auth.role ELSE complaint.closedBy
             sla == IF closed THEN complete(complaint.sla, late) ELSE complaint.sla
  <1>1. PICK v \in VisitIds :
            /\ code # "none" => ~Locked(complaint.happyCode)
            /\ visits' = [visits EXCEPT ![v].status = "COMPLETED", ![v].resolution = "set"]
            /\ complaint' = [complaint EXCEPT
                                !.status = to,
                                !.happyCode = meta,
                                !.closedBy = closedBy,
                                !.sla = sla,
                                !.lastResolutionVisitId = v,
                                !.resolutionReview = None]
            /\ UNCHANGED <<requests, active>>
    BY DEF submitResolution
  <1>2. /\ meta \in HappyCode
        /\ IsVerified(meta) => meta.attempts = 0
        /\ ~IsVerified(meta) /\ meta.lockedAt = None => meta.attempts < MaxAttempts
    <2>1. complaint.happyCode \in HappyCode
      BY DEF TypeInv, TypeOK, Complaint
    <2>2. CASE code = "none"
      BY <2>1, <2>2 DEF TypeInv, CodeInv
    <2>3. CASE code # "none"
      BY <1>1, <2>1, <2>3, VerifyKeepsCode DEF TypeInv, CodeInv
    <2> QED
      BY <2>2, <2>3
  <1>3. /\ to \in Statuses
        /\ closedBy \in Roles \cup {None}
        /\ sla \in SlaTracking
        /\ v \in 0..MaxVisits
    <2>1. complete(complaint.sla, late) \in SlaTracking /\ complaint.sla \in SlaTracking
      BY SlaTypes DEF TypeInv, TypeOK, Complaint
    <2>2. complaint.closedBy \in Roles \cup {None}
      BY DEF TypeInv, TypeOK, Complaint
    <2>3. v \in 0..MaxVisits
      BY BoundsAssumption DEF VisitIds
    <2> HIDE DEF meta
    <2>4. CASE closed
      BY <2>1, <2>3, <2>4 DEF Statuses
    <2>5. CASE ~closed
      BY <2>1, <2>2, <2>3, <2>5 DEF Statuses
    <2> QED
      BY <2>4, <2>5
  <1> HIDE DEF meta, to, closedBy, sla
  <1>4. complaint' \in Complaint /\ complaint'.happyCode = meta
    BY <1>1, <1>2, <1>3 DEF TypeInv, TypeOK, Complaint
  <1>5. visits' \in [VisitIds -> Visit]
    BY <1>1 DEF TypeInv, TypeOK, Visit, Stamp
  <1> QED
    BY <1>1, <1>2, <1>4, <1>5 DEF TypeInv, TypeOK, CodeInv

LEMMA ReviewTypes ==
    ASSUME TypeInv, NEW auth, NEW accepted \in BOOLEAN, NEW reason \in BOOLEAN,
           NEW pauses \in BOOLEAN, reviewResolution(auth, accepted, reason, pauses)
    PROVE  TypeInv'
  <1>1. pause(complaint.sla) \in SlaTracking
    BY SlaTypes DEF TypeInv, TypeOK, Complaint
  <1>2. complaint' \in Complaint /\ complaint'.happyCode = complaint.happyCode
    BY <1>1 DEF reviewResolution, TypeInv, TypeOK, Complaint, Statuses
  <1> QED
    BY <1>2 DEF reviewResolution, TypeInv, TypeOK, CodeInv

LEMMA RequireReworkTypes ==
    ASSUME TypeInv, NEW reason \in BOOLEAN, NEW pauses \in BOOLEAN,
           requireRework(reason, pauses)
    PROVE  TypeInv'
  <1> DEFINE code == complaint.happyCode
             cleared == [code EXCEPT !.verifiedAt = None]
  <1>1. pause(complaint.sla) \in SlaTracking
    BY SlaTypes DEF TypeInv, TypeOK, Complaint
  <1>2. code \in HappyCode
    BY DEF TypeInv, TypeOK, Complaint
  <1>3. cleared \in HappyCode
    BY <1>2, Zenon DEF HappyCode, Stamp
  <1>4. complaint' \in Complaint /\ complaint'.happyCode = cleared
    BY <1>1, <1>3 DEF requireRework, TypeInv, TypeOK, Complaint, Statuses
  <1>5. code.lockedAt = None => code.attempts < MaxAttempts
    BY <1>2, BoundsAssumption DEF TypeInv, CodeInv, HappyCode
  <1>6. cleared.verifiedAt = None /\ cleared.attempts = code.attempts
        /\ cleared.lockedAt = code.lockedAt
    BY <1>2, Zenon DEF HappyCode
  <1>7. CodeInv'
    BY <1>4, <1>5, <1>6 DEF CodeInv, IsVerified
  <1> QED
    BY <1>4, <1>7 DEF requireRework, TypeInv, TypeOK

LEMMA VerifyTypes ==
    ASSUME TypeInv, NEW auth, NEW code, verifyComplaintHappyCode(auth, code)
    PROVE  TypeInv'
  <1> DEFINE after == complaint'.happyCode
  <1>1. complaint.happyCode \in HappyCode
    BY DEF TypeInv, TypeOK, Complaint
  <1>2. complaint' = [complaint EXCEPT !.happyCode = verifyHappyCode(code, complaint.happyCode)]
    BY DEF verifyComplaintHappyCode
  <1>3. after = verifyHappyCode(code, complaint.happyCode)
    BY <1>2 DEF TypeInv, TypeOK, Complaint
  <1>4. /\ after \in HappyCode
        /\ IsVerified(after) => after.attempts = 0
        /\ ~IsVerified(after) /\ after.lockedAt = None => after.attempts < MaxAttempts
    BY <1>1, <1>3, VerifyKeepsCode DEF verifyComplaintHappyCode, TypeInv, CodeInv
  <1>5. complaint' \in Complaint
    BY <1>2, <1>3, <1>4 DEF TypeInv, TypeOK, Complaint
  <1> QED
    BY <1>4, <1>5 DEF verifyComplaintHappyCode, TypeInv, TypeOK, CodeInv

LEMMA RegenerateTypes ==
    ASSUME TypeInv, regenerateComplaintHappyCode
    PROVE  TypeInv'
  <1>1. complaint' \in Complaint /\ complaint'.happyCode = issueHappyCode
    BY IssuedCode DEF regenerateComplaintHappyCode, TypeInv, TypeOK, Complaint
  <1> QED
    BY <1>1, IssuedCode, BoundsAssumption
       DEF regenerateComplaintHappyCode, TypeInv, TypeOK, CodeInv

LEMMA WrongCodeTypes ==
    ASSUME TypeInv, NEW auth, closeWithWrongCode(auth)
    PROVE  TypeInv'
  <1> DEFINE after == complaint'.happyCode
  <1>1. complaint.happyCode \in HappyCode
    BY DEF TypeInv, TypeOK, Complaint
  <1>2. complaint' = [complaint EXCEPT !.happyCode =
                        verifyHappyCode("wrong", complaint.happyCode)]
    BY DEF closeWithWrongCode
  <1>3. after = verifyHappyCode("wrong", complaint.happyCode)
    BY <1>2 DEF TypeInv, TypeOK, Complaint
  <1>4. /\ after \in HappyCode
        /\ IsVerified(after) => after.attempts = 0
        /\ ~IsVerified(after) /\ after.lockedAt = None => after.attempts < MaxAttempts
    BY <1>1, <1>3, VerifyKeepsCode DEF closeWithWrongCode, TypeInv, CodeInv
  <1>5. complaint' \in Complaint
    BY <1>2, <1>3, <1>4 DEF TypeInv, TypeOK, Complaint
  <1> QED
    BY <1>4, <1>5 DEF closeWithWrongCode, TypeInv, TypeOK, CodeInv

LEMMA CloseTypes ==
    ASSUME TypeInv, NEW auth, auth.role \in Roles, NEW code \in {"none", "right"},
           NEW late \in BOOLEAN, closeComplaint(auth, code, late)
    PROVE  TypeInv'
  <1> DEFINE meta == IF code = "none" THEN complaint.happyCode
                     ELSE verifyHappyCode(code, complaint.happyCode)
             role == auth.role
             sla == complete(complaint.sla, late)
  <1>1. /\ code # "none" => ~Locked(complaint.happyCode)
        /\ complaint' = [complaint EXCEPT !.status = "CLOSED", !.happyCode = meta,
                                          !.closedBy = role, !.sla = sla]
        /\ UNCHANGED <<requests, active>>
    BY DEF closeComplaint
  <1>2. /\ meta \in HappyCode
        /\ IsVerified(meta) => meta.attempts = 0
        /\ ~IsVerified(meta) /\ meta.lockedAt = None => meta.attempts < MaxAttempts
    <2>1. complaint.happyCode \in HappyCode
      BY DEF TypeInv, TypeOK, Complaint
    <2>2. CASE code = "none"
      BY <2>1, <2>2 DEF TypeInv, CodeInv
    <2>3. CASE code # "none"
      BY <1>1, <2>1, <2>3, VerifyKeepsCode DEF TypeInv, CodeInv
    <2> QED
      BY <2>2, <2>3
  <1>3. role \in Roles /\ sla \in SlaTracking
    BY SlaTypes DEF TypeInv, TypeOK, Complaint
  <1>4. visits' \in [VisitIds -> Visit]
    BY DEF closeComplaint, TypeInv, TypeOK, Visit
  <1> HIDE DEF meta, role, sla
  <1>5. complaint' \in Complaint /\ complaint'.happyCode = meta
    BY <1>1, <1>2, <1>3 DEF TypeInv, TypeOK, Complaint, Statuses
  <1> QED
    BY <1>1, <1>2, <1>4, <1>5 DEF TypeInv, TypeOK, CodeInv

LEMMA RateTypes ==
    ASSUME TypeInv, rateService
    PROVE  TypeInv'
  BY DEF rateService, TypeInv, TypeOK, Complaint, CodeInv

LEMMA ReopenTypes ==
    ASSUME TypeInv, NEW reason \in BOOLEAN, reopenComplaint(reason)
    PROVE  TypeInv'
  <1> DEFINE history == historyAfterReopen(complaint.status = "CLOSED")
             count == complaint.reopenCount + 1
  <1>1. history \in Seq(Closure)
    <2>1. complaint.closedBy # None
            => [closedBy |-> complaint.closedBy, rating |-> complaint.serviceRating] \in Closure
      BY DEF TypeInv, TypeOK, Complaint, Closure
    <2>2. complaint.closureHistory \in Seq(Closure)
      BY DEF TypeInv, TypeOK, Complaint
    <2> QED
      BY <2>1, <2>2 DEF historyAfterReopen
  <1>2. count \in 0..MaxReopens
    BY BoundsAssumption DEF reopenComplaint, TypeInv, TypeOK, Complaint
  <1>3. startTracking \in SlaTracking /\ issueHappyCode \in HappyCode
    BY SlaTypes, IssuedCode DEF startTracking, SlaTracking, Stamp
  <1>4. complaint' = [complaint EXCEPT
                        !.status = "REOPENED", !.closureHistory = history,
                        !.serviceRating = None, !.reopenCount = count,
                        !.closedBy = None, !.cancelledAt = None,
                        !.resolutionReview = None, !.happyCode = issueHappyCode,
                        !.sla = startTracking]
    BY DEF reopenComplaint, ratingAfterReopen
  <1> HIDE DEF history, count
  <1>5. complaint' \in Complaint /\ complaint'.happyCode = issueHappyCode
    BY <1>1, <1>2, <1>3, <1>4 DEF TypeInv, TypeOK, Complaint, Statuses, Stamp
  <1> QED
    BY <1>5, IssuedCode, BoundsAssumption DEF reopenComplaint, TypeInv, TypeOK, CodeInv

LEMMA CancelTypes ==
    ASSUME TypeInv, NEW reason \in BOOLEAN, cancelComplaint(reason)
    PROVE  TypeInv'
  <1>1. complaint' \in Complaint /\ complaint'.happyCode = complaint.happyCode
    BY DEF cancelComplaint, TypeInv, TypeOK, Complaint, Statuses, Stamp
  <1>2. visits' \in [VisitIds -> Visit]
    BY DEF cancelComplaint, TypeInv, TypeOK, cancelOpenVisits, Visit
  <1> QED
    BY <1>1, <1>2 DEF cancelComplaint, TypeInv, TypeOK, CodeInv

LEMMA WaitingTypes ==
    ASSUME TypeInv, NEW auth, NEW reason \in BOOLEAN, NEW pauses \in BOOLEAN,
           markWaitingForParts(auth, reason, pauses)
    PROVE  TypeInv'
  <1>1. pause(complaint.sla) \in SlaTracking
    BY SlaTypes DEF TypeInv, TypeOK, Complaint
  <1>2. complaint' \in Complaint /\ complaint'.happyCode = complaint.happyCode
    BY <1>1 DEF markWaitingForParts, TypeInv, TypeOK, Complaint, Statuses
  <1> QED
    BY <1>2 DEF markWaitingForParts, TypeInv, TypeOK, CodeInv

LEMMA ResumeTypes ==
    ASSUME TypeInv, NEW auth, resumeWork(auth)
    PROVE  TypeInv'
  <1>1. resume(complaint.sla) \in SlaTracking
    BY SlaTypes DEF TypeInv, TypeOK, Complaint
  <1>2. complaint' \in Complaint /\ complaint'.happyCode = complaint.happyCode
    BY <1>1 DEF resumeWork, TypeInv, TypeOK, Complaint, Statuses
  <1> QED
    BY <1>2 DEF resumeWork, TypeInv, TypeOK, CodeInv

LEMMA RequestTypes ==
    ASSUME TypeInv, NEW auth, NEW r \in RequestIds,
           \/ createPartRequest(auth, r)
           \/ \E decision \in {"APPROVED", "ISSUED", "UNAVAILABLE", "REJECTED", "CANCELLED"} :
                 decidePartRequest(auth, r, decision)
    PROVE  TypeInv'
  <1>1. requests' \in [RequestIds -> PartRequest] /\ UNCHANGED <<complaint, visits, active>>
    BY DEF createPartRequest, decidePartRequest, TypeInv, TypeOK, Complaint, PartRequest
  <1> QED
    BY <1>1 DEF TypeInv, TypeOK, CodeInv

LEMMA BackgroundTypes ==
    ASSUME TypeInv, BackgroundSteps
    PROVE  TypeInv'
  <1>1. CASE recordBreach
    <2>1. applyBreach(complaint.sla) \in SlaTracking
      BY SlaTypes DEF TypeInv, TypeOK, Complaint
    <2>2. complaint' \in Complaint /\ complaint'.happyCode = complaint.happyCode
      BY <1>1, <2>1 DEF recordBreach, TypeInv, TypeOK, Complaint
    <2> QED
      BY <1>1, <2>2 DEF recordBreach, TypeInv, TypeOK, CodeInv
  <1>2. ASSUME NEW account \in Centres \cup Technicians,
               deactivate(account) \/ reactivate(account)
        PROVE  TypeInv'
    BY <1>2 DEF deactivate, reactivate, TypeInv, TypeOK, CodeInv
  <1> QED
    BY <1>1, <1>2 DEF BackgroundSteps, sweepBreaches, getComplaint

LEMMA CallersHaveRoles ==
    /\ Admin.role \in Roles
    /\ \A auth \in Owners \cup Techs : auth.role \in Roles
  BY DEF Admin, Owners, Owner, Techs, Tech, Roles

(* Every handler keeps the shapes, and takes no attempt it may not take.    *)
LEMMA NextTypeInv == TypeInv /\ [Next]_vars => TypeInv'
  <1> SUFFICES ASSUME TypeInv, [Next]_vars PROVE TypeInv'
    OBVIOUS
  <1>1. CASE AdminSteps
    BY <1>1, CallersHaveRoles, AssignServiceCenterTypes, CancelVisitTypes, RequireReworkTypes,
       VerifyTypes, RegenerateTypes, WrongCodeTypes, CloseTypes, RateTypes, ReopenTypes,
       CancelTypes DEF AdminSteps
  <1>2. CASE OwnerSteps
    <2>1. PICK auth \in Owners :
            \/ \E t \in Technicians : assignTechnician(auth, t)
            \/ \E t \in Technicians \cup {None}, reason \in BOOLEAN : scheduleVisit(auth, t, reason)
            \/ \E v \in VisitIds : cancelScheduledVisit(auth, v)
            \/ \E accepted, reason, pauses \in BOOLEAN :
                  reviewResolution(auth, accepted, reason, pauses)
            \/ \E code \in {"right", "wrong"} : verifyComplaintHappyCode(auth, code)
            \/ closeWithWrongCode(auth)
            \/ \E code \in {"none", "right"}, late \in BOOLEAN : closeComplaint(auth, code, late)
            \/ \E reason, pauses \in BOOLEAN : markWaitingForParts(auth, reason, pauses)
            \/ \E r \in RequestIds, decision \in {"APPROVED", "ISSUED", "UNAVAILABLE",
                                                  "REJECTED", "CANCELLED"} :
                  decidePartRequest(auth, r, decision)
      BY <1>2 DEF OwnerSteps
    <2> QED
      BY <2>1, CallersHaveRoles, AssignTechnicianTypes, ScheduleVisitTypes, CancelVisitTypes,
         ReviewTypes, VerifyTypes, WrongCodeTypes, CloseTypes, WaitingTypes, RequestTypes
  <1>3. CASE TechnicianSteps
    <2>1. PICK auth \in Techs :
            \/ \E endsHere \in BOOLEAN : startVisit(auth, endsHere)
            \/ \E code \in {"none", "right", "wrong"}, late \in BOOLEAN :
                  submitResolution(auth, code, late)
            \/ \E reason, pauses \in BOOLEAN : markWaitingForParts(auth, reason, pauses)
            \/ \E r \in RequestIds : createPartRequest(auth, r)
      BY <1>3 DEF TechnicianSteps
    <2> QED
      BY <2>1, CallersHaveRoles, StartVisitTypes, SubmitResolutionTypes, WaitingTypes,
         RequestTypes
  <1>4. CASE BackgroundSteps
    BY <1>4, BackgroundTypes
  <1>5. ASSUME NEW auth \in Owners \cup Techs, resumeWork(auth)
        PROVE  TypeInv'
    BY <1>5, ResumeTypes
  <1>6. CASE UNCHANGED vars
    BY <1>6 DEF vars, TypeInv, TypeOK, CodeInv
  <1> QED
    BY <1>1, <1>2, <1>3, <1>4, <1>5, <1>6 DEF Next, OtherSteps

(* Whatever requests the API accepts, in whatever order, every stored       *)
(* document keeps its shape; in particular no Happy Code is ever tried more *)
(* than MaxAttempts times, from whichever of the three handlers that take   *)
(* a code, and no status outside the lifecycle is stored.                   *)
THEOREM TypeCorrect == Spec => []TypeOK
  <1>1. TypeInv => TypeOK
    BY DEF TypeInv
  <1> QED
    BY InitTypeInv, NextTypeInv, <1>1, PTL DEF Spec

-----------------------------------------------------------------------------
(* The promises of Spec.                                                    *)

(* A request can only wait while its centre has a technician on the job, so *)
(* none waits when a complaint is corrected in place at ASSIGNED, the one   *)
(* change of centre that withdraws nothing.                                 *)
QuietRequests ==
    \A r \in RequestIds :
        requests[r].status \in WAITING_REQUEST_STATUSES
            => /\ requests[r].serviceCenterId = complaint.serviceCenterId
               /\ complaint.serviceCenterId # None
               /\ complaint.status \notin {"NEW", "ASSIGNED"}

(* reopenComplaint files a closure only if it knows who closed.             *)
ClosureIsSigned == complaint.status = "CLOSED" => complaint.closedBy # None

PromiseInv ==
    /\ TypeInv
    /\ TechnicianWorksForHolder
    /\ QuietRequests
    /\ ClosedOnConfirmation
    /\ ClosureIsSigned
    /\ RatingJudgesStandingClosure

(* The steps EndedVisitsStand and ClosuresAreKept speak of.                 *)
VisitsStand ==
    \A v \in VisitIds :
        visits[v].status \in {"COMPLETED", "CANCELLED"} => visits'[v] = visits[v]

ClosuresStand ==
    /\ SubSeq(complaint'.closureHistory, 1, Len(complaint.closureHistory))
          = complaint.closureHistory
    /\ complaint.status = "CLOSED" /\ complaint'.status # "CLOSED"
          => complaint'.closureHistory =
                Append(complaint.closureHistory,
                       [closedBy |-> complaint.closedBy, rating |-> complaint.serviceRating])

Promised == PromiseInv' /\ VisitsStand /\ ClosuresStand

-----------------------------------------------------------------------------
(* What the table says about closing: nobody but Admin closes without a     *)
(* verified code, and the way out of CLOSED is to reopen.                   *)
LEMMA ClosingRules ==
    \A rule \in TRANSITIONS :
        /\ rule.from = "CLOSED" => rule.to = "REOPENED"
        /\ rule.to = "CLOSED" => "HAPPY_CODE_VERIFIED" \in rule.requires \/ rule.roles = {ADMIN}
  <1>1. \A rule \in cancellationRules \cup centreReassignmentRules :
           rule.from # "CLOSED" /\ rule.to # "CLOSED"
    BY DEF cancellationRules, centreReassignmentRules, Rule, CANCELLABLE_FROM,
           CENTRE_REASSIGNABLE_FROM, Statuses, TerminalStatuses
  <1> QED
    BY <1>1 DEF TRANSITIONS, Rule, HasCentre, HasTechnician, Verified

LEMMA ClosingMoves ==
    ASSUME NEW view, NEW to, NEW role, NEW reason, assertTransition(view, to, role, reason)
    PROVE  /\ view.status = "CLOSED" => to = "REOPENED"
           /\ to = "CLOSED" /\ role # ADMIN => view.happyCodeVerifiedAt # None
  <1>1. PICK rule \in TRANSITIONS : /\ rule.from = view.status /\ rule.to = to
                                    /\ role \in rule.roles /\ Ready(rule, view)
    BY DEF assertTransition, availableTransitions, transitionsFrom
  <1>2. "HAPPY_CODE_VERIFIED" \in rule.requires => view.happyCodeVerifiedAt # None
    BY <1>1 DEF Ready, meetsRequirement
  <1> QED
    BY <1>1, <1>2, ClosingRules

(* The same of a move judged on the stored complaint.                       *)
LEMMA StoredMoves ==
    ASSUME NEW to, NEW auth, NEW reason, transition(to, auth, reason)
    PROVE  complaint.status = "CLOSED" => to = "REOPENED"
  BY ClosingMoves DEF transition, stateViewOf, projected

LEMMA HistoryStands ==
    ASSUME TypeInv, complaint'.closureHistory = complaint.closureHistory
    PROVE  SubSeq(complaint'.closureHistory, 1, Len(complaint.closureHistory))
              = complaint.closureHistory
  BY DEF TypeInv, TypeOK, Complaint

(* A step that moves an unfinished complaint on and touches nothing the     *)
(* promises speak of.                                                       *)
LEMMA MoveKeepsPromises ==
    ASSUME PromiseInv, TypeInv', VisitsStand, complaint.status # "CLOSED",
           complaint'.status \notin {"NEW", "ASSIGNED", "CLOSED"},
           complaint'.serviceCenterId = complaint.serviceCenterId,
           complaint'.technicianId = complaint.technicianId,
           complaint'.serviceRating = complaint.serviceRating,
           complaint'.closureHistory = complaint.closureHistory,
           UNCHANGED requests
    PROVE  Promised
  BY HistoryStands
     DEF PromiseInv, TechnicianWorksForHolder, QuietRequests, ClosedOnConfirmation,
         ClosureIsSigned, RatingJudgesStandingClosure, Promised, ClosuresStand

(* A step within a status: the code of a complaint Admin did not close is   *)
(* not taken back.                                                          *)
LEMMA StayKeepsPromises ==
    ASSUME PromiseInv, TypeInv', VisitsStand,
           complaint'.status = complaint.status,
           complaint'.serviceCenterId = complaint.serviceCenterId,
           complaint'.technicianId = complaint.technicianId,
           complaint'.serviceRating = complaint.serviceRating,
           complaint'.closedBy = complaint.closedBy,
           complaint'.closureHistory = complaint.closureHistory,
           IsVerified(complaint.happyCode) => IsVerified(complaint'.happyCode),
           QuietRequests'
    PROVE  Promised
  BY HistoryStands
     DEF PromiseInv, TechnicianWorksForHolder, ClosedOnConfirmation,
         ClosureIsSigned, RatingJudgesStandingClosure, Promised, ClosuresStand

LEMMA StayKeepsRequests ==
    ASSUME PromiseInv, complaint'.status = complaint.status,
           complaint'.serviceCenterId = complaint.serviceCenterId, UNCHANGED requests
    PROVE  QuietRequests'
  BY DEF PromiseInv, QuietRequests

LEMMA OpenVisitsCancelled ==
    ASSUME TypeInv, visits' = cancelOpenVisits
    PROVE  VisitsStand
  BY DEF TypeInv, TypeOK, cancelOpenVisits, VisitsIn, VisitsStand

-----------------------------------------------------------------------------
(* One lemma per handler.                                                   *)
LEMMA AssignServiceCenterPromises ==
    ASSUME PromiseInv, TypeInv', NEW centre \in Centres, NEW reason \in BOOLEAN,
           assignServiceCenter(centre, reason)
    PROVE  Promised
  <1> DEFINE technician == technicianAfterMove(complaint.serviceCenterId # None)
  <1>1. complaint'.technicianId = None
    <2>1. technician = None
      <3>1. CASE complaint.serviceCenterId # None
        BY <3>1 DEF technicianAfterMove
      <3>2. CASE complaint.serviceCenterId = None
        <4>1. complaint.technicianId \in Technicians \cup {None}
          BY DEF PromiseInv, TypeInv, TypeOK, Complaint
        <4>2. complaint.technicianId = None
          BY <3>2, <4>1, CentreOfAssumption, NoneAssumption
             DEF PromiseInv, TechnicianWorksForHolder
        <4> QED
          BY <3>2, <4>2 DEF technicianAfterMove
      <3> QED
        BY <3>1, <3>2
    <2> HIDE DEF technician
    <2>2. complaint'.technicianId = technician
      BY DEF assignServiceCenter, PromiseInv, TypeInv, TypeOK, Complaint, technician
    <2> QED
      BY <2>1, <2>2
  <1>2. /\ complaint'.status = "ASSIGNED"
        /\ complaint'.serviceCenterId = centre
        /\ complaint'.serviceRating = complaint.serviceRating
        /\ complaint'.closureHistory = complaint.closureHistory
    BY DEF assignServiceCenter, PromiseInv, TypeInv, TypeOK, Complaint
  <1>3. complaint.status # "CLOSED"
    <2>1. ASSUME NEW t, complaint.status = "CLOSED",
                 assertTransition(projected(centre, t, complaint.happyCode),
                                  "ASSIGNED", ADMIN, reason)
          PROVE  FALSE
      BY <2>1, ClosingMoves DEF projected
    <2> QED
      BY <2>1 DEF assignServiceCenter
  <1>4. \A r \in RequestIds : requests'[r].status \notin WAITING_REQUEST_STATUSES
    <2>1. CASE requests' = withdrawRequests
      BY <2>1 DEF withdrawRequests, WAITING_REQUEST_STATUSES, PromiseInv, TypeInv, TypeOK,
                  PartRequest
    <2>2. CASE /\ requests' = requests
               /\ complaint.status = "ASSIGNED" \/ complaint.serviceCenterId = None
      BY <2>2 DEF PromiseInv, QuietRequests
    <2> QED
      BY <2>1, <2>2 DEF assignServiceCenter
  <1>5. VisitsStand
    BY OpenVisitsCancelled DEF assignServiceCenter, PromiseInv, VisitsStand
  <1>6. complaint.serviceRating = None
    BY <1>3 DEF PromiseInv, RatingJudgesStandingClosure
  <1>7. PromiseInv'
    BY <1>1, <1>2, <1>4, <1>6
       DEF PromiseInv, TechnicianWorksForHolder, QuietRequests, ClosedOnConfirmation,
           ClosureIsSigned, RatingJudgesStandingClosure
  <1> QED
    BY <1>2, <1>3, <1>5, <1>7, HistoryStands DEF Promised, ClosuresStand, PromiseInv

LEMMA AssignTechnicianPromises ==
    ASSUME PromiseInv, TypeInv', NEW auth, NEW technician \in Technicians,
           assignTechnician(auth, technician)
    PROVE  Promised
  <1>1. /\ complaint.status \notin {"CLOSED", "NEW"}
        /\ complaint'.status \notin {"NEW", "ASSIGNED", "CLOSED"}
        /\ complaint'.technicianId = technician
        /\ CentreOf[technician] = complaint.serviceCenterId
        /\ complaint'.serviceCenterId = complaint.serviceCenterId
        /\ complaint'.serviceRating = complaint.serviceRating
        /\ complaint'.closureHistory = complaint.closureHistory
        /\ requests' = requests
    BY DEF assignTechnician, TECHNICIAN_ASSIGNABLE, PromiseInv, TypeInv, TypeOK, Complaint
  <1>2. VisitsStand
    BY DEF assignTechnician, handOver, PromiseInv, TypeInv, TypeOK, VisitsStand
  <1>3. PromiseInv'
    BY <1>1 DEF PromiseInv, TechnicianWorksForHolder, QuietRequests, ClosedOnConfirmation,
                ClosureIsSigned, RatingJudgesStandingClosure
  <1> QED
    BY <1>1, <1>2, <1>3, HistoryStands DEF Promised, ClosuresStand, PromiseInv

LEMMA ScheduleVisitPromises ==
    ASSUME PromiseInv, TypeInv', NEW auth, NEW named \in Technicians \cup {None},
           NEW reason \in BOOLEAN, scheduleVisit(auth, named, reason)
    PROVE  Promised
  <1>1. /\ complaint'.status = "VISIT_SCHEDULED"
        /\ complaint'.technicianId # None
        /\ CentreOf[complaint'.technicianId] = complaint.serviceCenterId
        /\ complaint'.serviceCenterId = complaint.serviceCenterId
        /\ complaint'.serviceRating = complaint.serviceRating
        /\ complaint'.closureHistory = complaint.closureHistory
        /\ requests' = requests
    BY DEF scheduleVisit, PromiseInv, TechnicianWorksForHolder, TypeInv, TypeOK, Complaint
  <1>2. complaint.status # "CLOSED"
    BY ClosingMoves DEF scheduleVisit, projected
  <1>3. VisitsStand
    BY DEF scheduleVisit, book, IsNext, PromiseInv, TypeInv, TypeOK, VisitsStand
  <1>4. PromiseInv'
    BY <1>1, <1>2 DEF PromiseInv, TechnicianWorksForHolder, QuietRequests,
                      ClosedOnConfirmation, ClosureIsSigned, RatingJudgesStandingClosure
  <1> QED
    BY <1>1, <1>2, <1>3, <1>4, HistoryStands DEF Promised, ClosuresStand, PromiseInv

LEMMA CancelVisitPromises ==
    ASSUME PromiseInv, TypeInv', NEW auth, NEW v \in VisitIds, cancelScheduledVisit(auth, v)
    PROVE  Promised
  <1>1. /\ complaint'.serviceCenterId = complaint.serviceCenterId
        /\ complaint'.technicianId = complaint.technicianId
        /\ complaint'.happyCode = complaint.happyCode
        /\ complaint'.serviceRating = complaint.serviceRating
        /\ complaint'.closedBy = complaint.closedBy
        /\ complaint'.closureHistory = complaint.closureHistory
        /\ requests' = requests
    BY DEF cancelScheduledVisit, PromiseInv, TypeInv, TypeOK, Complaint
  <1>2. VisitsStand
    BY DEF cancelScheduledVisit, PromiseInv, TypeInv, TypeOK, VisitsStand
  <1>3. CASE complaint.status = "VISIT_SCHEDULED" /\ complaint'.status = "TECHNICIAN_ASSIGNED"
    BY <1>1, <1>2, <1>3, MoveKeepsPromises
  <1>4. CASE complaint'.status = complaint.status
    BY <1>1, <1>2, <1>4, StayKeepsRequests, StayKeepsPromises
  <1> QED
    BY <1>3, <1>4
       DEF cancelScheduledVisit, statusAfterCancel, PromiseInv, TypeInv, TypeOK, Complaint

LEMMA StartVisitPromises ==
    ASSUME PromiseInv, TypeInv', NEW auth, NEW endsHere \in BOOLEAN,
           startVisit(auth, endsHere)
    PROVE  Promised
  <1>1. /\ complaint'.status = "IN_PROGRESS"
        /\ complaint'.serviceCenterId = complaint.serviceCenterId
        /\ complaint'.technicianId = complaint.technicianId
        /\ complaint'.serviceRating = complaint.serviceRating
        /\ complaint'.closureHistory = complaint.closureHistory
        /\ requests' = requests
    BY DEF startVisit, PromiseInv, TypeInv, TypeOK, Complaint
  <1>2. complaint.status # "CLOSED"
    BY StoredMoves DEF startVisit
  <1>3. VisitsStand
    BY DEF startVisit, IsLatest, VisitsIn, PromiseInv, TypeInv, TypeOK, VisitsStand
  <1> QED
    BY <1>1, <1>2, <1>3, MoveKeepsPromises

LEMMA SubmitResolutionPromises ==
    ASSUME PromiseInv, TypeInv', NEW auth, auth.role \in Roles,
           NEW code \in {"none", "right", "wrong"}, NEW late \in BOOLEAN,
           submitResolution(auth, code, late)
    PROVE  Promised
  <1> DEFINE meta == IF code = "none" THEN complaint.happyCode
                     ELSE verifyHappyCode(code, complaint.happyCode)
             closed == code # "none" /\ IsVerified(meta)
             to == IF closed THEN "CLOSED" ELSE "RESOLUTION_SUBMITTED"
             closedBy == IF closed THEN auth.role ELSE complaint.closedBy
             sla == IF closed THEN complete(complaint.sla, late) ELSE complaint.sla
  <1>1. PICK v \in VisitIds :
            /\ IsLatest(v, {"IN_PROGRESS"})
            /\ assertTransition(
                   projected(complaint.serviceCenterId, complaint.technicianId, meta),
                   to, auth.role, FALSE)
            /\ visits' = [visits EXCEPT ![v].status = "COMPLETED", ![v].resolution = "set"]
            /\ complaint' = [complaint EXCEPT
                                !.status = to,
                                !.happyCode = meta,
                                !.closedBy = closedBy,
                                !.sla = sla,
                                !.lastResolutionVisitId = v,
                                !.resolutionReview = None]
            /\ requests' = requests
    BY DEF submitResolution
  <1>2. complaint.status # "CLOSED" /\ to \in {"CLOSED", "RESOLUTION_SUBMITTED"}
    <2> DEFINE view == projected(complaint.serviceCenterId, complaint.technicianId, meta)
    <2>1. to \in {"CLOSED", "RESOLUTION_SUBMITTED"}
      <3> HIDE DEF closed
      <3> QED
        OBVIOUS
    <2>2. view.status = complaint.status
      BY DEF projected
    <2> HIDE DEF view, to
    <2>3. assertTransition(view, to, auth.role, FALSE)
      BY <1>1 DEF view
    <2> QED
      BY <2>1, <2>2, <2>3, ClosingMoves
  <1>3. to = "CLOSED" => IsVerified(meta) /\ closedBy # None
    <2> HIDE DEF meta
    <2>1. CASE closed
      BY <2>1, NoneAssumption
    <2>2. CASE ~closed
      BY <2>2
    <2> QED
      BY <2>1, <2>2
  <1> HIDE DEF meta, closed, to, closedBy, sla
  <1>4. /\ complaint'.status = to
        /\ complaint'.happyCode = meta
        /\ complaint'.closedBy = closedBy
        /\ complaint'.serviceCenterId = complaint.serviceCenterId
        /\ complaint'.technicianId = complaint.technicianId
        /\ complaint'.serviceRating = complaint.serviceRating
        /\ complaint'.closureHistory = complaint.closureHistory
    BY <1>1 DEF PromiseInv, TypeInv, TypeOK, Complaint
  <1>5. VisitsStand
    BY <1>1 DEF IsLatest, VisitsIn, PromiseInv, TypeInv, TypeOK, VisitsStand
  <1>6. PromiseInv'
    BY <1>1, <1>2, <1>3, <1>4
       DEF PromiseInv, TechnicianWorksForHolder, QuietRequests, ClosedOnConfirmation,
           ClosureIsSigned, RatingJudgesStandingClosure
  <1> QED
    BY <1>2, <1>4, <1>5, <1>6, HistoryStands DEF Promised, ClosuresStand, PromiseInv

LEMMA ReviewPromises ==
    ASSUME PromiseInv, TypeInv', NEW auth, NEW accepted \in BOOLEAN, NEW reason \in BOOLEAN,
           NEW pauses \in BOOLEAN, reviewResolution(auth, accepted, reason, pauses)
    PROVE  Promised
  <1>1. /\ complaint'.status \in {"ADMIN_CONFIRMATION", "REVISIT_REQUIRED"}
        /\ complaint'.serviceCenterId = complaint.serviceCenterId
        /\ complaint'.technicianId = complaint.technicianId
        /\ complaint'.serviceRating = complaint.serviceRating
        /\ complaint'.closureHistory = complaint.closureHistory
        /\ visits' = visits /\ requests' = requests
    BY DEF reviewResolution, PromiseInv, TypeInv, TypeOK, Complaint
  <1>2. complaint.status # "CLOSED"
    BY StoredMoves DEF reviewResolution
  <1> QED
    BY <1>1, <1>2, MoveKeepsPromises DEF VisitsStand

LEMMA RequireReworkPromises ==
    ASSUME PromiseInv, TypeInv', NEW reason \in BOOLEAN, NEW pauses \in BOOLEAN,
           requireRework(reason, pauses)
    PROVE  Promised
  <1>1. /\ complaint'.status = "REVISIT_REQUIRED"
        /\ complaint'.serviceCenterId = complaint.serviceCenterId
        /\ complaint'.technicianId = complaint.technicianId
        /\ complaint'.serviceRating = complaint.serviceRating
        /\ complaint'.closureHistory = complaint.closureHistory
        /\ visits' = visits /\ requests' = requests
    BY DEF requireRework, PromiseInv, TypeInv, TypeOK, Complaint
  <1>2. complaint.status # "CLOSED"
    BY StoredMoves DEF requireRework
  <1> QED
    BY <1>1, <1>2, MoveKeepsPromises DEF VisitsStand

(* Typing a code never takes a verification back.                           *)
LEMMA CodePromises ==
    ASSUME PromiseInv, TypeInv', NEW auth,
           \/ \E code \in {"right", "wrong"} : verifyComplaintHappyCode(auth, code)
           \/ closeWithWrongCode(auth)
    PROVE  Promised
  <1>1. PICK code :
            /\ complaint' = [complaint EXCEPT !.happyCode =
                                verifyHappyCode(code, complaint.happyCode)]
            /\ UNCHANGED <<visits, requests, active>>
    BY DEF verifyComplaintHappyCode, closeWithWrongCode
  <1>2. IsVerified(complaint.happyCode)
           => verifyHappyCode(code, complaint.happyCode) = complaint.happyCode
    BY DEF verifyHappyCode
  <1>3. /\ complaint'.happyCode = verifyHappyCode(code, complaint.happyCode)
        /\ complaint'.status = complaint.status
        /\ complaint'.serviceCenterId = complaint.serviceCenterId
        /\ complaint'.technicianId = complaint.technicianId
        /\ complaint'.serviceRating = complaint.serviceRating
        /\ complaint'.closedBy = complaint.closedBy
        /\ complaint'.closureHistory = complaint.closureHistory
    BY <1>1 DEF PromiseInv, TypeInv, TypeOK, Complaint
  <1> QED
    BY <1>1, <1>2, <1>3, StayKeepsRequests, StayKeepsPromises DEF VisitsStand

LEMMA RegeneratePromises ==
    ASSUME PromiseInv, TypeInv', regenerateComplaintHappyCode
    PROVE  Promised
  <1>1. /\ ~IsVerified(complaint.happyCode)
        /\ complaint'.status = complaint.status
        /\ complaint'.serviceCenterId = complaint.serviceCenterId
        /\ complaint'.technicianId = complaint.technicianId
        /\ complaint'.serviceRating = complaint.serviceRating
        /\ complaint'.closedBy = complaint.closedBy
        /\ complaint'.closureHistory = complaint.closureHistory
        /\ visits' = visits /\ requests' = requests
    BY DEF regenerateComplaintHappyCode, PromiseInv, TypeInv, TypeOK, Complaint
  <1> QED
    BY <1>1, StayKeepsRequests, StayKeepsPromises DEF VisitsStand

(* Admin may close as it sees fit; an Owner needs the customer's code.      *)
LEMMA ClosePromises ==
    ASSUME PromiseInv, TypeInv', NEW auth, auth.role \in Roles, NEW code \in {"none", "right"},
           NEW late \in BOOLEAN, closeComplaint(auth, code, late)
    PROVE  Promised
  <1> DEFINE meta == IF code = "none" THEN complaint.happyCode
                     ELSE verifyHappyCode(code, complaint.happyCode)
             sla == complete(complaint.sla, late)
             view == projected(complaint.serviceCenterId, complaint.technicianId, meta)
  <1>1. /\ assertTransition(view, "CLOSED", auth.role, FALSE)
        /\ complaint' = [complaint EXCEPT !.status = "CLOSED", !.happyCode = meta,
                                          !.closedBy = auth.role, !.sla = sla]
        /\ requests' = requests
    BY DEF closeComplaint
  <1> HIDE DEF meta, sla
  <1>2. view.status = complaint.status /\ view.happyCodeVerifiedAt = meta.verifiedAt
    BY DEF projected
  <1>3. complaint.status # "CLOSED" /\ (auth.role = ADMIN \/ IsVerified(meta))
    <2> HIDE DEF view
    <2> QED
      BY <1>1, <1>2, ClosingMoves DEF IsVerified
  <1>4. /\ complaint'.status = "CLOSED"
        /\ complaint'.happyCode = meta
        /\ complaint'.closedBy = auth.role
        /\ complaint'.serviceCenterId = complaint.serviceCenterId
        /\ complaint'.technicianId = complaint.technicianId
        /\ complaint'.serviceRating = complaint.serviceRating
        /\ complaint'.closureHistory = complaint.closureHistory
    BY <1>1 DEF PromiseInv, TypeInv, TypeOK, Complaint
  <1>5. VisitsStand
    BY DEF closeComplaint, IsLatest, VisitsIn, PromiseInv, TypeInv, TypeOK, VisitsStand
  <1>6. PromiseInv'
    BY <1>1, <1>3, <1>4, NoneAssumption
       DEF PromiseInv, TechnicianWorksForHolder, QuietRequests, ClosedOnConfirmation,
           ClosureIsSigned, RatingJudgesStandingClosure
  <1> QED
    BY <1>3, <1>4, <1>5, <1>6, HistoryStands DEF Promised, ClosuresStand, PromiseInv

LEMMA RatePromises ==
    ASSUME PromiseInv, TypeInv', rateService
    PROVE  Promised
  <1>1. /\ complaint.status = "CLOSED" /\ complaint'.status = "CLOSED"
        /\ complaint'.serviceRating = complaint.serviceCenterId
        /\ complaint'.happyCode = complaint.happyCode
        /\ complaint'.closedBy = complaint.closedBy
        /\ complaint'.serviceCenterId = complaint.serviceCenterId
        /\ complaint'.technicianId = complaint.technicianId
        /\ complaint'.closureHistory = complaint.closureHistory
        /\ visits' = visits /\ requests' = requests
    BY DEF rateService, PromiseInv, TypeInv, TypeOK, Complaint
  <1>2. PromiseInv'
    BY <1>1 DEF PromiseInv, TechnicianWorksForHolder, QuietRequests, ClosedOnConfirmation,
                ClosureIsSigned, RatingJudgesStandingClosure
  <1> QED
    BY <1>1, <1>2, HistoryStands DEF Promised, ClosuresStand, VisitsStand, PromiseInv

(* A signed closure goes to the history, its rating with it.                *)
LEMMA ReopenPromises ==
    ASSUME PromiseInv, TypeInv', NEW reason \in BOOLEAN, reopenComplaint(reason)
    PROVE  Promised
  <1> DEFINE closures == complaint.closureHistory
             closure == [closedBy |-> complaint.closedBy, rating |-> complaint.serviceRating]
  <1>1. /\ complaint'.status = "REOPENED"
        /\ complaint'.serviceRating = None
        /\ complaint'.closureHistory = historyAfterReopen(complaint.status = "CLOSED")
        /\ complaint'.serviceCenterId = complaint.serviceCenterId
        /\ complaint'.technicianId = complaint.technicianId
        /\ visits' = visits /\ requests' = requests
    BY DEF reopenComplaint, ratingAfterReopen, PromiseInv, TypeInv, TypeOK, Complaint
  <1>2. PromiseInv'
    BY <1>1 DEF PromiseInv, TechnicianWorksForHolder, QuietRequests, ClosedOnConfirmation,
                ClosureIsSigned, RatingJudgesStandingClosure
  <1>3. closures \in Seq(Closure)
    BY DEF PromiseInv, TypeInv, TypeOK, Complaint
  <1>4. CASE complaint.status = "CLOSED"
    <2>1. complaint.closedBy # None /\ closure \in Closure
      BY <1>4 DEF PromiseInv, ClosureIsSigned, TypeInv, TypeOK, Complaint, Closure
    <2>2. complaint'.closureHistory = Append(closures, closure)
      BY <1>1, <1>4, <2>1 DEF historyAfterReopen
    <2> HIDE DEF closures, closure
    <2>3. SubSeq(Append(closures, closure), 1, Len(closures)) = closures
      BY <1>3, <2>1
    <2> QED
      BY <1>1, <1>2, <2>2, <2>3 DEF Promised, ClosuresStand, VisitsStand, closures, closure
  <1>5. CASE complaint.status # "CLOSED"
    <2>1. complaint'.closureHistory = closures
      BY <1>1, <1>5 DEF historyAfterReopen
    <2> QED
      BY <1>1, <1>2, <1>5, <2>1, HistoryStands
         DEF Promised, ClosuresStand, VisitsStand, PromiseInv
  <1> QED
    BY <1>4, <1>5

LEMMA CancelPromises ==
    ASSUME PromiseInv, TypeInv', NEW reason \in BOOLEAN, cancelComplaint(reason)
    PROVE  Promised
  <1>1. /\ complaint'.status = "CANCELLED"
        /\ complaint'.serviceCenterId = complaint.serviceCenterId
        /\ complaint'.technicianId = complaint.technicianId
        /\ complaint'.serviceRating = complaint.serviceRating
        /\ complaint'.closureHistory = complaint.closureHistory
        /\ requests' = requests
    BY DEF cancelComplaint, PromiseInv, TypeInv, TypeOK, Complaint
  <1>2. complaint.status # "CLOSED"
    BY StoredMoves DEF cancelComplaint
  <1>3. VisitsStand
    BY OpenVisitsCancelled DEF cancelComplaint, PromiseInv
  <1> QED
    BY <1>1, <1>2, <1>3, MoveKeepsPromises

LEMMA WaitingPromises ==
    ASSUME PromiseInv, TypeInv', NEW auth, NEW reason \in BOOLEAN, NEW pauses \in BOOLEAN,
           markWaitingForParts(auth, reason, pauses)
    PROVE  Promised
  <1>1. /\ complaint'.status = "WAITING_FOR_PARTS"
        /\ complaint'.serviceCenterId = complaint.serviceCenterId
        /\ complaint'.technicianId = complaint.technicianId
        /\ complaint'.serviceRating = complaint.serviceRating
        /\ complaint'.closureHistory = complaint.closureHistory
        /\ visits' = visits /\ requests' = requests
    BY DEF markWaitingForParts, PromiseInv, TypeInv, TypeOK, Complaint
  <1>2. complaint.status # "CLOSED"
    BY StoredMoves DEF markWaitingForParts
  <1> QED
    BY <1>1, <1>2, MoveKeepsPromises DEF VisitsStand

LEMMA ResumePromises ==
    ASSUME PromiseInv, TypeInv', NEW auth, resumeWork(auth)
    PROVE  Promised
  <1>1. /\ complaint'.status = "IN_PROGRESS"
        /\ complaint'.serviceCenterId = complaint.serviceCenterId
        /\ complaint'.technicianId = complaint.technicianId
        /\ complaint'.serviceRating = complaint.serviceRating
        /\ complaint'.closureHistory = complaint.closureHistory
        /\ visits' = visits /\ requests' = requests
    BY DEF resumeWork, PromiseInv, TypeInv, TypeOK, Complaint
  <1>2. complaint.status # "CLOSED"
    BY StoredMoves DEF resumeWork
  <1> QED
    BY <1>1, <1>2, MoveKeepsPromises DEF VisitsStand

(* Only the technician on the job raises a request, and a complaint that    *)
(* waits for its centre's choice has none.                                  *)
LEMMA RequestPromises ==
    ASSUME PromiseInv, TypeInv', NEW r \in RequestIds,
           \/ \E auth \in Techs : createPartRequest(auth, r)
           \/ \E auth \in Owners, decision \in {"APPROVED", "ISSUED", "UNAVAILABLE", "REJECTED",
                                               "CANCELLED"} : decidePartRequest(auth, r, decision)
    PROVE  Promised
  <1>1. complaint' = complaint /\ visits' = visits
    BY DEF createPartRequest, decidePartRequest
  <1>2. QuietRequests'
    <2>1. ASSUME NEW auth \in Techs, createPartRequest(auth, r)
          PROVE  QuietRequests'
      <3>1. complaint.technicianId # None
        BY <2>1, NoneAssumption
           DEF createPartRequest, MayAct, complaintScope, Techs, Tech
      <3>2. complaint.status \notin {"NEW", "ASSIGNED"}
        BY <3>1 DEF PromiseInv, TechnicianWorksForHolder
      <3> QED
        BY <1>1, <2>1, <3>2
           DEF createPartRequest, PromiseInv, QuietRequests, TypeInv, TypeOK
    <2>2. ASSUME NEW auth, NEW decision, decidePartRequest(auth, r, decision)
          PROVE  QuietRequests'
      BY <1>1, <2>2
         DEF decidePartRequest, PromiseInv, QuietRequests, TypeInv, TypeOK, PartRequest
    <2> QED
      BY <2>1, <2>2
  <1> QED
    BY <1>1, <1>2, StayKeepsPromises DEF VisitsStand

LEMMA BackgroundPromises ==
    ASSUME PromiseInv, TypeInv', BackgroundSteps
    PROVE  Promised
  <1>1. CASE recordBreach
    <2>1. /\ complaint'.status = complaint.status
          /\ complaint'.happyCode = complaint.happyCode
          /\ complaint'.serviceCenterId = complaint.serviceCenterId
          /\ complaint'.technicianId = complaint.technicianId
          /\ complaint'.serviceRating = complaint.serviceRating
          /\ complaint'.closedBy = complaint.closedBy
          /\ complaint'.closureHistory = complaint.closureHistory
          /\ visits' = visits /\ requests' = requests
      BY <1>1 DEF recordBreach, PromiseInv, TypeInv, TypeOK, Complaint
    <2> QED
      BY <2>1, StayKeepsRequests, StayKeepsPromises DEF VisitsStand
  <1>2. ASSUME NEW account \in Centres \cup Technicians,
               deactivate(account) \/ reactivate(account)
        PROVE  Promised
    <2>1. complaint' = complaint /\ visits' = visits /\ requests' = requests
      BY <1>2 DEF deactivate, reactivate
    <2> QED
      BY <2>1, StayKeepsRequests, StayKeepsPromises DEF VisitsStand
  <1> QED
    BY <1>1, <1>2 DEF BackgroundSteps, sweepBreaches, getComplaint

-----------------------------------------------------------------------------
LEMMA InitPromises == Init => PromiseInv
  <1> SUFFICES ASSUME Init PROVE PromiseInv
    OBVIOUS
  <1>1. PICK c \in Centres \cup {None} : complaint = NewComplaint(c)
    BY DEF Init
  <1>2. /\ complaint.status \in {"NEW", "ASSIGNED"}
        /\ complaint.technicianId = None
        /\ complaint.serviceRating = None
    BY <1>1 DEF NewComplaint
  <1>3. \A r \in RequestIds : requests[r].status = "UNUSED"
    BY DEF Init
  <1> QED
    BY <1>2, <1>3, InitTypeInv
       DEF PromiseInv, TechnicianWorksForHolder, QuietRequests, ClosedOnConfirmation,
           ClosureIsSigned, RatingJudgesStandingClosure, WAITING_REQUEST_STATUSES

(* Every handler keeps every promise.                                       *)
LEMMA NextPromises == PromiseInv /\ [Next]_vars => Promised
  <1> SUFFICES ASSUME PromiseInv, [Next]_vars PROVE Promised
    OBVIOUS
  <1>0. TypeInv'
    BY NextTypeInv DEF PromiseInv
  <1>1. CASE AdminSteps
    BY <1>0, <1>1, CallersHaveRoles, AssignServiceCenterPromises, CancelVisitPromises,
       RequireReworkPromises, CodePromises, RegeneratePromises, ClosePromises, RatePromises,
       ReopenPromises, CancelPromises DEF AdminSteps
  <1>2. CASE OwnerSteps
    <2>1. PICK auth \in Owners :
            \/ \E t \in Technicians : assignTechnician(auth, t)
            \/ \E t \in Technicians \cup {None}, reason \in BOOLEAN : scheduleVisit(auth, t, reason)
            \/ \E v \in VisitIds : cancelScheduledVisit(auth, v)
            \/ \E accepted, reason, pauses \in BOOLEAN :
                  reviewResolution(auth, accepted, reason, pauses)
            \/ \E code \in {"right", "wrong"} : verifyComplaintHappyCode(auth, code)
            \/ closeWithWrongCode(auth)
            \/ \E code \in {"none", "right"}, late \in BOOLEAN : closeComplaint(auth, code, late)
            \/ \E reason, pauses \in BOOLEAN : markWaitingForParts(auth, reason, pauses)
            \/ \E r \in RequestIds, decision \in {"APPROVED", "ISSUED", "UNAVAILABLE",
                                                  "REJECTED", "CANCELLED"} :
                  decidePartRequest(auth, r, decision)
      BY <1>2 DEF OwnerSteps
    <2>2. ASSUME NEW r \in RequestIds,
                 NEW decision \in {"APPROVED", "ISSUED", "UNAVAILABLE", "REJECTED", "CANCELLED"},
                 decidePartRequest(auth, r, decision)
          PROVE  Promised
      BY <1>0, <2>2, RequestPromises
    <2> QED
      BY <1>0, <2>1, <2>2, CallersHaveRoles, AssignTechnicianPromises, ScheduleVisitPromises,
         CancelVisitPromises, ReviewPromises, CodePromises, ClosePromises, WaitingPromises
  <1>3. CASE TechnicianSteps
    <2>1. PICK auth \in Techs :
            \/ \E endsHere \in BOOLEAN : startVisit(auth, endsHere)
            \/ \E code \in {"none", "right", "wrong"}, late \in BOOLEAN :
                  submitResolution(auth, code, late)
            \/ \E reason, pauses \in BOOLEAN : markWaitingForParts(auth, reason, pauses)
            \/ \E r \in RequestIds : createPartRequest(auth, r)
      BY <1>3 DEF TechnicianSteps
    <2> QED
      BY <1>0, <2>1, CallersHaveRoles, StartVisitPromises, SubmitResolutionPromises,
         WaitingPromises, RequestPromises
  <1>4. CASE BackgroundSteps
    BY <1>0, <1>4, BackgroundPromises
  <1>5. ASSUME NEW auth \in Owners \cup Techs, resumeWork(auth)
        PROVE  Promised
    BY <1>0, <1>5, ResumePromises
  <1>6. CASE UNCHANGED vars
    <2>1. complaint' = complaint /\ visits' = visits /\ requests' = requests
      BY <1>6 DEF vars
    <2> QED
      BY <1>0, <2>1, StayKeepsRequests, StayKeepsPromises DEF VisitsStand
  <1> QED
    BY <1>1, <1>2, <1>3, <1>4, <1>5, <1>6 DEF Next, OtherSteps

LEMMA PromisesHold == Spec => []PromiseInv
  <1>1. Promised => PromiseInv'
    BY DEF Promised
  <1> QED
    BY InitPromises, NextPromises, <1>1, PTL DEF Spec

(* The technician on a complaint always works at the centre that holds it,  *)
(* and a complaint waiting for its centre's choice has none, through any    *)
(* number of moves, cancellations and reopenings.                           *)
THEOREM TechnicianPlaced == Spec => []TechnicianWorksForHolder
  <1>1. PromiseInv => TechnicianWorksForHolder
    BY DEF PromiseInv
  <1> QED
    BY PromisesHold, <1>1, PTL

(* No part request waits in the queue of a centre that has lost the         *)
(* complaint.                                                               *)
THEOREM RequestsFollow == Spec => []WaitingRequestsFollowComplaint
  <1>1. PromiseInv => WaitingRequestsFollowComplaint
    BY DEF PromiseInv, QuietRequests, WaitingRequestsFollowComplaint
  <1> QED
    BY PromisesHold, <1>1, PTL

(* A complaint is closed on the customer's word or by Admin, and by nobody  *)
(* else: none of the three closing handlers and five closing rules slips.   *)
THEOREM ClosedRightly == Spec => []ClosedOnConfirmation
  <1>1. PromiseInv => ClosedOnConfirmation
    BY DEF PromiseInv
  <1> QED
    BY PromisesHold, <1>1, PTL

(* A rating never outlives the closure it judged, so no centre is rated for *)
(* another's work.                                                          *)
THEOREM RatedRightly == Spec => []RatingJudgesStandingClosure
  <1>1. PromiseInv => RatingJudgesStandingClosure
    BY DEF PromiseInv
  <1> QED
    BY PromisesHold, <1>1, PTL

(* No handler rewrites a visit that has ended.                              *)
THEOREM VisitsStandForGood == Spec => EndedVisitsStand
  <1>1. PromiseInv /\ [Next]_vars
           => [\A v \in VisitIds :
                 visits[v].status \in {"COMPLETED", "CANCELLED"} => visits'[v] = visits[v]]_vars
    BY NextPromises DEF Promised, VisitsStand
  <1> QED
    BY PromisesHold, <1>1, PTL DEF Spec, EndedVisitsStand

(* No closure is lost: the history is only appended to, and a complaint     *)
(* that leaves CLOSED takes its closure, with its rating, into it.          *)
THEOREM ClosuresStandForGood == Spec => ClosuresAreKept
  <1>1. PromiseInv /\ [Next]_vars
           => [/\ SubSeq(complaint'.closureHistory, 1, Len(complaint.closureHistory))
                     = complaint.closureHistory
               /\ complaint.status = "CLOSED" /\ complaint'.status # "CLOSED"
                     => complaint'.closureHistory =
                           Append(complaint.closureHistory,
                                  [closedBy |-> complaint.closedBy,
                                   rating |-> complaint.serviceRating])]_vars
    BY NextPromises DEF Promised, ClosuresStand
  <1> QED
    BY PromisesHold, <1>1, PTL DEF Spec, ClosuresAreKept

-----------------------------------------------------------------------------
(* The lifecycle the desk promises: every handler is one step of it, or     *)
(* none.                                                                    *)

(* A step of the workflow, read as the lifecycle.                           *)
Kept == Lifecycle!Next \/ UNCHANGED Lifecycle!vars

Unattended == {"NEW", "ASSIGNED", "TECHNICIAN_ASSIGNED", "VISIT_SCHEDULED", "REOPENED"}
Attended == {"IN_PROGRESS", "WAITING_FOR_PARTS", "REVISIT_REQUIRED",
             "RESOLUTION_SUBMITTED", "ADMIN_CONFIRMATION"}

LEMMA Stages ==
    /\ \A status \in Unattended : stageOf(status) = "waiting"
    /\ \A status \in Attended : stageOf(status) = "attended"
    /\ stageOf("CLOSED") = "closed"
    /\ stageOf("CANCELLED") = "cancelled"
    /\ Statuses = Unattended \cup Attended \cup {"CLOSED", "CANCELLED"}
  BY DEF stageOf, Unattended, Attended, Statuses

(* Where in the lifecycle each move of the table starts.                    *)
LEMMA MovesByStage ==
    ASSUME NEW view, NEW to, NEW role, NEW reason, assertTransition(view, to, role, reason)
    PROVE  /\ to = "IN_PROGRESS" => view.status \in {"VISIT_SCHEDULED", "WAITING_FOR_PARTS"}
           /\ to \in {"CLOSED", "RESOLUTION_SUBMITTED", "ADMIN_CONFIRMATION",
                      "REVISIT_REQUIRED", "WAITING_FOR_PARTS"} => view.status \in Attended
           /\ to \in {"ASSIGNED", "VISIT_SCHEDULED", "CANCELLED"}
                 => view.status \in Unattended \cup Attended
           /\ to = "TECHNICIAN_ASSIGNED" => view.status \in Unattended
           /\ to = "REOPENED" => view.status \in TerminalStatuses
           /\ to = "CLOSED" /\ role # ADMIN => view.happyCodeVerifiedAt # None
  <1>1. PICK rule \in TRANSITIONS : rule.from = view.status /\ rule.to = to
    BY DEF assertTransition, availableTransitions, transitionsFrom
  <1>2. ASSUME rule \in cancellationRules
        PROVE  rule.to = "CANCELLED" /\ rule.from \in Unattended \cup Attended
    BY <1>2 DEF cancellationRules, Rule, CANCELLABLE_FROM, Statuses, TerminalStatuses,
                Unattended, Attended
  <1>3. ASSUME rule \in centreReassignmentRules
        PROVE  rule.to = "ASSIGNED" /\ rule.from \in Unattended \cup Attended
    BY <1>3 DEF centreReassignmentRules, Rule, CENTRE_REASSIGNABLE_FROM, Unattended, Attended
  <1>4. ASSUME rule \notin cancellationRules, rule \notin centreReassignmentRules
        PROVE  /\ rule.to = "IN_PROGRESS" => rule.from \in {"VISIT_SCHEDULED", "WAITING_FOR_PARTS"}
               /\ rule.to \in {"CLOSED", "RESOLUTION_SUBMITTED", "ADMIN_CONFIRMATION",
                               "REVISIT_REQUIRED", "WAITING_FOR_PARTS"} => rule.from \in Attended
               /\ rule.to \in {"ASSIGNED", "VISIT_SCHEDULED", "CANCELLED"}
                     => rule.from \in Unattended \cup Attended
               /\ rule.to = "TECHNICIAN_ASSIGNED" => rule.from \in Unattended
               /\ rule.to = "REOPENED" => rule.from \in TerminalStatuses
    BY <1>4 DEF TRANSITIONS, Rule, Unattended, Attended, TerminalStatuses
  <1> QED
    BY <1>1, <1>2, <1>3, <1>4, ClosingMoves

(* The same of a move judged on the stored complaint.                       *)
LEMMA StoredMovesByStage ==
    ASSUME NEW to, NEW auth, NEW reason, transition(to, auth, reason)
    PROVE  /\ to = "IN_PROGRESS" => complaint.status \in {"VISIT_SCHEDULED", "WAITING_FOR_PARTS"}
           /\ to \in {"ADMIN_CONFIRMATION", "REVISIT_REQUIRED", "WAITING_FOR_PARTS"}
                 => complaint.status \in Attended
           /\ to = "CANCELLED" => complaint.status \in Unattended \cup Attended
           /\ to = "TECHNICIAN_ASSIGNED" => complaint.status \in Unattended
           /\ to = "REOPENED" => complaint.status \in TerminalStatuses
  BY MovesByStage DEF transition, stateViewOf, projected

(* An attempt at the code never takes a confirmation away.                  *)
LEMMA VerifyKeepsWord ==
    ASSUME NEW meta \in HappyCode, NEW code
    PROVE  IsVerified(meta) => IsVerified(verifyHappyCode(code, meta))
  BY DEF verifyHappyCode

-----------------------------------------------------------------------------
(* One lemma per step of the lifecycle: what the stored complaint must do   *)
(* for a handler to be that step.                                           *)
LEMMA NothingShows ==
    ASSUME stageOf(complaint'.status) = stageOf(complaint.status),
           complaint'.status = "CLOSED" <=> complaint.status = "CLOSED",
           complaint'.serviceCenterId = complaint.serviceCenterId,
           IsVerified(complaint'.happyCode) <=> IsVerified(complaint.happyCode),
           complaint.status = "CLOSED"
              => /\ complaint'.closedBy = complaint.closedBy
                 /\ complaint'.serviceRating = complaint.serviceRating,
           complaint'.closureHistory = complaint.closureHistory
    PROVE  Kept
  BY DEF Kept, Lifecycle!vars, Standing, IsVerified

(* A complaint that is open before and after, with nothing but its stage    *)
(* and its centre in play.                                                  *)
LEMMA OpenStep ==
    ASSUME complaint.status \in Unattended \cup Attended,
           complaint'.status \in Unattended \cup Attended,
           complaint'.serviceCenterId \in Centres \cup {None},
           \/ complaint'.serviceCenterId = complaint.serviceCenterId
           \/ complaint'.serviceCenterId # None /\ complaint'.status \in Unattended,
           complaint'.status \in Attended /\ complaint.status \in Unattended
              => complaint.serviceCenterId # None,
           IsVerified(complaint'.happyCode) <=> IsVerified(complaint.happyCode),
           complaint'.closureHistory = complaint.closureHistory
    PROVE  Kept
  <1>1. /\ Standing = None /\ Standing' = None
        /\ complaint.status # "CLOSED" /\ complaint'.status # "CLOSED"
    BY DEF Standing, Unattended, Attended
  <1>2. CASE complaint'.serviceCenterId # complaint.serviceCenterId
    <2>1. Lifecycle!Send(complaint'.serviceCenterId)
      BY <1>1, <1>2, Stages DEF Lifecycle!Send, Lifecycle!Open, IsVerified
    <2> QED
      BY <1>2, <2>1 DEF Kept, Lifecycle!Next
  <1>3. CASE /\ complaint'.serviceCenterId = complaint.serviceCenterId
             /\ complaint.status \in Unattended /\ complaint'.status \in Attended
    <2>1. Lifecycle!Attend
      BY <1>1, <1>3, Stages DEF Lifecycle!Attend, IsVerified
    <2> QED
      BY <2>1 DEF Kept, Lifecycle!Next
  <1>4. CASE /\ complaint'.serviceCenterId = complaint.serviceCenterId
             /\ complaint.status \in Attended /\ complaint'.status \in Unattended
    <2>1. Lifecycle!Await
      BY <1>1, <1>4, Stages DEF Lifecycle!Await, IsVerified
    <2> QED
      BY <2>1 DEF Kept, Lifecycle!Next
  <1>5. CASE /\ complaint'.serviceCenterId = complaint.serviceCenterId
             /\ \/ complaint.status \in Unattended /\ complaint'.status \in Unattended
                \/ complaint.status \in Attended /\ complaint'.status \in Attended
    BY <1>1, <1>5, Stages, NothingShows
  <1> QED
    BY <1>2, <1>3, <1>4, <1>5

LEMMA WordStep ==
    ASSUME complaint.status \in Attended, complaint'.status \in Attended,
           complaint'.serviceCenterId = complaint.serviceCenterId,
           complaint'.closureHistory = complaint.closureHistory
    PROVE  Kept
  <1>1. Standing = None /\ Standing' = None
    BY DEF Standing, Attended
  <1>2. CASE IsVerified(complaint'.happyCode)
    <2>1. Lifecycle!Confirm
      BY <1>1, <1>2, Stages DEF Lifecycle!Confirm, IsVerified
    <2> QED
      BY <2>1 DEF Kept, Lifecycle!Next
  <1>3. CASE ~IsVerified(complaint'.happyCode)
    <2>1. Lifecycle!Withdraw
      BY <1>1, <1>3, Stages DEF Lifecycle!Withdraw, IsVerified
    <2> QED
      BY <2>1 DEF Kept, Lifecycle!Next
  <1> QED
    BY <1>2, <1>3

LEMMA CloseStep ==
    ASSUME NEW role \in Roles,
           complaint.status \in Attended, complaint'.status = "CLOSED",
           complaint'.closedBy = role, complaint'.serviceRating = None,
           complaint'.serviceCenterId = complaint.serviceCenterId,
           IsVerified(complaint.happyCode) => IsVerified(complaint'.happyCode),
           role # ADMIN => IsVerified(complaint'.happyCode),
           complaint'.closureHistory = complaint.closureHistory
    PROVE  Kept
  <1>1. Standing' = [closedBy |-> role, rating |-> None]
    BY DEF Standing
  <1>2. IsVerified(complaint.happyCode) \in BOOLEAN /\ IsVerified(complaint'.happyCode) \in BOOLEAN
    BY DEF IsVerified
  <1>3. Lifecycle!Close(role)
    BY <1>1, <1>2, Stages DEF Lifecycle!Close, IsVerified
  <1> QED
    BY <1>3 DEF Kept, Lifecycle!Next

-----------------------------------------------------------------------------
(* One lemma per handler, or kind of handler.                               *)

(* A handler that leaves the complaint open and its code alone.             *)
LEMMA OpenMove ==
    ASSUME PromiseInv, TypeInv',
           complaint.status \in Unattended \cup Attended,
           complaint'.status \in Unattended \cup Attended,
           complaint'.serviceCenterId = complaint.serviceCenterId,
           complaint'.status \in Attended /\ complaint.status \in Unattended
              => complaint.serviceCenterId # None,
           complaint'.happyCode = complaint.happyCode,
           complaint'.closureHistory = complaint.closureHistory
    PROVE  Kept
  <1>1. complaint'.serviceCenterId \in Centres \cup {None}
    BY DEF TypeInv, TypeOK, Complaint
  <1> QED
    BY <1>1, OpenStep

(* A handler that stays within the complaint's status.                      *)
LEMMA StayMove ==
    ASSUME complaint'.status = complaint.status,
           complaint'.serviceCenterId = complaint.serviceCenterId,
           complaint'.closedBy = complaint.closedBy,
           complaint'.serviceRating = complaint.serviceRating,
           IsVerified(complaint'.happyCode) <=> IsVerified(complaint.happyCode),
           complaint'.closureHistory = complaint.closureHistory
    PROVE  Kept
  BY NothingShows

LEMMA AssignServiceCenterKeeps ==
    ASSUME PromiseInv, NEW centre \in Centres, NEW reason \in BOOLEAN,
           assignServiceCenter(centre, reason)
    PROVE  Kept
  <1>1. /\ complaint'.status = "ASSIGNED"
        /\ complaint'.serviceCenterId = centre
        /\ complaint'.happyCode = complaint.happyCode
        /\ complaint'.closureHistory = complaint.closureHistory
    BY DEF assignServiceCenter, PromiseInv, TypeInv, TypeOK, Complaint
  <1>2. complaint.status \in Unattended \cup Attended
    <2>1. ASSUME NEW t, assertTransition(projected(centre, t, complaint.happyCode),
                                         "ASSIGNED", ADMIN, reason)
          PROVE  complaint.status \in Unattended \cup Attended
      <3>1. projected(centre, t, complaint.happyCode).status \in Unattended \cup Attended
        BY <2>1, MovesByStage
      <3> QED
        BY <3>1 DEF projected
    <2> QED
      BY <2>1 DEF assignServiceCenter, Unattended
  <1>3. centre # None
    BY NoneAssumption
  <1> QED
    BY <1>1, <1>2, <1>3, OpenStep DEF Unattended, Attended

LEMMA AssignTechnicianKeeps ==
    ASSUME PromiseInv, TypeInv', NEW auth, NEW technician \in Technicians,
           assignTechnician(auth, technician)
    PROVE  Kept
  <1>1. /\ complaint.status \in TECHNICIAN_ASSIGNABLE
        /\ complaint'.status = IF complaint.status \in {"ASSIGNED", "REOPENED"}
                               THEN "TECHNICIAN_ASSIGNED" ELSE complaint.status
        /\ complaint'.serviceCenterId = complaint.serviceCenterId
        /\ complaint'.happyCode = complaint.happyCode
        /\ complaint'.closureHistory = complaint.closureHistory
    BY DEF assignTechnician, PromiseInv, TypeInv, TypeOK, Complaint
  <1>2. /\ complaint.status \in Unattended \cup Attended
        /\ complaint'.status \in Unattended \cup Attended
        /\ complaint'.status \in Attended => complaint.status \notin Unattended
    BY <1>1 DEF TECHNICIAN_ASSIGNABLE, Unattended, Attended
  <1> QED
    BY <1>1, <1>2, OpenMove

LEMMA ScheduleVisitKeeps ==
    ASSUME PromiseInv, TypeInv', NEW auth, NEW named, NEW reason, scheduleVisit(auth, named, reason)
    PROVE  Kept
  <1> DEFINE technician == IF named = None THEN complaint.technicianId ELSE named
             view == projected(complaint.serviceCenterId, technician, complaint.happyCode)
  <1>1. /\ complaint'.status = "VISIT_SCHEDULED"
        /\ complaint'.serviceCenterId = complaint.serviceCenterId
        /\ complaint'.happyCode = complaint.happyCode
        /\ complaint'.closureHistory = complaint.closureHistory
        /\ assertTransition(view, "VISIT_SCHEDULED", auth.role, reason)
    BY DEF scheduleVisit, PromiseInv, TypeInv, TypeOK, Complaint
  <1>2. view.status = complaint.status
    BY DEF projected
  <1> HIDE DEF view
  <1>3. complaint.status \in Unattended \cup Attended
    BY <1>1, <1>2, MovesByStage
  <1>4. "VISIT_SCHEDULED" \in Unattended /\ "VISIT_SCHEDULED" \notin Attended
    BY DEF Unattended, Attended
  <1> QED
    BY <1>1, <1>3, <1>4, OpenMove

LEMMA CancelVisitKeeps ==
    ASSUME PromiseInv, TypeInv', NEW auth, NEW v \in VisitIds, cancelScheduledVisit(auth, v)
    PROVE  Kept
  <1>1. /\ complaint'.serviceCenterId = complaint.serviceCenterId
        /\ complaint'.happyCode = complaint.happyCode
        /\ complaint'.closedBy = complaint.closedBy
        /\ complaint'.serviceRating = complaint.serviceRating
        /\ complaint'.closureHistory = complaint.closureHistory
        /\ complaint'.status = statusAfterCancel(v)
    BY DEF cancelScheduledVisit, PromiseInv, TypeInv, TypeOK, Complaint
  <1>2. CASE complaint.status = "VISIT_SCHEDULED" /\ complaint'.status = "TECHNICIAN_ASSIGNED"
    BY <1>1, <1>2, OpenMove DEF Unattended, Attended
  <1>3. CASE complaint'.status = complaint.status
    BY <1>1, <1>3, StayMove
  <1> QED
    BY <1>1, <1>2, <1>3 DEF statusAfterCancel

(* Whoever may act for a centre finds the complaint with that centre.       *)
LEMMA ActorHasCentre ==
    ASSUME PromiseInv, NEW auth \in Owners \cup Techs, MayAct(auth)
    PROVE  complaint.serviceCenterId # None
  <1>1. ASSUME NEW c \in Centres, auth = Owner(c)
        PROVE  complaint.serviceCenterId # None
    BY <1>1, NoneAssumption DEF MayAct, complaintScope, Owner
  <1>2. ASSUME NEW t \in Technicians, auth = Tech(t)
        PROVE  complaint.serviceCenterId # None
    <2>1. complaint.technicianId = t
      BY <1>2 DEF MayAct, complaintScope, Tech
    <2>2. CentreOf[t] \in Centres /\ t # None
      BY CentreOfAssumption, NoneAssumption
    <2> QED
      BY <2>1, <2>2, NoneAssumption DEF PromiseInv, TechnicianWorksForHolder
  <1> QED
    BY <1>1, <1>2 DEF Owners, Techs

LEMMA StartVisitKeeps ==
    ASSUME PromiseInv, TypeInv', NEW auth \in Techs, NEW endsHere, startVisit(auth, endsHere)
    PROVE  Kept
  <1>1. /\ MayAct(auth)
        /\ transition("IN_PROGRESS", auth, FALSE)
        /\ complaint'.status = "IN_PROGRESS"
        /\ complaint'.serviceCenterId = complaint.serviceCenterId
        /\ complaint'.happyCode = complaint.happyCode
        /\ complaint'.closureHistory = complaint.closureHistory
    BY DEF startVisit, PromiseInv, TypeInv, TypeOK, Complaint
  <1>2. complaint.status \in {"VISIT_SCHEDULED", "WAITING_FOR_PARTS"}
    BY <1>1, StoredMovesByStage
  <1>3. complaint.serviceCenterId # None
    BY <1>1, ActorHasCentre
  <1> QED
    BY <1>1, <1>2, <1>3, OpenMove DEF Unattended, Attended

LEMMA ResumeKeeps ==
    ASSUME PromiseInv, TypeInv', NEW auth \in Owners \cup Techs, resumeWork(auth)
    PROVE  Kept
  <1>1. /\ MayAct(auth)
        /\ transition("IN_PROGRESS", auth, FALSE)
        /\ complaint'.status = "IN_PROGRESS"
        /\ complaint'.serviceCenterId = complaint.serviceCenterId
        /\ complaint'.happyCode = complaint.happyCode
        /\ complaint'.closureHistory = complaint.closureHistory
    BY DEF resumeWork, PromiseInv, TypeInv, TypeOK, Complaint
  <1>2. complaint.status \in {"VISIT_SCHEDULED", "WAITING_FOR_PARTS"}
    BY <1>1, StoredMovesByStage
  <1>3. complaint.serviceCenterId # None
    BY <1>1, ActorHasCentre
  <1> QED
    BY <1>1, <1>2, <1>3, OpenMove DEF Unattended, Attended
LEMMA SubmitResolutionKeeps ==
    ASSUME PromiseInv, TypeInv', NEW auth, auth.role \in Roles, auth.role # ADMIN,
           NEW code \in {"none", "right", "wrong"}, NEW late \in BOOLEAN,
           submitResolution(auth, code, late)
    PROVE  Kept
  <1> DEFINE meta == IF code = "none" THEN complaint.happyCode
                     ELSE verifyHappyCode(code, complaint.happyCode)
             closed == code # "none" /\ IsVerified(meta)
             to == IF closed THEN "CLOSED" ELSE "RESOLUTION_SUBMITTED"
             closedBy == IF closed THEN auth.role ELSE complaint.closedBy
             sla == IF closed THEN complete(complaint.sla, late) ELSE complaint.sla
             view == projected(complaint.serviceCenterId, complaint.technicianId, meta)
  <1>1. PICK v \in VisitIds :
            /\ assertTransition(view, to, auth.role, FALSE)
            /\ complaint' = [complaint EXCEPT
                                !.status = to,
                                !.happyCode = meta,
                                !.closedBy = closedBy,
                                !.sla = sla,
                                !.lastResolutionVisitId = v,
                                !.resolutionReview = None]
    BY DEF submitResolution
  <1>2. IsVerified(complaint.happyCode) => IsVerified(meta)
    BY VerifyKeepsWord DEF PromiseInv, TypeInv, TypeOK, Complaint
  <1>3. view.status = complaint.status
    BY DEF projected
  <1>4. closed => IsVerified(meta)
    OBVIOUS
  <1>5. ~closed /\ IsVerified(meta) => meta = complaint.happyCode
    BY DEF closed
  <1> HIDE DEF meta, closed, sla, view
  <1>6. /\ complaint'.status = to
        /\ complaint'.happyCode = meta
        /\ complaint'.closedBy = closedBy
        /\ complaint'.serviceCenterId = complaint.serviceCenterId
        /\ complaint'.serviceRating = complaint.serviceRating
        /\ complaint'.closureHistory = complaint.closureHistory
    <2> HIDE DEF to, closedBy
    <2> QED
      BY <1>1 DEF PromiseInv, TypeInv, TypeOK, Complaint
  <1>7. complaint.status \in Attended
    <2>1. to \in {"CLOSED", "RESOLUTION_SUBMITTED"}
      OBVIOUS
    <2> HIDE DEF to
    <2> QED
      BY <1>1, <1>3, <2>1, MovesByStage
  <1>8. complaint.serviceRating = None
    BY <1>7 DEF PromiseInv, RatingJudgesStandingClosure, Attended
  <1>9. CASE closed
    BY <1>2, <1>4, <1>6, <1>7, <1>8, <1>9, CloseStep
  <1>10. CASE ~closed
    BY <1>6, <1>7, <1>10, WordStep DEF Attended
  <1> QED
    BY <1>9, <1>10

LEMMA CloseKeeps ==
    ASSUME PromiseInv, TypeInv', NEW auth, auth.role \in Roles, NEW code \in {"none", "right"},
           NEW late \in BOOLEAN, closeComplaint(auth, code, late)
    PROVE  Kept
  <1> DEFINE meta == IF code = "none" THEN complaint.happyCode
                     ELSE verifyHappyCode(code, complaint.happyCode)
             sla == complete(complaint.sla, late)
             view == projected(complaint.serviceCenterId, complaint.technicianId, meta)
  <1>1. /\ assertTransition(view, "CLOSED", auth.role, FALSE)
        /\ complaint' = [complaint EXCEPT !.status = "CLOSED", !.happyCode = meta,
                                          !.closedBy = auth.role, !.sla = sla]
    BY DEF closeComplaint
  <1>2. IsVerified(complaint.happyCode) => IsVerified(meta)
    BY VerifyKeepsWord DEF PromiseInv, TypeInv, TypeOK, Complaint
  <1>3. view.status = complaint.status /\ view.happyCodeVerifiedAt = meta.verifiedAt
    BY DEF projected
  <1> HIDE DEF meta, sla, view
  <1>4. complaint.status \in Attended /\ (auth.role = ADMIN \/ IsVerified(meta))
    BY <1>1, <1>3, MovesByStage DEF IsVerified
  <1>5. /\ complaint'.status = "CLOSED"
        /\ complaint'.happyCode = meta
        /\ complaint'.closedBy = auth.role
        /\ complaint'.serviceCenterId = complaint.serviceCenterId
        /\ complaint'.serviceRating = complaint.serviceRating
        /\ complaint'.closureHistory = complaint.closureHistory
    BY <1>1 DEF PromiseInv, TypeInv, TypeOK, Complaint
  <1>6. complaint.serviceRating = None
    BY <1>4 DEF PromiseInv, RatingJudgesStandingClosure, Attended
  <1> QED
    BY <1>2, <1>4, <1>5, <1>6, CloseStep

LEMMA CodeKeeps ==
    ASSUME PromiseInv, TypeInv', NEW auth,
           \/ \E code \in {"right", "wrong"} : verifyComplaintHappyCode(auth, code)
           \/ closeWithWrongCode(auth)
    PROVE  Kept
  <1>1. PICK code :
            /\ complaint' = [complaint EXCEPT !.happyCode =
                                verifyHappyCode(code, complaint.happyCode)]
            /\ \/ complaint.status \in VERIFIABLE
               \/ ~IsVerified(verifyHappyCode(code, complaint.happyCode))
    BY DEF verifyComplaintHappyCode, closeWithWrongCode
  <1>2. /\ complaint'.happyCode = verifyHappyCode(code, complaint.happyCode)
        /\ complaint'.status = complaint.status
        /\ complaint'.serviceCenterId = complaint.serviceCenterId
        /\ complaint'.serviceRating = complaint.serviceRating
        /\ complaint'.closedBy = complaint.closedBy
        /\ complaint'.closureHistory = complaint.closureHistory
    BY <1>1 DEF PromiseInv, TypeInv, TypeOK, Complaint
  <1>3. IsVerified(complaint.happyCode) => IsVerified(complaint'.happyCode)
    BY <1>2, VerifyKeepsWord DEF PromiseInv, TypeInv, TypeOK, Complaint
  <1>4. CASE complaint.status \in VERIFIABLE
    BY <1>2, <1>4, WordStep DEF VERIFIABLE, Attended
  <1>5. CASE ~IsVerified(complaint'.happyCode)
    BY <1>2, <1>3, <1>5, StayMove
  <1> QED
    BY <1>1, <1>2, <1>4, <1>5

(* Work sent back or handed up, and the code reissued.                      *)
LEMMA ReviewKeeps ==
    ASSUME PromiseInv, TypeInv', NEW auth, NEW accepted, NEW reason, NEW pauses,
           \/ reviewResolution(auth, accepted, reason, pauses)
           \/ requireRework(reason, pauses)
           \/ markWaitingForParts(auth, reason, pauses)
    PROVE  Kept
  <1>1. /\ complaint'.status \in {"ADMIN_CONFIRMATION", "REVISIT_REQUIRED", "WAITING_FOR_PARTS"}
        /\ complaint'.serviceCenterId = complaint.serviceCenterId
        /\ complaint'.closureHistory = complaint.closureHistory
    BY DEF reviewResolution, requireRework, markWaitingForParts, PromiseInv, TypeInv, TypeOK,
           Complaint
  <1>2. complaint.status \in Attended
    BY StoredMovesByStage DEF reviewResolution, requireRework, markWaitingForParts
  <1> QED
    BY <1>1, <1>2, WordStep DEF Attended

LEMMA RegenerateKeeps ==
    ASSUME PromiseInv, TypeInv', regenerateComplaintHappyCode
    PROVE  Kept
  <1>1. /\ ~IsVerified(complaint.happyCode)
        /\ complaint'.happyCode = issueHappyCode
        /\ complaint'.status = complaint.status
        /\ complaint'.serviceCenterId = complaint.serviceCenterId
        /\ complaint'.serviceRating = complaint.serviceRating
        /\ complaint'.closedBy = complaint.closedBy
        /\ complaint'.closureHistory = complaint.closureHistory
    BY DEF regenerateComplaintHappyCode, PromiseInv, TypeInv, TypeOK, Complaint
  <1> QED
    BY <1>1, IssuedCode, StayMove

LEMMA RateKeeps ==
    ASSUME PromiseInv, TypeInv', rateService
    PROVE  Kept
  <1>1. /\ complaint.status = "CLOSED" /\ complaint'.status = "CLOSED"
        /\ complaint.serviceCenterId # None
        /\ complaint'.serviceRating = complaint.serviceCenterId
        /\ complaint'.happyCode = complaint.happyCode
        /\ complaint'.closedBy = complaint.closedBy
        /\ complaint'.serviceCenterId = complaint.serviceCenterId
        /\ complaint'.closureHistory = complaint.closureHistory
    BY DEF rateService, PromiseInv, TypeInv, TypeOK, Complaint
  <1>2. Standing' = [Standing EXCEPT !.rating = complaint.serviceCenterId]
    BY <1>1 DEF Standing
  <1>3. Lifecycle!Rate
    BY <1>1, <1>2, Stages DEF Lifecycle!Rate, IsVerified
  <1> QED
    BY <1>3 DEF Kept, Lifecycle!Next

LEMMA ReopenKeeps ==
    ASSUME PromiseInv, TypeInv', NEW reason, reopenComplaint(reason)
    PROVE  Kept
  <1>1. /\ complaint'.status = "REOPENED"
        /\ complaint'.happyCode = issueHappyCode
        /\ complaint'.serviceCenterId = complaint.serviceCenterId
        /\ complaint'.closureHistory = historyAfterReopen(complaint.status = "CLOSED")
    BY DEF reopenComplaint, PromiseInv, TypeInv, TypeOK, Complaint
  <1>2. complaint.status \in {"CLOSED", "CANCELLED"}
    BY StoredMovesByStage DEF reopenComplaint, TerminalStatuses
  <1>3. complaint'.closureHistory = IF stageOf(complaint.status) = "closed"
                                    THEN Append(complaint.closureHistory, Standing)
                                    ELSE complaint.closureHistory
    <2>1. CASE complaint.status = "CLOSED"
      BY <1>1, <2>1, Stages DEF historyAfterReopen, Standing, PromiseInv, ClosureIsSigned
    <2>2. CASE complaint.status = "CANCELLED"
      BY <1>1, <2>2, Stages DEF historyAfterReopen
    <2> QED
      BY <1>2, <2>1, <2>2
  <1>4. Standing' = None /\ stageOf(complaint'.status) = "waiting"
    BY <1>1, Stages DEF Standing, Unattended
  <1>5. stageOf(complaint.status) \in {"closed", "cancelled"}
    BY <1>2, Stages
  <1>6. IsVerified(complaint'.happyCode) = FALSE
    BY <1>1, IssuedCode DEF IsVerified
  <1>7. Lifecycle!Reopen
    BY <1>1, <1>3, <1>4, <1>5, <1>6 DEF Lifecycle!Reopen
  <1> QED
    BY <1>7 DEF Kept, Lifecycle!Next

LEMMA CancelKeeps ==
    ASSUME PromiseInv, TypeInv', NEW reason, cancelComplaint(reason)
    PROVE  Kept
  <1>1. /\ complaint'.status = "CANCELLED"
        /\ complaint'.happyCode = complaint.happyCode
        /\ complaint'.serviceCenterId = complaint.serviceCenterId
        /\ complaint'.closureHistory = complaint.closureHistory
    BY DEF cancelComplaint, PromiseInv, TypeInv, TypeOK, Complaint
  <1>2. complaint.status \in Unattended \cup Attended
    BY StoredMovesByStage DEF cancelComplaint
  <1>3. Standing = None /\ Standing' = None
    BY <1>1, <1>2 DEF Standing, Unattended, Attended
  <1>4. Lifecycle!Cancel
    BY <1>1, <1>2, <1>3, Stages DEF Lifecycle!Cancel, Lifecycle!Open, IsVerified
  <1> QED
    BY <1>4 DEF Kept, Lifecycle!Next

LEMMA BackgroundKeeps ==
    ASSUME PromiseInv, BackgroundSteps
    PROVE  Kept
  <1>1. CASE recordBreach
    <2>1. /\ complaint'.status = complaint.status
          /\ complaint'.happyCode = complaint.happyCode
          /\ complaint'.serviceCenterId = complaint.serviceCenterId
          /\ complaint'.serviceRating = complaint.serviceRating
          /\ complaint'.closedBy = complaint.closedBy
          /\ complaint'.closureHistory = complaint.closureHistory
      BY <1>1 DEF recordBreach, PromiseInv, TypeInv, TypeOK, Complaint
    <2> QED
      BY <2>1, StayMove
  <1>2. CASE complaint' = complaint
    BY <1>2, StayMove
  <1> QED
    BY <1>1, <1>2 DEF BackgroundSteps, sweepBreaches, getComplaint, deactivate, reactivate
-----------------------------------------------------------------------------
LEMMA InitKeeps == Init => Lifecycle!Init
  <1> SUFFICES ASSUME Init PROVE Lifecycle!Init
    OBVIOUS
  <1>1. PICK c \in Centres \cup {None} : complaint = NewComplaint(c)
    BY DEF Init
  <1>2. /\ complaint.status \in {"NEW", "ASSIGNED"}
        /\ complaint.serviceCenterId = c
        /\ complaint.happyCode = issueHappyCode
        /\ complaint.closureHistory = <<>>
    BY <1>1 DEF NewComplaint
  <1>3. stageOf(complaint.status) = "waiting" /\ Standing = None
    BY <1>2, Stages DEF Unattended, Standing
  <1>4. IsVerified(complaint.happyCode) = FALSE
    BY <1>2, IssuedCode DEF IsVerified
  <1> QED
    BY <1>2, <1>3, <1>4 DEF Lifecycle!Init

LEMMA NextKeeps == PromiseInv /\ PromiseInv' /\ [Next]_vars => Kept
  <1> SUFFICES ASSUME PromiseInv, TypeInv', [Next]_vars PROVE Kept
    BY DEF PromiseInv
  <1>1. CASE AdminSteps
    BY <1>1, CallersHaveRoles, AssignServiceCenterKeeps, CancelVisitKeeps, ReviewKeeps,
       CodeKeeps, RegenerateKeeps, CloseKeeps, RateKeeps, ReopenKeeps, CancelKeeps
       DEF AdminSteps
  <1>2. ASSUME NEW r \in RequestIds, NEW auth,
               \/ createPartRequest(auth, r)
               \/ \E decision \in {"APPROVED", "ISSUED", "UNAVAILABLE", "REJECTED", "CANCELLED"} :
                     decidePartRequest(auth, r, decision)
        PROVE  Kept
    <2>1. complaint' = complaint
      BY <1>2 DEF createPartRequest, decidePartRequest
    <2> QED
      BY <2>1, StayMove
  <1>3. CASE OwnerSteps
    BY <1>2, <1>3, CallersHaveRoles, AssignTechnicianKeeps, ScheduleVisitKeeps, CancelVisitKeeps,
       ReviewKeeps, CodeKeeps, CloseKeeps DEF OwnerSteps
  <1>4. ASSUME NEW auth \in Techs PROVE auth.role = TECHNICIAN
    BY <1>4 DEF Techs, Tech
  <1>5. TECHNICIAN # ADMIN /\ TECHNICIAN \in Roles
    BY DEF TECHNICIAN, ADMIN, Roles
  <1>6. CASE TechnicianSteps
    BY <1>2, <1>4, <1>5, <1>6, StartVisitKeeps, SubmitResolutionKeeps, ReviewKeeps
       DEF TechnicianSteps
  <1>7. CASE BackgroundSteps
    BY <1>7, BackgroundKeeps
  <1>8. CASE UNCHANGED vars
    BY <1>8, StayMove DEF vars
  <1> QED
    BY <1>1, <1>3, <1>6, <1>7, <1>8, ResumeKeeps DEF Next, OtherSteps

(* The workflow is an implementation of the lifecycle: no request of any    *)
(* account, in any order, makes a complaint do what the desk does not       *)
(* promise.                                                                 *)
THEOREM LifecycleKept == Spec => KeepsLifecycle
  <1>1. PromiseInv /\ PromiseInv' /\ [Next]_vars => [Lifecycle!Next]_(Lifecycle!vars)
    BY NextKeeps DEF Kept
  <1> QED
    BY InitKeeps, PromisesHold, <1>1, PTL DEF Spec, KeepsLifecycle, Lifecycle!Spec

-----------------------------------------------------------------------------
(* The job itself. A complaint on its way has the people it needs, and a    *)
(* new one has nobody.                                                      *)
OnTheJob == {"TECHNICIAN_ASSIGNED", "VISIT_SCHEDULED", "IN_PROGRESS", "WAITING_FOR_PARTS",
             "REVISIT_REQUIRED", "RESOLUTION_SUBMITTED", "ADMIN_CONFIRMATION", "CLOSED"}

JobHasItsPeople ==
    /\ complaint.status \in OnTheJob => complaint.technicianId # None
    /\ complaint.status = "ASSIGNED" => complaint.serviceCenterId # None
    /\ complaint.status = "NEW" => complaint.serviceCenterId = None

(* Who closed is on the complaint exactly while it is closed, only one that *)
(* had a centre was ever closed, and a reopening is counted.                *)
RecordAddsUp ==
    /\ complaint.closedBy # None <=> complaint.status = "CLOSED"
    /\ complaint.serviceCenterId = None => complaint.closureHistory = <<>>
    /\ complaint.status = "REOPENED" => complaint.reopenCount > 0

(* The clock has ended exactly while the complaint is closed, and until     *)
(* then it is BREACHED exactly when a breach is on record.                  *)
ClockOfJob ==
    /\ complaint.sla.state = "COMPLETED" <=> complaint.status = "CLOSED"
    /\ complaint.sla.state # "COMPLETED"
          => (complaint.sla.state = "BREACHED" <=> complaint.sla.breachedAt # None)

JobInOrder == JobHasItsPeople /\ RecordAddsUp /\ ClockOfJob

JobInv == PromiseInv /\ JobInOrder

-----------------------------------------------------------------------------
(* Where each move of the table starts.                                     *)
Into(to) ==
    CASE to = "ASSIGNED" -> {"NEW", "REOPENED"} \cup CENTRE_REASSIGNABLE_FROM
      [] to = "TECHNICIAN_ASSIGNED" -> {"ASSIGNED", "VISIT_SCHEDULED", "REOPENED"}
      [] to = "VISIT_SCHEDULED" -> {"TECHNICIAN_ASSIGNED", "WAITING_FOR_PARTS", "IN_PROGRESS",
                                    "REVISIT_REQUIRED"}
      [] to = "IN_PROGRESS" -> {"VISIT_SCHEDULED", "WAITING_FOR_PARTS"}
      [] to = "CLOSED" -> {"IN_PROGRESS", "RESOLUTION_SUBMITTED", "ADMIN_CONFIRMATION"}
      [] to = "REVISIT_REQUIRED" -> {"RESOLUTION_SUBMITTED", "ADMIN_CONFIRMATION"}
      [] to = "ADMIN_CONFIRMATION" -> {"RESOLUTION_SUBMITTED"}
      [] to = "REOPENED" -> TerminalStatuses
      [] to = "CANCELLED" -> Statuses \ TerminalStatuses
      [] OTHER -> {"IN_PROGRESS"}

LEMMA MovesStart == \A rule \in TRANSITIONS : rule.from \in Into(rule.to)
  <1>1. \A rule \in cancellationRules \cup centreReassignmentRules : rule.from \in Into(rule.to)
    BY DEF cancellationRules, centreReassignmentRules, Rule, CANCELLABLE_FROM, Into
  <1> QED
    BY <1>1 DEF TRANSITIONS, Rule, Into, TerminalStatuses

LEMMA MoveFrom ==
    ASSUME NEW view, NEW to, NEW role, NEW reason, assertTransition(view, to, role, reason)
    PROVE  view.status \in Into(to)
  BY MovesStart DEF assertTransition, availableTransitions, transitionsFrom

LEMMA StoredMoveFrom ==
    ASSUME NEW to, NEW auth, NEW reason, transition(to, auth, reason)
    PROVE  complaint.status \in Into(to)
  BY MoveFrom DEF transition, stateViewOf, projected

(* What each step of the clock does to its state and stamps.                *)
LEMMA ClockSteps ==
    ASSUME NEW sla \in SlaTracking
    PROVE  /\ resume(sla).state = IF sla.state = "PAUSED" THEN "RUNNING" ELSE sla.state
           /\ resume(sla).breachedAt = sla.breachedAt
           /\ resume(sla).respondedAt = sla.respondedAt
           /\ pause(sla).state = IF sla.state = "RUNNING" THEN "PAUSED" ELSE sla.state
           /\ pause(sla).breachedAt = sla.breachedAt
           /\ pause(sla).respondedAt = sla.respondedAt
           /\ markResponded(sla).state = sla.state
           /\ markResponded(sla).breachedAt = sla.breachedAt
           /\ markResponded(sla).respondedAt = "set"
           /\ \/ applyBreach(sla).state = sla.state
                 /\ applyBreach(sla).breachedAt = sla.breachedAt
              \/ sla.state = "RUNNING" /\ applyBreach(sla).state = "BREACHED"
                 /\ applyBreach(sla).breachedAt = "set"
           /\ applyBreach(sla).respondedAt = sla.respondedAt
  <1>1. /\ resume(sla) \in SlaTracking
        /\ resume(sla).state = IF sla.state = "PAUSED" THEN "RUNNING" ELSE sla.state
        /\ resume(sla).breachedAt = sla.breachedAt
        /\ resume(sla).respondedAt = sla.respondedAt
    BY DEF resume, SlaTracking
  <1>2. ASSUME NEW r \in SlaTracking
        PROVE  /\ applyBreach(r) \in SlaTracking
               /\ \/ applyBreach(r).state = r.state
                     /\ applyBreach(r).breachedAt = r.breachedAt
                  \/ r.state = "RUNNING" /\ applyBreach(r).state = "BREACHED"
                     /\ applyBreach(r).breachedAt = "set"
               /\ applyBreach(r).respondedAt = r.respondedAt
    BY DEF applyBreach, Breachable, SlaTracking, Stamp
  <1> QED
    BY <1>1, <1>2 DEF pause, markResponded, SlaTracking

LEMMA ClockEnds ==
    ASSUME NEW sla \in SlaTracking, NEW late \in BOOLEAN
    PROVE  complete(sla, late).state = "COMPLETED" /\ complete(sla, late).respondedAt = sla.respondedAt
  <1> DEFINE settled == IF late THEN applyBreach(resume(sla)) ELSE resume(sla)
  <1>1. resume(sla) \in SlaTracking /\ resume(sla).respondedAt = sla.respondedAt
    BY DEF resume, SlaTracking
  <1>2. settled \in SlaTracking /\ settled.respondedAt = sla.respondedAt
    <2>1. ASSUME NEW r \in SlaTracking
          PROVE  applyBreach(r) \in SlaTracking /\ applyBreach(r).respondedAt = r.respondedAt
      BY DEF applyBreach, Breachable, SlaTracking, Stamp
    <2> QED
      BY <1>1, <2>1
  <1>3. complete(sla, late) = [settled EXCEPT !.state = "COMPLETED"]
    BY DEF complete
  <1> HIDE DEF settled
  <1> QED
    BY <1>2, <1>3 DEF SlaTracking

-----------------------------------------------------------------------------
(* A step that keeps a complaint, not closed, on its way with somebody.     *)
LEMMA PeopleKept ==
    ASSUME JobInv, complaint.status # "CLOSED", complaint'.status \in OnTheJob \ {"CLOSED"},
           complaint'.technicianId # None,
           complaint'.serviceCenterId = complaint.serviceCenterId,
           complaint'.closedBy = complaint.closedBy,
           complaint'.closureHistory = complaint.closureHistory
    PROVE  JobHasItsPeople' /\ RecordAddsUp'
  BY DEF JobInv, JobInOrder, JobHasItsPeople, RecordAddsUp, OnTheJob

(* A clock left alone, started or stopped.                                  *)
LEMMA ClockKept ==
    ASSUME JobInv, complaint.status = "CLOSED" <=> complaint'.status = "CLOSED",
           complaint'.sla \in {complaint.sla, resume(complaint.sla), pause(complaint.sla),
                               markResponded(complaint.sla), applyBreach(complaint.sla)}
    PROVE  ClockOfJob'
  <1> DEFINE sla == complaint.sla
             after == complaint'.sla
  <1>1. sla \in SlaTracking
    BY DEF JobInv, PromiseInv, TypeInv, TypeOK, Complaint
  <1>2. \/ /\ after.breachedAt = sla.breachedAt
           /\ \/ after.state = IF sla.state = "PAUSED" THEN "RUNNING" ELSE sla.state
              \/ after.state = IF sla.state = "RUNNING" THEN "PAUSED" ELSE sla.state
              \/ after.state = sla.state
        \/ sla.state = "RUNNING" /\ after.state = "BREACHED" /\ after.breachedAt = "set"
    <2>1. /\ resume(sla).breachedAt = sla.breachedAt
          /\ resume(sla).state = IF sla.state = "PAUSED" THEN "RUNNING" ELSE sla.state
          /\ pause(sla).breachedAt = sla.breachedAt
          /\ pause(sla).state = IF sla.state = "RUNNING" THEN "PAUSED" ELSE sla.state
          /\ markResponded(sla).breachedAt = sla.breachedAt
          /\ markResponded(sla).state = sla.state
          /\ \/ applyBreach(sla).state = sla.state
                /\ applyBreach(sla).breachedAt = sla.breachedAt
             \/ sla.state = "RUNNING" /\ applyBreach(sla).state = "BREACHED"
                /\ applyBreach(sla).breachedAt = "set"
      BY <1>1, ClockSteps
    <2>2. after \in {sla, resume(sla), pause(sla), markResponded(sla), applyBreach(sla)}
      OBVIOUS
    <2> HIDE DEF sla, after
    <2>3. CASE after = resume(sla)
      BY <2>1, <2>3
    <2>4. CASE after = pause(sla)
      BY <2>1, <2>4
    <2>5. CASE after \in {sla, markResponded(sla)}
      BY <2>1, <2>5
    <2>6. CASE after = applyBreach(sla)
      BY <2>1, <2>6
    <2> QED
      BY <2>2, <2>3, <2>4, <2>5, <2>6
  <1>3. sla.state \in {"RUNNING", "PAUSED", "BREACHED", "COMPLETED"}
    BY <1>1 DEF SlaTracking
  <1>4. /\ sla.state = "COMPLETED" <=> complaint.status = "CLOSED"
        /\ sla.state # "COMPLETED" => (sla.state = "BREACHED" <=> sla.breachedAt # None)
    BY DEF JobInv, JobInOrder, ClockOfJob
  <1>5. /\ after.state = "COMPLETED" <=> complaint'.status = "CLOSED"
        /\ after.state # "COMPLETED" => (after.state = "BREACHED" <=> after.breachedAt # None)
    <2> HIDE DEF sla, after
    <2> QED
      BY <1>2, <1>3, <1>4, NoneAssumption
  <1> QED
    BY <1>5 DEF ClockOfJob

-----------------------------------------------------------------------------
LEMMA AssignServiceCenterJob ==
    ASSUME JobInv, NEW centre \in Centres, NEW reason \in BOOLEAN,
           assignServiceCenter(centre, reason)
    PROVE  JobInOrder'
  <1> DEFINE technician == technicianAfterMove(complaint.serviceCenterId # None)
  <1>1. complaint.status \in Into("ASSIGNED") \cup {"ASSIGNED"}
    BY MoveFrom DEF assignServiceCenter, projected
  <1>2. /\ complaint'.status = "ASSIGNED"
        /\ complaint'.serviceCenterId = centre
        /\ complaint'.closedBy = complaint.closedBy
        /\ \/ complaint.status = "ASSIGNED" /\ complaint'.sla = complaint.sla
           \/ complaint'.sla = resume(complaint.sla)
    <2> HIDE DEF technician
    <2> QED
      BY DEF assignServiceCenter, JobInv, PromiseInv, TypeInv, TypeOK, Complaint, technician
  <1>3. complaint.status # "CLOSED"
    BY <1>1 DEF Into, CENTRE_REASSIGNABLE_FROM
  <1>4. ClockOfJob'
    BY <1>2, <1>3, ClockKept
  <1> QED
    BY <1>2, <1>3, <1>4, NoneAssumption
       DEF JobInv, JobInOrder, JobHasItsPeople, RecordAddsUp, OnTheJob

LEMMA AssignTechnicianJob ==
    ASSUME JobInv, NEW auth, NEW technician \in Technicians,
           assignTechnician(auth, technician)
    PROVE  JobInOrder'
  <1>1. /\ complaint.status \in TECHNICIAN_ASSIGNABLE
        /\ complaint'.status = IF complaint.status \in {"ASSIGNED", "REOPENED"}
                               THEN "TECHNICIAN_ASSIGNED" ELSE complaint.status
        /\ complaint'.technicianId = technician
        /\ complaint'.serviceCenterId = complaint.serviceCenterId
        /\ complaint'.closedBy = complaint.closedBy
        /\ complaint'.closureHistory = complaint.closureHistory
        /\ complaint'.sla = complaint.sla
    BY DEF assignTechnician, JobInv, PromiseInv, TypeInv, TypeOK, Complaint
  <1>2. /\ complaint.status # "CLOSED" /\ complaint'.status \in OnTheJob \ {"CLOSED"}
        /\ technician # None
    BY <1>1, NoneAssumption DEF TECHNICIAN_ASSIGNABLE, OnTheJob
  <1>3. JobHasItsPeople' /\ RecordAddsUp'
    BY <1>1, <1>2, PeopleKept
  <1>4. ClockOfJob'
    BY <1>1, <1>2, ClockKept
  <1> QED
    BY <1>3, <1>4 DEF JobInOrder

LEMMA ScheduleVisitJob ==
    ASSUME JobInv, NEW auth, NEW named \in Technicians \cup {None}, NEW reason \in BOOLEAN,
           scheduleVisit(auth, named, reason)
    PROVE  JobInOrder'
  <1> DEFINE technician == IF named = None THEN complaint.technicianId ELSE named
  <1>1. complaint.status \in Into("VISIT_SCHEDULED")
    BY MoveFrom DEF scheduleVisit, projected
  <1>2. technician # None
    BY DEF scheduleVisit
  <1> HIDE DEF technician
  <1>3. /\ complaint'.status = "VISIT_SCHEDULED"
        /\ complaint'.technicianId = technician
        /\ complaint'.serviceCenterId = complaint.serviceCenterId
        /\ complaint'.closedBy = complaint.closedBy
        /\ complaint'.closureHistory = complaint.closureHistory
        /\ complaint'.sla = resume(complaint.sla)
    BY DEF scheduleVisit, technician, JobInv, PromiseInv, TypeInv, TypeOK, Complaint
  <1>4. complaint.status # "CLOSED" /\ complaint'.status \in OnTheJob \ {"CLOSED"}
    BY <1>1, <1>3 DEF Into, OnTheJob
  <1>5. JobHasItsPeople' /\ RecordAddsUp'
    BY <1>2, <1>3, <1>4, PeopleKept
  <1>6. ClockOfJob'
    BY <1>3, <1>4, ClockKept
  <1> QED
    BY <1>5, <1>6 DEF JobInOrder

(* The steps that change the status alone, and the clock with it.           *)
LEMMA MovedOn ==
    ASSUME JobInv, complaint.status \in OnTheJob \ {"CLOSED"},
           complaint'.status \in OnTheJob \ {"CLOSED"},
           complaint'.technicianId = complaint.technicianId,
           complaint'.serviceCenterId = complaint.serviceCenterId,
           complaint'.closedBy = complaint.closedBy,
           complaint'.closureHistory = complaint.closureHistory,
           complaint'.sla \in {complaint.sla, resume(complaint.sla), pause(complaint.sla),
                               markResponded(complaint.sla), applyBreach(complaint.sla)}
    PROVE  JobInOrder'
  <1>1. complaint'.technicianId # None
    BY DEF JobInv, JobInOrder, JobHasItsPeople
  <1>2. JobHasItsPeople' /\ RecordAddsUp'
    BY <1>1, PeopleKept
  <1>3. ClockOfJob'
    BY ClockKept
  <1> QED
    BY <1>2, <1>3 DEF JobInOrder

LEMMA CancelVisitJob ==
    ASSUME JobInv, NEW auth, NEW v \in VisitIds, cancelScheduledVisit(auth, v)
    PROVE  JobInOrder'
  <1>1. /\ \/ complaint'.status = complaint.status
           \/ complaint.status = "VISIT_SCHEDULED" /\ complaint'.status = "TECHNICIAN_ASSIGNED"
        /\ complaint'.technicianId = complaint.technicianId
        /\ complaint'.serviceCenterId = complaint.serviceCenterId
        /\ complaint'.closedBy = complaint.closedBy
        /\ complaint'.reopenCount = complaint.reopenCount
        /\ complaint'.closureHistory = complaint.closureHistory
        /\ complaint'.sla = complaint.sla
    BY DEF cancelScheduledVisit, statusAfterCancel, JobInv, PromiseInv, TypeInv, TypeOK, Complaint
  <1>2. CASE complaint'.status = complaint.status
    BY <1>1, <1>2 DEF JobInv, JobInOrder, JobHasItsPeople, RecordAddsUp, ClockOfJob
  <1>3. CASE complaint.status = "VISIT_SCHEDULED" /\ complaint'.status = "TECHNICIAN_ASSIGNED"
    BY <1>1, <1>3, MovedOn DEF OnTheJob
  <1> QED
    BY <1>1, <1>2, <1>3

LEMMA StartVisitJob ==
    ASSUME JobInv, NEW auth, NEW endsHere \in BOOLEAN, startVisit(auth, endsHere)
    PROVE  JobInOrder'
  <1>1. complaint.status \in Into("IN_PROGRESS")
    BY StoredMoveFrom DEF startVisit
  <1>2. /\ complaint'.status = "IN_PROGRESS"
        /\ complaint'.technicianId = complaint.technicianId
        /\ complaint'.serviceCenterId = complaint.serviceCenterId
        /\ complaint'.closedBy = complaint.closedBy
        /\ complaint'.closureHistory = complaint.closureHistory
        /\ complaint'.sla = markResponded(complaint.sla)
    BY DEF startVisit, JobInv, PromiseInv, TypeInv, TypeOK, Complaint
  <1> QED
    BY <1>1, <1>2, MovedOn DEF Into, OnTheJob

(* Both ways of closing sign the closure and end the clock.                 *)
LEMMA ClosingJob ==
    ASSUME JobInv, complaint.status \in OnTheJob \ {"CLOSED"}, complaint'.status = "CLOSED",
           complaint'.technicianId = complaint.technicianId,
           complaint'.serviceCenterId = complaint.serviceCenterId,
           complaint'.closedBy \in Roles,
           complaint'.closureHistory = complaint.closureHistory,
           NEW late \in BOOLEAN, complaint'.sla = complete(complaint.sla, late)
    PROVE  JobInOrder'
  <1>1. complaint'.sla.state = "COMPLETED"
    BY ClockEnds DEF JobInv, PromiseInv, TypeInv, TypeOK, Complaint
  <1> QED
    BY <1>1, NoneAssumption
       DEF JobInv, JobInOrder, ClockOfJob, JobHasItsPeople, RecordAddsUp, OnTheJob

LEMMA SubmitResolutionJob ==
    ASSUME JobInv, NEW auth, auth.role \in Roles, NEW code \in {"none", "right", "wrong"},
           NEW late \in BOOLEAN, submitResolution(auth, code, late)
    PROVE  JobInOrder'
  <1> DEFINE meta == IF code = "none" THEN complaint.happyCode
                     ELSE verifyHappyCode(code, complaint.happyCode)
             closed == code # "none" /\ IsVerified(meta)
             to == IF closed THEN "CLOSED" ELSE "RESOLUTION_SUBMITTED"
             closedBy == IF closed THEN auth.role ELSE complaint.closedBy
             sla == IF closed THEN complete(complaint.sla, late) ELSE complaint.sla
  <1>1. PICK v \in VisitIds :
            /\ IsLatest(v, {"IN_PROGRESS"})
            /\ assertTransition(
                   projected(complaint.serviceCenterId, complaint.technicianId, meta),
                   to, auth.role, FALSE)
            /\ visits' = [visits EXCEPT ![v].status = "COMPLETED", ![v].resolution = "set"]
            /\ complaint' = [complaint EXCEPT
                                !.status = to,
                                !.happyCode = meta,
                                !.closedBy = closedBy,
                                !.sla = sla,
                                !.lastResolutionVisitId = v,
                                !.resolutionReview = None]
            /\ requests' = requests
    BY DEF submitResolution
  <1>2. \/ to = "CLOSED" /\ closedBy = auth.role /\ sla = complete(complaint.sla, late)
        \/ to = "RESOLUTION_SUBMITTED" /\ closedBy = complaint.closedBy /\ sla = complaint.sla
    <2> HIDE DEF closed
    <2> QED
      OBVIOUS
  <1> HIDE DEF meta, closed, to, closedBy, sla
  <1>4. complaint.status \in Into(to)
    <2> DEFINE view == projected(complaint.serviceCenterId, complaint.technicianId, meta)
    <2>1. view.status = complaint.status
      BY DEF projected
    <2> HIDE DEF view
    <2>2. assertTransition(view, to, auth.role, FALSE)
      BY <1>1 DEF view
    <2> QED
      BY <2>1, <2>2, MoveFrom
  <1>5. /\ complaint'.status = to
        /\ complaint'.closedBy = closedBy
        /\ complaint'.sla = sla
        /\ complaint'.serviceCenterId = complaint.serviceCenterId
        /\ complaint'.technicianId = complaint.technicianId
        /\ complaint'.closureHistory = complaint.closureHistory
    BY <1>1 DEF JobInv, PromiseInv, TypeInv, TypeOK, Complaint
  <1>6. CASE to = "RESOLUTION_SUBMITTED" /\ closedBy = complaint.closedBy /\ sla = complaint.sla
    BY <1>4, <1>5, <1>6, MovedOn DEF OnTheJob, Into
  <1>7. CASE to = "CLOSED" /\ closedBy = auth.role /\ sla = complete(complaint.sla, late)
    BY <1>4, <1>5, <1>7, ClosingJob DEF OnTheJob, Into
  <1> QED
    BY <1>2, <1>6, <1>7

LEMMA ReviewJob ==
    ASSUME JobInv, NEW auth, NEW accepted \in BOOLEAN, NEW reason \in BOOLEAN,
           NEW pauses \in BOOLEAN, reviewResolution(auth, accepted, reason, pauses)
    PROVE  JobInOrder'
  <1> DEFINE to == IF accepted THEN "ADMIN_CONFIRMATION" ELSE "REVISIT_REQUIRED"
             sla == IF pauses THEN pause(complaint.sla) ELSE complaint.sla
  <1>1. complaint.status \in Into(to)
    BY StoredMoveFrom DEF reviewResolution
  <1>2. /\ complaint'.status = to
        /\ complaint'.sla = sla
        /\ complaint'.serviceCenterId = complaint.serviceCenterId
        /\ complaint'.technicianId = complaint.technicianId
        /\ complaint'.closedBy = complaint.closedBy
        /\ complaint'.closureHistory = complaint.closureHistory
    <2> HIDE DEF to, sla
    <2> QED
      BY DEF to, sla, reviewResolution, JobInv, PromiseInv, TypeInv, TypeOK, Complaint
  <1> QED
    BY <1>1, <1>2, MovedOn DEF Into, OnTheJob

LEMMA RequireReworkJob ==
    ASSUME JobInv, NEW reason \in BOOLEAN, NEW pauses \in BOOLEAN,
           requireRework(reason, pauses)
    PROVE  JobInOrder'
  <1>1. complaint.status \in {"RESOLUTION_SUBMITTED", "ADMIN_CONFIRMATION"}
    BY StoredMoveFrom DEF requireRework, Into
  <1>2. /\ complaint'.status = "REVISIT_REQUIRED"
        /\ complaint'.sla \in {complaint.sla, pause(complaint.sla)}
        /\ complaint'.serviceCenterId = complaint.serviceCenterId
        /\ complaint'.technicianId = complaint.technicianId
        /\ complaint'.closedBy = complaint.closedBy
        /\ complaint'.closureHistory = complaint.closureHistory
    BY DEF requireRework, JobInv, PromiseInv, TypeInv, TypeOK, Complaint
  <1> QED
    BY <1>1, <1>2, MovedOn DEF OnTheJob

LEMMA WaitingJob ==
    ASSUME JobInv, NEW auth, NEW reason \in BOOLEAN, NEW pauses \in BOOLEAN,
           markWaitingForParts(auth, reason, pauses)
    PROVE  JobInOrder'
  <1>1. complaint.status = "IN_PROGRESS"
    BY StoredMoveFrom DEF markWaitingForParts, Into
  <1>2. /\ complaint'.status = "WAITING_FOR_PARTS"
        /\ complaint'.sla \in {complaint.sla, pause(complaint.sla)}
        /\ complaint'.serviceCenterId = complaint.serviceCenterId
        /\ complaint'.technicianId = complaint.technicianId
        /\ complaint'.closedBy = complaint.closedBy
        /\ complaint'.closureHistory = complaint.closureHistory
    BY DEF markWaitingForParts, JobInv, PromiseInv, TypeInv, TypeOK, Complaint
  <1> QED
    BY <1>1, <1>2, MovedOn DEF OnTheJob

LEMMA ResumeJob ==
    ASSUME JobInv, NEW auth, resumeWork(auth)
    PROVE  JobInOrder'
  <1>1. complaint.status \in Into("IN_PROGRESS")
    BY StoredMoveFrom DEF resumeWork
  <1>2. /\ complaint'.status = "IN_PROGRESS"
        /\ complaint'.sla = resume(complaint.sla)
        /\ complaint'.serviceCenterId = complaint.serviceCenterId
        /\ complaint'.technicianId = complaint.technicianId
        /\ complaint'.closedBy = complaint.closedBy
        /\ complaint'.closureHistory = complaint.closureHistory
    BY DEF resumeWork, JobInv, PromiseInv, TypeInv, TypeOK, Complaint
  <1> QED
    BY <1>1, <1>2, MovedOn DEF Into, OnTheJob

LEMMA CloseJob ==
    ASSUME JobInv, NEW auth, auth.role \in Roles, NEW code \in {"none", "right"},
           NEW late \in BOOLEAN, closeComplaint(auth, code, late)
    PROVE  JobInOrder'
  <1> DEFINE meta == IF code = "none" THEN complaint.happyCode
                     ELSE verifyHappyCode(code, complaint.happyCode)
             sla == complete(complaint.sla, late)
             view == projected(complaint.serviceCenterId, complaint.technicianId, meta)
  <1>1. /\ assertTransition(view, "CLOSED", auth.role, FALSE)
        /\ complaint' = [complaint EXCEPT !.status = "CLOSED", !.happyCode = meta,
                                          !.closedBy = auth.role, !.sla = sla]
    BY DEF closeComplaint
  <1>2. view.status = complaint.status
    BY DEF projected
  <1> HIDE DEF meta, sla, view
  <1>3. complaint.status \in Into("CLOSED")
    <2>1. assertTransition(view, "CLOSED", auth.role, FALSE)
      BY <1>1
    <2> QED
      BY <2>1, <1>2, MoveFrom
  <1>4. /\ complaint'.status = "CLOSED"
        /\ complaint'.closedBy = auth.role
        /\ complaint'.sla = sla
        /\ complaint'.serviceCenterId = complaint.serviceCenterId
        /\ complaint'.technicianId = complaint.technicianId
        /\ complaint'.closureHistory = complaint.closureHistory
    BY <1>1 DEF JobInv, PromiseInv, TypeInv, TypeOK, Complaint
  <1> QED
    BY <1>3, <1>4, ClosingJob DEF sla, OnTheJob, Into

LEMMA ReopenJob ==
    ASSUME JobInv, NEW reason \in BOOLEAN, reopenComplaint(reason)
    PROVE  JobInOrder'
  <1>1. /\ complaint'.status = "REOPENED"
        /\ complaint'.sla = startTracking
        /\ complaint'.serviceCenterId = complaint.serviceCenterId
        /\ complaint'.closedBy = None
        /\ complaint'.closureHistory = historyAfterReopen(complaint.status = "CLOSED")
        /\ complaint'.reopenCount = complaint.reopenCount + 1
    BY DEF reopenComplaint, JobInv, PromiseInv, TypeInv, TypeOK, Complaint
  <1>2. ClockOfJob' /\ JobHasItsPeople'
    BY <1>1 DEF ClockOfJob, JobHasItsPeople, OnTheJob, startTracking
  <1>3. complaint.serviceCenterId = None => complaint.status # "CLOSED"
    BY CentreOfAssumption, NoneAssumption
       DEF JobInv, JobInOrder, JobHasItsPeople, OnTheJob, PromiseInv, TechnicianWorksForHolder,
           TypeInv, TypeOK, Complaint
  <1>4. complaint'.reopenCount > 0
    BY <1>1, BoundsAssumption DEF JobInv, PromiseInv, TypeInv, TypeOK, Complaint
  <1>5. RecordAddsUp'
    BY <1>1, <1>3, <1>4 DEF JobInv, JobInOrder, RecordAddsUp, historyAfterReopen
  <1> QED
    BY <1>2, <1>5 DEF JobInOrder

LEMMA CancelJob ==
    ASSUME JobInv, NEW reason \in BOOLEAN, cancelComplaint(reason)
    PROVE  JobInOrder'
  <1>1. complaint.status \notin TerminalStatuses
    BY StoredMoveFrom DEF cancelComplaint, Into
  <1>2. /\ complaint'.status = "CANCELLED"
        /\ complaint'.sla = complaint.sla
        /\ complaint'.serviceCenterId = complaint.serviceCenterId
        /\ complaint'.closedBy = complaint.closedBy
        /\ complaint'.closureHistory = complaint.closureHistory
    BY DEF cancelComplaint, JobInv, PromiseInv, TypeInv, TypeOK, Complaint
  <1> QED
    BY <1>1, <1>2
       DEF JobInv, JobInOrder, ClockOfJob, JobHasItsPeople, RecordAddsUp, OnTheJob,
           TerminalStatuses

(* Codes, ratings, part requests, breaches and accounts leave the job alone *)
(* and every visit as it is.                                                *)
Aside ==
    \/ \E auth, code : verifyComplaintHappyCode(auth, code)
    \/ \E auth : closeWithWrongCode(auth)
    \/ regenerateComplaintHappyCode
    \/ rateService
    \/ \E auth, r : createPartRequest(auth, r)
    \/ \E auth, r, decision : decidePartRequest(auth, r, decision)
    \/ BackgroundSteps
    \/ UNCHANGED vars

LEMMA AsideKeeps ==
    ASSUME TypeInv, Aside
    PROVE  /\ visits' = visits
           /\ complaint'.status = complaint.status
           /\ complaint'.serviceCenterId = complaint.serviceCenterId
           /\ complaint'.technicianId = complaint.technicianId
           /\ complaint'.resolutionReview = complaint.resolutionReview
           /\ complaint'.lastResolutionVisitId = complaint.lastResolutionVisitId
           /\ complaint'.closedBy = complaint.closedBy
           /\ complaint'.reopenCount = complaint.reopenCount
           /\ complaint'.closureHistory = complaint.closureHistory
           /\ complaint'.sla \in {complaint.sla, applyBreach(complaint.sla)}
  <1>1. /\ visits' = visits
        /\ \/ complaint' = complaint
           \/ \E code : complaint' = [complaint EXCEPT !.happyCode = code]
           \/ complaint' = [complaint EXCEPT !.serviceRating = complaint.serviceCenterId]
           \/ complaint' = [complaint EXCEPT !.sla = applyBreach(complaint.sla)]
    <2>1. BackgroundSteps => /\ visits' = visits
                             /\ \/ complaint' = complaint
                                \/ complaint' = [complaint EXCEPT !.sla = applyBreach(complaint.sla)]
      BY DEF BackgroundSteps, sweepBreaches, getComplaint, recordBreach, deactivate, reactivate
    <2> QED
      BY <2>1 DEF Aside, verifyComplaintHappyCode, closeWithWrongCode,
                  regenerateComplaintHappyCode, rateService, createPartRequest,
                  decidePartRequest, vars
  <1> QED
    BY <1>1 DEF TypeInv, TypeOK, Complaint

LEMMA AsideJob ==
    ASSUME JobInv, Aside
    PROVE  JobInOrder'
  <1>1. /\ complaint'.status = complaint.status
        /\ complaint'.serviceCenterId = complaint.serviceCenterId
        /\ complaint'.technicianId = complaint.technicianId
        /\ complaint'.closedBy = complaint.closedBy
        /\ complaint'.reopenCount = complaint.reopenCount
        /\ complaint'.closureHistory = complaint.closureHistory
        /\ complaint'.sla \in {complaint.sla, applyBreach(complaint.sla)}
    BY AsideKeeps DEF JobInv, PromiseInv
  <1>2. ClockOfJob'
    BY <1>1, ClockKept
  <1> QED
    BY <1>1, <1>2 DEF JobInv, JobInOrder, JobHasItsPeople, RecordAddsUp

-----------------------------------------------------------------------------
LEMMA InitJob == Init => JobInv
  <1> SUFFICES ASSUME Init PROVE JobInv
    OBVIOUS
  <1>1. PICK c \in Centres \cup {None} : complaint = NewComplaint(c)
    BY DEF Init
  <1>2. /\ complaint.status = IF c = None THEN "NEW" ELSE "ASSIGNED"
        /\ complaint.serviceCenterId = c
        /\ complaint.sla = startTracking
        /\ complaint.closedBy = None
        /\ complaint.closureHistory = <<>>
    BY <1>1 DEF NewComplaint
  <1> QED
    BY <1>2, InitPromises
       DEF JobInv, JobInOrder, JobHasItsPeople, RecordAddsUp, ClockOfJob, OnTheJob,
           startTracking

(* Every handler keeps the job in order.                                    *)
LEMMA NextJob == JobInv /\ [Next]_vars => JobInv'
  <1> SUFFICES ASSUME JobInv, [Next]_vars PROVE JobInOrder'
    BY NextPromises DEF JobInv, Promised
  <1>1. CASE AdminSteps
    BY <1>1, CallersHaveRoles, AssignServiceCenterJob, CancelVisitJob, RequireReworkJob,
       AsideJob, CloseJob, ReopenJob, CancelJob DEF AdminSteps, Aside
  <1>2. CASE OwnerSteps
    <2>1. PICK auth \in Owners :
            \/ \E t \in Technicians : assignTechnician(auth, t)
            \/ \E t \in Technicians \cup {None}, reason \in BOOLEAN : scheduleVisit(auth, t, reason)
            \/ \E v \in VisitIds : cancelScheduledVisit(auth, v)
            \/ \E accepted, reason, pauses \in BOOLEAN :
                  reviewResolution(auth, accepted, reason, pauses)
            \/ \E code \in {"none", "right"}, late \in BOOLEAN : closeComplaint(auth, code, late)
            \/ \E reason, pauses \in BOOLEAN : markWaitingForParts(auth, reason, pauses)
            \/ Aside
      BY <1>2 DEF OwnerSteps, Aside
    <2> QED
      BY <2>1, CallersHaveRoles, AssignTechnicianJob, ScheduleVisitJob, CancelVisitJob,
         ReviewJob, AsideJob, CloseJob, WaitingJob
  <1>3. CASE TechnicianSteps
    <2>1. PICK auth \in Techs :
            \/ \E endsHere \in BOOLEAN : startVisit(auth, endsHere)
            \/ \E code \in {"none", "right", "wrong"}, late \in BOOLEAN :
                  submitResolution(auth, code, late)
            \/ \E reason, pauses \in BOOLEAN : markWaitingForParts(auth, reason, pauses)
            \/ Aside
      BY <1>3 DEF TechnicianSteps, Aside
    <2> QED
      BY <2>1, CallersHaveRoles, StartVisitJob, SubmitResolutionJob, WaitingJob, AsideJob
  <1>4. CASE BackgroundSteps \/ UNCHANGED vars
    BY <1>4, AsideJob DEF Aside
  <1>5. ASSUME NEW auth \in Owners \cup Techs, resumeWork(auth)
        PROVE  JobInOrder'
    BY <1>5, ResumeJob
  <1> QED
    BY <1>1, <1>2, <1>3, <1>4, <1>5 DEF Next, OtherSteps

LEMMA JobsHold == Spec => []JobInv
  BY InitJob, NextJob, PTL DEF Spec

=============================================================================
