---------------------------- MODULE Reports_proofs ----------------------------
(* The figures of the dashboards, of a centre's page and of the reports,    *)
(* for every value of the constants: a tile opens what it counts, and the   *)
(* figures hold together, whatever the API was asked before.                *)
EXTENDS Reports, ComplaintWorkflow_proofs, FiniteSetTheorems

-----------------------------------------------------------------------------
(* What the reports' records hold. Every visit with a resolution is written *)
(* down once, the last of them is the complaint's, and it is over.          *)
UnderReview == complaint.status \in {"RESOLUTION_SUBMITTED", "ADMIN_CONFIRMATION"}

SubmissionsInOrder ==
    /\ submissions \in Seq(VisitIds)
    /\ \A i, j \in DOMAIN submissions : submissions[i] = submissions[j] => i = j
    /\ \A i \in DOMAIN submissions : visits[submissions[i]].resolution # None
    /\ \A v \in VisitIds : visits[v].resolution # None
                              => \E i \in DOMAIN submissions : submissions[i] = v
    /\ submissions # <<>> => complaint.lastResolutionVisitId = submissions[Len(submissions)]

ResolvedIsOver ==
    \A v \in VisitIds : visits[v].resolution # None => visits[v].status = "COMPLETED"

(* A rejection is of the resolution last written down before it, no two are *)
(* of the same one, and what is under review was never sent back.           *)
RejectionsInOrder ==
    /\ rejections \in Seq(Rejection)
    /\ \A i \in DOMAIN rejections : /\ rejections[i].before \in DOMAIN submissions
                                    /\ rejections[i].work = submissions[rejections[i].before]
    /\ \A i, j \in DOMAIN rejections : i < j => rejections[i].before < rejections[j].before
    /\ UnderReview => /\ submissions # <<>>
                      /\ \A i \in DOMAIN rejections : rejections[i].before < Len(submissions)

ReportInv == JobInv /\ ResolvedIsOver /\ SubmissionsInOrder /\ RejectionsInOrder

-----------------------------------------------------------------------------
(* What a step of the workflow is to the reports: a resolution submitted,   *)
(* or none, and then only work under review is sent back.                   *)
Submits(v) ==
    /\ visits[v].status = "IN_PROGRESS"
    /\ visits' = [visits EXCEPT ![v].status = "COMPLETED", ![v].resolution = "set"]
    /\ complaint'.lastResolutionVisitId = v
    /\ complaint'.resolutionReview = None

Carries ==
    /\ \A v \in VisitIds : /\ visits'[v].resolution = visits[v].resolution
    /\ complaint'.lastResolutionVisitId = complaint.lastResolutionVisitId
    /\ UnderReview' => UnderReview
    /\ SendsBack => UnderReview /\ ~UnderReview'

Recorded == Carries \/ \E v \in VisitIds : Submits(v)

LEMMA CalledOffKeeps ==
    ASSUME TypeInv, visits' \in {visits, cancelOpenVisits}
    PROVE  \A v \in VisitIds : visits'[v].resolution = visits[v].resolution
  BY DEF TypeInv, TypeOK, Visit, cancelOpenVisits

LEMMA AssignServiceCenterRecorded ==
    ASSUME JobInv, NEW centre \in Centres, NEW reason \in BOOLEAN,
           assignServiceCenter(centre, reason)
    PROVE  Recorded
  <1>1. /\ complaint'.status = "ASSIGNED"
        /\ complaint'.resolutionReview = complaint.resolutionReview
        /\ complaint'.lastResolutionVisitId = complaint.lastResolutionVisitId
        /\ visits' \in {visits, cancelOpenVisits}
    BY DEF assignServiceCenter, JobInv, PromiseInv, TypeInv, TypeOK, Complaint
  <1>2. \A v \in VisitIds : visits'[v].resolution = visits[v].resolution
    BY <1>1, CalledOffKeeps DEF JobInv, PromiseInv
  <1> QED
    BY <1>1, <1>2 DEF Recorded, Carries, UnderReview, SendsBack

LEMMA AssignTechnicianRecorded ==
    ASSUME JobInv, NEW auth, NEW technician \in Technicians,
           assignTechnician(auth, technician)
    PROVE  Recorded
  <1>1. /\ complaint.status \in TECHNICIAN_ASSIGNABLE
        /\ complaint'.status \in {"TECHNICIAN_ASSIGNED", complaint.status}
        /\ complaint'.resolutionReview = complaint.resolutionReview
        /\ complaint'.lastResolutionVisitId = complaint.lastResolutionVisitId
    BY DEF assignTechnician, JobInv, PromiseInv, TypeInv, TypeOK, Complaint
  <1>2. PICK pending : visits' = handOver(technician, pending)
    BY DEF assignTechnician
  <1>3. \A v \in VisitIds : visits'[v].resolution = visits[v].resolution
    BY <1>2 DEF handOver, JobInv, PromiseInv, TypeInv, TypeOK, Visit
  <1> QED
    BY <1>1, <1>3 DEF Recorded, Carries, UnderReview, SendsBack, TECHNICIAN_ASSIGNABLE

(* A visit not booked yet has no resolution, as its booking has none.       *)
LEMMA ScheduleVisitRecorded ==
    ASSUME JobInv, ResolvedIsOver, NEW auth, NEW named \in Technicians \cup {None},
           NEW reason \in BOOLEAN, scheduleVisit(auth, named, reason)
    PROVE  Recorded
  <1>1. /\ complaint'.status = "VISIT_SCHEDULED"
        /\ complaint'.resolutionReview = complaint.resolutionReview
        /\ complaint'.lastResolutionVisitId = complaint.lastResolutionVisitId
    BY DEF scheduleVisit, JobInv, PromiseInv, TypeInv, TypeOK, Complaint
  <1>2. PICK w, technician : w \in VisitIds /\ IsNext(w) /\ visits' = book(w, technician)
    BY DEF scheduleVisit
  <1>3. visits[w].resolution = None
    BY <1>2 DEF IsNext, ResolvedIsOver
  <1>4. \A v \in VisitIds : visits'[v].resolution = visits[v].resolution
    BY <1>2, <1>3 DEF book, JobInv, PromiseInv, TypeInv, TypeOK, Visit
  <1> QED
    BY <1>1, <1>4 DEF Recorded, Carries, UnderReview, SendsBack

LEMMA VisitStepRecorded ==
    ASSUME JobInv, NEW auth,
           \/ \E v \in VisitIds : cancelScheduledVisit(auth, v)
           \/ \E endsHere \in BOOLEAN : startVisit(auth, endsHere)
    PROVE  Recorded
  <1>1. PICK v, status : v \in VisitIds /\ visits' = [visits EXCEPT ![v].status = status]
    BY DEF cancelScheduledVisit, startVisit
  <1>2. /\ complaint'.status \in {"TECHNICIAN_ASSIGNED", "IN_PROGRESS", complaint.status}
        /\ complaint'.resolutionReview = complaint.resolutionReview
        /\ complaint'.lastResolutionVisitId = complaint.lastResolutionVisitId
    BY DEF cancelScheduledVisit, startVisit, statusAfterCancel, JobInv, PromiseInv, TypeInv,
           TypeOK, Complaint
  <1>3. \A w \in VisitIds : visits'[w].resolution = visits[w].resolution
    BY <1>1 DEF JobInv, PromiseInv, TypeInv, TypeOK, Visit
  <1> QED
    BY <1>2, <1>3 DEF Recorded, Carries, UnderReview, SendsBack

LEMMA SubmitResolutionRecorded ==
    ASSUME JobInv, NEW auth, NEW code \in {"none", "right", "wrong"}, NEW late \in BOOLEAN,
           submitResolution(auth, code, late)
    PROVE  Recorded
  <1>1. PICK v \in VisitIds :
            /\ IsLatest(v, {"IN_PROGRESS"})
            /\ visits' = [visits EXCEPT ![v].status = "COMPLETED", ![v].resolution = "set"]
            /\ complaint'.lastResolutionVisitId = v
            /\ complaint'.resolutionReview = None
    BY DEF submitResolution, JobInv, PromiseInv, TypeInv, TypeOK, Complaint
  <1>2. visits[v].status = "IN_PROGRESS"
    BY <1>1 DEF IsLatest, VisitsIn
  <1> QED
    BY <1>1, <1>2 DEF Recorded, Submits

(* The steps of the review and of the closure rewrite no resolution.        *)
LEMMA ReviewRecorded ==
    ASSUME JobInv, NEW auth, NEW accepted \in BOOLEAN, NEW reason \in BOOLEAN,
           NEW pauses \in BOOLEAN,
           \/ reviewResolution(auth, accepted, reason, pauses)
           \/ requireRework(reason, pauses)
    PROVE  Recorded
  <1>1. UnderReview
    <2>1. CASE reviewResolution(auth, accepted, reason, pauses)
      <3> DEFINE to == IF accepted THEN "ADMIN_CONFIRMATION" ELSE "REVISIT_REQUIRED"
      <3>1. complaint.status \in Into(to)
        BY <2>1, StoredMoveFrom DEF reviewResolution
      <3> QED
        BY <3>1 DEF Into, UnderReview
    <2>2. CASE requireRework(reason, pauses)
      BY <2>2, StoredMoveFrom DEF requireRework, Into, UnderReview
    <2> QED
      BY <2>1, <2>2
  <1>2. /\ \/ complaint'.status = "ADMIN_CONFIRMATION" /\ complaint'.resolutionReview = "ACCEPTED"
           \/ complaint'.status = "REVISIT_REQUIRED"
        /\ complaint'.lastResolutionVisitId = complaint.lastResolutionVisitId
        /\ visits' = visits
    BY DEF reviewResolution, requireRework, JobInv, PromiseInv, TypeInv, TypeOK, Complaint
  <1> QED
    BY <1>1, <1>2 DEF Recorded, Carries, UnderReview, SendsBack

LEMMA CloseRecorded ==
    ASSUME JobInv, NEW auth, NEW code \in {"none", "right"}, NEW late \in BOOLEAN,
           closeComplaint(auth, code, late)
    PROVE  Recorded
  <1>1. /\ complaint'.status = "CLOSED"
        /\ complaint'.resolutionReview = complaint.resolutionReview
        /\ complaint'.lastResolutionVisitId = complaint.lastResolutionVisitId
    BY DEF closeComplaint, JobInv, PromiseInv, TypeInv, TypeOK, Complaint
  <1>2. PICK underWay : visits' = [v \in VisitIds |->
                                     IF v \in underWay THEN [visits[v] EXCEPT !.status = "COMPLETED"]
                                     ELSE visits[v]]
    BY DEF closeComplaint
  <1>3. \A v \in VisitIds : visits'[v].resolution = visits[v].resolution
    BY <1>2 DEF JobInv, PromiseInv, TypeInv, TypeOK, Visit
  <1> QED
    BY <1>1, <1>3 DEF Recorded, Carries, UnderReview, SendsBack

LEMMA HoldRecorded ==
    ASSUME JobInv, NEW auth, NEW reason \in BOOLEAN, NEW pauses \in BOOLEAN,
           \/ markWaitingForParts(auth, reason, pauses)
           \/ resumeWork(auth)
           \/ reopenComplaint(reason)
           \/ cancelComplaint(reason)
    PROVE  Recorded
  <1>1. /\ complaint'.status \in {"WAITING_FOR_PARTS", "IN_PROGRESS", "REOPENED", "CANCELLED"}
        /\ complaint'.resolutionReview \in {complaint.resolutionReview, None}
        /\ complaint'.lastResolutionVisitId = complaint.lastResolutionVisitId
        /\ visits' \in {visits, cancelOpenVisits}
    BY DEF markWaitingForParts, resumeWork, reopenComplaint, cancelComplaint, JobInv, PromiseInv,
           TypeInv, TypeOK, Complaint
  <1>2. \A v \in VisitIds : visits'[v].resolution = visits[v].resolution
    BY <1>1, CalledOffKeeps DEF JobInv, PromiseInv
  <1> QED
    BY <1>1, <1>2, NoneAssumption DEF Recorded, Carries, UnderReview, SendsBack

LEMMA AsideRecorded ==
    ASSUME JobInv, Aside
    PROVE  Recorded
  <1>1. TypeInv
    BY DEF JobInv, PromiseInv
  <1> QED
    BY <1>1, AsideKeeps DEF Recorded, Carries, UnderReview, SendsBack

LEMMA NextRecorded ==
    ASSUME JobInv, ResolvedIsOver, [Next]_vars
    PROVE  Recorded
  <1>1. CASE AdminSteps
    BY <1>1, AssignServiceCenterRecorded, VisitStepRecorded, ReviewRecorded, AsideRecorded,
       CloseRecorded, HoldRecorded DEF AdminSteps, Aside
  <1>2. CASE OwnerSteps
    BY <1>2, AssignTechnicianRecorded, ScheduleVisitRecorded, VisitStepRecorded, ReviewRecorded,
       AsideRecorded, CloseRecorded, HoldRecorded DEF OwnerSteps, Aside
  <1>3. CASE TechnicianSteps
    BY <1>3, VisitStepRecorded, SubmitResolutionRecorded, HoldRecorded, AsideRecorded
       DEF TechnicianSteps, Aside
  <1>4. CASE BackgroundSteps \/ UNCHANGED vars
    BY <1>4, AsideRecorded DEF Aside
  <1>5. ASSUME NEW auth \in Owners \cup Techs, resumeWork(auth)
        PROVE  Recorded
    BY <1>5, HoldRecorded
  <1> QED
    BY <1>1, <1>2, <1>3, <1>4, <1>5 DEF Next, OtherSteps

-----------------------------------------------------------------------------
LEMMA AppendFacts ==
    ASSUME NEW S, NEW s \in Seq(S), NEW e \in S, NEW t, t = Append(s, e)
    PROVE  /\ t \in Seq(S) /\ t # <<>>
           /\ Len(s) \in Nat /\ DOMAIN s = 1..Len(s)
           /\ Len(t) = Len(s) + 1 /\ DOMAIN t = 1..(Len(s) + 1)
           /\ \A i \in 1..Len(s) : t[i] = s[i]
           /\ t[Len(s) + 1] = e
  OBVIOUS

LEMMA NextResolvedIsOver ==
    ASSUME JobInv, ResolvedIsOver, Recorded, VisitsStand
    PROVE  ResolvedIsOver'
  <1>1. CASE Carries
    BY <1>1 DEF Carries, ResolvedIsOver, VisitsStand
  <1>2. ASSUME NEW v \in VisitIds, Submits(v)
        PROVE  ResolvedIsOver'
    BY <1>2 DEF Submits, ResolvedIsOver, JobInv, PromiseInv, TypeInv, TypeOK, Visit
  <1> QED
    BY <1>1, <1>2 DEF Recorded

(* Without a submission, at most the work under review goes into the        *)
(* rejections, and is under review no more.                                 *)
LEMMA CarriesInOrder ==
    ASSUME ReportInv, recordActivity, Carries
    PROVE  SubmissionsInOrder' /\ RejectionsInOrder'
  <1>1. submissions' = submissions
    <2>1. Submitted = {}
      BY DEF Submitted, Carries
    <2> QED
      BY <2>1 DEF recordActivity
  <1>2. SubmissionsInOrder'
    BY <1>1 DEF ReportInv, SubmissionsInOrder, Carries
  <1>3. CASE SendsBack
    <2> DEFINE row == [before |-> Len(submissions), work |-> complaint.lastResolutionVisitId]
    <2>1. UnderReview /\ ~UnderReview' /\ rejections' = Append(rejections, row)
      BY <1>3 DEF Carries, recordActivity
    <2>2. /\ submissions \in Seq(VisitIds) /\ submissions # <<>>
          /\ complaint.lastResolutionVisitId = submissions[Len(submissions)]
          /\ rejections \in Seq(Rejection)
          /\ \A i \in DOMAIN rejections : rejections[i].before < Len(submissions)
      BY <2>1 DEF ReportInv, SubmissionsInOrder, RejectionsInOrder
    <2>3. /\ row.before \in DOMAIN submissions /\ row.work = submissions[row.before]
          /\ row.before = Len(submissions) /\ row \in Rejection
      BY <2>2 DEF Rejection
    <2> HIDE DEF row
    <2>4. /\ rejections' \in Seq(Rejection)
          /\ Len(rejections) \in Nat /\ DOMAIN rejections = 1..Len(rejections)
          /\ DOMAIN rejections' = 1..(Len(rejections) + 1)
          /\ \A i \in 1..Len(rejections) : rejections'[i] = rejections[i]
          /\ rejections'[Len(rejections) + 1] = row
      BY <2>1, <2>2, <2>3, AppendFacts
    <2>5. ASSUME NEW i \in DOMAIN rejections'
          PROVE  /\ rejections'[i].before \in DOMAIN submissions
                 /\ rejections'[i].work = submissions[rejections'[i].before]
      BY <2>3, <2>4 DEF ReportInv, RejectionsInOrder
    <2>6. ASSUME NEW i \in DOMAIN rejections', NEW j \in DOMAIN rejections', i < j
          PROVE  rejections'[i].before < rejections'[j].before
      <3>1. i \in DOMAIN rejections
        BY <2>4, <2>6
      <3>2. CASE j \in DOMAIN rejections
        BY <2>4, <2>6, <3>1, <3>2 DEF ReportInv, RejectionsInOrder
      <3>3. CASE j = Len(rejections) + 1
        BY <2>2, <2>3, <2>4, <3>1, <3>3
      <3> QED
        BY <2>4, <3>2, <3>3
    <2> QED
      BY <1>1, <1>2, <2>1, <2>4, <2>5, <2>6 DEF RejectionsInOrder
  <1>4. CASE ~SendsBack
    <2>1. rejections' = rejections /\ (UnderReview' => UnderReview)
      BY <1>4 DEF Carries, recordActivity
    <2> QED
      BY <1>1, <1>2, <2>1 DEF ReportInv, RejectionsInOrder
  <1> QED
    BY <1>3, <1>4

(* A submission goes to the end of the list, after whatever was sent back.  *)
LEMMA SubmitsInOrder ==
    ASSUME ReportInv, recordActivity, NEW v \in VisitIds, Submits(v)
    PROVE  SubmissionsInOrder' /\ RejectionsInOrder'
  <1>1. /\ visits[v].resolution = None /\ visits'[v].resolution = "set"
        /\ \A w \in VisitIds \ {v} : visits'[w] = visits[w]
    BY DEF Submits, ReportInv, ResolvedIsOver, JobInv, PromiseInv, TypeInv, TypeOK, Visit
  <1>2. submissions' = Append(submissions, v) /\ rejections' = rejections
    <2>1. Submitted = {v}
      BY <1>1, NoneAssumption DEF Submitted
    <2>2. ~SendsBack
      BY NoneAssumption DEF Submits, SendsBack
    <2> QED
      BY <2>1, <2>2 DEF recordActivity
  <1>3. /\ submissions' \in Seq(VisitIds) /\ submissions' # <<>>
        /\ Len(submissions) \in Nat /\ DOMAIN submissions = 1..Len(submissions)
        /\ Len(submissions') = Len(submissions) + 1
        /\ DOMAIN submissions' = 1..(Len(submissions) + 1)
        /\ \A i \in 1..Len(submissions) : submissions'[i] = submissions[i]
        /\ submissions'[Len(submissions) + 1] = v
    BY <1>2, AppendFacts DEF ReportInv, SubmissionsInOrder
  <1>4. \A i \in DOMAIN submissions : submissions[i] # v /\ submissions[i] \in VisitIds
    BY <1>1 DEF ReportInv, SubmissionsInOrder
  <1>5. SubmissionsInOrder'
    <2>1. ASSUME NEW i \in DOMAIN submissions', NEW j \in DOMAIN submissions',
                 submissions'[i] = submissions'[j]
          PROVE  i = j
      BY <1>3, <1>4, <2>1 DEF ReportInv, SubmissionsInOrder
    <2>2. \A i \in DOMAIN submissions' : visits'[submissions'[i]].resolution # None
      BY <1>1, <1>3, <1>4, NoneAssumption DEF ReportInv, SubmissionsInOrder
    <2>3. ASSUME NEW w \in VisitIds, visits'[w].resolution # None
          PROVE  \E i \in DOMAIN submissions' : submissions'[i] = w
      <3>1. CASE w = v
        BY <1>3, <3>1
      <3>2. CASE w # v
        <4>1. PICK i \in DOMAIN submissions : submissions[i] = w
          BY <1>1, <2>3, <3>2 DEF ReportInv, SubmissionsInOrder
        <4> QED
          BY <1>3, <4>1
      <3> QED
        BY <3>1, <3>2
    <2>4. complaint'.lastResolutionVisitId = submissions'[Len(submissions')]
      BY <1>3 DEF Submits
    <2> QED
      BY <1>3, <2>1, <2>2, <2>3, <2>4 DEF SubmissionsInOrder
  <1>6. ASSUME NEW i \in DOMAIN rejections
        PROVE  /\ rejections[i].before \in DOMAIN submissions'
               /\ rejections[i].work = submissions'[rejections[i].before]
               /\ rejections[i].before < Len(submissions')
    BY <1>3 DEF ReportInv, RejectionsInOrder
  <1> QED
    BY <1>2, <1>3, <1>5, <1>6 DEF ReportInv, RejectionsInOrder

LEMMA InitReport == ReportsInit => ReportInv
  <1> SUFFICES ASSUME ReportsInit PROVE ReportInv
    OBVIOUS
  <1>1. JobInv /\ submissions = <<>> /\ rejections = <<>>
    BY InitJob DEF ReportsInit
  <1>2. \A v \in VisitIds : visits[v].resolution = None
    BY DEF ReportsInit, Init, Unbooked
  <1>3. ~UnderReview
    BY DEF ReportsInit, Init, NewComplaint, UnderReview
  <1> QED
    BY <1>1, <1>2, <1>3 DEF ReportInv, ResolvedIsOver, SubmissionsInOrder, RejectionsInOrder

LEMMA NextReport == ReportInv /\ [ReportsNext]_reportVars => ReportInv'
  <1> SUFFICES ASSUME ReportInv, [ReportsNext]_reportVars PROVE ReportInv'
    OBVIOUS
  <1>1. [Next]_vars
    BY DEF ReportsNext, reportVars
  <1>2. JobInv' /\ VisitsStand
    BY <1>1, NextJob, NextPromises DEF ReportInv, JobInv, Promised
  <1>3. Recorded
    BY <1>1, NextRecorded DEF ReportInv
  <1>4. ResolvedIsOver'
    BY <1>2, <1>3, NextResolvedIsOver DEF ReportInv
  <1>5. CASE ReportsNext
    BY <1>2, <1>3, <1>4, <1>5, CarriesInOrder, SubmitsInOrder
       DEF ReportsNext, Recorded, ReportInv
  <1>6. CASE UNCHANGED reportVars
    BY <1>2, <1>4, <1>6
       DEF ReportInv, SubmissionsInOrder, RejectionsInOrder, UnderReview, reportVars, vars
  <1> QED
    BY <1>5, <1>6

LEMMA ReportsHold == ReportsSpec => []ReportInv
  BY InitReport, NextReport, PTL DEF ReportsSpec

-----------------------------------------------------------------------------
(* The lists. What a query asks of the complaint, and who sees it.          *)
LEMMA Scopes ==
    /\ complaintScope(Admin)
    /\ \A c : complaintScope(Owner(c)) <=> complaint.serviceCenterId = c
  BY DEF complaintScope, Admin, Owner, ADMIN, OWNER, TECHNICIAN

LEMMA Queries ==
    ASSUME NEW centre, NEW t, NEW statuses
    PROVE  /\ complaintListFilter(OpenOnly) <=> IS_OPEN
           /\ complaintListFilter(BreachedOnly) <=> SLA_BREACHED
           /\ complaintListFilter(InStatus(statuses))
                 <=> (statuses # {} => complaint.status \in statuses)
           /\ complaintListFilter(openList(OpenOnly, centre))
                 <=> IS_OPEN /\ (centre # None => complaint.serviceCenterId = centre)
           /\ complaintListFilter(openList(BreachedOnly, centre))
                 <=> SLA_BREACHED /\ (centre # None => complaint.serviceCenterId = centre)
           /\ complaintListFilter(openList(InStatus(statuses), centre))
                 <=> /\ statuses # {} => complaint.status \in statuses
                     /\ centre # None => complaint.serviceCenterId = centre
           /\ complaintListFilter(jobs(t))
                 <=> IS_OPEN /\ (t # None => complaint.technicianId = t)
           /\ complaintListFilter([NoFilter EXCEPT !.technicianId = t])
                 <=> (t # None => complaint.technicianId = t)
  BY DEF complaintListFilter, OpenOnly, BreachedOnly, InStatus, NoFilter, openList, jobs

LEMMA Counts ==
    ASSUME NEW condition
    PROVE  /\ condition => countWhere(condition) = 1
           /\ ~condition => countWhere(condition) = 0
  BY DEF countWhere

(* A tile of several statuses counts a complaint once.                      *)
LEMMA CountedOnce ==
    ASSUME NEW match, NEW statuses, NEW figure,
           \A s \in statuses : figure[s] = countWhere(match /\ complaint.status = s)
    PROVE  Cardinality({s \in statuses : figure[s] = 1})
              = countWhere(match /\ complaint.status \in statuses)
  <1>1. CASE match /\ complaint.status \in statuses
    <2>1. {s \in statuses : figure[s] = 1} = {complaint.status}
      BY <1>1 DEF countWhere
    <2> QED
      BY <1>1, <2>1, FS_Singleton DEF countWhere
  <1>2. CASE ~(match /\ complaint.status \in statuses)
    <2>1. {s \in statuses : figure[s] = 1} = {}
      BY <1>2 DEF countWhere
    <2>2. Cardinality({}) = 0
      BY FS_EmptySet
    <2>3. countWhere(match /\ complaint.status \in statuses) = 0
      BY <1>2, Counts
    <2> QED
      BY <2>1, <2>2, <2>3
  <1> QED
    BY <1>1, <1>2

(* The dashboard, as an account sees it, narrowed to a centre or not.       *)
Sees(auth, centre) ==
    complaintScope(auth) /\ (centre # None => complaint.serviceCenterId = centre)

LEMMA DashboardCounts ==
    ASSUME NEW auth, NEW centre, NEW d, d = dashboard(auth, centre)
    PROVE  /\ d.totalOpen = countWhere(Sees(auth, centre) /\ IS_OPEN)
           /\ d.slaBreached = countWhere(Sees(auth, centre) /\ SLA_BREACHED)
           /\ \A s \in Statuses :
                 d.byStatus[s] = countWhere(Sees(auth, centre) /\ complaint.status = s)
           /\ d.rated = countWhere(Sees(auth, centre) /\ IsRated)
           /\ d.closedUnrated = countWhere(Sees(auth, centre) /\ IS_CLOSED /\ ~IsRated)
           /\ \A t \in Technicians :
                 d.technicianWorkload[t]
                    = countWhere(Sees(auth, centre) /\ IS_OPEN /\ complaint.technicianId = t)
           /\ d.met = countWhere(Sees(auth, centre))
                         - countWhere(Sees(auth, centre) /\ WAS_BREACHED)
                         - countWhere(Sees(auth, centre) /\ complaint.sla.state = "PAUSED")
  BY DEF dashboard, countWhere, Sees

LEMMA AdminTilesTrue ==
    ASSUME NEW centre
    PROVE  \A tile \in adminTiles(centre) : tile.shown = tile.listed
  <1> DEFINE match == Sees(Admin, centre)
             figures == dashboard(Admin, centre)
             listed(query) == listComplaints(Admin, openList(query, centre))
             shownIn(s) == Cardinality({x \in {s} : figures.byStatus[x] = 1})
             SHOWN == {"NEW", "IN_PROGRESS", "WAITING_FOR_PARTS", "REVISIT_REQUIRED",
                       "RESOLUTION_SUBMITTED", "ADMIN_CONFIRMATION", "CLOSED"}
  <1>1. adminTiles(centre) = {Tile(figures.totalOpen, listed(OpenOnly)),
                              Tile(figures.slaBreached, listed(BreachedOnly))}
                             \cup {Tile(shownIn(s), listed(InStatus({s}))) : s \in SHOWN}
    BY DEF adminTiles, StatusTile
  <1>2. figures.totalOpen = listed(OpenOnly) /\ figures.slaBreached = listed(BreachedOnly)
    <2>1. /\ figures.totalOpen = countWhere(match /\ IS_OPEN)
          /\ figures.slaBreached = countWhere(match /\ SLA_BREACHED)
      BY DashboardCounts
    <2> HIDE DEF figures
    <2> QED
      BY <2>1, Scopes, Queries DEF listComplaints, countWhere, Sees
  <1>3. ASSUME NEW s \in SHOWN
        PROVE  shownIn(s) = listed(InStatus({s}))
    <2>1. \A x \in {s} : figures.byStatus[x] = countWhere(match /\ complaint.status = x)
      BY DashboardCounts DEF Statuses
    <2>2. listed(InStatus({s})) = countWhere(match /\ complaint.status \in {s})
      BY Scopes, Queries DEF listComplaints, countWhere, Sees
    <2> HIDE DEF match, figures
    <2> QED
      BY <2>1, <2>2, CountedOnce
  <1> HIDE DEF figures, listed, shownIn, SHOWN
  <1> SUFFICES ASSUME NEW tile \in adminTiles(centre) PROVE tile.shown = tile.listed
    OBVIOUS
  <1>4. CASE tile \in {Tile(figures.totalOpen, listed(OpenOnly)),
                       Tile(figures.slaBreached, listed(BreachedOnly))}
    BY <1>2, <1>4 DEF Tile
  <1>5. ASSUME NEW s \in SHOWN, tile = Tile(shownIn(s), listed(InStatus({s})))
        PROVE  tile.shown = tile.listed
    BY <1>3, <1>5 DEF Tile
  <1> QED
    BY <1>1, <1>4, <1>5

LEMMA OwnerTilesTrue ==
    ASSUME NEW c
    PROVE  \A tile \in ownerTiles(c) : tile.shown = tile.listed
  <1> DEFINE match == Sees(Owner(c), None)
             figures == dashboard(Owner(c), None)
             listed(query) == listComplaints(Owner(c), query)
             shownIn(statuses) == Cardinality({x \in statuses : figures.byStatus[x] = 1})
             SHOWN == {{"ASSIGNED", "REOPENED"}, {"TECHNICIAN_ASSIGNED"},
                       {"RESOLUTION_SUBMITTED"}, {"WAITING_FOR_PARTS"}, {"REVISIT_REQUIRED"}}
  <1>1. ownerTiles(c) = {Tile(figures.totalOpen, listed(OpenOnly)),
                         Tile(figures.slaBreached, listed(BreachedOnly))}
                        \cup {Tile(shownIn(statuses), listed(InStatus(statuses)))
                                 : statuses \in SHOWN}
    BY DEF ownerTiles, StatusTile
  <1>2. figures.totalOpen = listed(OpenOnly) /\ figures.slaBreached = listed(BreachedOnly)
    <2>1. /\ figures.totalOpen = countWhere(match /\ IS_OPEN)
          /\ figures.slaBreached = countWhere(match /\ SLA_BREACHED)
      BY DashboardCounts
    <2> HIDE DEF figures
    <2> QED
      BY <2>1, Scopes, Queries DEF listComplaints, countWhere, Sees
  <1>3. ASSUME NEW statuses \in SHOWN
        PROVE  shownIn(statuses) = listed(InStatus(statuses))
    <2>1. \A x \in statuses : figures.byStatus[x] = countWhere(match /\ complaint.status = x)
      BY DashboardCounts DEF Statuses
    <2>2. listed(InStatus(statuses)) = countWhere(match /\ complaint.status \in statuses)
      BY Scopes, Queries DEF listComplaints, countWhere, Sees
    <2> HIDE DEF match, figures
    <2> QED
      BY <2>1, <2>2, CountedOnce
  <1> HIDE DEF figures, listed, shownIn, SHOWN
  <1> QED
    BY <1>1, <1>2, <1>3 DEF Tile

(* A technician on the complaint works at the centre that holds it, so his  *)
(* jobs at his centre are all his jobs.                                     *)
LEMMA JobsAreAtHisCentre ==
    ASSUME TypeOK, TechnicianWorksForHolder, NEW t \in Technicians
    PROVE  /\ t # None
           /\ complaint.technicianId = t => complaint.serviceCenterId = CentreOf[t]
  BY NoneAssumption DEF TechnicianWorksForHolder

LEMMA CentreTilesTrue ==
    ASSUME TypeOK, TechnicianWorksForHolder, ClockOfJob, NEW c \in Centres
    PROVE  \A tile \in centreTiles(c) \cup TechniciansPage(c) : tile.shown = tile.listed
  <1> DEFINE page == serviceCenterOverview(c)
             load(t) == listComplaints(Admin, jobs(t))
  <1>0. c # None
    BY NoneAssumption
  <1>1. page.open = listComplaints(Admin, openList(OpenOnly, c))
    BY <1>0, Scopes, Queries DEF serviceCenterOverview, listComplaints, countWhere
  <1>2. ASSUME NEW t \in Team(c)
        PROVE  /\ page.openJobs[t] = load(t)
               /\ workloadFor(t) = listComplaints(Owner(c), jobs(t))
    <2>1. t \in Technicians /\ CentreOf[t] = c
      BY DEF Team
    <2>2. t # None /\ (complaint.technicianId = t => complaint.serviceCenterId = c)
      BY <2>1, JobsAreAtHisCentre
    <2> QED
      BY <2>1, <2>2, Scopes, Queries
         DEF serviceCenterOverview, listComplaints, countWhere, workloadFor
  <1> HIDE DEF page, load
  <1> QED
    BY <1>1, <1>2 DEF centreTiles, TechniciansPage, Tile, page, load

(* Every tile's list holds exactly the complaints the tile counted; the     *)
(* centre's tile of what is late is not among them (ClockPages).            *)
THEOREM TilesAreTrue == Spec => []TilesOpenWhatTheyCount
  <1>1. JobInv => TilesOpenWhatTheyCount
    BY AdminTilesTrue, OwnerTilesTrue, CentreTilesTrue
       DEF TilesOpenWhatTheyCount, JobInv, JobInOrder, PromiseInv, TypeInv
  <1> QED
    BY JobsHold, <1>1, PTL

-----------------------------------------------------------------------------
(* What JobInv says of the figures' conditions.                             *)
LEMMA JobFigures ==
    ASSUME JobInv
    PROVE  /\ IS_OPEN => (SLA_BREACHED <=> WAS_BREACHED)
           /\ SLA_BREACHED => IS_OPEN
           /\ IS_OPEN \/ IS_CLOSED \/ IS_CANCELLED
           /\ ~(IS_OPEN /\ IS_CLOSED) /\ ~(IS_OPEN /\ IS_CANCELLED) /\ ~(IS_CLOSED /\ IS_CANCELLED)
           /\ IsRated => IS_CLOSED
           /\ complaint.sla.state = "PAUSED" => ~WAS_BREACHED /\ ~IS_CLOSED
           /\ IS_OPEN => complaint.sla.state \in {"RUNNING", "PAUSED", "BREACHED"}
           /\ \A t \in Technicians :
                 complaint.technicianId = t => complaint.serviceCenterId = CentreOf[t]
           /\ complaint.status = "ASSIGNED" => complaint.technicianId = None
           /\ IS_OPEN /\ complaint.technicianId = None /\ complaint.serviceCenterId # None
                 => complaint.status \in {"ASSIGNED", "REOPENED"}
           /\ complaint.serviceCenterId = None
                 => \/ complaint.status \in {"NEW", "CANCELLED"}
                    \/ complaint.status = "REOPENED" /\ WAS_REOPENED
           /\ complaint.status \in Statuses
           /\ complaint.serviceCenterId \in Centres \cup {None}
           /\ complaint.serviceCenterId # None => complaint.serviceCenterId \in Centres
  <1>1. /\ complaint.status \in Statuses
        /\ complaint.serviceCenterId \in Centres \cup {None}
        /\ complaint.technicianId \in Technicians \cup {None}
        /\ complaint.sla.state \in {"RUNNING", "PAUSED", "BREACHED", "COMPLETED"}
    BY DEF JobInv, PromiseInv, TypeInv, TypeOK, Complaint, SlaTracking
  <1>2. /\ complaint.sla.state = "COMPLETED" <=> complaint.status = "CLOSED"
        /\ complaint.sla.state # "COMPLETED"
              => (complaint.sla.state = "BREACHED" <=> complaint.sla.breachedAt # None)
    BY DEF JobInv, JobInOrder, ClockOfJob
  <1>3. /\ IS_OPEN => (SLA_BREACHED <=> WAS_BREACHED)
        /\ SLA_BREACHED => IS_OPEN
        /\ IS_OPEN \/ IS_CLOSED \/ IS_CANCELLED
        /\ ~(IS_OPEN /\ IS_CLOSED) /\ ~(IS_OPEN /\ IS_CANCELLED) /\ ~(IS_CLOSED /\ IS_CANCELLED)
        /\ complaint.sla.state = "PAUSED" => ~WAS_BREACHED /\ ~IS_CLOSED
        /\ IS_OPEN => complaint.sla.state \in {"RUNNING", "PAUSED", "BREACHED"}
    BY <1>1, <1>2
       DEF IS_OPEN, IS_CLOSED, IS_CANCELLED, SLA_BREACHED, WAS_BREACHED, TerminalStatuses
  <1>4. IsRated => IS_CLOSED
    BY DEF IsRated, IS_CLOSED, JobInv, PromiseInv, RatingJudgesStandingClosure
  <1>5. /\ \A t \in Technicians :
              complaint.technicianId = t => complaint.serviceCenterId = CentreOf[t]
        /\ complaint.status = "ASSIGNED" => complaint.technicianId = None
        /\ complaint.serviceCenterId = None => complaint.technicianId = None
    BY <1>1, CentreOfAssumption, NoneAssumption DEF JobInv, PromiseInv, TechnicianWorksForHolder
  <1>6. /\ complaint.technicianId = None => complaint.status \notin OnTheJob
        /\ complaint.serviceCenterId = None => complaint.status # "ASSIGNED"
        /\ complaint.status = "NEW" => complaint.serviceCenterId = None
        /\ complaint.status = "REOPENED" => WAS_REOPENED
    BY DEF JobInv, JobInOrder, JobHasItsPeople, RecordAddsUp, WAS_REOPENED
  <1>7. complaint.serviceCenterId = None
           => \/ complaint.status \in {"NEW", "CANCELLED"}
              \/ complaint.status = "REOPENED" /\ WAS_REOPENED
    BY <1>1, <1>5, <1>6 DEF OnTheJob, Statuses
  <1>8. IS_OPEN /\ complaint.technicianId = None /\ complaint.serviceCenterId # None
           => complaint.status \in {"ASSIGNED", "REOPENED"}
    BY <1>1, <1>6 DEF OnTheJob, Statuses, IS_OPEN, TerminalStatuses
  <1> QED
    BY <1>1, <1>3, <1>4, <1>5, <1>6, <1>7, <1>8, Zenon

LEMMA LoadsAgree ==
    ASSUME JobInv, NEW t \in Technicians
    PROVE  LET owner == Owner(CentreOf[t])
               load == dashboard(owner, None).technicianWorkload[t]
           IN  /\ load = workloadFor(t)
               /\ \A auth \in {Admin, owner} : load = TechnicianDetailPage(auth, t).open
  <1> DEFINE owner == Owner(CentreOf[t])
             load == dashboard(owner, None).technicianWorkload[t]
             his == complaint.technicianId = t
  <1>1. load = countWhere(Sees(owner, None) /\ IS_OPEN /\ his)
    BY DashboardCounts
  <1>2. his => complaint.serviceCenterId = CentreOf[t]
    BY JobFigures
  <1>3. load = countWhere(IS_OPEN /\ his)
    <2> HIDE DEF load
    <2> QED
      BY <1>1, <1>2, Scopes DEF Sees, countWhere
  <1>4. ASSUME NEW auth \in {Admin, owner}
        PROVE  TechnicianDetailPage(auth, t).open = countWhere(IS_OPEN /\ his)
    <2>1. t # None
      BY NoneAssumption
    <2>2. listComplaints(auth, [NoFilter EXCEPT !.technicianId = t]) = countWhere(his)
      <3>1. complaintListFilter([NoFilter EXCEPT !.technicianId = t]) <=> his
        BY <2>1 DEF complaintListFilter, NoFilter
      <3>2. his => complaintScope(auth)
        <4>1. CASE auth = Admin
          BY <4>1, Scopes
        <4>2. CASE auth = owner
          BY <1>2, <4>2, Scopes
        <4> QED
          BY <4>1, <4>2, <1>4
      <3> HIDE DEF his
      <3> QED
        BY <3>1, <3>2 DEF listComplaints, countWhere
    <2>3. TechnicianDetailPage(auth, t).open = countWhere(his) * countWhere(IS_OPEN)
      BY <2>2 DEF TechnicianDetailPage
    <2> QED
      BY <2>3 DEF countWhere
  <1>5. workloadFor(t) = countWhere(IS_OPEN /\ his)
    BY DEF workloadFor, countWhere
  <1> HIDE DEF load
  <1> QED
    BY <1>3, <1>4, <1>5 DEF load

LEMMA AtMostOne ==
    ASSUME NEW row, NEW S, S \subseteq {row}
    PROVE  /\ Cardinality(S) = countWhere(row \in S)
           /\ Cardinality(S) \in {0, 1}
  <1>1. CASE row \in S
    <2>1. S = {row}
      BY <1>1
    <2> QED
      BY <1>1, <2>1, FS_Singleton DEF countWhere
  <1>2. CASE row \notin S
    <2>1. S = {}
      BY <1>2
    <2>2. Cardinality({}) = 0
      BY FS_EmptySet
    <2> QED
      BY <1>2, <2>1, <2>2 DEF countWhere
  <1> QED
    BY <1>1, <1>2

(* A centre's page: the rows of its open complaints beside its tiles.       *)
LEMMA CentrePage ==
    ASSUME NEW c \in Centres, NEW page, page = serviceCenterOverview(c)
    PROVE  /\ page.open = countWhere(complaint.serviceCenterId = c /\ IS_OPEN)
           /\ page.waitingForTechnician = countWhere(/\ complaint.serviceCenterId = c
                                                     /\ complaint.status \in {"ASSIGNED", "REOPENED"})
           /\ page.rated = countWhere(complaint.serviceCenterId = c /\ IsRated)
  BY DEF serviceCenterOverview

LEMMA CentreRows ==
    ASSUME JobInv, NEW c \in Centres
    PROVE  LET page == serviceCenterOverview(c)
               rows == UrgentComplaints(c)
           IN  /\ Cardinality(rows) = page.open
               /\ \/ Cardinality({t \in rows : t = None}) = page.waitingForTechnician
                  \/ complaint.status = "REOPENED"
  <1> DEFINE page == serviceCenterOverview(c)
             rows == UrgentComplaints(c)
             row == complaint.technicianId
             its == complaint.serviceCenterId = c
             unstaffed == {t \in rows : t = None}
  <1>1. rows = IF its /\ IS_OPEN THEN {row} ELSE {}
    BY DEF UrgentComplaints
  <1>2. c # None
    BY NoneAssumption
  <1>3. /\ rows \subseteq {row} /\ (row \in rows <=> its /\ IS_OPEN)
        /\ unstaffed \subseteq {row}
        /\ row \in unstaffed <=> its /\ IS_OPEN /\ row = None
    <2> HIDE DEF row, rows
    <2> QED
      BY <1>1
  <1>4. page.open = countWhere(its /\ IS_OPEN)
        /\ page.waitingForTechnician
              = countWhere(its /\ complaint.status \in {"ASSIGNED", "REOPENED"})
    BY CentrePage
  <1>5. /\ IS_OPEN /\ its /\ row = None => complaint.status \in {"ASSIGNED", "REOPENED"}
        /\ complaint.status = "ASSIGNED" => row = None
    BY <1>2, JobFigures
  <1> HIDE DEF rows, page, unstaffed
  <1>6. /\ Cardinality(rows) = countWhere(row \in rows)
        /\ Cardinality(unstaffed) = countWhere(row \in unstaffed)
    <2> HIDE DEF row
    <2> QED
      BY <1>3, AtMostOne
  <1>7. Cardinality(rows) = page.open
    BY <1>3, <1>4, <1>6 DEF countWhere
  <1>8. Cardinality(unstaffed) = page.waitingForTechnician \/ complaint.status = "REOPENED"
    <2>1. complaint.status = "ASSIGNED" => IS_OPEN
      BY DEF IS_OPEN, TerminalStatuses
    <2> QED
      BY <1>3, <1>4, <1>5, <1>6, <2>1 DEF countWhere
  <1> QED
    BY <1>7, <1>8 DEF unstaffed, rows, page

(* The dashboard of every complaint.                                        *)
LEMMA WholeDashboard ==
    ASSUME NEW all, all = dashboard(Admin, None)
    PROVE  /\ all.totalOpen = countWhere(IS_OPEN)
           /\ all.slaBreached = countWhere(SLA_BREACHED)
           /\ all.byStatus = [s \in Statuses |-> countWhere(complaint.status = s)]
           /\ all.rated = countWhere(IsRated)
           /\ all.closedUnrated = countWhere(IS_CLOSED /\ ~IsRated)
           /\ all.met = 1 - countWhere(WAS_BREACHED)
                          - countWhere(complaint.sla.state = "PAUSED")
  <1>1. Sees(Admin, None)
    BY Scopes DEF Sees
  <1>2. /\ all.totalOpen = countWhere(Sees(Admin, None) /\ IS_OPEN)
        /\ all.slaBreached = countWhere(Sees(Admin, None) /\ SLA_BREACHED)
        /\ all.rated = countWhere(Sees(Admin, None) /\ IsRated)
        /\ all.closedUnrated = countWhere(Sees(Admin, None) /\ IS_CLOSED /\ ~IsRated)
        /\ all.met = countWhere(Sees(Admin, None))
                         - countWhere(Sees(Admin, None) /\ WAS_BREACHED)
                         - countWhere(Sees(Admin, None) /\ complaint.sla.state = "PAUSED")
        /\ \A s \in Statuses :
              all.byStatus[s] = countWhere(Sees(Admin, None) /\ complaint.status = s)
    BY DashboardCounts
  <1>3. all.byStatus = [s \in Statuses |-> countWhere(complaint.status = s)]
    <2>1. all.byStatus = [s \in Statuses |-> all.byStatus[s]]
      BY DEF dashboard
    <2> QED
      BY <1>1, <1>2, <2>1 DEF countWhere
  <1> QED
    BY <1>1, <1>2, <1>3 DEF countWhere

LEMMA FiguresAreOne == JobInv => FiguresAgree
  <1> SUFFICES ASSUME JobInv PROVE FiguresAgree
    OBVIOUS
  <1>1. IS_OPEN => (SLA_BREACHED <=> WAS_BREACHED)
    BY JobFigures
  <1>2. ASSUME NEW t \in Technicians
        PROVE  LET owner == Owner(CentreOf[t])
                   load == dashboard(owner, None).technicianWorkload[t]
               IN  /\ load = workloadFor(t)
                   /\ \A auth \in {Admin, owner} : load = TechnicianDetailPage(auth, t).open
    BY LoadsAgree
  <1>3. LET all == dashboard(Admin, None)
        IN  /\ all.rated + all.closedUnrated = all.byStatus["CLOSED"]
            /\ all.met >= 0
    <2> DEFINE all == dashboard(Admin, None)
    <2>1. /\ all.byStatus = [s \in Statuses |-> countWhere(complaint.status = s)]
          /\ all.rated = countWhere(IsRated)
          /\ all.closedUnrated = countWhere(IS_CLOSED /\ ~IsRated)
          /\ all.met = 1 - countWhere(WAS_BREACHED)
                         - countWhere(complaint.sla.state = "PAUSED")
      BY WholeDashboard
    <2>2. /\ IsRated => IS_CLOSED
          /\ complaint.sla.state = "PAUSED" => ~WAS_BREACHED
      BY JobFigures
    <2> HIDE DEF all
    <2>3. all.rated + all.closedUnrated = all.byStatus["CLOSED"]
      <3>1. all.byStatus["CLOSED"] = countWhere(IS_CLOSED)
        BY <2>1 DEF Statuses, IS_CLOSED
      <3> QED
        BY <2>1, <2>2, <3>1 DEF countWhere
    <2>4. all.met >= 0
      BY <2>1, <2>2 DEF countWhere
    <2> QED
      BY <2>3, <2>4 DEF all
  <1>4. ASSUME NEW c \in Centres
        PROVE  LET page == serviceCenterOverview(c)
                   rows == UrgentComplaints(c)
               IN  /\ Cardinality(rows) = page.open
                   /\ \/ Cardinality({t \in rows : t = None}) = page.waitingForTechnician
                      \/ complaint.status = "REOPENED"
    BY CentreRows
  <1> QED
    BY <1>1, <1>2, <1>3, <1>4 DEF FiguresAgree

-----------------------------------------------------------------------------
(* Every submission is of a resolution that still stands in a finished      *)
(* visit, so none of those before a rejection is overlooked.                *)
LEMMA RejectionsFound == ReportInv => RejectionsFindTheirWork
  <1> SUFFICES ASSUME ReportInv, NEW i \in DOMAIN rejections
               PROVE  judged(rejections[i]) = {rejections[i].work}
    BY DEF RejectionsFindTheirWork
  <1> DEFINE before == rejections[i].before
  <1>1. /\ submissions \in Seq(VisitIds)
        /\ before \in DOMAIN submissions /\ rejections[i].work = submissions[before]
    BY DEF ReportInv, SubmissionsInOrder, RejectionsInOrder
  <1>2. \A x \in DOMAIN submissions : submissions[x] \in Resolved
    BY <1>1 DEF ReportInv, ResolvedIsOver, SubmissionsInOrder, Resolved, VisitsIn
  <1>3. before \in Nat \ {0} /\ 1..before \subseteq DOMAIN submissions
    BY <1>1
  <1>4. OlderThan(rejections[i]) = 1..before
    BY <1>2, <1>3 DEF OlderThan
  <1> HIDE DEF before
  <1>5. {x \in 1..before : \A y \in 1..before : y <= x} = {before}
    BY <1>3
  <1> QED
    BY <1>1, <1>4, <1>5 DEF judged, LatestOf

(* Different rejections are of different resolutions: their number is at    *)
(* most the number of resolutions they are of.                              *)
LEMMA RejectionsAreOfTheirOwn ==
    ASSUME ReportInv, NEW S \in SUBSET DOMAIN rejections, NEW T \in SUBSET Resolved,
           \A i \in S : rejections[i].work \in T
    PROVE  IsFiniteSet(T) /\ Cardinality(S) <= Cardinality(T)
  <1>1. IsFiniteSet(VisitIds)
    <2>1. 1 \in Int /\ MaxVisits \in Int
      BY BoundsAssumption
    <2> QED
      BY <2>1, FS_Interval DEF VisitIds
  <1>2. T \in SUBSET VisitIds
    BY DEF Resolved, VisitsIn
  <1>3. IsFiniteSet(T)
    BY <1>1, <1>2, FS_Subset
  <1> DEFINE f == [i \in S |-> rejections[i].work]
  <1>4. f \in Injection(S, T)
    <2>1. f \in [S -> T] /\ DOMAIN f = S
      OBVIOUS
    <2>2. ASSUME NEW i \in S, NEW j \in S, f[i] = f[j]
          PROVE  i = j
      <3>1. /\ rejections[i].before \in DOMAIN submissions
            /\ rejections[j].before \in DOMAIN submissions
            /\ submissions[rejections[i].before] = submissions[rejections[j].before]
        BY <2>2 DEF ReportInv, RejectionsInOrder
      <3>2. rejections[i].before = rejections[j].before
        BY <3>1 DEF ReportInv, SubmissionsInOrder
      <3>3. rejections[i].before \in Nat /\ i \in Nat /\ j \in Nat
        <4>1. i \in DOMAIN rejections /\ j \in DOMAIN rejections /\ rejections \in Seq(Rejection)
          BY DEF ReportInv, RejectionsInOrder
        <4>2. rejections[i] \in Rejection /\ i \in Nat /\ j \in Nat
          BY <4>1
        <4> QED
          BY <4>2 DEF Rejection
      <3>4. ~(i < j) /\ ~(j < i)
        BY <3>2, <3>3 DEF ReportInv, RejectionsInOrder
      <3> QED
        BY <3>3, <3>4
    <2> HIDE DEF f
    <2> QED
      BY <2>1, <2>2 DEF Injection, IsInjective
  <1> HIDE DEF f
  <1>5. Cardinality(S) <= Cardinality(T)
    BY <1>3, <1>4, FS_Injection
  <1> QED
    BY <1>3, <1>5

LEMMA NoRateTooHigh == ReportInv => NoRatePassesTheWhole
  <1> SUFFICES ASSUME ReportInv PROVE NoRatePassesTheWhole
    OBVIOUS
  <1>1. \A i \in DOMAIN rejections : /\ judged(rejections[i]) = {rejections[i].work}
                                     /\ rejections[i].work \in Resolved
    <2>1. \A i \in DOMAIN rejections : rejections[i].work \in Resolved
      BY DEF ReportInv, ResolvedIsOver, SubmissionsInOrder, RejectionsInOrder, Resolved, VisitsIn
    <2> QED
      BY <2>1, RejectionsFound DEF RejectionsFindTheirWork
  <1>2. ASSUME NEW t \in Technicians
        PROVE  technicianReport(t).sentBack <= technicianReport(t).submitted
    <2> DEFINE his == {i \in DOMAIN rejections : Of(t, judged(rejections[i])) # {}}
    <2>1. /\ technicianReport(t).sentBack = Cardinality(his)
          /\ technicianReport(t).submitted = Cardinality(Of(t, Resolved))
      BY DEF technicianReport
    <2>2. \A i \in his : rejections[i].work \in Of(t, Resolved)
      BY <1>1 DEF Of
    <2>3. his \in SUBSET DOMAIN rejections /\ Of(t, Resolved) \in SUBSET Resolved
      BY DEF Of
    <2> HIDE DEF his
    <2>4. Cardinality(his) <= Cardinality(Of(t, Resolved))
      BY <2>2, <2>3, RejectionsAreOfTheirOwn
    <2> QED
      BY <2>1, <2>4
  <1>3. ASSUME NEW c \in Centres
        PROVE  serviceCenterReport(c).sentBack <= serviceCenterReport(c).submitted
    <2>1. DOMAIN rejections = 1..Len(rejections) /\ Len(rejections) \in Nat
      BY DEF ReportInv, RejectionsInOrder
    <2>2. Cardinality(DOMAIN rejections) = Len(rejections)
      <3>1. 1 \in Int /\ Len(rejections) \in Int
        BY <2>1
      <3>2. Cardinality(1..Len(rejections))
               = IF 1 > Len(rejections) THEN 0 ELSE Len(rejections) - 1 + 1
        BY <3>1, FS_Interval
      <3> QED
        BY <2>1, <3>2
    <2>3. Cardinality(DOMAIN rejections) <= Cardinality(Resolved)
      BY <1>1, RejectionsAreOfTheirOwn
    <2>4. Len(rejections) <= Cardinality(Resolved)
      BY <2>2, <2>3
    <2> QED
      BY <2>4 DEF serviceCenterReport
  <1> QED
    BY <1>2, <1>3 DEF NoRatePassesTheWhole

-----------------------------------------------------------------------------
(* A centre's row of the report, and the rows' sums: a complaint is in the  *)
(* row of the centre that holds it, if any does.                            *)
LEMMA CentreRow ==
    ASSUME NEW c \in Centres, NEW row, row = serviceCenterReport(c)
    PROVE  LET own(condition) == countWhere(complaint.serviceCenterId = c /\ condition)
           IN  /\ row["complaints"] = countWhere(complaint.serviceCenterId = c)
               /\ row["open"] = own(IS_OPEN)
               /\ row["closed"] = own(IS_CLOSED)
               /\ row["closedWithinSla"] = own(CLOSED_WITHIN_SLA)
               /\ row["rated"] = own(IsRated)
  BY DEF serviceCenterReport, countWhere, IsRated

LEMMA Summed ==
    LET held(condition) == countWhere(complaint.serviceCenterId \in Centres /\ condition)
    IN  /\ summary("complaints") = countWhere(complaint.serviceCenterId \in Centres)
        /\ summary("open") = held(IS_OPEN)
        /\ summary("closed") = held(IS_CLOSED)
  <1> DEFINE its(c) == complaint.serviceCenterId = c
             rows(figure) == {c \in Centres : serviceCenterReport(c)[figure] = 1}
             holder == complaint.serviceCenterId
  <1>1. \A c \in Centres :
           /\ serviceCenterReport(c)["complaints"] = countWhere(its(c))
           /\ serviceCenterReport(c)["open"] = countWhere(its(c) /\ IS_OPEN)
           /\ serviceCenterReport(c)["closed"] = countWhere(its(c) /\ IS_CLOSED)
    BY CentreRow
  <1>2. summary("complaints") = countWhere(holder \in Centres)
    <2>1. rows("complaints") \subseteq {holder}
          /\ (holder \in rows("complaints") <=> holder \in Centres)
      BY <1>1 DEF countWhere
    <2>2. Cardinality(rows("complaints")) = countWhere(holder \in rows("complaints"))
      <3> HIDE DEF rows, holder
      <3> QED
        BY <2>1, AtMostOne
    <2> QED
      BY <2>1, <2>2 DEF summary, countWhere
  <1>3. summary("open") = countWhere(holder \in Centres /\ IS_OPEN)
    <2>1. rows("open") \subseteq {holder}
          /\ (holder \in rows("open") <=> holder \in Centres /\ IS_OPEN)
      BY <1>1 DEF countWhere
    <2>2. Cardinality(rows("open")) = countWhere(holder \in rows("open"))
      <3> HIDE DEF rows, holder
      <3> QED
        BY <2>1, AtMostOne
    <2> QED
      BY <2>1, <2>2 DEF summary, countWhere
  <1>4. summary("closed") = countWhere(holder \in Centres /\ IS_CLOSED)
    <2>1. rows("closed") \subseteq {holder}
          /\ (holder \in rows("closed") <=> holder \in Centres /\ IS_CLOSED)
      BY <1>1 DEF countWhere
    <2>2. Cardinality(rows("closed")) = countWhere(holder \in rows("closed"))
      <3> HIDE DEF rows, holder
      <3> QED
        BY <2>1, AtMostOne
    <2> QED
      BY <2>1, <2>2 DEF summary, countWhere
  <1> QED
    BY <1>2, <1>3, <1>4

(* The totals of the report beside those of the dashboard.                  *)
LEMMA TotalsAddUp ==
    ASSUME JobInv
    PROVE  LET all == dashboard(Admin, None)
               report == complaintReport
           IN  /\ report.open + report.closed + report.cancelled = report.total
               /\ report.byStatus = all.byStatus
               /\ summary("complaints") + unassigned = report.total
               /\ summary("closed") = report.closed
               /\ summary("open") + unassigned >= report.open
               /\ report.closedWithinSla <= all.met
               /\ IS_OPEN => report.breached = all.slaBreached
               /\ unassigned = 1 => \/ all.byStatus["NEW"] + all.byStatus["CANCELLED"] = 1
                                    \/ all.byStatus["REOPENED"] = 1 /\ report.reopened = 1
  <1> DEFINE all == dashboard(Admin, None)
             report == complaintReport
             holder == complaint.serviceCenterId
  <1>1. /\ all.slaBreached = countWhere(SLA_BREACHED)
        /\ all.byStatus = [s \in Statuses |-> countWhere(complaint.status = s)]
        /\ all.met = 1 - countWhere(WAS_BREACHED) - countWhere(complaint.sla.state = "PAUSED")
    BY WholeDashboard
  <1>2. /\ report.total = 1 /\ report.open = countWhere(IS_OPEN)
        /\ report.closed = countWhere(IS_CLOSED) /\ report.cancelled = countWhere(IS_CANCELLED)
        /\ report.breached = countWhere(WAS_BREACHED)
        /\ report.closedWithinSla = countWhere(IS_CLOSED /\ ~WAS_BREACHED)
        /\ report.reopened = countWhere(WAS_REOPENED)
        /\ report.byStatus = [s \in Statuses |-> countWhere(complaint.status = s)]
    BY DEF complaintReport, CLOSED_WITHIN_SLA
  <1>3. /\ summary("complaints") = countWhere(holder \in Centres)
        /\ summary("open") = countWhere(holder \in Centres /\ IS_OPEN)
        /\ summary("closed") = countWhere(holder \in Centres /\ IS_CLOSED)
        /\ unassigned = countWhere(holder = None)
    BY Summed DEF unassigned
  <1>4. /\ IS_OPEN => (SLA_BREACHED <=> WAS_BREACHED)
        /\ IS_OPEN \/ IS_CLOSED \/ IS_CANCELLED
        /\ ~(IS_OPEN /\ IS_CLOSED) /\ ~(IS_OPEN /\ IS_CANCELLED) /\ ~(IS_CLOSED /\ IS_CANCELLED)
        /\ complaint.sla.state = "PAUSED" => ~WAS_BREACHED /\ ~IS_CLOSED
        /\ holder = None => \/ complaint.status \in {"NEW", "CANCELLED"}
                            \/ complaint.status = "REOPENED" /\ WAS_REOPENED
        /\ holder \in Centres \cup {None} /\ None \notin Centres
    BY JobFigures, NoneAssumption
  <1> HIDE DEF all, report
  <1>5. report.open + report.closed + report.cancelled = report.total
    BY <1>2, <1>4 DEF countWhere
  <1>6. report.byStatus = all.byStatus
    BY <1>1, <1>2
  <1>7. summary("complaints") + unassigned = report.total
    BY <1>2, <1>3, <1>4 DEF countWhere
  <1>8. summary("closed") = report.closed
    <2>1. IS_CLOSED => holder # None
      BY <1>4 DEF IS_CLOSED
    <2> QED
      BY <1>2, <1>3, <1>4, <2>1 DEF countWhere
  <1>9. summary("open") + unassigned >= report.open
    BY <1>2, <1>3, <1>4 DEF countWhere
  <1>10. report.closedWithinSla <= all.met
    BY <1>1, <1>2, <1>4 DEF countWhere
  <1>11. IS_OPEN => report.breached = all.slaBreached
    BY <1>1, <1>2, <1>4 DEF countWhere
  <1>12. unassigned = 1 => \/ all.byStatus["NEW"] + all.byStatus["CANCELLED"] = 1
                           \/ all.byStatus["REOPENED"] = 1 /\ report.reopened = 1
    <2>1. /\ all.byStatus["NEW"] = countWhere(complaint.status = "NEW")
          /\ all.byStatus["CANCELLED"] = countWhere(complaint.status = "CANCELLED")
          /\ all.byStatus["REOPENED"] = countWhere(complaint.status = "REOPENED")
      BY <1>1 DEF Statuses
    <2> QED
      BY <1>2, <1>3, <1>4, <2>1 DEF countWhere
  <1> QED
    BY <1>5, <1>6, <1>7, <1>8, <1>9, <1>10, <1>11, <1>12 DEF all, report

LEMMA CentrePagesAddUp ==
    ASSUME JobInv, NEW c \in Centres
    PROVE  LET page == serviceCenterOverview(c)
               past == Performance(c)
           IN  /\ past.rated = page.rated /\ past.rated <= past.closed
               /\ page.open + past.closed <= past.complaints
               /\ past.closedWithinSla <= past.closed
  <1> DEFINE page == serviceCenterOverview(c)
             past == Performance(c)
             its == complaint.serviceCenterId = c
  <1>1. /\ page.open = countWhere(its /\ IS_OPEN)
        /\ page.rated = countWhere(its /\ IsRated)
    BY CentrePage
  <1>2. /\ past.complaints = countWhere(its)
        /\ past.closed = countWhere(its /\ IS_CLOSED)
        /\ past.closedWithinSla = countWhere(its /\ CLOSED_WITHIN_SLA)
        /\ past.rated = countWhere(its /\ IsRated)
    BY DEF Performance, serviceCenterReport, countWhere, IsRated
  <1>3. /\ ~(IS_OPEN /\ IS_CLOSED)
        /\ IsRated => IS_CLOSED
    BY JobFigures
  <1>4. CLOSED_WITHIN_SLA => IS_CLOSED
    BY DEF CLOSED_WITHIN_SLA
  <1> HIDE DEF page, past
  <1>5. /\ past.rated = page.rated /\ past.rated <= past.closed
        /\ page.open + past.closed <= past.complaints
        /\ past.closedWithinSla <= past.closed
    BY <1>1, <1>2, <1>3, <1>4 DEF countWhere
  <1> QED
    BY <1>5 DEF page, past

(* The figures of the reports, the dashboards and a centre's page hold      *)
(* together, each rejection is found to be of the resolution it judged, and *)
(* no share of work sent back passes the whole.                             *)
THEOREM FiguresHoldTogether == ReportsSpec => []FiguresAddUp
  <1>1. ReportInv => FiguresAddUp
    <2> SUFFICES ASSUME ReportInv PROVE FiguresAddUp
      OBVIOUS
    <2>1. JobInv
      BY DEF ReportInv
    <2>2. RejectionsFindTheirWork /\ NoRatePassesTheWhole /\ FiguresAgree
      BY <2>1, RejectionsFound, NoRateTooHigh, FiguresAreOne
    <2> QED
      BY <2>1, <2>2, TotalsAddUp, CentrePagesAddUp DEF FiguresAddUp
  <1> QED
    BY ReportsHold, <1>1, PTL

=============================================================================
