------------------------------ MODULE Screens ------------------------------
(* The three job pages of the client: which buttons each shows for what the *)
(* server last told it, and the request a press sends. A page asks the      *)
(* server for the moves open to its role (nextActions) and adds its own     *)
(* conditions; here it shows the data as it stands.                         *)
EXTENDS ComplaintService

(* What GET /complaints/:id answers next to the complaint.                  *)
nextActions(role) == {rule.to : rule \in availableTransitions(stateViewOf, role)}

-----------------------------------------------------------------------------
(* The Owner's page (center/ComplaintDetailPage.tsx). It lists the visits   *)
(* of its own centre; the newest open one decides what is on site.          *)
CentreVisits(c, statuses) == {v \in VisitsIn(statuses) : visits[v].serviceCenterId = c}

openVisit(c) == {v \in CentreVisits(c, {"SCHEDULED", "IN_PROGRESS"}) :
                    \A w \in CentreVisits(c, {"SCHEDULED", "IN_PROGRESS"}) : w <= v}

onSite(c) == \E v \in openVisit(c) : visits[v].status = "IN_PROGRESS"

ownVisitUnderWay(c) == \E v \in openVisit(c) : /\ visits[v].status = "IN_PROGRESS"
                                               /\ visits[v].technicianId = complaint.technicianId

(* Mutants: Reassign is offered for submitted work too; it is hidden while  *)
(* the work is under way, as it once was.                                   *)
ReassignableWhileOpen == Statuses \ (TerminalStatuses \cup {"NEW"})
ReassignableOffSite == {"TECHNICIAN_ASSIGNED", "VISIT_SCHEDULED", "REVISIT_REQUIRED"}

REASSIGNABLE == {"TECHNICIAN_ASSIGNED", "VISIT_SCHEDULED", "IN_PROGRESS",
                 "WAITING_FOR_PARTS", "REVISIT_REQUIRED"}

(* The dialog lists the centre's active technicians; reassigning, the       *)
(* present one cannot be picked.                                            *)
technicianOptions(c) ==
    {t \in Technicians \cap active :
        /\ CentreOf[t] = c
        /\ ~(t = complaint.technicianId /\ complaint.status \notin {"ASSIGNED", "REOPENED"})}

ownerPage(c) ==
    LET can == nextActions(OWNER)
        reviewing == /\ complaint.status = "RESOLUTION_SUBMITTED"
                     /\ complaint.lastResolutionVisitId \in CentreVisits(c, {"COMPLETED"})
    IN  [assign |-> complaint.status \in {"ASSIGNED", "REOPENED"} /\ technicianOptions(c) # {},
         reassign |-> /\ complaint.technicianId # None
                      /\ complaint.status \in REASSIGNABLE
                      /\ technicianOptions(c) # {},
         schedule |-> "VISIT_SCHEDULED" \in can
                         /\ ~(complaint.status = "IN_PROGRESS" /\ onSite(c)),
         resume |-> "IN_PROGRESS" \in can /\ complaint.status = "WAITING_FOR_PARTS"
                       /\ ownVisitUnderWay(c),
         hold |-> "WAITING_FOR_PARTS" \in can,
         closeWithCode |-> complaint.status \in {"IN_PROGRESS", "RESOLUTION_SUBMITTED"},
         accept |-> reviewing,
         sendBack |-> reviewing,
         cancelVisit |-> CentreVisits(c, {"SCHEDULED"}) # {}]

(* The requests behind them. The booking dialog names no technician, and    *)
(* every reason box is filled in.                                           *)
AssignTechnicianDialog(c) == \E t \in technicianOptions(c) : assignTechnician(Owner(c), t)

ScheduleVisitDialog(c) == scheduleVisit(Owner(c), None, TRUE)

CancelVisitDialog(c) ==
    \E v \in CentreVisits(c, {"SCHEDULED"}) : cancelScheduledVisit(Owner(c), v)

HappyCodeCloseDialog(c) == \E late \in BOOLEAN : closeComplaint(Owner(c), "right", late)

WorkCard(c, accepts) ==
    \E pauses \in BOOLEAN : reviewResolution(Owner(c), accepts, ~accepts, pauses)

OwnerSends(c, button) ==
    \/ button \in {"assign", "reassign"} /\ AssignTechnicianDialog(c)
    \/ button = "schedule" /\ ScheduleVisitDialog(c)
    \/ button = "resume" /\ resumeWork(Owner(c))
    \/ button = "hold" /\ \E pauses \in BOOLEAN : markWaitingForParts(Owner(c), TRUE, pauses)
    \/ button = "closeWithCode" /\ HappyCodeCloseDialog(c)
    \/ button \in {"accept", "sendBack"} /\ WorkCard(c, button = "accept")
    \/ button = "cancelVisit" /\ CancelVisitDialog(c)

-----------------------------------------------------------------------------
(* Admin's page (admin/ComplaintDetailPage.tsx). The picker lists active    *)
(* centres; the present one cannot be picked.                               *)
centreOptions == (Centres \cap active) \ {complaint.serviceCenterId}

needsCentre ==
    \/ complaint.status = "NEW"
    \/ complaint.status = "REOPENED" /\ complaint.serviceCenterId = None

canReassign ==
    /\ complaint.serviceCenterId # None /\ ~needsCentre
    /\ "ASSIGNED" \in nextActions(ADMIN) \/ complaint.status = "ASSIGNED"

(* The panel that takes the customer's word is verified, locked or open.    *)
HappyCodePanel == complaint.status \in {"ADMIN_CONFIRMATION", "RESOLUTION_SUBMITTED"}

adminPage ==
    LET allowed == nextActions(ADMIN)
        locked == Locked(complaint.happyCode)
    IN  [assignCentre |-> (needsCentre \/ canReassign) /\ centreOptions # {},
         rework |-> "REVISIT_REQUIRED" \in allowed,
         reopen |-> "REOPENED" \in allowed /\ complaint.reopenCount < MaxReopens,   \* bound
         cancel |-> "CANCELLED" \in allowed,
         verify |-> HappyCodePanel /\ ~IsVerified(complaint.happyCode) /\ ~locked,
         newCode |-> HappyCodePanel /\ locked,
         close |-> HappyCodePanel /\ ~locked /\ "CLOSED" \in allowed,
         rate |-> complaint.status = "CLOSED" /\ complaint.serviceCenterId # None]

(* A reason is asked for when the centre changes, not for the first one.    *)
ServiceCenterPicker == \E c \in centreOptions : assignServiceCenter(c, canReassign)

ReasonDialog(action) ==
    \/ action = "rework" /\ \E pauses \in BOOLEAN : requireRework(TRUE, pauses)
    \/ action = "reopen" /\ reopenComplaint(TRUE)
    \/ action = "cancel" /\ cancelComplaint(TRUE)

HappyCodePanelSends(action) ==
    \/ action = "verify" /\ \E code \in {"right", "wrong"} : verifyComplaintHappyCode(Admin, code)
    \/ action = "newCode" /\ regenerateComplaintHappyCode
    \/ action = "close" /\ \E late \in BOOLEAN : closeComplaint(Admin, "none", late)

AdminSends(button) ==
    \/ button = "assignCentre" /\ ServiceCenterPicker
    \/ ReasonDialog(button)
    \/ HappyCodePanelSends(button)
    \/ button = "rate" /\ rateService

-----------------------------------------------------------------------------
(* The technician's phone (JobDetailPage.tsx, VisitFlowPage.tsx,            *)
(* visit/PartsStep.tsx). A job is opened from the list of his own visits,   *)
(* or of the jobs sent back to him (visits.service myJobs).                 *)
OwnVisits(t, statuses) == {v \in VisitsIn(statuses) : visits[v].technicianId = t}

myJobs(t) == \/ OwnVisits(t, {"SCHEDULED", "IN_PROGRESS", "COMPLETED"}) # {}
             \/ complaint.technicianId = t /\ complaint.status = "REVISIT_REQUIRED"

working(t) == OwnVisits(t, {"IN_PROGRESS"}) # {}

phonePage(t) ==
    [start |-> complaint.status = "VISIT_SCHEDULED",
     submit |-> complaint.status = "IN_PROGRESS" /\ working(t),
     hold |-> complaint.status = "IN_PROGRESS" /\ working(t),
     resume |-> complaint.status = "WAITING_FOR_PARTS" /\ working(t)]

ArrivalStep(t) == \E endsHere \in BOOLEAN : startVisit(Tech(t), endsHere)

(* The code box may be left empty.                                          *)
SubmitStep(t) == \E code \in {"none", "right", "wrong"}, late \in BOOLEAN :
                    submitResolution(Tech(t), code, late)

PartsStep(t) == \E pauses \in BOOLEAN : markWaitingForParts(Tech(t), TRUE, pauses)

PhoneSends(t, button) ==
    \/ button = "start" /\ ArrivalStep(t)
    \/ button = "submit" /\ SubmitStep(t)
    \/ button = "hold" /\ PartsStep(t)
    \/ button = "resume" /\ resumeWork(Tech(t))

-----------------------------------------------------------------------------
(* What the pages keep to themselves.                                       *)

(* The Owner's page does not say that the code is locked or that the        *)
(* technician to be sent was deactivated (a note beside his name does): for *)
(* these two the server's refusal is the message. The visit number is ours. *)
MayBeRefused(button) ==
    \/ button = "closeWithCode" /\ Locked(complaint.happyCode)
    \/ /\ button = "schedule"
       /\ complaint.technicianId \notin active \/ ~\E v \in VisitIds : IsNext(v)     \* bound

(* The buttons a page shows.                                                *)
Shown(page) == LET here == page IN {button \in DOMAIN here : here[button]}

(* No page offers what the server refuses: each button shown to somebody    *)
(* who may open the page is one whose request would be accepted now, but    *)
(* for the two refusals above (statusMachine.ts availableTransitions feeds  *)
(* the pages, which add nine conditions of their own).                      *)
OfferedIsAccepted ==
    /\ \A c \in Centres : MayAct(Owner(c)) =>
          \A button \in Shown(ownerPage(c)) :
             ~MayBeRefused(button) => ENABLED OwnerSends(c, button)
    /\ \A button \in Shown(adminPage) : ENABLED AdminSends(button)
    /\ \A t \in Technicians : MayAct(Tech(t)) /\ myJobs(t) =>
          \A button \in Shown(phonePage(t)) : ENABLED PhoneSends(t, button)

(* The complaint gets on, at a centre of `where`: its status or its centre  *)
(* changes, short of being cancelled, or a technician who left is replaced. *)
GetsOn(where) ==
    /\ complaint'.serviceCenterId \in where
    /\ \/ /\ <<complaint'.status, complaint'.serviceCenterId>>
                # <<complaint.status, complaint.serviceCenterId>>
          /\ complaint'.status # "CANCELLED"
       \/ complaint.technicianId \notin active /\ complaint'.technicianId \in active

(* Somebody who can sign in is shown a button that gets it on.              *)
ShownAWayOn(where) ==
    \/ \E c \in Centres :
          /\ MayAct(Owner(c))
          /\ \E button \in Shown(ownerPage(c)) : ENABLED (OwnerSends(c, button) /\ GetsOn(where))
    \/ \E button \in Shown(adminPage) : ENABLED (AdminSends(button) /\ GetsOn(where))
    \/ \E t \in Technicians :
          /\ MayAct(Tech(t)) /\ myJobs(t)
          /\ \E button \in Shown(phonePage(t)) : ENABLED (PhoneSends(t, button) /\ GetsOn(where))

(* No complaint has "no way out but cancellation" (statusMachine.ts         *)
(* 135-140), and the way out is on somebody's screen: a person who can sign *)
(* in is shown a button that gets it on, without taking it from its centre  *)
(* while that centre can work (and a visit number is left under the bound), *)
(* and else as long as another centre can - whoever was deactivated,        *)
(* however many codes were typed wrong.                                     *)
SomebodyIsOffered ==
    (complaint.status \in TerminalStatuses => complaint.reopenCount < MaxReopens) =>
        LET holder == complaint.serviceCenterId
            canWork == /\ \E c \in Centres : c = holder /\ Staffed(c)
                       /\ \E v \in VisitIds : IsNext(v)
        IN  /\ canWork => ShownAWayOn({holder})
            /\ ~canWork /\ (\E c \in Centres \ {holder} : Staffed(c))
                  => ShownAWayOn(Centres \cup {None})
=============================================================================
