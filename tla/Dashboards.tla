----------------------------- MODULE Dashboards -----------------------------
(* Where each person sees the work that waits for him, and what his pages   *)
(* tell him to do about it: the Owner's queues and schedule, the sections   *)
(* of the technician's first screen, Admin's tiles, and the banner of each  *)
(* job page.                                                                *)
EXTENDS Screens, Figures

(* The complaint as a list shows it: with its newest open visit, of         *)
(* whatever centre and technician.                                          *)
currentVisit == {v \in OpenVisits : \A w \in OpenVisits : w <= v}

(* Mutant: whatever is in progress is being worked on.                      *)
neverNeedsRebooking == FALSE

(* The last visit ended without work and nothing new is booked.             *)
needsRebooking == complaint.status = "IN_PROGRESS" /\ currentVisit = {}

(* The visit column of the list.                                            *)
VisitCell ==
    CASE needsRebooking -> "Needs rebooking"
      [] currentVisit \cap VisitsIn({"IN_PROGRESS"}) # {} -> "On site now"
      [] currentVisit \cap VisitsIn({"SCHEDULED"}) # {} -> "booked"
      [] OTHER -> "none"

QUEUE_STATUSES == {"ASSIGNED", "REOPENED", "TECHNICIAN_ASSIGNED", "REVISIT_REQUIRED",
                   "IN_PROGRESS", "RESOLUTION_SUBMITTED"}

(* The Owner's work queues, each of the complaints his centre holds.        *)
queues(c) ==
    LET item == complaintScope(Owner(c)) /\ complaint.status \in QUEUE_STATUSES
    IN  [toAssign |-> item /\ complaint.status \in {"ASSIGNED", "REOPENED"},
         toBook |-> item /\ \/ complaint.status \in {"TECHNICIAN_ASSIGNED", "REVISIT_REQUIRED"}
                            \/ needsRebooking,
         toReview |-> item /\ complaint.status = "RESOLUTION_SUBMITTED"]

(* The schedule page, the ranges and the missed ones together, and its "on  *)
(* site now".                                                               *)
onSchedule(auth, day) ==
    Booked(auth, day, RANGES.missed \cup RANGES.all) \cup (visitScope(auth) \cap VisitsIn({"IN_PROGRESS"}))

-----------------------------------------------------------------------------
(* Mutant: work in progress is always without a visit.                      *)
bookInAnyCase(c) ==
    CASE complaint.status \in {"ASSIGNED", "REOPENED"} -> {"assign"}
      [] complaint.status \in {"TECHNICIAN_ASSIGNED", "REVISIT_REQUIRED", "IN_PROGRESS"} ->
             {"schedule"}
      [] OTHER -> {}

(* The banners. What the Owner's page tells him to do.                      *)
NextStep(c) ==
    CASE complaint.status \in {"ASSIGNED", "REOPENED"} -> {"assign"}
      [] complaint.status \in {"TECHNICIAN_ASSIGNED", "REVISIT_REQUIRED"} -> {"schedule"}
      [] complaint.status = "IN_PROGRESS" /\ ~onSite(c) -> {"schedule"}
      [] complaint.status = "WAITING_FOR_PARTS" ->
             {"schedule"} \cup (IF onSite(c) THEN {"resume"} ELSE {})
      [] complaint.status = "RESOLUTION_SUBMITTED" -> {"accept", "sendBack", "closeWithCode"}
      [] OTHER -> {}

(* What Admin's page tells him to do; of a complaint back with its centre   *)
(* he is told that he may move it.                                          *)
NextStepBanner ==
    CASE complaint.status \in {"NEW", "REOPENED"} -> {"assignCentre"}
      [] complaint.status = "RESOLUTION_SUBMITTED" -> {"close"}
      [] complaint.status = "ADMIN_CONFIRMATION" ->
             {IF IsVerified(complaint.happyCode) THEN "close" ELSE "verify"}
      [] OTHER -> {}

(* What it tells him the centre will do.                                    *)
awaited ==
    CASE complaint.status = "ASSIGNED" -> {"assign"}
      [] complaint.status = "REOPENED" /\ complaint.serviceCenterId # None -> {"assign"}
      [] complaint.status \in {"TECHNICIAN_ASSIGNED", "REVISIT_REQUIRED"} -> {"schedule"}
      [] OTHER -> {}

(* What a technician's phone tells him his centre will do, where there is   *)
(* nothing for him to press.                                                *)
Waiting(t) ==
    CASE complaint.status \in {"TECHNICIAN_ASSIGNED", "REVISIT_REQUIRED"} -> {"schedule"}
      [] complaint.status \in {"IN_PROGRESS", "WAITING_FOR_PARTS"} /\ ~working(t) -> {"schedule"}
      [] complaint.status = "RESOLUTION_SUBMITTED" -> {"accept", "sendBack"}
      [] OTHER -> {}

(* The open jobs of a technician who has left, which his Owner is shown "to *)
(* reassign".                                                               *)
openJobsNeedingReassignment(c) == IS_OPEN /\ complaint.technicianId \in Team(c) \ active

-----------------------------------------------------------------------------
(* Work that waits for somebody is where he looks for it ("a dashboard that *)
(* says '4 to review' without showing which four sends the Owner hunting",  *)
(* center/DashboardPage.tsx 8-12; "the job most in need of attention,       *)
(* silently gone", visits.service.ts 288-291): a centre's open complaint is *)
(* in one of its Owner's queues, on his schedule, on hold for parts or with *)
(* Admin, and in no two of the queues; what is queued can be done on its    *)
(* page; a booked or begun visit is on the schedule of the centre that      *)
(* holds the complaint, whatever day it is for, and in exactly one section  *)
(* of a technician's screen.                                                *)
NothingWaitsUnseen ==
    \A c \in Centres : complaint.serviceCenterId = c /\ IS_OPEN =>
        LET q == queues(c)
            queued == {name \in DOMAIN q : q[name]}
            page == ownerPage(c)
        IN  /\ Cardinality(queued) <= 1
            /\ q.toAssign /\ technicianOptions(c) # {} => page.assign
            /\ q.toBook => page.schedule
            /\ q.toReview => page.accept /\ page.sendBack
            /\ page.schedule /\ complaint.status # "WAITING_FOR_PARTS" => q.toBook
            /\ \A day \in [OpenVisits -> Days] :
                  LET booked == onSchedule(Owner(c), day)
                  IN  /\ \/ queued # {} \/ booked # {}
                         \/ complaint.status \in {"WAITING_FOR_PARTS", "ADMIN_CONFIRMATION"}
                      /\ OpenVisits \subseteq booked
                      /\ \A v \in OpenVisits : \E t \in Technicians :
                            Cardinality({s \in {"inProgress", "today", "upcoming"} :
                                            v \in jobSections(t, day)[s]}) = 1

(* A page tells nobody to do what it does not offer, and neither Admin nor  *)
(* a technician is told that the centre will do what its Owner is not told  *)
(* to do. The jobs of a technician who has left can be given to another,    *)
(* but for work handed in, which only waits for its verdict                 *)
(* (center/TechniciansPage.tsx 530-534). The list's visit column says that  *)
(* somebody is on site, is booked or is to be booked when the status does.  *)
(* What the page of a deactivated centre says still needs a new one, Admin  *)
(* can move on the complaint's page, to any active centre, but for work     *)
(* that waits for his closing (ServiceCenterDetailPage.tsx 230-252).        *)
(* Left out: work on hold with a former technician on site, whose page says *)
(* "resume work" and cannot (center/ComplaintDetailPage.tsx 452-456, 204);  *)
(* a locked code, which hides what Admin's banner asks for behind "new      *)
(* code"; a centre with nobody left to assign.                              *)
ToldIsOnThePage ==
    /\ \A c \in Centres : MayAct(Owner(c)) /\ complaint.serviceCenterId = c =>
          \A button \in NextStep(c) :
             \/ ownerPage(c)[button]
             \/ button = "resume" /\ ~ownVisitUnderWay(c)
             \/ button = "assign" /\ technicianOptions(c) = {}
    /\ \A c \in Centres : MayAct(Owner(c)) /\ openJobsNeedingReassignment(c) =>
          \/ ownerPage(c).assign \/ ownerPage(c).reassign
          \/ technicianOptions(c) = {}
          \/ complaint.status \in {"RESOLUTION_SUBMITTED", "ADMIN_CONFIRMATION"}
    /\ \A button \in NextStepBanner :
          \/ adminPage[button]
          \/ adminPage.newCode
          \/ button = "assignCentre" /\ centreOptions = {}
    /\ \A c \in Centres : NeedsNewCentre(c) =>
          \/ adminPage.assignCentre
          \/ centreOptions = {}
          \/ complaint.status = "ADMIN_CONFIRMATION"
    /\ \A c \in Centres : complaint.serviceCenterId = c =>
          /\ awaited \subseteq NextStep(c)
          /\ \A t \in Technicians : complaintScope(Tech(t)) => Waiting(t) \subseteq NextStep(c)
    /\ complaint.status = "VISIT_SCHEDULED" => VisitCell = "booked"
    /\ complaint.status = "IN_PROGRESS" => VisitCell \in {"On site now", "Needs rebooking"}
=============================================================================
