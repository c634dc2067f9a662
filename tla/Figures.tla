------------------------------ MODULE Figures ------------------------------
(* What one complaint adds to every figure on the dashboards, the centre's  *)
(* page and the complaint report, and whether the list a figure opens shows *)
(* it. Figures are sums over complaints, so a figure and its list agree     *)
(* when they agree on each. Priority, period, city, product and search      *)
(* filters reach figure and list as the same condition and are left out.    *)
EXTENDS ComplaintService

countWhere(condition) == IF condition THEN 1 ELSE 0

IS_CLOSED == complaint.status = "CLOSED"
IS_CANCELLED == complaint.status = "CANCELLED"
IS_OPEN == complaint.status \notin TerminalStatuses
WAS_BREACHED == complaint.sla.breachedAt # None
CLOSED_WITHIN_SLA == IS_CLOSED /\ ~WAS_BREACHED
WAS_REOPENED == complaint.reopenCount > 0

IsRated == complaint.serviceRating # None

(* Running late right now; a cancelled complaint keeps the clock it had.    *)
(* Here a clock runs out when the sweep finds it. The dashboards, the       *)
(* reports and a list of what is late sweep before they look                *)
(* (reports.routes.ts 68, 140; complaint.service.ts 535), so they all see   *)
(* it so; a centre's page does not sweep, and ClockPages has what it says   *)
(* of the clock, and what the lists' and pages' own clocks say.             *)
SLA_BREACHED == complaint.sla.state = "BREACHED" /\ IS_OPEN

-----------------------------------------------------------------------------
(* The complaint list. A query names its filters; these have none.          *)
NoFilter == [status |-> {}, open |-> FALSE, slaBreached |-> FALSE,
             serviceCenterId |-> None, technicianId |-> None]

InStatus(statuses) == [NoFilter EXCEPT !.status = statuses]
OpenOnly == [NoFilter EXCEPT !.open = TRUE]
BreachedOnly == [NoFilter EXCEPT !.slaBreached = TRUE]

complaintListFilter(query) ==
    /\ query.status # {} => complaint.status \in query.status
    /\ query.open => IS_OPEN
    /\ query.slaBreached => SLA_BREACHED
    /\ query.serviceCenterId # None => complaint.serviceCenterId = query.serviceCenterId
    /\ query.technicianId # None => complaint.technicianId = query.technicianId

(* A list of what is late is swept first: see SLA_BREACHED.                 *)
listComplaints(auth, query) == countWhere(complaintScope(auth) /\ complaintListFilter(query))

-----------------------------------------------------------------------------
(* The booked visits. When one is booked for is not kept by the workflow:   *)
(* `day` gives it. A centre sees the visits booked for it, a technician his *)
(* own, Admin all.                                                          *)
Days == {"earlier", "earlierToday", "laterToday", "thisWeek", "later"}

visitScope(auth) ==
    CASE auth.role = OWNER -> {v \in VisitIds : visits[v].serviceCenterId = auth.serviceCenterId}
      [] auth.role = TECHNICIAN -> {v \in VisitIds : visits[v].technicianId = auth.userId}
      [] OTHER -> VisitIds

Booked(auth, day, days) == {v \in visitScope(auth) \cap VisitsIn({"SCHEDULED"}) : day[v] \in days}

Today == {"earlierToday", "laterToday"}

(* The ranges of the schedule page.                                         *)
RANGES == [today |-> Today, tomorrow |-> {"thisWeek"}, week |-> Today \cup {"thisWeek"},
           all |-> Today \cup {"thisWeek", "later"}, missed |-> {"earlier"}]

agenda(auth, day, range) == Cardinality(Booked(auth, day, RANGES[range]))

WaitingRequests(c) == {r \in RequestIds : /\ requests[r].status \in WAITING_REQUEST_STATUSES
                                          /\ requests[r].serviceCenterId = c}

-----------------------------------------------------------------------------
(* GET /dashboard, for an Owner's centre or, narrowed or not, for Admin.    *)
dashboard(auth, centre) ==
    LET match == /\ complaintScope(auth)
                 /\ centre # None => complaint.serviceCenterId = centre
        counted(condition) == countWhere(match /\ condition)
    IN  [totalOpen |-> counted(IS_OPEN),
         byStatus |-> [s \in Statuses |-> counted(complaint.status = s)],
         slaBreached |-> counted(SLA_BREACHED),
         rated |-> counted(IsRated),
         closedUnrated |-> counted(IS_CLOSED /\ ~IsRated),
         technicianWorkload |-> [t \in Technicians |->
                                    counted(IS_OPEN /\ complaint.technicianId = t)],
         met |-> counted(TRUE) - counted(WAS_BREACHED) - counted(complaint.sla.state = "PAUSED")]

operations(auth, day) ==
    [todaysVisits |-> Cardinality(Booked(auth, day, Today)),
     upcomingVisits |-> Cardinality(Booked(auth, day, {"thisWeek", "later"})),
     missedVisits |-> Cardinality(Booked(auth, day, {"earlier"}))]

(* The tiles: what each shows, and what the list it opens holds.            *)
Tile(shown, listed) == [shown |-> shown, listed |-> listed]

StatusTile(figures, auth, statuses, narrow(_)) ==
    Tile(Cardinality({s \in statuses : figures.byStatus[s] = 1}),
         listComplaints(auth, narrow(InStatus(statuses))))

(* Mutant: the links forget the centre.                                     *)
openEverywhere(query, centre) == query

(* Admin's tiles carry the centre chosen along.                             *)
openList(query, centre) == [query EXCEPT !.serviceCenterId = centre]

adminTiles(centre) ==
    LET figures == dashboard(Admin, centre)
        narrow(query) == openList(query, centre)
        opens(shown, query) == Tile(shown, listComplaints(Admin, narrow(query)))
    IN  {opens(figures.totalOpen, OpenOnly), opens(figures.slaBreached, BreachedOnly)}
        \cup {StatusTile(figures, Admin, {s}, narrow) :
                 s \in {"NEW", "IN_PROGRESS", "WAITING_FOR_PARTS", "REVISIT_REQUIRED",
                        "RESOLUTION_SUBMITTED", "ADMIN_CONFIRMATION", "CLOSED"}}

ownerTiles(c) ==
    LET figures == dashboard(Owner(c), None)
        same(query) == query
    IN  {Tile(figures.totalOpen, listComplaints(Owner(c), OpenOnly)),
         Tile(figures.slaBreached, listComplaints(Owner(c), BreachedOnly))}
        \cup {StatusTile(figures, Owner(c), statuses, same) :
                 statuses \in {{"ASSIGNED", "REOPENED"}, {"TECHNICIAN_ASSIGNED"},
                               {"RESOLUTION_SUBMITTED"}, {"WAITING_FOR_PARTS"},
                               {"REVISIT_REQUIRED"}}}

(* GET /service-centers/:id/overview: the page Admin opens on one centre.   *)
serviceCenterOverview(c) ==
    LET own(condition) == countWhere(complaint.serviceCenterId = c /\ condition)
    IN  [open |-> own(IS_OPEN),
         waitingForTechnician |-> own(complaint.status \in {"ASSIGNED", "REOPENED"}),
         openJobs |-> [t \in Technicians |-> own(IS_OPEN /\ complaint.technicianId = t)],
         waitingRequests |-> Cardinality(WaitingRequests(c)),
         rated |-> own(IsRated)]

(* The page itself. Its figures open Admin's lists, its technicians' jobs   *)
(* on every centre's.                                                       *)
jobs(t) == [OpenOnly EXCEPT !.technicianId = t]

Team(c) == {t \in Technicians : CentreOf[t] = c}

centreTiles(c) ==
    LET page == serviceCenterOverview(c)
    IN  {Tile(page.open, listComplaints(Admin, openList(OpenOnly, c)))}
        \cup {Tile(page.openJobs[t], listComplaints(Admin, jobs(t))) : t \in Team(c)}

(* Its open complaints, by their technicians.                               *)
UrgentComplaints(c) ==
    IF complaint.serviceCenterId = c /\ IS_OPEN THEN {complaint.technicianId} ELSE {}

(* "Its open complaints still need a new service center", once deactivated. *)
NeedsNewCentre(c) == c \notin active /\ serviceCenterOverview(c).open > 0

(* users.service: the workload beside each technician, on his Owner's page  *)
(* of technicians, where it opens the jobs, and on Admin's.                 *)
workloadFor(t) == countWhere(complaint.technicianId = t /\ IS_OPEN)

TechniciansPage(c) == {Tile(workloadFor(t), listComplaints(Owner(c), jobs(t))) : t \in Team(c)}

(* A technician's own page lists all he was ever given and still has, and   *)
(* counts the open ones among what it lists.                                *)
TechnicianDetailPage(auth, t) ==
    LET items == listComplaints(auth, [NoFilter EXCEPT !.technicianId = t])
    IN  [total |-> items, open |-> items * countWhere(IS_OPEN)]

(* GET /visits/my-jobs, and the sections of the technician's first screen.  *)
jobSections(t, day) ==
    [inProgress |-> visitScope(Tech(t)) \cap VisitsIn({"IN_PROGRESS"}),
     today |-> Booked(Tech(t), day, {"earlier"} \cup Today),
     upcoming |-> Booked(Tech(t), day, {"thisWeek", "later"})]

-----------------------------------------------------------------------------
(* "A tile's link lists exactly the complaints it counted"                  *)
(* (dashboard.service.ts 120-123, ServiceCenterDetailPage.tsx 129-130), for *)
(* Admin on any choice of centre, for an Owner, and on a centre's own page -*)
(* but for its tile of what is late, which counts without a sweep           *)
(* (BreachedTileOpensWhatItCounts, ClockPages).                             *)
(* A technician's jobs are counted at his centre and listed from all of     *)
(* them for Admin, and counted everywhere and listed from his centre for    *)
(* his Owner. The tiles of the booked visits are not among them: "Upcoming  *)
(* visits" opens the next seven days, today's included, and "Visits booked" *)
(* opens the missed ones when there are any.                                *)
TilesOpenWhatTheyCount ==
    \A c \in Centres :
        \A tile \in adminTiles(None) \cup adminTiles(c) \cup ownerTiles(c)
                       \cup centreTiles(c) \cup TechniciansPage(c) :
            tile.shown = tile.listed

(* The same thing has one figure wherever it is shown: a technician's load, *)
(* to Admin, to his Owner, in the assignment dialog and on his own page;    *)
(* what runs late, between the dashboards' SLA clock and the reports'       *)
(* breach dates; the closed complaints, rated and not. The rows of a        *)
(* centre's page are as many as its tile counts, and say of as many that    *)
(* they have no technician yet, but for a reopened complaint, which names   *)
(* its former one (ServiceCenterDetailPage.tsx 256-290, 388-436).           *)
FiguresAgree ==
    /\ IS_OPEN => (SLA_BREACHED <=> WAS_BREACHED)
    /\ \A t \in Technicians :
          LET owner == Owner(CentreOf[t])
              load == dashboard(owner, None).technicianWorkload[t]
          IN  /\ load = workloadFor(t)
              /\ \A auth \in {Admin, owner} : load = TechnicianDetailPage(auth, t).open
    /\ LET all == dashboard(Admin, None)
       IN  /\ all.rated + all.closedUnrated = all.byStatus["CLOSED"]
           /\ all.met >= 0
    /\ \A c \in Centres :
          LET page == serviceCenterOverview(c)
              rows == UrgentComplaints(c)
          IN  /\ Cardinality(rows) = page.open
              /\ \/ Cardinality({t \in rows : t = None}) = page.waitingForTechnician
                 \/ complaint.status = "REOPENED"
=============================================================================
