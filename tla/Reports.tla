------------------------------ MODULE Reports ------------------------------
(* What the reports tell of the complaint and of the people who worked on   *)
(* it, in all it goes through, as what one complaint adds to each figure;   *)
(* averages, breakdowns and labels are left out.                            *)
EXTENDS Figures

VARIABLES submissions, \* the visits with a resolution, by resolution.submittedAt
          rejections   \* the timeline's RESOLUTION_REJECTED rows, oldest first
reportVars == <<vars, submissions, rejections>>

Resolved == {v \in VisitsIn({"COMPLETED"}) : visits[v].resolution # None}

(* A row bears its date, that is how many resolutions were older; and,      *)
(* which no report can see, the work that was judged.                       *)
Rejection == [before : Nat, work : VisitIds]

(* submitResolution dates what it writes. The last booked need not be the   *)
(* last to be resolved.                                                     *)
Submitted == {v \in VisitIds : visits'[v].resolution # visits[v].resolution}

(* Both ways of sending work back write it: the Owner's review, and Admin's *)
(* after speaking to the customer.                                          *)
SendsBack == /\ complaint'.resolutionReview = "REVISIT_REQUIRED"
             /\ complaint.resolutionReview # "REVISIT_REQUIRED"

recordActivity ==
    /\ \/ Submitted = {} /\ submissions' = submissions
       \/ \E v \in Submitted : submissions' = Append(submissions, v)
    /\ rejections' = IF SendsBack
                     THEN Append(rejections, [before |-> Len(submissions),
                                              work |-> complaint.lastResolutionVisitId])
                     ELSE rejections

ReportsInit == Init /\ submissions = <<>> /\ rejections = <<>>

ReportsNext == Next /\ recordActivity

ReportsSpec == ReportsInit /\ [][ReportsNext]_reportVars

-----------------------------------------------------------------------------
(* Every complaint adds to the totals, wherever it is.                      *)
complaintReport ==
    [total |-> 1, open |-> countWhere(IS_OPEN), closed |-> countWhere(IS_CLOSED),
     cancelled |-> countWhere(IS_CANCELLED), breached |-> countWhere(WAS_BREACHED),
     closedWithinSla |-> countWhere(CLOSED_WITHIN_SLA),
     reopened |-> countWhere(WAS_REOPENED),
     byStatus |-> [s \in Statuses |-> countWhere(complaint.status = s)]]

(* The centre that holds the complaint is credited with all the work on it. *)
serviceCenterReport(c) ==
    LET own(n) == IF complaint.serviceCenterId = c THEN n ELSE 0
    IN  [complaints |-> own(1), open |-> own(countWhere(IS_OPEN)),
         closed |-> own(countWhere(IS_CLOSED)), breached |-> own(countWhere(WAS_BREACHED)),
         closedWithinSla |-> own(countWhere(CLOSED_WITHIN_SLA)),
         reopened |-> own(countWhere(WAS_REOPENED)),
         submitted |-> own(Cardinality(Resolved)), sentBack |-> own(Len(rejections)),
         rated |-> own(countWhere(complaint.serviceRating # None))]

(* Shown to Admin as "Waiting for a service center".                        *)
unassigned == countWhere(complaint.serviceCenterId = None)

(* The report's first line sums its rows, each of which is 0 or 1 here.     *)
summary(figure) == Cardinality({c \in Centres : serviceCenterReport(c)[figure] = 1})

(* The centre's page takes its figures from its row of the report, over all *)
(* time; without a row the counts are nought.                               *)
Performance(c) ==
    LET row == serviceCenterReport(c)
    IN  [complaints |-> row.complaints, closed |-> row.closed,
         closedWithinSla |-> row.closedWithinSla, reopened |-> row.reopened,
         rated |-> row.rated]

LatestOf(dates) == {submissions[i] : i \in {x \in dates : \A y \in dates : y <= x}}

OlderThan(row) == {i \in 1..row.before : submissions[i] \in Resolved}

(* Mutant: the last visit booked of those resolved before it.               *)
lastBooked(row) == LET older == {submissions[i] : i \in OlderThan(row)}
                   IN  {v \in older : \A w \in older : w <= v}

(* A rejection is of the latest resolution submitted before it.             *)
judged(row) == LatestOf(OlderThan(row))

Of(t, made) == {v \in made : visits[v].technicianId = t}

(* His own part in it, though the job be somebody else's by now.            *)
technicianReport(t) ==
    [assigned |-> countWhere(complaint.technicianId = t),
     open |-> countWhere(complaint.technicianId = t /\ IS_OPEN),
     closed |-> countWhere(complaint.technicianId = t /\ IS_CLOSED),
     visits |-> Cardinality(Of(t, VisitsIn({"COMPLETED"}))),
     submitted |-> Cardinality(Of(t, Resolved)),
     sentBack |-> Cardinality({i \in DOMAIN rejections :
                                  Of(t, judged(rejections[i])) # {}})]

-----------------------------------------------------------------------------
(* "Each rejection is credited to whoever submitted the rejected            *)
(* resolution" (reports.service.ts 25-30): found again by dates alone,      *)
(* after any reassignments, moves and later submissions.                    *)
RejectionsFindTheirWork ==
    \A i \in DOMAIN rejections : judged(rejections[i]) = {rejections[i].work}

(* No resolution is sent back twice, so nobody's revisit rate, nor any      *)
(* centre's, passes 100% (reports.service.ts 488, 733).                     *)
NoRatePassesTheWhole ==
    /\ \A t \in Technicians : technicianReport(t).sentBack <= technicianReport(t).submitted
    /\ \A c \in Centres : serviceCenterReport(c).sentBack <= serviceCenterReport(c).submitted

(* The figures of the reports, of the dashboard and of a centre's page hold *)
(* together: each closed complaint is in one centre's row and rated at most *)
(* once, in the centre's heading as in its report. What waits for a centre  *)
(* is, but for the complaints cancelled before they had one, Admin's "New"  *)
(* tile and the reopened complaints without a centre.                       *)
FiguresAddUp ==
    /\ RejectionsFindTheirWork
    /\ NoRatePassesTheWhole
    /\ FiguresAgree
    /\ LET all == dashboard(Admin, None)
           report == complaintReport
       IN  /\ report.open + report.closed + report.cancelled = report.total
           /\ report.byStatus = all.byStatus
           /\ summary("complaints") + unassigned = report.total
           /\ summary("closed") = report.closed
           /\ summary("open") + unassigned >= report.open
           /\ report.closedWithinSla <= all.met
           /\ IS_OPEN => report.breached = all.slaBreached
           /\ unassigned = 1 => \/ all.byStatus["NEW"] + all.byStatus["CANCELLED"] = 1
                                \/ all.byStatus["REOPENED"] = 1 /\ report.reopened = 1
    /\ \A c \in Centres :
          LET page == serviceCenterOverview(c)
              past == Performance(c)
          IN  /\ past.rated = page.rated /\ past.rated <= past.closed
              /\ page.open + past.closed <= past.complaints
              /\ past.closedWithinSla <= past.closed
=============================================================================
