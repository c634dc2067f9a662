------------------------------ MODULE ClockPages ------------------------------
(* Whether one complaint is late, as each page has it. A list and the       *)
(* complaint's own page show what the server derives from the clock for     *)
(* them (snapshot); the dashboards and reports count the clocks found late, *)
(* after a sweep; a centre's page counts and shows what is stored, without  *)
(* one, and counts down to the due date the clock was started with.         *)
EXTENDS SlaClock

IsOpen == status \notin TerminalStatuses

(* The clock as the sweep leaves it.                                        *)
swept == IF IsOpen THEN applyBreach(sla, now) ELSE sla

(* The words for what is derived from a clock that has not finished.        *)
fromSnapshot(clock) ==
    CASE clock.state = "PAUSED" -> "paused"
      [] clock.state # "PAUSED" /\ resolutionBreached(clock, now) -> "late"
      [] OTHER -> "left"

(* In a list, which is swept only when what is late was asked for.          *)
SlaCell(clock) == IF IsOpen THEN fromSnapshot(clock) ELSE "over"

(* On the complaint's page, of the clock getComplaint has brought up to     *)
(* date.                                                                    *)
SlaCard == IF IsOpen THEN fromSnapshot(applyBreach(sla, now)) ELSE "over"

(* What is late, for the dashboards' tile and the list it opens, and by the *)
(* date of the breach for the reports: each after a sweep.                  *)
slaBreached == IsOpen /\ swept.state = "BREACHED"
wasBreached == swept.breachedAt # None

(* A centre's page: its tile of what is late, and the row of a complaint.   *)
overdue == IsOpen /\ sla.state = "BREACHED"

DueText == CASE sla.state = "BREACHED" -> "breached"
             [] sla.state = "PAUSED" -> "paused"
             [] sla.state \notin {"BREACHED", "PAUSED"} /\ now > sla.resolutionDueAt -> "overdue"
             [] OTHER -> "left"

(* An open complaint is late everywhere or nowhere, whatever holds, rework, *)
(* late saves and edits of its rule came before, and whether or not anybody *)
(* has looked since its time ran out: a list calls it late, swept or not,   *)
(* exactly when its own page does, the dashboards count it and list it and  *)
(* the reports have a date for it. A centre's page, which reads the stored  *)
(* clock, is never the less alarming: what it counts as late is so on every *)
(* list, what is late on a list is breached or overdue in its row, and a    *)
(* clock is paused for it exactly when it is for all. But after a hold its  *)
(* row may say "overdue" of a complaint with time left, since it counts to  *)
(* the due date without the time on hold (ServiceCenterDetailPage.tsx       *)
(* 440-455); and its tile may be behind: BreachedTileOpensWhatItCounts.     *)
LateIsLateEverywhere ==
    IsOpen =>
        /\ SlaCell(swept) = SlaCell(sla) /\ SlaCard = SlaCell(sla)
        /\ SlaCell(sla) = "late" <=> slaBreached
        /\ slaBreached <=> wasBreached
        /\ overdue => slaBreached
        /\ SlaCell(sla) = "late" => DueText \in {"breached", "overdue"}
        /\ DueText = "breached" => SlaCell(sla) = "late"
        /\ DueText = "paused" <=> SlaCell(sla) = "paused"

(* Of the tile "SLA breached" on a centre's page: "The complaint list takes *)
(* the same filter names as the API, so each link lists exactly what its    *)
(* figure counted" (ServiceCenterDetailPage.tsx 129-130), "the same         *)
(* definition as the dashboard's" (centerOverview.service.ts 86). The list  *)
(* is swept before it is read, the figure is not.                           *)
BreachedTileOpensWhatItCounts == overdue <=> slaBreached
=============================================================================
