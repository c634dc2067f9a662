------------------------------ MODULE SlaClock ------------------------------
(* The SLA clock of one complaint with its deadlines: core/sla.ts, the      *)
(* calls the workflow's handlers make of it, edits of the rule, the sweep,  *)
(* and getComplaint, which saves what it derived from an earlier read. Of a *)
(* handler only the move and the clock are kept: any rule of the status     *)
(* table may let it through (ComplaintWorkflow has the rest of the guards). *)
EXTENDS StatusMachine, Naturals

CONSTANTS Rules,      \* what Admin may set the complaint's SLA rule to
          Readers,    \* requests that read the complaint at the same time
          MaxTime     \* bound: time after the complaint's creation

RuleShape == [responseMinutes : Nat, resolutionMinutes : Nat,
              pauseOnWaitingParts : BOOLEAN, pauseOnRevisitRequired : BOOLEAN]

(* slaRule.model.ts refuses a resolution window shorter than the response's. *)
ASSUME RulesAssumption ==
    /\ Rules \subseteq RuleShape
    /\ \A r \in Rules : 1 <= r.responseMinutes /\ r.responseMinutes <= r.resolutionMinutes
ASSUME AbsenceAssumption == None \notin Nat
ASSUME MaxTimeAssumption == MaxTime \in Nat

VARIABLES now,         \* time since the complaint was created
          rule,        \* the SLA rule of the complaint's priority
          status,      \* the complaint's status
          sla,         \* its stored SLA record
          reading,     \* of a getComplaint about to save: what it read, and when
          worked,      \* history: time the clock ran since it was last started
          promised,    \* history: the resolution window it was started with
          overwritten  \* history: a read's save has undone a handler's write
vars == <<now, rule, status, sla, reading, worked, promised, overwritten>>
history == <<worked, promised, overwritten>>

Time == Nat
MaybeTime == Time \cup {None}

SlaTracking == [responseDueAt : Time, resolutionDueAt : Time,
                state : {"RUNNING", "PAUSED", "BREACHED", "COMPLETED"},
                respondedAt : MaybeTime, pausedAt : MaybeTime, pausedTotalMs : Time,
                breachedAt : MaybeTime, completedAt : MaybeTime]

-----------------------------------------------------------------------------
(* core/sla.ts                                                              *)
startTracking(r, createdAt) ==
    [responseDueAt |-> createdAt + r.responseMinutes,
     resolutionDueAt |-> createdAt + r.resolutionMinutes,
     state |-> "RUNNING", respondedAt |-> None, pausedAt |-> None,
     pausedTotalMs |-> 0, breachedAt |-> None, completedAt |-> None]

shouldPause(r, s) == \/ s = "WAITING_FOR_PARTS" /\ r.pauseOnWaitingParts
                     \/ s = "REVISIT_REQUIRED" /\ r.pauseOnRevisitRequired

(* Mutant: a clock found late is paused with the others.                    *)
pauseLateToo(clock, at) ==
    IF clock.state \in {"RUNNING", "BREACHED"}
    THEN [clock EXCEPT !.state = "PAUSED", !.pausedAt = at] ELSE clock

pause(clock, at) ==
    IF clock.state = "RUNNING" THEN [clock EXCEPT !.state = "PAUSED", !.pausedAt = at] ELSE clock

(* Mutant: the time on hold is not banked.                                  *)
resumeUnbanked(clock, at) ==
    IF clock.state = "PAUSED" THEN [clock EXCEPT !.state = "RUNNING", !.pausedAt = None]
    ELSE clock

resume(clock, at) ==
    IF clock.state = "PAUSED"
    THEN [clock EXCEPT !.state = "RUNNING", !.pausedAt = None,
                       !.pausedTotalMs = @ + (at - clock.pausedAt)]
    ELSE clock

(* Mutant: each visit is taken for the first.                               *)
markRespondedAgain(clock, at) == [clock EXCEPT !.respondedAt = at]

markResponded(clock, at) ==
    IF clock.respondedAt = None THEN [clock EXCEPT !.respondedAt = at] ELSE clock

(* Mutant: a finished clock is judged at the moment it is looked at.        *)
referenceNow(clock, at) == at

(* The moment a clock is judged at: a finished one when it finished, a      *)
(* paused one when it stopped.                                              *)
reference(clock, at) == IF clock.completedAt # None THEN clock.completedAt
                        ELSE IF clock.state = "PAUSED" THEN clock.pausedAt
                        ELSE at

resolutionBreached(clock, at) ==
    reference(clock, at) > clock.resolutionDueAt + clock.pausedTotalMs

responseBreached(clock, at) ==
    (IF clock.respondedAt # None THEN clock.respondedAt ELSE reference(clock, at))
        > clock.responseDueAt + clock.pausedTotalMs

Overdue(clock, at) ==
    clock.state = "RUNNING" /\ clock.breachedAt = None /\ resolutionBreached(clock, at)

applyBreach(clock, at) ==
    IF Overdue(clock, at) THEN [clock EXCEPT !.state = "BREACHED", !.breachedAt = at]
    ELSE clock

complete(clock, at) ==
    [applyBreach(resume(clock, at), at) EXCEPT !.state = "COMPLETED", !.completedAt = at]

-----------------------------------------------------------------------------
Idle == [sla |-> None, at |-> None]

(* createComplaint                                                          *)
Init ==
    /\ now = 0
    /\ rule \in Rules
    /\ status \in {"NEW", "ASSIGNED"}
    /\ sla = startTracking(rule, 0)
    /\ reading = [r \in Readers |-> Idle]
    /\ worked = 0 /\ promised = rule.resolutionMinutes /\ overwritten = FALSE

(* A handler moves the complaint and leaves its clock as given.             *)
Handler(from, to, clock) ==
    /\ status \in from
    /\ \E move \in transitionsFrom(status) : move.to = to
    /\ status' = to
    /\ sla' = clock
    /\ UNCHANGED <<now, rule, reading, history>>

(* assignTechnician, cancelScheduledVisit, submitResolution and             *)
(* reviewResolution (accepted), cancelComplaint: the clock goes on as it was. *)
moveOn == \E to \in {"TECHNICIAN_ASSIGNED", "RESOLUTION_SUBMITTED", "ADMIN_CONFIRMATION",
                     "CANCELLED"} :
              Handler(Statuses, to, sla)

startVisit == Handler({"VISIT_SCHEDULED"}, "IN_PROGRESS", markResponded(sla, now))

(* reviewResolution (rejected) and requireRework; markWaitingForParts.      *)
putOnHold == \E to \in {"WAITING_FOR_PARTS", "REVISIT_REQUIRED"} :
                 Handler(Statuses, to, IF shouldPause(rule, to) THEN pause(sla, now) ELSE sla)

(* assignServiceCenter, scheduleVisit, resumeWork                           *)
takeUp == \E to \in {"ASSIGNED", "VISIT_SCHEDULED", "IN_PROGRESS"} :
              Handler(Statuses, to, resume(sla, now))

(* closeComplaint; submitResolution and reviewResolution with a code.       *)
closeComplaint == Handler(Statuses, "CLOSED", complete(sla, now))

reopenComplaint ==
    /\ \E move \in transitionsFrom(status) : move.to = "REOPENED"
    /\ status' = "REOPENED"
    /\ sla' = startTracking(rule, now)
    /\ worked' = 0 /\ promised' = rule.resolutionMinutes
    /\ UNCHANGED <<now, rule, reading, overwritten>>

-----------------------------------------------------------------------------
patchRule ==
    /\ rule' \in Rules \ {rule}
    /\ UNCHANGED <<now, status, sla, reading, history>>

sweepBreaches ==
    /\ status \notin TerminalStatuses
    /\ Overdue(sla, now)
    /\ sla' = applyBreach(sla, now)
    /\ UNCHANGED <<now, rule, status, reading, history>>

(* getComplaint reads the complaint. One that is overdue it will save, a    *)
(* step later and outside any transaction; otherwise it saves nothing.      *)
readComplaint(r) ==
    /\ reading[r] = Idle
    /\ Overdue(sla, now)
    /\ reading' = [reading EXCEPT ![r] = [sla |-> sla, at |-> now]]
    /\ UNCHANGED <<now, rule, status, sla, history>>

(* The save sets the whole sub-document, from the record that was read.     *)
saveBreach(r) ==
    /\ reading[r] # Idle
    /\ sla' = applyBreach(reading[r].sla, reading[r].at)
    /\ reading' = [reading EXCEPT ![r] = Idle]
    /\ overwritten' = (overwritten \/ reading[r].sla # sla)
    /\ UNCHANGED <<now, rule, status, worked, promised>>

Tick ==
    /\ now < MaxTime   \* bound
    /\ now' = now + 1
    /\ worked' = IF sla.state \in {"RUNNING", "BREACHED"} THEN worked + 1 ELSE worked
    /\ UNCHANGED <<rule, status, sla, reading, promised, overwritten>>

Next ==
    \/ moveOn \/ startVisit \/ putOnHold \/ takeUp \/ closeComplaint \/ reopenComplaint
    \/ patchRule \/ sweepBreaches
    \/ \E r \in Readers : readComplaint(r) \/ saveBreach(r)
    \/ Tick

Spec == Init /\ [][Next]_vars

-----------------------------------------------------------------------------
TypeOK ==
    /\ now \in 0..MaxTime
    /\ rule \in Rules
    /\ status \in Statuses
    /\ sla \in SlaTracking
    /\ reading \in [Readers -> [sla : SlaTracking, at : Time] \cup {Idle}]
    /\ worked \in Nat /\ promised \in Nat /\ overwritten \in BOOLEAN

(* The clock says the truth, as long as no read's save has undone a         *)
(* handler's write: a breach is on record only if the complaint took longer *)
(* than its window, holds the rule pauses for not counted, and one closed   *)
(* without a breach took no longer, whoever looked in between or nobody     *)
(* (complete, sla.ts 108-122).                                              *)
VerdictIsTrue ==
    ~overwritten => /\ sla.breachedAt # None => worked > promised
                    /\ sla.state = "COMPLETED" /\ sla.breachedAt = None => worked <= promised

(* What a reader of the API is told of the resolution (snapshot) agrees     *)
(* with what reports count (breachedAt), on every clock that was found late *)
(* or has finished, now and at any later time.                              *)
SnapshotAgrees ==
    /\ sla.breachedAt # None => resolutionBreached(sla, now)
    /\ sla.state = "COMPLETED" /\ resolutionBreached(sla, now) => sla.breachedAt # None

Reopened == status # "REOPENED" /\ status' = "REOPENED"

(* Due dates are frozen: an edit of the rule, a hold, a move or a closure   *)
(* never touches them; only a reopened complaint gets new ones.             *)
DeadlinesAreFrozen ==
    [][<<sla'.responseDueAt, sla'.resolutionDueAt>> # <<sla.responseDueAt, sla.resolutionDueAt>>
          => Reopened \/ overwritten']_vars

(* A breach stays on record until the complaint is reopened; even a stale   *)
(* save cannot remove it.                                                   *)
BreachesStand ==
    [][sla.breachedAt # None /\ sla'.breachedAt = None => Reopened]_vars

(* A first response that came in time is never turned into a late one: not  *)
(* by a second visit, a hold, an edit of the rule or a closure, until the   *)
(* complaint is reopened (markResponded, snapshot; sla.ts 101-105, 147-172). *)
TimelyResponseStands ==
    [][sla.respondedAt # None /\ ~responseBreached(sla, now) /\ responseBreached(sla, now)'
          => Reopened \/ overwritten']_vars

(* The resolution clock ends at closure (sla.ts 4-6). A stale save of       *)
(* getComplaint starts it again.                                            *)
ClosedClockHasEnded == status = "CLOSED" => sla.completedAt # None
=============================================================================
