--------------------------- MODULE SlaClock_proofs ---------------------------
(* The SLA clock tells the truth, for every rule, any number of readers and *)
(* any bound on time, and every page tells what it says.                    *)
EXTENDS ClockPages, TLAPS

(* The stamps of a clock, at time t or later, are in order: whatever is     *)
(* stored, by a handler or by a late save, is one such record.              *)
SoundClock(c, t) ==
    /\ c.state = "PAUSED" => c.pausedAt # None /\ c.pausedAt <= t
    /\ c.state \in {"RUNNING", "PAUSED"} => c.breachedAt = None
    /\ c.state = "BREACHED" => c.breachedAt # None
    /\ c.state = "COMPLETED" <=> c.completedAt # None
    /\ c.breachedAt # None => /\ c.breachedAt > c.resolutionDueAt + c.pausedTotalMs
                              /\ c.breachedAt <= t
    /\ c.completedAt # None
          => /\ c.breachedAt # None => c.breachedAt <= c.completedAt
             /\ c.completedAt > c.resolutionDueAt + c.pausedTotalMs => c.breachedAt # None

(* What a running clock has counted, and what the others were found to have. *)
TrueClock(c, t, w, p) ==
    /\ c.state = "RUNNING" => t + p = c.resolutionDueAt + c.pausedTotalMs + w
    /\ c.state = "PAUSED" => c.pausedAt + p = c.resolutionDueAt + c.pausedTotalMs + w
    /\ c.state = "BREACHED" => w > p
    /\ c.state = "COMPLETED" => (c.breachedAt # None <=> w > p)

SoundReading(r) ==
    reading[r] # Idle => /\ reading[r].at <= now
                         /\ Overdue(reading[r].sla, reading[r].at)
                         /\ SoundClock(reading[r].sla, reading[r].at)

ClockInv ==
    /\ TypeOK
    /\ SoundClock(sla, now)
    /\ sla.state = "COMPLETED" => status = "CLOSED"
    /\ \A r \in Readers : SoundReading(r)
    /\ ~overwritten => TrueClock(sla, now, worked, promised)

-----------------------------------------------------------------------------
(* The operations of core/sla.ts: each returns a clock of the right type,   *)
(* sound and true if the one given was, keeps the due dates, a breach and a *)
(* response, and takes no time back that was banked.                        *)
Kept(c, d) == /\ d.responseDueAt = c.responseDueAt /\ d.resolutionDueAt = c.resolutionDueAt
              /\ c.breachedAt # None => d.breachedAt # None
              /\ c.respondedAt # None => d.respondedAt = c.respondedAt
              /\ c.pausedTotalMs <= d.pausedTotalMs

Good(c, d, t) ==
    /\ d \in SlaTracking
    /\ SoundClock(d, t)
    /\ \A w, p \in Nat : TrueClock(c, t, w, p) => TrueClock(d, t, w, p)
    /\ Kept(c, d)

LEMMA Fields ==
    ASSUME NEW c \in SlaTracking
    PROVE  /\ c.responseDueAt \in Nat /\ c.resolutionDueAt \in Nat
           /\ c.state \in {"RUNNING", "PAUSED", "BREACHED", "COMPLETED"}
           /\ c.pausedTotalMs \in Nat
           /\ c.respondedAt # None => c.respondedAt \in Nat
           /\ c.pausedAt # None => c.pausedAt \in Nat
           /\ c.breachedAt # None => c.breachedAt \in Nat
           /\ c.completedAt # None => c.completedAt \in Nat
  BY DEF SlaTracking, Time, MaybeTime

LEMMA SameGood ==
    ASSUME NEW t \in Nat, NEW c \in SlaTracking, SoundClock(c, t)
    PROVE  Good(c, c, t)
  BY Fields DEF Good, Kept

LEMMA PauseGood ==
    ASSUME NEW t \in Nat, NEW c \in SlaTracking, SoundClock(c, t)
    PROVE  Good(c, pause(c, t), t)
  <1>1. CASE c.state # "RUNNING"
    BY <1>1, SameGood DEF pause
  <1>2. CASE c.state = "RUNNING"
    <2> DEFINE d == [c EXCEPT !.state = "PAUSED", !.pausedAt = t]
    <2>1. d \in SlaTracking
      BY DEF SlaTracking, Time, MaybeTime
    <2>2. /\ d.responseDueAt = c.responseDueAt /\ d.resolutionDueAt = c.resolutionDueAt
          /\ d.state = "PAUSED" /\ d.pausedAt = t /\ d.pausedTotalMs = c.pausedTotalMs
          /\ d.breachedAt = c.breachedAt /\ d.completedAt = c.completedAt
          /\ d.respondedAt = c.respondedAt
      BY DEF SlaTracking
    <2> HIDE DEF d
    <2>3. SoundClock(d, t)
      BY <1>2, <2>2, AbsenceAssumption DEF SoundClock
    <2>4. \A w, p \in Nat : TrueClock(c, t, w, p) => TrueClock(d, t, w, p)
      BY <1>2, <2>2 DEF TrueClock
    <2>5. Kept(c, d)
      BY <2>2, Fields DEF Kept
    <2> QED
      BY <1>2, <2>1, <2>3, <2>4, <2>5 DEF Good, pause, d
  <1> QED
    BY <1>1, <1>2

LEMMA ResumeGood ==
    ASSUME NEW t \in Nat, NEW c \in SlaTracking, SoundClock(c, t)
    PROVE  Good(c, resume(c, t), t)
  <1>1. CASE c.state # "PAUSED"
    BY <1>1, SameGood DEF resume
  <1>2. CASE c.state = "PAUSED"
    <2> DEFINE d == [c EXCEPT !.state = "RUNNING", !.pausedAt = None,
                              !.pausedTotalMs = @ + (t - c.pausedAt)]
    <2>0. c.pausedAt \in Nat /\ c.pausedAt <= t /\ c.breachedAt = None /\ c.completedAt = None
      BY <1>2, Fields DEF SoundClock
    <2>1. c.pausedTotalMs + (t - c.pausedAt) \in Nat
      BY <2>0, Fields
    <2>2. d \in SlaTracking
      BY <2>1 DEF SlaTracking, Time, MaybeTime
    <2>3. /\ d.responseDueAt = c.responseDueAt /\ d.resolutionDueAt = c.resolutionDueAt
          /\ d.state = "RUNNING"
          /\ d.pausedTotalMs = c.pausedTotalMs + (t - c.pausedAt)
          /\ d.breachedAt = c.breachedAt /\ d.completedAt = c.completedAt
          /\ d.respondedAt = c.respondedAt
      BY DEF SlaTracking
    <2> HIDE DEF d
    <2>4. SoundClock(d, t)
      BY <2>0, <2>3 DEF SoundClock
    <2>5. \A w, p \in Nat : TrueClock(c, t, w, p) => TrueClock(d, t, w, p)
      BY <1>2, <2>0, <2>3, Fields DEF TrueClock
    <2>6. Kept(c, d)
      BY <2>0, <2>3, Fields DEF Kept
    <2> QED
      BY <1>2, <2>2, <2>4, <2>5, <2>6 DEF Good, resume, d
  <1> QED
    BY <1>1, <1>2

LEMMA RespondedGood ==
    ASSUME NEW t \in Nat, NEW c \in SlaTracking, SoundClock(c, t)
    PROVE  Good(c, markResponded(c, t), t)
  <1>1. CASE c.respondedAt # None
    BY <1>1, SameGood DEF markResponded
  <1>2. CASE c.respondedAt = None
    <2> DEFINE d == [c EXCEPT !.respondedAt = t]
    <2>1. d \in SlaTracking
      BY DEF SlaTracking, Time, MaybeTime
    <2>2. /\ d.responseDueAt = c.responseDueAt /\ d.resolutionDueAt = c.resolutionDueAt
          /\ d.state = c.state /\ d.pausedAt = c.pausedAt /\ d.pausedTotalMs = c.pausedTotalMs
          /\ d.breachedAt = c.breachedAt /\ d.completedAt = c.completedAt
      BY DEF SlaTracking
    <2> HIDE DEF d
    <2> QED
      BY <1>2, <2>1, <2>2, Fields DEF Good, Kept, SoundClock, TrueClock, markResponded, d
  <1> QED
    BY <1>1, <1>2

(* A clock is found overdue only when it has counted more than its window.  *)
LEMMA BreachGood ==
    ASSUME NEW t \in Nat, NEW c \in SlaTracking, SoundClock(c, t),
           NEW at \in Nat, at <= t
    PROVE  Good(c, applyBreach(c, at), t)
  <1>1. CASE ~Overdue(c, at)
    BY <1>1, SameGood DEF applyBreach
  <1>2. CASE Overdue(c, at)
    <2> DEFINE d == [c EXCEPT !.state = "BREACHED", !.breachedAt = at]
    <2>0. /\ c.state = "RUNNING" /\ c.breachedAt = None /\ c.completedAt = None
          /\ at > c.resolutionDueAt + c.pausedTotalMs
      BY <1>2 DEF Overdue, resolutionBreached, reference, SoundClock
    <2>1. d \in SlaTracking
      BY DEF SlaTracking, Time, MaybeTime
    <2>2. /\ d.responseDueAt = c.responseDueAt /\ d.resolutionDueAt = c.resolutionDueAt
          /\ d.state = "BREACHED" /\ d.pausedTotalMs = c.pausedTotalMs
          /\ d.breachedAt = at /\ d.completedAt = c.completedAt
          /\ d.respondedAt = c.respondedAt
      BY DEF SlaTracking
    <2> HIDE DEF d
    <2>3. SoundClock(d, t)
      BY <2>0, <2>2, AbsenceAssumption DEF SoundClock
    <2>4. \A w, p \in Nat : TrueClock(c, t, w, p) => TrueClock(d, t, w, p)
      BY <2>0, <2>2, Fields DEF TrueClock
    <2>5. Kept(c, d)
      BY <2>0, <2>2, Fields DEF Kept
    <2> QED
      BY <1>2, <2>1, <2>3, <2>4, <2>5 DEF Good, applyBreach, d
  <1> QED
    BY <1>1, <1>2

(* complete settles the clock first, so nothing is closed late unnoticed.   *)
(* A finished clock must not be finished again: it would not be judged.     *)
LEMMA CompleteGood ==
    ASSUME NEW t \in Nat, NEW c \in SlaTracking, SoundClock(c, t), c.state # "COMPLETED"
    PROVE  Good(c, complete(c, t), t)
  <1> DEFINE r == resume(c, t)
  <1> DEFINE s == applyBreach(r, t)
  <1>1. Good(c, r, t)
    BY ResumeGood
  <1>2. Good(r, s, t)
    BY <1>1, BreachGood DEF Good
  <1>3. s.state \notin {"PAUSED", "COMPLETED"}
    BY <1>1 DEF resume, applyBreach, Overdue, Good, SlaTracking
  <1>4. s.state = "RUNNING" => ~(t > s.resolutionDueAt + s.pausedTotalMs)
    <2>1. r \in SlaTracking /\ SoundClock(r, t)
      BY <1>1 DEF Good
    <2>2. CASE Overdue(r, t)
      BY <2>1, <2>2 DEF applyBreach, SlaTracking
    <2>3. CASE ~Overdue(r, t)
      BY <2>1, <2>3 DEF applyBreach, Overdue, resolutionBreached, reference, SoundClock
    <2> QED
      BY <2>2, <2>3
  <1> DEFINE d == [s EXCEPT !.state = "COMPLETED", !.completedAt = t]
  <1>5. s \in SlaTracking /\ SoundClock(s, t)
    BY <1>2 DEF Good
  <1>6. complete(c, t) = d
    BY DEF complete
  <1> HIDE DEF s, r
  <1>7. d \in SlaTracking
    BY <1>5 DEF SlaTracking, Time, MaybeTime
  <1>8. /\ d.responseDueAt = s.responseDueAt /\ d.resolutionDueAt = s.resolutionDueAt
        /\ d.state = "COMPLETED" /\ d.completedAt = t /\ d.pausedTotalMs = s.pausedTotalMs
        /\ d.breachedAt = s.breachedAt /\ d.respondedAt = s.respondedAt
    BY <1>5 DEF SlaTracking
  <1> HIDE DEF d
  <1>9. SoundClock(d, t)
    <2>2. CASE s.state = "RUNNING"
      BY <1>4, <1>5, <1>8, <2>2, AbsenceAssumption DEF SoundClock
    <2>3. CASE s.state = "BREACHED"
      BY <1>5, <1>8, <2>3, AbsenceAssumption DEF SoundClock
    <2> QED
      BY <1>3, <1>5, <2>2, <2>3, Fields
  <1>10. \A w, p \in Nat : TrueClock(s, t, w, p) => TrueClock(d, t, w, p)
    <2> SUFFICES ASSUME NEW w \in Nat, NEW p \in Nat, TrueClock(s, t, w, p)
                 PROVE  d.breachedAt # None <=> w > p
      BY <1>8 DEF TrueClock
    <2>2. CASE s.state = "RUNNING"
      BY <1>4, <1>5, <1>8, <2>2, Fields DEF TrueClock, SoundClock
    <2>3. CASE s.state = "BREACHED"
      BY <1>5, <1>8, <2>3 DEF TrueClock, SoundClock
    <2> QED
      BY <1>3, <1>5, <2>2, <2>3, Fields
  <1>11. Kept(c, d)
    <2>1. r \in SlaTracking /\ c.pausedTotalMs <= r.pausedTotalMs
             /\ r.pausedTotalMs <= s.pausedTotalMs
      BY <1>1, <1>2 DEF Good, Kept
    <2>2. c.pausedTotalMs <= d.pausedTotalMs
      BY <1>5, <1>8, <2>1, Fields
    <2> QED
      BY <1>1, <1>2, <1>8, <2>2 DEF Good, Kept
  <1> QED
    BY <1>1, <1>2, <1>6, <1>7, <1>9, <1>10, <1>11 DEF Good

-----------------------------------------------------------------------------
(* A new clock: no time counted, the whole window left.                     *)
LEMMA StartGood ==
    ASSUME NEW r \in Rules, NEW t \in Nat
    PROVE  /\ r.resolutionMinutes \in Nat
           /\ startTracking(r, t) \in SlaTracking
           /\ SoundClock(startTracking(r, t), t)
           /\ TrueClock(startTracking(r, t), t, 0, r.resolutionMinutes)
  <1>1. r.responseMinutes \in Nat /\ r.resolutionMinutes \in Nat
    BY RulesAssumption DEF RuleShape
  <1> QED
    BY <1>1 DEF startTracking, SlaTracking, Time, MaybeTime, SoundClock, TrueClock

(* The way out of CLOSED is to reopen, so no handler meets a finished clock. *)
LEMMA FinishedStays ==
    ASSUME NEW move \in TRANSITIONS
    PROVE  /\ move.from = "CLOSED" => move.to = "REOPENED"
           /\ move.from = "REOPENED" => move.to # "REOPENED"
  <1>1. \A rule_ \in cancellationRules \cup centreReassignmentRules :
           rule_.from # "CLOSED" /\ rule_.to # "REOPENED"
    BY DEF cancellationRules, centreReassignmentRules, Rule, CANCELLABLE_FROM,
           CENTRE_REASSIGNABLE_FROM, Statuses, TerminalStatuses
  <1> QED
    BY <1>1 DEF TRANSITIONS, Rule, HasCentre, HasTechnician, Verified

LEMMA InitClock == Init => ClockInv
  <1> SUFFICES ASSUME Init PROVE ClockInv
    OBVIOUS
  <1>1. /\ sla \in SlaTracking /\ SoundClock(sla, now) /\ sla.state = "RUNNING"
        /\ TrueClock(sla, now, worked, promised) /\ promised \in Nat
    BY StartGood DEF Init, startTracking
  <1>2. now \in 0..MaxTime /\ status \in Statuses
    BY MaxTimeAssumption DEF Init, Statuses
  <1>3. reading \in [Readers -> [sla : SlaTracking, at : Time] \cup {Idle}]
    BY DEF Init
  <1>4. TypeOK
    BY <1>1, <1>2, <1>3 DEF Init, TypeOK
  <1>5. \A r \in Readers : SoundReading(r)
    BY DEF Init, SoundReading
  <1> QED
    BY <1>1, <1>4, <1>5 DEF ClockInv

(* What ClockInv' needs of a step that changes neither time nor readings.   *)
LEMMA ReadingsStay ==
    ASSUME ClockInv, UNCHANGED <<now, reading>>
    PROVE  \A r \in Readers : SoundReading(r)'
  BY DEF ClockInv, SoundReading

(* The steps of one kind: a handler or the sweep stores a good clock.       *)
LEMMA StoredGood ==
    ASSUME ClockInv, Good(sla, sla', now), UNCHANGED <<now, reading, history>>,
           rule' \in Rules, status' \in Statuses,
           sla'.state = "COMPLETED" => status' = "CLOSED"
    PROVE  /\ ClockInv'
           /\ Kept(sla, sla')
  <1>1. \A r \in Readers : SoundReading(r)'
    BY ReadingsStay
  <1>2. TypeOK'
    BY DEF ClockInv, TypeOK, Good, history
  <1> QED
    BY <1>1, <1>2 DEF ClockInv, TypeOK, Good, history

-----------------------------------------------------------------------------
LEMMA HandlerClock ==
    ASSUME ClockInv, NEW from, NEW to \in Statuses, NEW clock, Handler(from, to, clock),
           to # "REOPENED", Good(sla, clock, now),
           clock.state = "COMPLETED" => sla.state = "COMPLETED" \/ to = "CLOSED"
    PROVE  ClockInv' /\ Kept(sla, sla')
  <1>1. status # "CLOSED"
    BY FinishedStays DEF Handler, transitionsFrom
  <1>2. sla'.state = "COMPLETED" => status' = "CLOSED"
    BY <1>1 DEF Handler, ClockInv
  <1> QED
    BY <1>2, StoredGood DEF Handler, ClockInv, TypeOK

(* Every operation of the clock a handler calls, on the stored clock.       *)
LEMMA OperationsGood ==
    ASSUME ClockInv
    PROVE  /\ now \in Nat /\ sla \in SlaTracking /\ SoundClock(sla, now)
           /\ Good(sla, sla, now)
           /\ Good(sla, pause(sla, now), now)
           /\ Good(sla, resume(sla, now), now)
           /\ Good(sla, markResponded(sla, now), now)
           /\ Good(sla, applyBreach(sla, now), now)
           /\ sla.state # "COMPLETED" => Good(sla, complete(sla, now), now)
  <1>1. now \in Nat /\ sla \in SlaTracking /\ SoundClock(sla, now)
    BY MaxTimeAssumption DEF ClockInv, TypeOK
  <1> QED
    BY <1>1, SameGood, PauseGood, ResumeGood, RespondedGood, BreachGood, CompleteGood

(* Only complete finishes a clock.                                          *)
LEMMA OnlyCompleteFinishes ==
    ASSUME ClockInv
    PROVE  /\ pause(sla, now).state = "COMPLETED" => sla.state = "COMPLETED"
           /\ resume(sla, now).state = "COMPLETED" => sla.state = "COMPLETED"
           /\ markResponded(sla, now).state = "COMPLETED" => sla.state = "COMPLETED"
           /\ applyBreach(sla, now).state = "COMPLETED" => sla.state = "COMPLETED"
  BY DEF ClockInv, TypeOK, SlaTracking, pause, resume, markResponded, applyBreach

LEMMA moveOnClock == ASSUME ClockInv, moveOn PROVE ClockInv' /\ Kept(sla, sla')
  BY HandlerClock, OperationsGood DEF moveOn, Statuses

LEMMA startVisitClock == ASSUME ClockInv, startVisit PROVE ClockInv' /\ Kept(sla, sla')
  BY HandlerClock, OperationsGood, OnlyCompleteFinishes DEF startVisit, Statuses

LEMMA putOnHoldClock == ASSUME ClockInv, putOnHold PROVE ClockInv' /\ Kept(sla, sla')
  BY HandlerClock, OperationsGood, OnlyCompleteFinishes DEF putOnHold, Statuses

LEMMA takeUpClock == ASSUME ClockInv, takeUp PROVE ClockInv' /\ Kept(sla, sla')
  BY HandlerClock, OperationsGood, OnlyCompleteFinishes DEF takeUp, Statuses

LEMMA closeComplaintClock == ASSUME ClockInv, closeComplaint PROVE ClockInv' /\ Kept(sla, sla')
  <1>1. status # "CLOSED"
    BY FinishedStays DEF closeComplaint, Handler, transitionsFrom
  <1>2. sla.state # "COMPLETED"
    BY <1>1 DEF ClockInv
  <1> QED
    BY <1>2, HandlerClock, OperationsGood DEF closeComplaint, Statuses

LEMMA reopenComplaintClock == ASSUME ClockInv, reopenComplaint PROVE ClockInv'
  <1>1. /\ sla' \in SlaTracking /\ SoundClock(sla', now) /\ sla'.state = "RUNNING"
        /\ TrueClock(sla', now, worked', promised') /\ promised' \in Nat /\ worked' = 0
    BY StartGood, OperationsGood DEF reopenComplaint, ClockInv, TypeOK, startTracking
  <1>2. UNCHANGED <<now, reading, rule, overwritten>> /\ status' \in Statuses
    BY DEF reopenComplaint, Statuses
  <1>3. TypeOK'
    BY <1>1, <1>2 DEF ClockInv, TypeOK
  <1> QED
    BY <1>1, <1>2, <1>3, ReadingsStay DEF ClockInv

LEMMA patchRuleClock == ASSUME ClockInv, patchRule PROVE ClockInv' /\ Kept(sla, sla')
  BY StoredGood, OperationsGood DEF patchRule, ClockInv, TypeOK

LEMMA sweepBreachesClock == ASSUME ClockInv, sweepBreaches PROVE ClockInv' /\ Kept(sla, sla')
  BY StoredGood, OperationsGood, OnlyCompleteFinishes DEF sweepBreaches, ClockInv, TypeOK

LEMMA readComplaintClock ==
    ASSUME ClockInv, NEW r \in Readers, readComplaint(r)
    PROVE  ClockInv' /\ Kept(sla, sla')
  <1>1. reading' \in [Readers -> [sla : SlaTracking, at : Time] \cup {Idle}]
    BY OperationsGood DEF readComplaint, ClockInv, TypeOK, Time
  <1>2. TypeOK'
    BY <1>1 DEF readComplaint, ClockInv, TypeOK, history
  <1>3. ASSUME NEW q \in Readers PROVE SoundReading(q)'
    <2>1. CASE q = r
      <3>1. reading'[q].sla = sla /\ reading'[q].at = now /\ now' = now
        BY <2>1 DEF readComplaint, ClockInv, TypeOK
      <3> QED
        BY <3>1, OperationsGood DEF SoundReading, readComplaint
    <2>2. CASE q # r
      BY <2>2 DEF readComplaint, ClockInv, TypeOK, SoundReading
    <2> QED
      BY <2>1, <2>2
  <1> QED
    BY <1>2, <1>3, OperationsGood, Fields DEF ClockInv, readComplaint, history, Kept

(* What is in order stays in order as time goes by.                         *)
LEMMA SoundLater ==
    ASSUME NEW c \in SlaTracking, NEW t \in Nat, NEW u \in Nat, t <= u, SoundClock(c, t)
    PROVE  SoundClock(c, u)
  <1>1. /\ c.pausedAt # None /\ c.pausedAt <= t => c.pausedAt <= u
        /\ c.breachedAt # None /\ c.breachedAt <= t => c.breachedAt <= u
    BY Fields
  <1> QED
    BY <1>1 DEF SoundClock

(* The late save: a breached clock in any case, and the true one if the     *)
(* clock is still what was read.                                            *)
LEMMA saveBreachClock ==
    ASSUME ClockInv, NEW r \in Readers, saveBreach(r)
    PROVE  ClockInv' /\ (Kept(sla, sla') \/ overwritten') /\ sla'.breachedAt # None
  <1> DEFINE c == reading[r].sla
             at == reading[r].at
  <1>1. c \in SlaTracking /\ at \in Nat
    BY DEF saveBreach, ClockInv, TypeOK, Time
  <1>2. at <= now /\ Overdue(c, at) /\ SoundClock(c, at)
    BY DEF saveBreach, ClockInv, SoundReading
  <1>3. now \in Nat
    BY OperationsGood
  <1>4. sla' = applyBreach(c, at)
    BY DEF saveBreach
  <1> HIDE DEF c, at
  <1>5. Good(c, sla', now)
    BY <1>1, <1>2, <1>3, <1>4, SoundLater, BreachGood
  <1>6. sla'.state = "BREACHED" /\ sla'.breachedAt = at
    BY <1>1, <1>2, <1>4 DEF applyBreach, SlaTracking
  <1>7. reading' \in [Readers -> [sla : SlaTracking, at : Time] \cup {Idle}]
    BY DEF saveBreach, ClockInv, TypeOK
  <1>8. TypeOK'
    BY <1>5, <1>7 DEF saveBreach, ClockInv, TypeOK, Good
  <1>9. \A q \in Readers : SoundReading(q)'
    BY DEF saveBreach, ClockInv, TypeOK, SoundReading
  <1>10. ~overwritten' => ~overwritten /\ c = sla
    BY DEF saveBreach, ClockInv, TypeOK, c
  <1>11. ~overwritten' => TrueClock(sla, now, worked, promised)'
    BY <1>5, <1>10 DEF saveBreach, ClockInv, TypeOK, Good
  <1>12. Kept(sla, sla') \/ overwritten'
    BY <1>5, <1>8, <1>10 DEF Good, TypeOK
  <1> QED
    BY <1>1, <1>5, <1>6, <1>8, <1>9, <1>11, <1>12, AbsenceAssumption
    DEF ClockInv, Good, saveBreach

LEMMA TickClock == ASSUME ClockInv, Tick PROVE ClockInv' /\ Kept(sla, sla')
  <1>1. now \in Nat /\ now' = now + 1 /\ sla \in SlaTracking /\ sla' = sla
        /\ worked \in Nat /\ promised \in Nat /\ UNCHANGED <<reading, promised, overwritten, status>>
    BY OperationsGood DEF Tick, ClockInv, TypeOK
  <1>2. TypeOK'
    BY MaxTimeAssumption DEF Tick, ClockInv, TypeOK
  <1>3. SoundClock(sla', now')
    BY <1>1, SoundLater DEF ClockInv
  <1>4. \A r \in Readers : SoundReading(r)'
    <2>1. \A r \in Readers : reading[r] # Idle => reading[r].at \in Nat
      BY DEF ClockInv, TypeOK, Time
    <2> QED
      BY <1>1, <2>1 DEF ClockInv, SoundReading
  <1>5. ~overwritten => TrueClock(sla, now + 1, worked', promised)
    <2>1. worked' = IF sla.state \in {"RUNNING", "BREACHED"} THEN worked + 1 ELSE worked
      BY DEF Tick
    <2> QED
      BY <1>1, <2>1, Fields DEF ClockInv, TrueClock
  <1> QED
    BY <1>1, <1>2, <1>3, <1>4, <1>5, Fields DEF ClockInv, Kept

-----------------------------------------------------------------------------
LEMMA NextClock ==
    ASSUME ClockInv, [Next]_vars
    PROVE  /\ ClockInv'
           /\ Kept(sla, sla') \/ Reopened \/ (overwritten' /\ sla'.breachedAt # None)
  <1>1. CASE UNCHANGED vars
    BY <1>1, StoredGood, OperationsGood DEF vars, history, ClockInv, TypeOK
  <1>2. CASE moveOn
    BY <1>2, moveOnClock
  <1>3. CASE startVisit
    BY <1>3, startVisitClock
  <1>4. CASE putOnHold
    BY <1>4, putOnHoldClock
  <1>5. CASE takeUp
    BY <1>5, takeUpClock
  <1>6. CASE closeComplaint
    BY <1>6, closeComplaintClock
  <1>7. CASE reopenComplaint
    <2>1. Reopened
      BY <1>7, FinishedStays DEF reopenComplaint, Reopened, transitionsFrom
    <2> QED
      BY <1>7, <2>1, reopenComplaintClock
  <1>8. CASE patchRule
    BY <1>8, patchRuleClock
  <1>9. CASE sweepBreaches
    BY <1>9, sweepBreachesClock
  <1>10. ASSUME NEW r \in Readers, readComplaint(r)
         PROVE  ClockInv' /\ Kept(sla, sla')
    BY <1>10, readComplaintClock
  <1>11. ASSUME NEW r \in Readers, saveBreach(r)
         PROVE  /\ ClockInv'
                /\ Kept(sla, sla') \/ (overwritten' /\ sla'.breachedAt # None)
    BY <1>11, saveBreachClock
  <1>12. CASE Tick
    BY <1>12, TickClock
  <1> QED
    BY <1>1, <1>2, <1>3, <1>4, <1>5, <1>6, <1>7, <1>8, <1>9, <1>10, <1>11, <1>12 DEF Next

LEMMA ClockHolds == Spec => []ClockInv
  <1>1. ClockInv /\ [Next]_vars => ClockInv'
    BY NextClock
  <1> QED
    BY InitClock, <1>1, PTL DEF Spec

(* The stored clock and the read a getComplaint still holds always have     *)
(* their shape; a bank of paused time is never negative.                    *)
THEOREM ClockTypes == Spec => []TypeOK
  <1>1. ClockInv => TypeOK
    BY DEF ClockInv
  <1> QED
    BY ClockHolds, <1>1, PTL

(* A breach is on record exactly when it happened: unless a late save undid *)
(* a handler's write, late work is never reported on time nor the reverse.  *)
THEOREM VerdictsAreTrue == Spec => []VerdictIsTrue
  <1>1. ClockInv => VerdictIsTrue
    BY Fields DEF ClockInv, TypeOK, SoundClock, TrueClock, VerdictIsTrue
  <1> QED
    BY ClockHolds, <1>1, PTL

(* What the API shows of the resolution agrees with what reports count.     *)
THEOREM SnapshotsAgree == Spec => []SnapshotAgrees
  <1>1. ASSUME ClockInv PROVE SnapshotAgrees
    <2>1. now \in Nat /\ sla \in SlaTracking /\ SoundClock(sla, now)
      BY <1>1, OperationsGood
    <2> QED
      BY <2>1, Fields DEF SoundClock, SnapshotAgrees, resolutionBreached, reference
  <1> QED
    BY ClockHolds, <1>1, PTL

(* Every page, the dashboards and the reports have the same complaints      *)
(* late, whoever looked last; a centre's page is behind only in its count   *)
(* and cautious only in its rows.                                           *)
THEOREM LateEverywhere == Spec => []LateIsLateEverywhere
  <1>1. ASSUME ClockInv, IsOpen PROVE LateIsLateEverywhere
    <2> DEFINE late == sla.state = "RUNNING" /\ now > sla.resolutionDueAt + sla.pausedTotalMs
    <2>1. /\ now \in Nat /\ sla \in SlaTracking /\ SoundClock(sla, now)
          /\ sla.resolutionDueAt \in Nat /\ sla.pausedTotalMs \in Nat
          /\ sla.state \in {"RUNNING", "PAUSED", "BREACHED"}
      BY <1>1, OperationsGood, Fields DEF ClockInv, IsOpen, TerminalStatuses
    <2>2. /\ sla.state \in {"RUNNING", "PAUSED"} => sla.breachedAt = None
          /\ sla.state = "BREACHED" => sla.breachedAt # None
          /\ sla.completedAt = None
      BY <2>1 DEF SoundClock
    <2>3. /\ Overdue(sla, now) <=> late
          /\ resolutionBreached(sla, now) /\ sla.state = "RUNNING" <=> late
      BY <2>1, <2>2 DEF Overdue, resolutionBreached, reference
    <2>4. /\ late => swept.state = "BREACHED" /\ swept.breachedAt = now /\ now # None
          /\ swept.resolutionDueAt = sla.resolutionDueAt
          /\ swept.pausedTotalMs = sla.pausedTotalMs
          /\ swept.completedAt = sla.completedAt
          /\ ~late => swept = sla
          /\ swept = applyBreach(sla, now)
      BY <1>1, <2>1, <2>3, AbsenceAssumption DEF swept, applyBreach, SlaTracking
    <2>5. sla.state = "BREACHED" => now > sla.resolutionDueAt + sla.pausedTotalMs
      BY <2>1, <2>2, Fields DEF SoundClock
    <2> HIDE DEF late
    <2>6. /\ fromSnapshot(sla) = "late" <=> late \/ sla.state = "BREACHED"
          /\ fromSnapshot(sla) = "paused" <=> sla.state = "PAUSED"
          /\ fromSnapshot(sla) \in {"late", "paused", "left"}
      BY <2>1, <2>2, <2>3, <2>5 DEF fromSnapshot, resolutionBreached, reference
    <2>7. fromSnapshot(swept) = fromSnapshot(sla)
      <3>1. CASE late
        BY <2>1, <2>2, <2>3, <2>4, <2>6, <3>1 DEF fromSnapshot, resolutionBreached, reference, late
      <3>2. CASE ~late
        BY <2>4, <3>2
      <3> QED
        BY <3>1, <3>2
    <2>8. /\ slaBreached <=> late \/ sla.state = "BREACHED"
          /\ wasBreached <=> late \/ sla.state = "BREACHED"
          /\ overdue <=> sla.state = "BREACHED"
      BY <1>1, <2>1, <2>2, <2>4 DEF slaBreached, wasBreached, overdue
    <2>9. /\ DueText = "breached" <=> sla.state = "BREACHED"
          /\ DueText = "paused" <=> sla.state = "PAUSED"
          /\ late => DueText = "overdue"
      BY <2>1 DEF DueText, late
    <2>10. /\ SlaCell(sla) = fromSnapshot(sla) /\ SlaCell(swept) = fromSnapshot(swept)
           /\ SlaCard = fromSnapshot(swept)
      BY <1>1, <2>4 DEF SlaCell, SlaCard
    <2> QED
      BY <2>6, <2>7, <2>8, <2>9, <2>10 DEF LateIsLateEverywhere
  <1>2. ClockInv => LateIsLateEverywhere
    BY <1>1 DEF LateIsLateEverywhere
  <1> QED
    BY ClockHolds, <1>2, PTL

(* Only reopening gives a complaint new due dates.                          *)
THEOREM DeadlinesFrozen == Spec => DeadlinesAreFrozen
  <1>1. ClockInv /\ [Next]_vars
           => [<<sla'.responseDueAt, sla'.resolutionDueAt>>
                    # <<sla.responseDueAt, sla.resolutionDueAt>>
                 => Reopened \/ overwritten']_vars
    BY NextClock DEF Kept
  <1> QED
    BY ClockHolds, <1>1, PTL DEF Spec, DeadlinesAreFrozen

(* What is settled of a response: its moment stands, its deadline can only  *)
(* move away.                                                               *)
LEMMA TimelyKept ==
    ASSUME ClockInv, ClockInv', Kept(sla, sla'), sla.respondedAt # None,
           ~responseBreached(sla, now)
    PROVE  ~responseBreached(sla, now)'
  <1>1. sla \in SlaTracking /\ sla' \in SlaTracking
    BY DEF ClockInv, TypeOK
  <1>2. /\ sla'.respondedAt = sla.respondedAt /\ sla'.responseDueAt = sla.responseDueAt
        /\ sla.pausedTotalMs <= sla'.pausedTotalMs
    BY DEF Kept
  <1>3. ~(sla.respondedAt > sla.responseDueAt + sla.pausedTotalMs)
    BY DEF responseBreached
  <1>4. ~(sla'.respondedAt > sla'.responseDueAt + sla'.pausedTotalMs)
    BY <1>1, <1>2, <1>3, Fields
  <1> QED
    BY <1>2, <1>4 DEF responseBreached

(* A timely first response stays timely. (The reverse does not hold: a hold *)
(* after a late one lengthens its deadline too, sla.ts 151.)                *)
THEOREM TimelyResponsesStand == Spec => TimelyResponseStands
  <1>1. ClockInv /\ [Next]_vars
           => [sla.respondedAt # None /\ ~responseBreached(sla, now) /\ responseBreached(sla, now)'
                 => Reopened \/ overwritten']_vars
    BY NextClock, TimelyKept
  <1> QED
    BY ClockHolds, <1>1, PTL DEF Spec, TimelyResponseStands

(* No handler and no late save takes a breach off the record.               *)
THEOREM BreachesStandForGood == Spec => BreachesStand
  <1>1. ClockInv /\ [Next]_vars
           => [sla.breachedAt # None /\ sla'.breachedAt = None => Reopened]_vars
    BY NextClock DEF Kept
  <1> QED
    BY ClockHolds, <1>1, PTL DEF Spec, BreachesStand
=============================================================================
