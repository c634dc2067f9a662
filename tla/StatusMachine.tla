--------------------------- MODULE StatusMachine ---------------------------
(* The complaint lifecycle of core/statusMachine.ts: the statuses, the      *)
(* roles, the table of permitted moves and the check every handler makes    *)
(* before it moves a complaint. Messages and labels are left out; a rule    *)
(* keeps what decides a move: from, to, roles, preconditions, reason.       *)
CONSTANT None       \* an absent reference

Statuses == {"NEW", "ASSIGNED", "TECHNICIAN_ASSIGNED", "VISIT_SCHEDULED",
             "IN_PROGRESS", "WAITING_FOR_PARTS", "REVISIT_REQUIRED",
             "RESOLUTION_SUBMITTED", "ADMIN_CONFIRMATION", "REOPENED",
             "CLOSED", "CANCELLED"}

TerminalStatuses == {"CLOSED", "CANCELLED"}

ADMIN == "ADMIN"
OWNER == "SERVICE_CENTER_OWNER"
TECHNICIAN == "TECHNICIAN"
Roles == {ADMIN, OWNER, TECHNICIAN}

Requirements ==
    {"SERVICE_CENTER_ASSIGNED", "TECHNICIAN_ASSIGNED", "HAPPY_CODE_VERIFIED"}

-----------------------------------------------------------------------------
Rule(from, to, roles, requires, requiresReason) ==
    [from |-> from, to |-> to, roles |-> roles, requires |-> requires,
     requiresReason |-> requiresReason]

CANCELLABLE_FROM == Statuses \ TerminalStatuses

cancellationRules ==
    {Rule(from, "CANCELLED", {ADMIN}, {}, TRUE) : from \in CANCELLABLE_FROM}

(* Mutant: the list as it was before the pre-launch review, which left a    *)
(* started job at a deactivated centre nowhere to go.                       *)
ReassignableBeforeStartOnly == {"TECHNICIAN_ASSIGNED", "VISIT_SCHEDULED"}

CENTRE_REASSIGNABLE_FROM ==
    {"TECHNICIAN_ASSIGNED", "VISIT_SCHEDULED", "IN_PROGRESS",
     "WAITING_FOR_PARTS", "REVISIT_REQUIRED", "RESOLUTION_SUBMITTED"}

centreReassignmentRules ==
    {Rule(from, "ASSIGNED", {ADMIN}, {"SERVICE_CENTER_ASSIGNED"}, TRUE)
        : from \in CENTRE_REASSIGNABLE_FROM}

HasCentre == {"SERVICE_CENTER_ASSIGNED"}
HasTechnician == {"TECHNICIAN_ASSIGNED"}
Verified == {"HAPPY_CODE_VERIFIED"}

TRANSITIONS ==
    {Rule("NEW", "ASSIGNED", {ADMIN}, HasCentre, FALSE),
     Rule("ASSIGNED", "TECHNICIAN_ASSIGNED", {OWNER}, HasTechnician, FALSE),
     Rule("TECHNICIAN_ASSIGNED", "VISIT_SCHEDULED", {OWNER}, HasTechnician, FALSE),
     Rule("VISIT_SCHEDULED", "TECHNICIAN_ASSIGNED", {OWNER, ADMIN}, HasTechnician, TRUE),
     Rule("VISIT_SCHEDULED", "IN_PROGRESS", {TECHNICIAN}, {}, FALSE),
     Rule("IN_PROGRESS", "RESOLUTION_SUBMITTED", {TECHNICIAN}, {}, FALSE),
     Rule("IN_PROGRESS", "CLOSED", {TECHNICIAN}, Verified, FALSE),
     Rule("IN_PROGRESS", "WAITING_FOR_PARTS", {OWNER, TECHNICIAN}, {}, TRUE),
     Rule("WAITING_FOR_PARTS", "IN_PROGRESS", {OWNER, TECHNICIAN}, {}, FALSE),
     Rule("WAITING_FOR_PARTS", "VISIT_SCHEDULED", {OWNER}, HasTechnician, FALSE),
     Rule("IN_PROGRESS", "VISIT_SCHEDULED", {OWNER}, HasTechnician, TRUE),
     Rule("RESOLUTION_SUBMITTED", "ADMIN_CONFIRMATION", {OWNER}, {}, FALSE),
     Rule("RESOLUTION_SUBMITTED", "REVISIT_REQUIRED", {OWNER}, {}, TRUE),
     Rule("RESOLUTION_SUBMITTED", "CLOSED", {OWNER}, Verified, FALSE),
     Rule("IN_PROGRESS", "CLOSED", {OWNER}, Verified, FALSE),
     Rule("REVISIT_REQUIRED", "VISIT_SCHEDULED", {OWNER}, HasTechnician, FALSE),
     Rule("ADMIN_CONFIRMATION", "CLOSED", {ADMIN}, Verified, FALSE),
     Rule("RESOLUTION_SUBMITTED", "CLOSED", {ADMIN}, {}, FALSE),
     Rule("ADMIN_CONFIRMATION", "REVISIT_REQUIRED", {ADMIN}, {}, TRUE),
     Rule("CLOSED", "REOPENED", {ADMIN}, {}, TRUE),
     Rule("CANCELLED", "REOPENED", {ADMIN}, {}, TRUE),
     Rule("REOPENED", "TECHNICIAN_ASSIGNED", {OWNER}, HasTechnician, FALSE),
     Rule("REOPENED", "ASSIGNED", {ADMIN}, HasCentre, FALSE),
     Rule("VISIT_SCHEDULED", "TECHNICIAN_ASSIGNED", {OWNER}, {}, TRUE)}
    \cup centreReassignmentRules \cup cancellationRules

-----------------------------------------------------------------------------
(* A view is a record with the fields status, serviceCenterId, technicianId *)
(* and happyCodeVerifiedAt: what a caller must know to judge a move.        *)
meetsRequirement(requirement, view) ==
    \/ requirement = "SERVICE_CENTER_ASSIGNED" /\ view.serviceCenterId # None
    \/ requirement = "TECHNICIAN_ASSIGNED" /\ view.technicianId # None
    \/ requirement = "HAPPY_CODE_VERIFIED" /\ view.happyCodeVerifiedAt # None

transitionsFrom(status) == {rule \in TRANSITIONS : rule.from = status}

Ready(rule, view) == \A req \in rule.requires : meetsRequirement(req, view)

availableTransitions(view, role) ==
    {rule \in transitionsFrom(view.status) : role \in rule.roles /\ Ready(rule, view)}

(* Mutant: preconditions are no longer looked at.                           *)
assertTransitionUnprepared(view, to, role, reason) ==
    \E rule \in transitionsFrom(view.status) :
        rule.to = to /\ role \in rule.roles /\ (rule.requiresReason => reason)

(* The move is in the table for this role, its preconditions hold and a     *)
(* reason was typed where one is asked for. The code takes the first rule   *)
(* whose preconditions hold and only then looks at the reason; every two    *)
(* rules of one move and role agree on the reason (ReasonAgrees), so taking *)
(* any is the same. No rule has from = to, so the code's first check (the   *)
(* status is already `to`) refuses nothing the table would let through.     *)
assertTransition(view, to, role, reason) ==
    \E rule \in availableTransitions(view, role) :
        rule.to = to /\ (rule.requiresReason => reason)

(* Two rules of one move that share a role agree on whether a reason is     *)
(* needed, and no rule keeps the status.                                    *)
ReasonAgrees ==
    \A r, s \in TRANSITIONS :
        /\ r.from # r.to
        /\ (r.from = s.from /\ r.to = s.to /\ r.roles \cap s.roles # {})
              => r.requiresReason = s.requiresReason
=============================================================================
