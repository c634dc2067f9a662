----------------------------- MODULE PartsStock -----------------------------
(* Parts on one complaint, and the stock they come from, when transactions  *)
(* overlap: parts.service.ts, with the handlers of workflow.service.ts that *)
(* move, end and reopen the complaint. One part, stocked at every centre.   *)
(*                                                                          *)
(* A transaction of the database reads the snapshot of its beginning, sees  *)
(* nothing committed since, and may not write a document somebody else has  *)
(* written since: it is then run again from a new snapshot. What it only    *)
(* reads is not protected. Handlers here are one step at their commit,      *)
(* judging by the snapshot; that they are reached at all is `begin`.        *)
EXTENDS Integers, FiniteSets

CONSTANTS Absent,
          Centres,
          RequestIds,    \* part requests that may be raised
          UsageIds,      \* usage lines that may be recorded
          Workers,       \* transactions that may be open at one time
          MaxQuantity,   \* bound: parts on one usage line
          MaxStock       \* bound: parts in stock at a centre

ASSUME BoundsAssumption == MaxQuantity \in Nat /\ MaxStock \in Nat
ASSUME NotAnIdAssumption == Absent \notin Centres
ASSUME LinesAssumption == IsFiniteSet(UsageIds)

VARIABLES complaint,   \* what the parts service asks of the complaint
          requests,    \* its part requests
          usage,       \* its usage lines
          late,        \* lines created after the complaint ended, while it is ended
          stock,       \* availableQuantity at each centre
          open,        \* the open transactions
          counted      \* history: stock at each centre had nothing been used
stockVars == <<complaint, requests, usage, late, stock, open, counted>>
records == <<complaint, requests, usage, late>>

(* "ENDED" is CLOSED or CANCELLED, "OPEN" any other status. technicianId    *)
(* counts as set or not, and visited says there is a visit usage can be     *)
(* booked on.                                                               *)
Complaint == [status : {"OPEN", "ENDED"}, serviceCenterId : Centres,
              technicianId : BOOLEAN, visited : BOOLEAN]

PartRequest == [status : {"UNUSED", "REQUESTED", "APPROVED", "ISSUED",
                          "UNAVAILABLE", "REJECTED", "CANCELLED"},
                serviceCenterId : Centres \cup {Absent}]

PartUsage == [status : {"UNUSED", "RECORDED", "FINALIZED"},
              serviceCenterId : Centres \cup {Absent}, quantity : 0..MaxQuantity]

WAITING_REQUEST_STATUSES == {"REQUESTED", "APPROVED"}
COMMITS_A_PART == {"APPROVED", "ISSUED"}
DECISION_STATUSES == {"APPROVED", "ISSUED", "UNAVAILABLE", "REJECTED", "CANCELLED"}

-----------------------------------------------------------------------------
(* Transactions (MongoDB, as inTransaction and withTransaction use it).     *)
ComplaintDocument == {<<"complaint">>}
Request(r) == <<"request", r>>
Line(u) == <<"usage", u>>
Shelf(c) == <<"stock", c>>
Documents == ComplaintDocument \cup {Request(r) : r \in RequestIds}
                 \cup {Line(u) : u \in UsageIds} \cup {Shelf(c) : c \in Centres}

(* Of its snapshot a transaction keeps what a handler reads and does not    *)
(* write; stale are the documents written since.                            *)
Transaction == [complaint : Complaint, requests : [RequestIds -> PartRequest],
                late : SUBSET UsageIds, stale : SUBSET Documents]

begin(w) ==
    /\ open[w] = Absent
    /\ open' = [open EXCEPT ![w] = [complaint |-> complaint, requests |-> requests,
                                    late |-> late, stale |-> {}]]
    /\ UNCHANGED <<records, stock, counted>>

(* The handler refuses, or its writes conflict: nothing is kept.            *)
abort(w) ==
    /\ open[w] # Absent
    /\ open' = [open EXCEPT ![w] = Absent]
    /\ UNCHANGED <<records, stock, counted>>

OpenAfter(w, documents) ==
    [o \in Workers |-> IF o = w \/ open[o] = Absent THEN Absent
                       ELSE [open[o] EXCEPT !.stale = @ \cup documents]]

(* Worker w writes these documents and commits.                             *)
commits(w, documents) ==
    /\ open[w] # Absent
    /\ documents \cap open[w].stale = {}
    /\ open' = OpenAfter(w, documents)

-----------------------------------------------------------------------------
(* The complaint's side (workflow.service.ts)                               *)
Waiting(w) == {r \in RequestIds : open[w].requests[r].status \in WAITING_REQUEST_STATUSES}

(* A centre corrected while ASSIGNED, when no technician is on the job,     *)
(* withdraws nothing; any other move drops the technician and withdraws the *)
(* waiting requests it sees. Whether a visit that can be booked on (a       *)
(* completed one) is left is open.                                          *)
assignServiceCenter(w, centre) ==
    \E inPlace, visitLeft \in BOOLEAN :
        LET withdrawn == IF inPlace THEN {} ELSE Waiting(w)
        IN  /\ commits(w, ComplaintDocument \cup {Request(r) : r \in withdrawn})
            /\ open[w].complaint.status = "OPEN"
            /\ open[w].complaint.serviceCenterId # centre
            /\ inPlace => ~open[w].complaint.technicianId
            /\ visitLeft => open[w].complaint.visited
            /\ complaint' = [open[w].complaint EXCEPT !.serviceCenterId = centre,
                                                      !.technicianId = FALSE,
                                                      !.visited = visitLeft]
            /\ requests' = [r \in RequestIds |->
                              IF r \in withdrawn
                              THEN [open[w].requests[r] EXCEPT !.status = "CANCELLED"]
                              ELSE requests[r]]
            /\ UNCHANGED <<usage, late, stock, counted>>

assignTechnician(w) ==
    /\ commits(w, ComplaintDocument)
    /\ open[w].complaint.status = "OPEN"
    /\ complaint' = [open[w].complaint EXCEPT !.technicianId = TRUE]
    /\ UNCHANGED <<requests, usage, late, stock, counted>>

startVisit(w) ==
    /\ commits(w, ComplaintDocument)
    /\ open[w].complaint.status = "OPEN" /\ open[w].complaint.technicianId
    /\ complaint' = [open[w].complaint EXCEPT !.visited = TRUE]
    /\ UNCHANGED <<requests, usage, late, stock, counted>>

(* closeComplaint, cancelComplaint and the two handlers that close with a   *)
(* code. Lines recorded so far were created before the end (one recorded    *)
(* while this ran may be stamped a moment after; it is taken as in time).   *)
endComplaint(w) ==
    /\ commits(w, ComplaintDocument)
    /\ open[w].complaint.status = "OPEN"
    /\ complaint' = [open[w].complaint EXCEPT !.status = "ENDED"]
    /\ late' = {}
    /\ UNCHANGED <<requests, usage, stock, counted>>

reopenComplaint(w) ==
    /\ commits(w, ComplaintDocument)
    /\ open[w].complaint.status = "ENDED"
    /\ complaint' = [open[w].complaint EXCEPT !.status = "OPEN"]
    /\ late' = {}
    /\ UNCHANGED <<requests, usage, stock, counted>>

-----------------------------------------------------------------------------
(* Requests and usage lines (parts.service.ts)                              *)
createPartRequest(w, r) ==
    /\ requests[r].status = "UNUSED"
    /\ commits(w, {Request(r)})
    /\ open[w].complaint.status = "OPEN" /\ open[w].complaint.technicianId
    /\ requests' = [requests EXCEPT ![r] =
                      [status |-> "REQUESTED",
                       serviceCenterId |-> open[w].complaint.serviceCenterId]]
    /\ UNCHANGED <<complaint, usage, late, stock, counted>>

(* The Owner of centre c may decide: the request and the complaint are his. *)
MayDecide(w, c, r, decision) ==
    /\ open[w].requests[r].serviceCenterId = c
    /\ open[w].complaint.serviceCenterId = c
    /\ open[w].requests[r].status \in WAITING_REQUEST_STATUSES
    /\ ~(open[w].complaint.status = "ENDED" /\ decision \in COMMITS_A_PART)

(* Mutant: the request is saved outside the session.                        *)
decideOutsideSession(w, c, r, decision) ==
    /\ open[w] # Absent /\ open' = OpenAfter(w, {Request(r)})
    /\ MayDecide(w, c, r, decision)
    /\ requests' = [requests EXCEPT ![r].status = decision]
    /\ UNCHANGED <<complaint, usage, late, stock, counted>>

decidePartRequest(w, c, r, decision) ==
    /\ commits(w, {Request(r)})
    /\ MayDecide(w, c, r, decision)
    /\ requests' = [requests EXCEPT ![r].status = decision]
    /\ UNCHANGED <<complaint, usage, late, stock, counted>>

(* A line recorded while the complaint ended beside it may be stamped after *)
(* the end or before.                                                       *)
recordUsage(w, u, quantity) ==
    /\ usage[u].status = "UNUSED"
    /\ commits(w, {Line(u)})
    /\ open[w].complaint.status = "OPEN"
    /\ open[w].complaint.technicianId /\ open[w].complaint.visited
    /\ usage' = [usage EXCEPT ![u] = [status |-> "RECORDED", quantity |-> quantity,
                                      serviceCenterId |-> open[w].complaint.serviceCenterId]]
    /\ \/ late' = late
       \/ complaint.status = "ENDED" /\ late' = late \cup {u}
    /\ UNCHANGED <<complaint, requests, stock, counted>>

(* Stock and line, in one transaction.                                      *)
Deduct(w, u) ==
    LET c == usage[u].serviceCenterId
    IN  /\ commits(w, {Line(u), Shelf(c)})
        /\ stock[c] >= usage[u].quantity
        /\ stock' = [stock EXCEPT ![c] = @ - usage[u].quantity]
        /\ usage' = [usage EXCEPT ![u].status = "FINALIZED"]
        /\ UNCHANGED <<complaint, requests, late, counted>>

RecordedAfterTheEnd(w, u) == open[w].complaint.status = "ENDED" /\ u \in open[w].late

(* Mutant: a finalised line is not refused.                                 *)
finalizeAgain(w, u) ==
    usage[u].status # "UNUSED" /\ Deduct(w, u) /\ ~RecordedAfterTheEnd(w, u)

finalizeUsage(w, u) ==
    /\ usage[u].status = "RECORDED"
    /\ Deduct(w, u)
    /\ ~RecordedAfterTheEnd(w, u)

-----------------------------------------------------------------------------
(* Stock: single updates, each atomic, outside any transaction.             *)
writesShelf(c, quantity) ==
    /\ stock' = [stock EXCEPT ![c] = quantity]
    /\ counted' = [counted EXCEPT ![c] = @ + (quantity - stock[c])]
    /\ open' = OpenAfter(Absent, {Shelf(c)})
    /\ UNCHANGED records

setStock(c, availableQuantity) == writesShelf(c, availableQuantity)

adjustStock(c, delta) ==
    /\ delta < 0 => stock[c] >= -delta
    /\ stock[c] + delta <= MaxStock   \* bound
    /\ writesShelf(c, stock[c] + delta)

-----------------------------------------------------------------------------
(* The parts report (reports.service.ts): an Owner's is of his own centre,  *)
(* Admin's of all, with a row for each. No dates narrow it here, and jobs   *)
(* are one or none: there is one complaint.                                 *)
usageBy(centres) == {u \in UsageIds : /\ usage[u].status = "FINALIZED"
                                      /\ usage[u].serviceCenterId \in centres}

requestsBy(centres, statuses) == {r \in RequestIds : /\ requests[r].status \in statuses
                                                     /\ requests[r].serviceCenterId \in centres}

(* Quantities are summed part by part.                                      *)
Parts(ids, quantity) == UNION {{x} \X (1..quantity[x]) : x \in ids}

partsReport(centres) ==
    [used |-> Cardinality(Parts(usageBy(centres), [u \in UsageIds |-> usage[u].quantity])),
     jobs |-> IF usageBy(centres) = {} THEN 0 ELSE 1,
     inStock |-> Cardinality(Parts(centres, stock)),
     requested |-> Cardinality(requestsBy(centres, DECISION_STATUSES \cup {"REQUESTED"})),
     unavailable |-> Cardinality(requestsBy(centres, {"UNAVAILABLE"}))]

-----------------------------------------------------------------------------
StockInit ==
    /\ complaint \in [status : {"OPEN"}, serviceCenterId : Centres,
                      technicianId : {FALSE}, visited : {FALSE}]
    /\ requests = [r \in RequestIds |-> [status |-> "UNUSED", serviceCenterId |-> Absent]]
    /\ usage = [u \in UsageIds |-> [status |-> "UNUSED", serviceCenterId |-> Absent,
                                    quantity |-> 0]]
    /\ late = {}
    /\ stock = [c \in Centres |-> 0]
    /\ open = [w \in Workers |-> Absent]
    /\ counted = stock

WorkflowSteps(w) ==
    \/ \E c \in Centres : assignServiceCenter(w, c)
    \/ assignTechnician(w) \/ startVisit(w) \/ endComplaint(w) \/ reopenComplaint(w)

PartsSteps(w) ==
    \/ \E r \in RequestIds :
          \/ createPartRequest(w, r)
          \/ \E c \in Centres, decision \in DECISION_STATUSES :
                decidePartRequest(w, c, r, decision)
    \/ \E u \in UsageIds :
          \/ \E quantity \in 1..MaxQuantity : recordUsage(w, u, quantity)
          \/ finalizeUsage(w, u)

StockSteps == \E c \in Centres :
    \/ \E quantity \in 0..MaxStock : setStock(c, quantity)
    \/ \E delta \in (-MaxStock..MaxStock) \ {0} : adjustStock(c, delta)

StockNext ==
    \/ \E w \in Workers : begin(w) \/ abort(w) \/ WorkflowSteps(w) \/ PartsSteps(w)
    \/ StockSteps

StockSpec == StockInit /\ [][StockNext]_stockVars

-----------------------------------------------------------------------------
StockTypeOK ==
    /\ complaint \in Complaint
    /\ requests \in [RequestIds -> PartRequest]
    /\ usage \in [UsageIds -> PartUsage]
    /\ late \subseteq UsageIds
    /\ stock \in [Centres -> 0..MaxStock]
    /\ open \in [Workers -> Transaction \cup {Absent}]
    /\ counted \in [Centres -> Int]

(* Stock is decremented when usage is finalised, once for each line and by  *)
(* its quantity, whatever deliveries, counts and finalisations overlap: at  *)
(* each centre what the parts report gives as used is what left the shelf.  *)
StockIsAccountedFor ==
    \A c \in Centres : LET row == partsReport({c})
                       IN  row.inStock = stock[c] /\ stock[c] = counted[c] - row.used

(* What was decided stays: no request is decided or withdrawn twice, though *)
(* several callers saw it waiting.                                          *)
DecisionsStand ==
    [][\A r \in RequestIds :
          requests[r].status \notin WAITING_REQUEST_STATUSES \cup {"UNUSED"}
             => requests'[r] = requests[r]]_stockVars

(* A line recorded after the complaint ended never reaches stock while the  *)
(* complaint is ended (finalizeUsage, 870-893).                             *)
LateLinesStayOut ==
    [][\A u \in UsageIds :
          usage[u].status = "RECORDED" /\ usage'[u].status = "FINALIZED"
             => ~(complaint.status = "ENDED" /\ u \in late)]_stockVars

(* A move withdraws the old centre's waiting requests, so that none stays   *)
(* in a queue whose Owner cannot decide it (withdrawCentreWork). A request  *)
(* raised beside the move is not seen by it, and does.                      *)
WaitingRequestsAreHeld ==
    \A r \in RequestIds :
        requests[r].status \in WAITING_REQUEST_STATUSES
            => requests[r].serviceCenterId = complaint.serviceCenterId

-----------------------------------------------------------------------------
(* The requests as the ledger has them.                                     *)
Asked == [r \in RequestIds |->
             [status |-> IF requests[r].status \in WAITING_REQUEST_STATUSES THEN "WAITING"
                         ELSE requests[r].status,
              serviceCenterId |-> requests[r].serviceCenterId]]

Ledger == INSTANCE PartsLedger WITH None <- Absent, asked <- Asked, lines <- usage,
                                    barred <- late, shelf <- stock

(* Though each transaction judges by a snapshot that others have overtaken, *)
(* what they leave is what one clerk would have left doing one thing at a   *)
(* time: a request is answered while it waits and by its centre, a move     *)
(* calls off only what still waits, a line is deducted once, while nothing  *)
(* bars it and from a shelf that has its parts (parts.service, every        *)
(* handler; withdrawCentreWork).                                            *)
KeepsLedger == Ledger!Spec
=============================================================================
