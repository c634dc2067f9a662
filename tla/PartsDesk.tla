------------------------------ MODULE PartsDesk ------------------------------
(* The pages parts are asked for, answered and confirmed on: the Owner's    *)
(* Parts & Inventory page (center/PartsPage.tsx), the two parts cards of    *)
(* his complaint page, and the parts step of the technician's visit. Each   *)
(* shows the data as it stands, and what is pressed is judged by a          *)
(* transaction that begins now.                                             *)
EXTENDS PartsStock

(* What PartsStock does not keep: whether the part is retired, where it has *)
(* a stock row (made by its first count or delivery), and whether the       *)
(* complaint shows its centre a piece of submitted work.                    *)
Setting == [retired : BOOLEAN, stocked : SUBSET Centres, submitted : BOOLEAN]

Settings == {s \in Setting : \A c \in Centres :
                stock[c] > 0 \/ usageBy({c}) # {} => c \in s.stocked}

ended == complaint.status = "ENDED"

(* The Owner of c opens the complaint's page only while it is his.          *)
OpensComplaint(c) == complaint.serviceCenterId = c

-----------------------------------------------------------------------------
(* The Requests tab. Its list is of the requests raised at the centre.      *)
REQUEST_FILTERS == [waiting |-> WAITING_REQUEST_STATUSES, issued |-> {"ISSUED"},
                    unavailable |-> {"UNAVAILABLE"},
                    all |-> DECISION_STATUSES \cup {"REQUESTED"}]

listPartRequests(c, filter) == requestsBy({c}, REQUEST_FILTERS[filter])

(* Mutant: the buttons do not look at the job.                              *)
actionsWhateverTheJob(r) ==
    {d \in {"APPROVED", "ISSUED", "UNAVAILABLE", "REJECTED"} :
        /\ requests[r].status \in WAITING_REQUEST_STATUSES
        /\ d = "APPROVED" => requests[r].status = "REQUESTED"}

(* The buttons beside a request. A reason is asked for where one is needed, *)
(* and a quantity of at least one to issue.                                 *)
PartRequestActions(r) ==
    {d \in {"APPROVED", "ISSUED", "UNAVAILABLE", "REJECTED"} :
        /\ requests[r].status \in WAITING_REQUEST_STATUSES
        /\ d = "APPROVED" => requests[r].status = "REQUESTED"
        /\ d \in COMMITS_A_PART => ~ended}

(* The same requests on the complaint's page, while the Owner has it.       *)
PartRequestsCard(c) == IF OpensComplaint(c) THEN listPartRequests(c, "all") ELSE {}

-----------------------------------------------------------------------------
(* The parts used, shown with the submitted work: the lines of the centre,  *)
(* each with a button while it can still be confirmed.                      *)
listUsage(c) == {u \in UsageIds : usage[u].status # "UNUSED" /\ usage[u].serviceCenterId = c}

canConfirm(u) == usage[u].status = "RECORDED" /\ ~(ended /\ u \in late)

PartsUsed(c, setting) ==
    IF OpensComplaint(c) /\ setting.submitted THEN {u \in listUsage(c) : canConfirm(u)} ELSE {}

(* The Stock tab: a row for each part stocked, which takes deliveries;      *)
(* parts still sold that have no row can be added.                          *)
StockTab(c, setting) == IF c \in setting.stocked THEN {"receive", "count"} ELSE {}

AddStockDialog(c, setting) == c \notin setting.stocked /\ ~setting.retired

(* Enough for one line, by a delivery or by a first count.                  *)
Supplies(c, u, setting) ==
    \/ "receive" \in StockTab(c, setting) /\ adjustStock(c, usage[u].quantity - stock[c])
    \/ AddStockDialog(c, setting) /\ setStock(c, usage[u].quantity)

-----------------------------------------------------------------------------
(* The technician's parts step, while his visit is under way. He picks from *)
(* the parts not retired.                                                   *)
PartsStep(setting) ==
    /\ ~ended /\ complaint.technicianId /\ complaint.visited
    /\ ~setting.retired

-----------------------------------------------------------------------------
(* Worker w has just begun: its snapshot is what is there.                  *)
Fresh(w) == open[w] = [complaint |-> complaint, requests |-> requests,
                       late |-> late, stale |-> {}]

(* The desk offers what the server accepts ("Same rule as the centre's      *)
(* Requests queue", center/ComplaintDetailPage.tsx 1021-1023; "mirroring    *)
(* the server's own check in finalizeUsage", 930-938): of the requests and  *)
(* lines of a centre that holds the complaint, the buttons shown are those  *)
(* that would succeed now and there is one for each that would, but for     *)
(* approving twice and withdrawing, which no page does. A line that lacks   *)
(* stock can be supplied with it, unless its part was retired before the    *)
(* centre stocked any. What is picked on the phone can be asked for and     *)
(* recorded.                                                                *)
DeskOffersWhatIsAccepted ==
    \A w \in Workers, c \in Centres : Fresh(w) =>
      /\ \A r \in PartRequestsCard(c), d \in DECISION_STATUSES :
            \/ d = "CANCELLED"
            \/ d = "APPROVED" /\ requests[r].status = "APPROVED"
            \/ d \in PartRequestActions(r) <=> ENABLED decidePartRequest(w, c, r, d)
      /\ \A setting \in Settings :
            /\ \A u \in listUsage(c) :
                  /\ OpensComplaint(c) /\ setting.submitted /\ stock[c] >= usage[u].quantity
                       => (u \in PartsUsed(c, setting) <=> ENABLED finalizeUsage(w, u))
                  /\ u \in PartsUsed(c, setting) /\ stock[c] < usage[u].quantity
                       => \/ ENABLED Supplies(c, u, setting)
                          \/ setting.retired /\ c \notin setting.stocked
            /\ PartsStep(setting) =>
                  /\ \A r \in RequestIds : \/ requests[r].status # "UNUSED"
                                           \/ ENABLED createPartRequest(w, r)
                  /\ \A u \in UsageIds : \/ usage[u].status # "UNUSED"
                                         \/ ENABLED recordUsage(w, u, MaxQuantity)
=============================================================================
