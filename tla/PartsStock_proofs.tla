-------------------------- MODULE PartsStock_proofs --------------------------
(* Decisions, late usage lines and the account of the stock, under          *)
(* overlapping transactions, for any number of each.                        *)
EXTENDS PartsStock, TLAPS, FiniteSetTheorems

(* A document nobody has written since is still as the snapshot has it, and *)
(* so is the lateness of a line.                                            *)
SnapshotCurrent(w) ==
    open[w] # Absent =>
      /\ ComplaintDocument \cap open[w].stale = {} => open[w].complaint = complaint
      /\ \A r \in RequestIds :
            Request(r) \notin open[w].stale => open[w].requests[r] = requests[r]
      /\ \A u \in UsageIds :
            u \in late /\ Line(u) \notin open[w].stale => RecordedAfterTheEnd(w, u)

UsageHeld == \A u \in UsageIds : usage[u].status # "UNUSED" => usage[u].serviceCenterId \in Centres

LateHasEnded == late # {} => complaint.status = "ENDED"

StockInv ==
    /\ StockTypeOK
    /\ UsageHeld
    /\ LateHasEnded
    /\ \A w \in Workers : SnapshotCurrent(w)

-----------------------------------------------------------------------------
LEMMA DocumentTypes ==
    /\ ComplaintDocument \subseteq Documents
    /\ \A r \in RequestIds : Request(r) \in Documents
    /\ \A u \in UsageIds : Line(u) \in Documents
    /\ \A c \in Centres : Shelf(c) \in Documents
  BY Zenon DEF Documents

(* What a write of some documents leaves of the open transactions.          *)
LEMMA OthersAfter ==
    ASSUME StockTypeOK, NEW w, NEW documents \in SUBSET Documents,
           open' = OpenAfter(w, documents)
    PROVE  /\ open' \in [Workers -> Transaction \cup {Absent}]
           /\ \A o \in Workers : open'[o] # Absent =>
                 /\ open[o] # Absent
                 /\ open'[o].complaint = open[o].complaint
                 /\ open'[o].requests = open[o].requests
                 /\ open'[o].late = open[o].late
                 /\ open'[o].stale = open[o].stale \cup documents
  <1>1. ASSUME NEW o \in Workers, open[o] # Absent
        PROVE  /\ [open[o] EXCEPT !.stale = @ \cup documents] \in Transaction
               /\ [open[o] EXCEPT !.stale = @ \cup documents].complaint = open[o].complaint
               /\ [open[o] EXCEPT !.stale = @ \cup documents].requests = open[o].requests
               /\ [open[o] EXCEPT !.stale = @ \cup documents].late = open[o].late
               /\ [open[o] EXCEPT !.stale = @ \cup documents].stale
                     = open[o].stale \cup documents
    <2>1. open[o] \in Transaction
      BY <1>1 DEF StockTypeOK
    <2> QED
      BY <2>1 DEF Transaction
  <1>2. \A o \in Workers :
           open'[o] = IF o = w \/ open[o] = Absent THEN Absent
                      ELSE [open[o] EXCEPT !.stale = @ \cup documents]
    BY DEF OpenAfter
  <1>3. \A o \in Workers : open'[o] # Absent =>
           open[o] # Absent /\ open'[o] = [open[o] EXCEPT !.stale = @ \cup documents]
    BY <1>2
  <1>4. \A o \in Workers : open'[o] \in Transaction \cup {Absent}
    BY <1>1, <1>3
  <1>5. open' \in [Workers -> Transaction \cup {Absent}]
    BY <1>4 DEF OpenAfter
  <1> QED
    BY <1>1, <1>3, <1>5

(* A step that names every document it writes keeps the snapshots current.  *)
LEMMA SnapshotsKept ==
    ASSUME StockTypeOK, \A o \in Workers : SnapshotCurrent(o),
           NEW w, NEW documents \in SUBSET Documents,
           open' = OpenAfter(w, documents),
           complaint' = complaint \/ ComplaintDocument \subseteq documents,
           \A r \in RequestIds : requests'[r] = requests[r] \/ Request(r) \in documents,
           \A u \in UsageIds : u \in late' => u \in late \/ Line(u) \in documents
    PROVE  \A o \in Workers : SnapshotCurrent(o)'
  <1> SUFFICES ASSUME NEW o \in Workers, open'[o] # Absent
               PROVE  /\ ComplaintDocument \cap open'[o].stale = {}
                            => open'[o].complaint = complaint'
                      /\ \A r \in RequestIds : Request(r) \notin open'[o].stale
                            => open'[o].requests[r] = requests'[r]
                      /\ \A u \in UsageIds :
                            u \in late' /\ Line(u) \notin open'[o].stale
                               => open'[o].complaint.status = "ENDED" /\ u \in open'[o].late
    BY Zenon DEF SnapshotCurrent, RecordedAfterTheEnd, Request, Line, ComplaintDocument
  <1>1. /\ open[o] # Absent
        /\ open'[o].complaint = open[o].complaint
        /\ open'[o].requests = open[o].requests
        /\ open'[o].late = open[o].late
        /\ open'[o].stale = open[o].stale \cup documents
    BY OthersAfter
  <1>2. /\ ComplaintDocument \cap open[o].stale = {} => open[o].complaint = complaint
        /\ \A r \in RequestIds :
              Request(r) \notin open[o].stale => open[o].requests[r] = requests[r]
        /\ \A u \in UsageIds : u \in late /\ Line(u) \notin open[o].stale
              => open[o].complaint.status = "ENDED" /\ u \in open[o].late
    BY <1>1, Zenon DEF SnapshotCurrent, RecordedAfterTheEnd
  <1>3. ComplaintDocument # {}
    BY DEF ComplaintDocument
  <1>4. ComplaintDocument \cap open'[o].stale = {} => open'[o].complaint = complaint'
    BY <1>1, <1>2, <1>3
  <1>5. \A r \in RequestIds : Request(r) \notin open'[o].stale
                                => open'[o].requests[r] = requests'[r]
    BY <1>1, <1>2
  <1>6. \A u \in UsageIds : u \in late' /\ Line(u) \notin open'[o].stale
                              => open'[o].complaint.status = "ENDED" /\ u \in open'[o].late
    BY <1>1, <1>2
  <1> QED
    BY <1>4, <1>5, <1>6

-----------------------------------------------------------------------------
(* A step of transaction w, or of none (w = Absent), that writes `documents`. *)
LEMMA StepKeeps ==
    ASSUME StockInv, NEW w, NEW documents \in SUBSET Documents,
           open' = OpenAfter(w, documents),
           complaint' \in Complaint,
           complaint' = complaint \/ ComplaintDocument \subseteq documents,
           requests' \in [RequestIds -> PartRequest],
           \A r \in RequestIds : requests'[r] = requests[r] \/ Request(r) \in documents,
           usage' \in [UsageIds -> PartUsage],
           late' \subseteq UsageIds,
           \A u \in UsageIds : u \in late' => u \in late \/ Line(u) \in documents,
           stock' \in [Centres -> 0..MaxStock], counted' \in [Centres -> Int],
           UsageHeld', LateHasEnded'
    PROVE  StockInv'
  <1>1. StockTypeOK /\ \A o \in Workers : SnapshotCurrent(o)
    BY DEF StockInv
  <1>2. open' \in [Workers -> Transaction \cup {Absent}]
    BY <1>1, OthersAfter
  <1>3. \A o \in Workers : SnapshotCurrent(o)'
    BY <1>1, SnapshotsKept, Zenon
  <1>4. StockTypeOK'
    BY <1>2, Zenon DEF StockTypeOK
  <1> QED
    BY <1>3, <1>4, Zenon DEF StockInv

LEMMA OpenTypes ==
    ASSUME StockTypeOK, NEW w \in Workers, open[w] # Absent
    PROVE  /\ open[w].complaint \in Complaint
           /\ open[w].requests \in [RequestIds -> PartRequest]
           /\ open[w].late \subseteq UsageIds
           /\ open[w].stale \subseteq Documents
  BY DEF StockTypeOK, Transaction

(* A committing handler that writes the complaint has read it as it is, and *)
(* so for a request and a line.                                             *)
LEMMA ComplaintRead ==
    ASSUME StockInv, NEW w \in Workers, NEW documents, commits(w, documents),
           ComplaintDocument \subseteq documents
    PROVE  open[w] # Absent /\ open[w].complaint = complaint
  <1>1. open[w] # Absent /\ documents \cap open[w].stale = {}
    BY DEF commits
  <1>2. ComplaintDocument \cap open[w].stale = {}
    BY <1>1
  <1> QED
    BY <1>1, <1>2, Zenon DEF StockInv, SnapshotCurrent

LEMMA RequestRead ==
    ASSUME StockInv, NEW w \in Workers, NEW documents, commits(w, documents),
           NEW r \in RequestIds, Request(r) \in documents
    PROVE  open[w] # Absent /\ open[w].requests[r] = requests[r]
  <1>1. open[w] # Absent /\ documents \cap open[w].stale = {}
    BY DEF commits
  <1>2. Request(r) \notin open[w].stale
    BY <1>1
  <1> QED
    BY <1>1, <1>2, Zenon DEF StockInv, SnapshotCurrent

LEMMA LineRead ==
    ASSUME StockInv, NEW w \in Workers, NEW documents, commits(w, documents),
           NEW u \in UsageIds, Line(u) \in documents, u \in late
    PROVE  RecordedAfterTheEnd(w, u)
  <1>1. open[w] # Absent /\ documents \cap open[w].stale = {}
    BY DEF commits
  <1>2. Line(u) \notin open[w].stale
    BY <1>1
  <1> QED
    BY <1>1, <1>2, Zenon DEF StockInv, SnapshotCurrent

-----------------------------------------------------------------------------
LEMMA AssignServiceCenterStep ==
    ASSUME StockInv, NEW w \in Workers, NEW c \in Centres, assignServiceCenter(w, c)
    PROVE  StockInv'
  <1>1. PICK inPlace \in BOOLEAN, visitLeft \in BOOLEAN :
           LET withdrawn == IF inPlace THEN {} ELSE Waiting(w)
           IN  /\ commits(w, ComplaintDocument \cup {Request(r) : r \in withdrawn})
               /\ open[w].complaint.status = "OPEN"
               /\ complaint' = [open[w].complaint EXCEPT !.serviceCenterId = c,
                                                         !.technicianId = FALSE,
                                                         !.visited = visitLeft]
               /\ requests' = [r \in RequestIds |->
                                 IF r \in withdrawn
                                 THEN [open[w].requests[r] EXCEPT !.status = "CANCELLED"]
                                 ELSE requests[r]]
               /\ UNCHANGED <<usage, late, stock, counted>>
    BY Zenon DEF assignServiceCenter
  <1> DEFINE withdrawn == IF inPlace THEN {} ELSE Waiting(w)
             documents == ComplaintDocument \cup {Request(r) : r \in withdrawn}
  <1>2. withdrawn \subseteq RequestIds
    BY DEF Waiting
  <1>3. documents \in SUBSET Documents
    <2> HIDE DEF withdrawn
    <2> QED
      BY <1>2, DocumentTypes, Zenon
  <1>4. /\ commits(w, documents)
        /\ open[w].complaint.status = "OPEN"
        /\ complaint' = [open[w].complaint EXCEPT !.serviceCenterId = c,
                                                  !.technicianId = FALSE,
                                                  !.visited = visitLeft]
        /\ requests' = [r \in RequestIds |->
                          IF r \in withdrawn
                          THEN [open[w].requests[r] EXCEPT !.status = "CANCELLED"]
                          ELSE requests[r]]
        /\ UNCHANGED <<usage, late, stock, counted>>
    BY <1>1, Zenon
  <1> HIDE DEF withdrawn
  <1>5. ComplaintDocument \subseteq documents /\ \A r \in withdrawn : Request(r) \in documents
    BY Zenon
  <1> HIDE DEF documents
  <1>6. open[w] # Absent /\ open[w].complaint = complaint
    BY <1>4, <1>5, ComplaintRead, Zenon
  <1>7. StockTypeOK
    BY DEF StockInv
  <1>8. /\ open[w].complaint \in Complaint /\ complaint \in Complaint
        /\ open[w].requests \in [RequestIds -> PartRequest]
        /\ requests \in [RequestIds -> PartRequest]
    BY <1>6, <1>7, OpenTypes DEF StockTypeOK
  <1>9. complaint' \in Complaint /\ complaint'.status = "OPEN"
    BY <1>4, <1>8 DEF Complaint
  <1>10. ASSUME NEW q \in PartRequest PROVE [q EXCEPT !.status = "CANCELLED"] \in PartRequest
    BY DEF PartRequest
  <1>11. requests' \in [RequestIds -> PartRequest]
    BY <1>4, <1>8, <1>10
  <1>12. \A r \in RequestIds : requests'[r] = requests[r] \/ Request(r) \in documents
    BY <1>4, <1>5
  <1>13. UsageHeld'
    BY <1>4 DEF StockInv, UsageHeld
  <1>14. LateHasEnded'
    BY <1>4, <1>6, <1>9 DEF StockInv, LateHasEnded
  <1>15. open' = OpenAfter(w, documents)
    BY <1>4 DEF commits
  <1>16. /\ usage' \in [UsageIds -> PartUsage] /\ late' = late /\ late' \subseteq UsageIds
         /\ stock' \in [Centres -> 0..MaxStock] /\ counted' \in [Centres -> Int]
    BY <1>4, <1>7 DEF StockTypeOK
  <1> QED
    BY <1>3, <1>5, <1>9, <1>11, <1>12, <1>13, <1>14, <1>15, <1>16, StepKeeps

(* The four handlers that write the complaint and nothing else.             *)
LEMMA ComplaintStep ==
    ASSUME StockInv, NEW w \in Workers,
           \/ assignTechnician(w) \/ startVisit(w) \/ endComplaint(w) \/ reopenComplaint(w)
    PROVE  StockInv'
  <1>1. /\ commits(w, ComplaintDocument)
        /\ UNCHANGED <<requests, usage, stock, counted>>
    BY Zenon DEF assignTechnician, startVisit, endComplaint, reopenComplaint
  <1>2. open[w] # Absent /\ open[w].complaint = complaint
    BY <1>1, ComplaintRead, Zenon
  <1>3. StockTypeOK /\ ComplaintDocument \in SUBSET Documents
    BY DocumentTypes DEF StockInv
  <1>4. complaint \in Complaint
    BY <1>3 DEF StockTypeOK
  <1>5. complaint' \in Complaint
    BY <1>2, <1>4 DEF assignTechnician, startVisit, endComplaint, reopenComplaint, Complaint
  <1>6. late' \subseteq late
    BY DEF assignTechnician, startVisit, endComplaint, reopenComplaint
  <1>7. LateHasEnded'
    BY <1>2, <1>4 DEF assignTechnician, startVisit, endComplaint, reopenComplaint, Complaint,
                      LateHasEnded, StockInv
  <1>8. UsageHeld'
    BY <1>1 DEF StockInv, UsageHeld
  <1>9. open' = OpenAfter(w, ComplaintDocument)
    BY <1>1 DEF commits
  <1>10. /\ requests' = requests /\ requests' \in [RequestIds -> PartRequest]
         /\ usage' \in [UsageIds -> PartUsage] /\ late' \subseteq UsageIds
         /\ stock' \in [Centres -> 0..MaxStock] /\ counted' \in [Centres -> Int]
    BY <1>1, <1>3, <1>6 DEF StockTypeOK
  <1> QED
    BY <1>3, <1>5, <1>6, <1>7, <1>8, <1>9, <1>10, StepKeeps

-----------------------------------------------------------------------------
(* The two handlers that write one request and nothing else.                *)
LEMMA RequestStep ==
    ASSUME StockInv, NEW w, NEW r \in RequestIds, NEW q \in PartRequest,
           open' = OpenAfter(w, {Request(r)}),
           requests' = [requests EXCEPT ![r] = q],
           UNCHANGED <<complaint, usage, late, stock, counted>>
    PROVE  StockInv'
  <1>1. StockTypeOK /\ {Request(r)} \in SUBSET Documents
    BY DocumentTypes DEF StockInv
  <1>2. /\ requests' \in [RequestIds -> PartRequest]
        /\ \A o \in RequestIds : requests'[o] = requests[o] \/ Request(o) \in {Request(r)}
    BY <1>1 DEF StockTypeOK
  <1>3. /\ complaint' = complaint /\ complaint' \in Complaint /\ usage' \in [UsageIds -> PartUsage]
        /\ late' = late /\ late' \subseteq UsageIds
        /\ stock' \in [Centres -> 0..MaxStock] /\ counted' \in [Centres -> Int]
    BY <1>1 DEF StockTypeOK
  <1>4. UsageHeld' /\ LateHasEnded'
    BY DEF StockInv, UsageHeld, LateHasEnded
  <1> QED
    BY <1>1, <1>2, <1>3, <1>4, StepKeeps

LEMMA CreatePartRequestStep ==
    ASSUME StockInv, NEW w \in Workers, NEW r \in RequestIds, createPartRequest(w, r)
    PROVE  StockInv'
  <1> DEFINE q == [status |-> "REQUESTED", serviceCenterId |-> open[w].complaint.serviceCenterId]
  <1>1. StockTypeOK /\ open[w] # Absent
    BY DEF StockInv, createPartRequest, commits
  <1>2. open[w].complaint \in Complaint
    BY <1>1, OpenTypes
  <1>3. q \in PartRequest
    BY <1>2 DEF PartRequest, Complaint
  <1>4. /\ open' = OpenAfter(w, {Request(r)})
        /\ requests' = [requests EXCEPT ![r] = q]
        /\ UNCHANGED <<complaint, usage, late, stock, counted>>
    BY DEF createPartRequest, commits
  <1> HIDE DEF q
  <1> QED
    BY <1>3, <1>4, RequestStep

LEMMA DecidePartRequestStep ==
    ASSUME StockInv, NEW w \in Workers, NEW c \in Centres, NEW r \in RequestIds,
           NEW decision \in DECISION_STATUSES, decidePartRequest(w, c, r, decision)
    PROVE  StockInv'
  <1> DEFINE q == [requests[r] EXCEPT !.status = decision]
  <1>1. requests \in [RequestIds -> PartRequest]
    BY DEF StockInv, StockTypeOK
  <1>2. q \in PartRequest
    BY <1>1 DEF PartRequest, DECISION_STATUSES
  <1>3. /\ open' = OpenAfter(w, {Request(r)})
        /\ requests' = [requests EXCEPT ![r] = q]
        /\ UNCHANGED <<complaint, usage, late, stock, counted>>
    BY DEF decidePartRequest, commits
  <1> HIDE DEF q
  <1> QED
    BY <1>2, <1>3, RequestStep

-----------------------------------------------------------------------------
LEMMA RecordUsageStep ==
    ASSUME StockInv, NEW w \in Workers, NEW u \in UsageIds, NEW quantity \in 1..MaxQuantity,
           recordUsage(w, u, quantity)
    PROVE  StockInv'
  <1> DEFINE line == [status |-> "RECORDED", quantity |-> quantity,
                      serviceCenterId |-> open[w].complaint.serviceCenterId]
  <1>1. StockTypeOK /\ open[w] # Absent /\ {Line(u)} \in SUBSET Documents
    BY DocumentTypes DEF StockInv, recordUsage, commits
  <1>2. open[w].complaint \in Complaint
    BY <1>1, OpenTypes
  <1>3. open[w].complaint.serviceCenterId \in Centres
    BY <1>2 DEF Complaint
  <1>4. line \in PartUsage
    BY <1>3, BoundsAssumption DEF PartUsage
  <1>5. line.serviceCenterId \in Centres
    BY <1>3
  <1>6. /\ open' = OpenAfter(w, {Line(u)})
        /\ usage' = [usage EXCEPT ![u] = line]
        /\ late' = late \/ (complaint.status = "ENDED" /\ late' = late \cup {u})
        /\ UNCHANGED <<complaint, requests, stock, counted>>
    BY DEF recordUsage, commits
  <1> HIDE DEF line
  <1>7. usage' \in [UsageIds -> PartUsage]
    BY <1>1, <1>4, <1>6 DEF StockTypeOK
  <1>8. UsageHeld'
    BY <1>1, <1>5, <1>6 DEF UsageHeld, StockInv, StockTypeOK
  <1>9. LateHasEnded'
    BY <1>6 DEF LateHasEnded, StockInv
  <1>10. /\ late' \subseteq UsageIds
         /\ \A o \in UsageIds : o \in late' => o \in late \/ Line(o) \in {Line(u)}
    BY <1>1, <1>6 DEF StockTypeOK
  <1>11. /\ complaint' = complaint /\ complaint' \in Complaint
         /\ requests' = requests /\ requests' \in [RequestIds -> PartRequest]
         /\ stock' \in [Centres -> 0..MaxStock] /\ counted' \in [Centres -> Int]
    BY <1>1, <1>6 DEF StockTypeOK
  <1> QED
    BY <1>1, <1>6, <1>7, <1>8, <1>9, <1>10, <1>11, StepKeeps

LEMMA FinalizeUsageStep ==
    ASSUME StockInv, NEW w \in Workers, NEW u \in UsageIds, finalizeUsage(w, u)
    PROVE  StockInv'
  <1> DEFINE c == usage[u].serviceCenterId
             documents == {Line(u), Shelf(c)}
  <1>1. StockTypeOK /\ usage[u] \in PartUsage /\ usage \in [UsageIds -> PartUsage]
    BY DEF StockInv, StockTypeOK
  <1>2. usage[u].status = "RECORDED"
    BY DEF finalizeUsage
  <1>3. c \in Centres
    BY <1>2 DEF StockInv, UsageHeld
  <1>4. documents \in SUBSET Documents
    BY <1>3, DocumentTypes
  <1>5. /\ open' = OpenAfter(w, documents)
        /\ stock[c] >= usage[u].quantity
        /\ stock' = [stock EXCEPT ![c] = @ - usage[u].quantity]
        /\ usage' = [usage EXCEPT ![u].status = "FINALIZED"]
        /\ UNCHANGED <<complaint, requests, late, counted>>
    BY DEF finalizeUsage, Deduct, commits
  <1> HIDE DEF c, documents
  <1>6. usage[u].quantity \in Nat /\ stock \in [Centres -> 0..MaxStock]
    BY <1>1, BoundsAssumption DEF StockTypeOK, PartUsage
  <1>7. stock' \in [Centres -> 0..MaxStock]
    BY <1>3, <1>5, <1>6, BoundsAssumption
  <1>8. /\ [usage[u] EXCEPT !.status = "FINALIZED"] \in PartUsage
        /\ [usage[u] EXCEPT !.status = "FINALIZED"].serviceCenterId = c
    BY <1>1 DEF PartUsage, c
  <1>9. usage' = [usage EXCEPT ![u] = [usage[u] EXCEPT !.status = "FINALIZED"]]
    BY <1>1, <1>5
  <1>10. usage' \in [UsageIds -> PartUsage]
    BY <1>1, <1>8, <1>9
  <1>11. UsageHeld'
    BY <1>1, <1>3, <1>8, <1>9 DEF UsageHeld, StockInv
  <1>12. /\ LateHasEnded' /\ late' = late /\ late' \subseteq UsageIds
         /\ complaint' = complaint /\ complaint' \in Complaint
         /\ requests' = requests /\ requests' \in [RequestIds -> PartRequest]
         /\ counted' \in [Centres -> Int]
    BY <1>1, <1>5 DEF StockTypeOK, LateHasEnded, StockInv
  <1> QED
    BY <1>4, <1>5, <1>7, <1>10, <1>11, <1>12, StepKeeps

(* A count or a delivery.                                                   *)
LEMMA ShelfStep ==
    ASSUME StockInv, NEW c \in Centres, NEW quantity \in 0..MaxStock, writesShelf(c, quantity)
    PROVE  StockInv'
  <1>1. StockTypeOK /\ {Shelf(c)} \in SUBSET Documents
    BY DocumentTypes DEF StockInv
  <1>2. /\ stock \in [Centres -> 0..MaxStock] /\ counted \in [Centres -> Int]
        /\ stock' = [stock EXCEPT ![c] = quantity]
        /\ counted' = [counted EXCEPT ![c] = @ + (quantity - stock[c])]
    BY <1>1 DEF StockTypeOK, writesShelf
  <1>3. quantity \in Int /\ stock[c] \in Int /\ counted[c] \in Int
    BY <1>2, BoundsAssumption
  <1>4. stock' \in [Centres -> 0..MaxStock] /\ counted' \in [Centres -> Int]
    BY <1>2, <1>3
  <1>5. open' = OpenAfter(Absent, {Shelf(c)}) /\ UNCHANGED <<complaint, requests, usage, late>>
    BY DEF writesShelf, records
  <1>6. /\ LateHasEnded' /\ UsageHeld' /\ late' = late /\ late' \subseteq UsageIds
        /\ complaint' = complaint /\ complaint' \in Complaint
        /\ requests' = requests /\ requests' \in [RequestIds -> PartRequest]
        /\ usage' \in [UsageIds -> PartUsage]
    BY <1>1, <1>5 DEF StockTypeOK, LateHasEnded, UsageHeld, StockInv
  <1> QED
    BY <1>1, <1>4, <1>5, <1>6, StepKeeps

-----------------------------------------------------------------------------
LEMMA BeginStep ==
    ASSUME StockInv, NEW w \in Workers, begin(w)
    PROVE  StockInv'
  <1> DEFINE read == [complaint |-> complaint, requests |-> requests, late |-> late, stale |-> {}]
  <1>1. StockTypeOK
    BY DEF StockInv
  <1>2. read \in Transaction
    BY <1>1 DEF StockTypeOK, Transaction
  <1>3. /\ read.complaint = complaint /\ read.requests = requests
        /\ read.late = late /\ read.stale = {}
    OBVIOUS
  <1>4. /\ open' = [open EXCEPT ![w] = read]
        /\ UNCHANGED <<complaint, requests, usage, late, stock, counted>>
    BY DEF begin, records
  <1> HIDE DEF read
  <1>5. open' \in [Workers -> Transaction \cup {Absent}] /\ open'[w] = read
    BY <1>1, <1>2, <1>4 DEF StockTypeOK
  <1>6. StockTypeOK' /\ UsageHeld' /\ LateHasEnded'
    BY <1>1, <1>4, <1>5 DEF StockTypeOK, UsageHeld, LateHasEnded, StockInv
  <1>7. SnapshotCurrent(w)'
    BY <1>3, <1>4, <1>5 DEF SnapshotCurrent, RecordedAfterTheEnd, StockInv, LateHasEnded
  <1>8. ASSUME NEW o \in Workers, o # w PROVE SnapshotCurrent(o)'
    <2>1. open'[o] = open[o]
      BY <1>1, <1>4, <1>8 DEF StockTypeOK
    <2>2. SnapshotCurrent(o)
      BY DEF StockInv
    <2> QED
      BY <1>4, <2>1, <2>2 DEF SnapshotCurrent, RecordedAfterTheEnd
  <1> QED
    BY <1>6, <1>7, <1>8, Zenon DEF StockInv

LEMMA AbortStep ==
    ASSUME StockInv, NEW w \in Workers, abort(w)
    PROVE  StockInv'
  <1>1. StockTypeOK
    BY DEF StockInv
  <1>2. /\ open' = [open EXCEPT ![w] = Absent]
        /\ UNCHANGED <<complaint, requests, usage, late, stock, counted>>
    BY DEF abort, records
  <1>3. StockTypeOK' /\ UsageHeld' /\ LateHasEnded'
    BY <1>1, <1>2 DEF StockTypeOK, UsageHeld, LateHasEnded, StockInv
  <1>4. ASSUME NEW o \in Workers PROVE SnapshotCurrent(o)'
    <2>1. open'[o] = Absent \/ open'[o] = open[o]
      BY <1>1, <1>2 DEF StockTypeOK
    <2>2. SnapshotCurrent(o)
      BY DEF StockInv
    <2> QED
      BY <1>2, <2>1, <2>2 DEF SnapshotCurrent, RecordedAfterTheEnd
  <1> QED
    BY <1>3, <1>4, Zenon DEF StockInv

LEMMA StutterStep == ASSUME StockInv, UNCHANGED stockVars PROVE StockInv'
  BY DEF StockInv, stockVars, StockTypeOK, UsageHeld, LateHasEnded, SnapshotCurrent, RecordedAfterTheEnd

-----------------------------------------------------------------------------
LEMMA InitStock == StockInit => StockInv
  <1> SUFFICES ASSUME StockInit PROVE StockInv
    OBVIOUS
  <1>1. complaint \in Complaint
    BY DEF StockInit, Complaint
  <1>2. requests \in [RequestIds -> PartRequest]
    BY DEF StockInit, PartRequest
  <1>3. usage \in [UsageIds -> PartUsage]
    BY BoundsAssumption DEF StockInit, PartUsage
  <1>4. stock \in [Centres -> 0..MaxStock] /\ counted \in [Centres -> Int]
    BY BoundsAssumption DEF StockInit
  <1>5. late = {} /\ open = [w \in Workers |-> Absent]
    BY DEF StockInit
  <1>6. StockTypeOK
    BY <1>1, <1>2, <1>3, <1>4, <1>5 DEF StockTypeOK
  <1>7. UsageHeld
    BY DEF StockInit, UsageHeld
  <1> QED
    BY <1>5, <1>6, <1>7 DEF StockInv, LateHasEnded, SnapshotCurrent

LEMMA StockStep == StockInv /\ [StockNext]_stockVars => StockInv'
  <1> SUFFICES ASSUME StockInv, [StockNext]_stockVars PROVE StockInv'
    OBVIOUS
  <1>1. CASE \E w \in Workers : begin(w) \/ abort(w)
    BY <1>1, BeginStep, AbortStep
  <1>2. CASE \E w \in Workers : WorkflowSteps(w)
    BY <1>2, AssignServiceCenterStep, ComplaintStep, Zenon DEF WorkflowSteps
  <1>3. CASE \E w \in Workers : PartsSteps(w)
    BY <1>3, CreatePartRequestStep, DecidePartRequestStep, RecordUsageStep, FinalizeUsageStep,
       Zenon DEF PartsSteps
  <1>4. CASE StockSteps
    <2>1. CASE \E c \in Centres, quantity \in 0..MaxStock : setStock(c, quantity)
      BY <2>1, ShelfStep DEF setStock
    <2>2. ASSUME NEW c \in Centres, NEW delta \in (-MaxStock..MaxStock) \ {0},
                 adjustStock(c, delta)
          PROVE  StockInv'
      <3>1. stock[c] \in 0..MaxStock
        BY DEF StockInv, StockTypeOK
      <3>2. stock[c] + delta \in 0..MaxStock /\ writesShelf(c, stock[c] + delta)
        BY <2>2, <3>1, BoundsAssumption DEF adjustStock
      <3> QED
        BY <3>2, ShelfStep
    <2> QED
      BY <1>4, <2>1, <2>2, Zenon DEF StockSteps
  <1>5. CASE UNCHANGED stockVars
    BY <1>5, StutterStep
  <1> QED
    BY <1>1, <1>2, <1>3, <1>4, <1>5, Zenon DEF StockNext

LEMMA StockInvariant == StockSpec => []StockInv
  BY InitStock, StockStep, PTL DEF StockSpec

(* Every record stays well formed, and no count falls below nothing: the    *)
(* reductions of adjustStock and finalizeUsage are checked where they are   *)
(* made, whatever is written beside them.                                   *)
THEOREM StockTypes == StockSpec => []StockTypeOK
  <1>1. StockInv => StockTypeOK
    BY DEF StockInv
  <1> QED
    BY <1>1, StockInvariant, PTL

-----------------------------------------------------------------------------
(* A decision on a part request is final, however many callers saw it       *)
(* waiting: whoever writes a request has read it as it is.                  *)
THEOREM PartDecisionsStand == StockSpec => DecisionsStand
  <1>1. ASSUME StockInv, [StockNext]_stockVars, NEW r \in RequestIds,
               requests[r].status \notin WAITING_REQUEST_STATUSES \cup {"UNUSED"}
        PROVE  requests'[r] = requests[r]
    <2>1. requests \in [RequestIds -> PartRequest]
      BY <1>1 DEF StockInv, StockTypeOK
    <2>2. ASSUME NEW w \in Workers, NEW c \in Centres, assignServiceCenter(w, c)
          PROVE  requests'[r] = requests[r]
      <3>1. PICK inPlace \in BOOLEAN :
               LET withdrawn == IF inPlace THEN {} ELSE Waiting(w)
               IN  /\ commits(w, ComplaintDocument \cup {Request(q) : q \in withdrawn})
                   /\ requests' = [q \in RequestIds |->
                                     IF q \in withdrawn
                                     THEN [open[w].requests[q] EXCEPT !.status = "CANCELLED"]
                                     ELSE requests[q]]
        BY <2>2, Zenon DEF assignServiceCenter
      <3> DEFINE withdrawn == IF inPlace THEN {} ELSE Waiting(w)
                 documents == ComplaintDocument \cup {Request(q) : q \in withdrawn}
      <3>2. /\ commits(w, documents)
            /\ r \notin withdrawn => requests'[r] = requests[r]
        BY <3>1
      <3>3. r \in withdrawn => open[w].requests[r].status \in WAITING_REQUEST_STATUSES
        BY DEF Waiting
      <3>4. r \in withdrawn => Request(r) \in documents
        BY Zenon
      <3> HIDE DEF withdrawn, documents
      <3>5. r \in withdrawn => open[w].requests[r] = requests[r]
        BY <1>1, <3>2, <3>4, RequestRead, Zenon
      <3> QED
        BY <1>1, <3>2, <3>3, <3>5
    <2>3. ASSUME NEW w \in Workers, NEW c \in Centres, NEW q \in RequestIds,
                 NEW decision \in DECISION_STATUSES, decidePartRequest(w, c, q, decision)
          PROVE  requests'[r] = requests[r]
      <3>1. /\ commits(w, {Request(q)})
            /\ open[w].requests[q].status \in WAITING_REQUEST_STATUSES
            /\ requests' = [requests EXCEPT ![q].status = decision]
        BY <2>3 DEF decidePartRequest, MayDecide
      <3>2. open[w].requests[q] = requests[q]
        BY <1>1, <3>1, RequestRead
      <3>3. q # r
        BY <1>1, <3>1, <3>2
      <3> QED
        BY <2>1, <3>1, <3>3
    <2>4. ASSUME NEW w \in Workers, NEW q \in RequestIds, createPartRequest(w, q)
          PROVE  requests'[r] = requests[r]
      BY <1>1, <2>1, <2>4 DEF createPartRequest
    <2>5. CASE UNCHANGED requests
      BY <2>5
    <2>6. ASSUME NEW w \in Workers, begin(w) \/ abort(w) PROVE UNCHANGED requests
      BY <2>6 DEF begin, abort, records
    <2>7. ASSUME NEW w \in Workers, WorkflowSteps(w) PROVE requests'[r] = requests[r]
      <3>1. ASSUME \/ assignTechnician(w) \/ startVisit(w) \/ endComplaint(w)
                   \/ reopenComplaint(w)
            PROVE  UNCHANGED requests
        BY <3>1, Zenon DEF assignTechnician, startVisit, endComplaint, reopenComplaint
      <3> QED
        BY <2>2, <2>5, <2>7, <3>1, Zenon DEF WorkflowSteps
    <2>8. ASSUME NEW w \in Workers, PartsSteps(w) PROVE requests'[r] = requests[r]
      <3>1. ASSUME NEW u \in UsageIds,
                   \/ \E quantity \in 1..MaxQuantity : recordUsage(w, u, quantity)
                   \/ finalizeUsage(w, u)
            PROVE  UNCHANGED requests
        BY <3>1, Zenon DEF recordUsage, finalizeUsage, Deduct
      <3> QED
        BY <2>3, <2>4, <2>5, <2>8, <3>1, Zenon DEF PartsSteps
    <2>9. ASSUME StockSteps PROVE UNCHANGED requests
      BY <2>9 DEF StockSteps, setStock, adjustStock, writesShelf, records
    <2>10. ASSUME UNCHANGED stockVars PROVE UNCHANGED requests
      BY <2>10 DEF stockVars
    <2> QED
      BY <1>1, <2>5, <2>6, <2>7, <2>8, <2>9, <2>10, Zenon DEF StockNext
  <1>2. StockInv /\ [StockNext]_stockVars =>
           [\A r \in RequestIds :
               requests[r].status \notin WAITING_REQUEST_STATUSES \cup {"UNUSED"}
                  => requests'[r] = requests[r]]_stockVars
    BY <1>1
  <1> QED
    BY <1>2, StockInvariant, PTL DEF StockSpec, DecisionsStand

(* No line recorded after the complaint ended reaches stock while it is     *)
(* ended: a snapshot that still has the line shows its lateness too.        *)
THEOREM LateLinesNeverCount == StockSpec => LateLinesStayOut
  <1>1. ASSUME StockInv, [StockNext]_stockVars, NEW u \in UsageIds,
               usage[u].status = "RECORDED", usage'[u].status = "FINALIZED"
        PROVE  ~(complaint.status = "ENDED" /\ u \in late)
    <2>1. usage \in [UsageIds -> PartUsage]
      BY <1>1 DEF StockInv, StockTypeOK
    <2>2. usage' # usage
      BY <1>1
    <2>3. ASSUME NEW w \in Workers, NEW v \in UsageIds, NEW quantity \in 1..MaxQuantity,
                 recordUsage(w, v, quantity)
          PROVE  FALSE
      <3>1. usage[v].status = "UNUSED"
            /\ \E line : line.status = "RECORDED" /\ usage' = [usage EXCEPT ![v] = line]
        BY <2>3 DEF recordUsage
      <3> QED
        BY <1>1, <2>1, <3>1
    <2>4. ASSUME NEW w \in Workers, NEW v \in UsageIds, finalizeUsage(w, v)
          PROVE  ~(complaint.status = "ENDED" /\ u \in late)
      <3> DEFINE documents == {Line(v), Shelf(usage[v].serviceCenterId)}
      <3>1. /\ commits(w, documents)
            /\ usage' = [usage EXCEPT ![v].status = "FINALIZED"]
            /\ ~RecordedAfterTheEnd(w, v)
        BY <2>4, Zenon DEF finalizeUsage, Deduct
      <3>2. Line(v) \in documents
        BY Zenon
      <3> HIDE DEF documents
      <3>3. v = u
        BY <1>1, <2>1, <3>1
      <3> QED
        BY <1>1, <3>1, <3>2, <3>3, LineRead
    <2>5. ASSUME NEW w \in Workers, begin(w) \/ abort(w) PROVE UNCHANGED usage
      BY <2>5 DEF begin, abort, records
    <2>6. ASSUME NEW w \in Workers, WorkflowSteps(w) PROVE UNCHANGED usage
      BY <2>6, Zenon DEF WorkflowSteps, assignServiceCenter, assignTechnician, startVisit,
                         endComplaint, reopenComplaint
    <2>7. ASSUME NEW w \in Workers, NEW r \in RequestIds,
                 \/ createPartRequest(w, r)
                 \/ \E c \in Centres, decision \in DECISION_STATUSES :
                       decidePartRequest(w, c, r, decision)
          PROVE  UNCHANGED usage
      BY <2>7, Zenon DEF createPartRequest, decidePartRequest
    <2>8. ASSUME StockSteps PROVE UNCHANGED usage
      BY <2>8 DEF StockSteps, setStock, adjustStock, writesShelf, records
    <2>9. ASSUME UNCHANGED stockVars PROVE UNCHANGED usage
      BY <2>9 DEF stockVars
    <2> QED
      BY <1>1, <2>2, <2>3, <2>4, <2>5, <2>6, <2>7, <2>8, <2>9, Zenon DEF StockNext, PartsSteps
  <1>2. StockInv /\ [StockNext]_stockVars =>
           [\A u \in UsageIds :
               usage[u].status = "RECORDED" /\ usage'[u].status = "FINALIZED"
                  => ~(complaint.status = "ENDED" /\ u \in late)]_stockVars
    BY <1>1
  <1> QED
    BY <1>2, StockInvariant, PTL DEF StockSpec, LateLinesStayOut
-----------------------------------------------------------------------------
(* Quantities, part by part: what one line adds to a sum of them.           *)
LEMMA PartsOfOne ==
    ASSUME NEW x, NEW quantity, quantity[x] \in Nat
    PROVE  /\ IsFiniteSet(Parts({x}, quantity))
           /\ Cardinality(Parts({x}, quantity)) = quantity[x]
  <1> DEFINE n == quantity[x]
             pieces == {x} \X (1..n)
  <1>1. Parts({x}, quantity) = pieces
    BY Zenon DEF Parts
  <1>2. IsFiniteSet(1..n) /\ Cardinality(1..n) = n
    <2>1. 1 \in Int /\ n \in Int
      OBVIOUS
    <2>2. /\ IsFiniteSet(1..n)
          /\ Cardinality(1..n) = IF 1 > n THEN 0 ELSE n - 1 + 1
      BY <2>1, FS_Interval
    <2> QED
      BY <2>2
  <1> HIDE DEF n
  <1>3. IsFiniteSet({x}) /\ Cardinality({x}) = 1
    BY FS_Singleton
  <1>4. IsFiniteSet(pieces) /\ Cardinality(pieces) = 1 * n
    <2>1. IsFiniteSet({x} \X (1..n))
          /\ Cardinality({x} \X (1..n)) = Cardinality({x}) * Cardinality(1..n)
      BY <1>2, <1>3, FS_Product
    <2> QED
      BY <1>2, <1>3, <2>1
  <1> HIDE DEF pieces
  <1> QED
    BY <1>1, <1>4 DEF n

LEMMA PartsAreFinite ==
    ASSUME NEW ids, IsFiniteSet(ids), NEW quantity, \A x \in ids : quantity[x] \in Nat
    PROVE  IsFiniteSet(Parts(ids, quantity)) /\ Cardinality(Parts(ids, quantity)) \in Nat
  <1> DEFINE f == [x \in ids |-> {x} \X (1..quantity[x])]
             pieces == {{x} \X (1..quantity[x]) : x \in ids}
  <1>1. IsFiniteSet(pieces)
    <2>1. f \in Surjection(ids, pieces)
      BY Zenon DEF Surjection
    <2> HIDE DEF f, pieces
    <2> QED
      BY <2>1, FS_Surjection
  <1>2. \A T \in pieces : IsFiniteSet(T)
    <2>1. ASSUME NEW x \in ids
          PROVE  IsFiniteSet({x} \X (1..quantity[x]))
      <3>1. IsFiniteSet(Parts({x}, quantity))
        BY PartsOfOne
      <3> QED
        BY <3>1, Zenon DEF Parts
    <2> QED
      BY <2>1, Zenon
  <1>3. IsFiniteSet(UNION pieces)
    <2> HIDE DEF pieces
    <2> QED
      BY <1>1, <1>2, FS_UNION
  <1> QED
    BY <1>3, FS_CardinalityType DEF Parts

LEMMA PartsOfOneMore ==
    ASSUME NEW ids, IsFiniteSet(ids), NEW quantity, NEW x, x \notin ids,
           \A y \in ids \cup {x} : quantity[y] \in Nat
    PROVE  Cardinality(Parts(ids \cup {x}, quantity))
              = Cardinality(Parts(ids, quantity)) + quantity[x]
  <1> DEFINE before == Parts(ids, quantity)
             more == Parts({x}, quantity)
  <1>1. Parts(ids \cup {x}, quantity) = before \cup more
    BY Zenon DEF Parts
  <1>2. before \cap more = {}
    <2>1. \A y : \A p \in {y} \X (1..quantity[y]) : p[1] = y
      OBVIOUS
    <2>2. (\A p \in before : p[1] \in ids) /\ (\A p \in more : p[1] = x)
      BY <2>1, Zenon DEF Parts
    <2> HIDE DEF before, more
    <2> QED
      BY <2>2
  <1>3. IsFiniteSet(before) /\ Cardinality(before) \in Nat
    <2>1. \A y \in ids : quantity[y] \in Nat
      OBVIOUS
    <2> QED
      BY <2>1, PartsAreFinite
  <1>4. quantity[x] \in Nat
    OBVIOUS
  <1>5. IsFiniteSet(more) /\ Cardinality(more) = quantity[x]
    BY <1>4, PartsOfOne
  <1> HIDE DEF before, more
  <1>6. Cardinality(before \cap more) = 0
    BY <1>2, FS_EmptySet, Zenon
  <1>7. Cardinality(before \cup more)
           = Cardinality(before) + Cardinality(more) - Cardinality(before \cap more)
    BY <1>3, <1>5, FS_Union
  <1>8. Cardinality(before \cup more) = Cardinality(before) + quantity[x]
    BY <1>3, <1>4, <1>5, <1>6, <1>7
  <1> QED
    BY <1>1, <1>8 DEF before

(* What the finalised lines of a centre come to.                            *)
UsedAt(c) == Cardinality(Parts(usageBy({c}), [u \in UsageIds |-> usage[u].quantity]))

StockAccount == \A c \in Centres : stock[c] = counted[c] - UsedAt(c)

LEMMA UsedIsNatural ==
    ASSUME StockTypeOK, NEW c
    PROVE  UsedAt(c) \in Nat
  <1> DEFINE quantity == [u \in UsageIds |-> usage[u].quantity]
  <1>1. usageBy({c}) \in SUBSET UsageIds
    BY DEF usageBy
  <1>2. IsFiniteSet(usageBy({c}))
    BY <1>1, LinesAssumption, FS_Subset
  <1>3. \A u \in usageBy({c}) : quantity[u] \in Nat
    BY <1>1 DEF StockTypeOK, PartUsage
  <1> HIDE DEF quantity
  <1>4. Cardinality(Parts(usageBy({c}), quantity)) \in Nat
    BY <1>2, <1>3, PartsAreFinite
  <1> QED
    BY <1>4 DEF UsedAt, quantity

(* A step that finalises no line changes no sum of them.                    *)
LEMMA UsedStays ==
    ASSUME StockTypeOK, NEW c,
           \A u \in UsageIds : usage[u].status = "FINALIZED" \/ usage'[u].status = "FINALIZED"
                                  => usage'[u] = usage[u]
    PROVE  UsedAt(c)' = UsedAt(c)
  <1> DEFINE ids == usageBy({c})
             quantity == [u \in UsageIds |-> usage[u].quantity]
  <1>1. ids' = ids
    BY DEF usageBy
  <1>2. \A u \in ids : quantity'[u] = quantity[u]
    BY DEF usageBy
  <1> HIDE DEF ids, quantity
  <1>3. Parts(ids, quantity') = Parts(ids, quantity)
    BY <1>2, Zenon DEF Parts
  <1>4. Parts(ids, quantity)' = Parts(ids', quantity')
    BY Zenon DEF Parts
  <1> QED
    BY <1>1, <1>3, <1>4, Zenon DEF UsedAt, ids, quantity

(* What left the shelf is the quantity of the line that was finalised.      *)
LEMMA DeductAccounts ==
    ASSUME StockInv, StockAccount, NEW w \in Workers, NEW u \in UsageIds,
           NEW c \in Centres, usage[u].serviceCenterId = c,
           usage[u].status = "RECORDED", Deduct(w, u)
    PROVE  StockAccount'
  <1> DEFINE quantity == [v \in UsageIds |-> usage[v].quantity]
             before == usageBy({c})
  <1>1. /\ stock' = [stock EXCEPT ![c] = @ - usage[u].quantity]
        /\ usage' = [usage EXCEPT ![u].status = "FINALIZED"]
        /\ counted' = counted
    BY DEF Deduct
  <1>2. /\ usage \in [UsageIds -> PartUsage] /\ stock \in [Centres -> 0..MaxStock]
        /\ counted \in [Centres -> Int] /\ StockTypeOK /\ MaxStock \in Nat
    BY BoundsAssumption DEF StockInv, StockTypeOK
  <1>3. /\ usage'[u].status = "FINALIZED" /\ usage'[u].serviceCenterId = c
        /\ \A v \in UsageIds : usage'[v].quantity = usage[v].quantity
        /\ \A v \in UsageIds \ {u} : usage'[v] = usage[v]
        /\ usage[u].quantity \in Nat
        /\ \A v \in UsageIds : quantity[v] \in Nat
    BY <1>1, <1>2, BoundsAssumption DEF PartUsage
  <1>4. ASSUME NEW d \in Centres, d # c
        PROVE  UsedAt(d)' = UsedAt(d)
    <2>1. usageBy({d})' = usageBy({d})
      BY <1>3, <1>4 DEF usageBy
    <2>2. quantity' = quantity
      BY <1>3
    <2> HIDE DEF quantity
    <2>3. Parts(usageBy({d}), quantity)' = Parts(usageBy({d}), quantity)
      BY <2>1, <2>2, Zenon DEF Parts
    <2> QED
      BY <2>3, Zenon DEF UsedAt, quantity
  <1>5. UsedAt(c)' = UsedAt(c) + usage[u].quantity
    <2>1. before' = before \cup {u} /\ u \notin before
      BY <1>3 DEF usageBy
    <2>2. quantity' = quantity /\ quantity[u] = usage[u].quantity
      BY <1>3
    <2>3. before \subseteq UsageIds
      BY DEF usageBy
    <2> HIDE DEF quantity, before
    <2>4. IsFiniteSet(before)
      BY <2>3, LinesAssumption, FS_Subset
    <2>5. \A v \in before \cup {u} : quantity[v] \in Nat
      BY <1>3, <2>3 DEF quantity
    <2>6. Cardinality(Parts(before \cup {u}, quantity))
             = Cardinality(Parts(before, quantity)) + quantity[u]
      BY <2>1, <2>4, <2>5, PartsOfOneMore
    <2>7. Parts(before, quantity)' = Parts(before \cup {u}, quantity)
      BY <2>1, <2>2, Zenon DEF Parts
    <2> QED
      BY <2>2, <2>6, <2>7 DEF UsedAt, before, quantity
  <1> QED
    BY <1>1, <1>2, <1>3, <1>4, <1>5, UsedIsNatural DEF StockAccount

LEMMA NextAccount == StockInv /\ StockAccount /\ [StockNext]_stockVars => StockAccount'
  <1> SUFFICES ASSUME StockInv, StockAccount, [StockNext]_stockVars PROVE StockAccount'
    OBVIOUS
  <1>1. /\ StockTypeOK /\ UsageHeld
        /\ stock \in [Centres -> 0..MaxStock] /\ counted \in [Centres -> Int]
        /\ usage \in [UsageIds -> PartUsage]
    BY DEF StockInv, StockTypeOK
  <1>2. CASE UNCHANGED <<usage, stock, counted>>
    <2>1. \A c \in Centres : UsedAt(c)' = UsedAt(c)
      BY <1>1, <1>2, UsedStays
    <2> QED
      BY <1>2, <2>1 DEF StockAccount
  <1>3. ASSUME NEW w \in Workers, NEW u \in UsageIds, NEW quantity \in 1..MaxQuantity,
               recordUsage(w, u, quantity)
        PROVE  StockAccount'
    <2>1. /\ usage[u].status = "UNUSED" /\ UNCHANGED <<stock, counted>>
          /\ \E line : line.status = "RECORDED" /\ usage' = [usage EXCEPT ![u] = line]
      BY <1>3 DEF recordUsage
    <2>2. \A v \in UsageIds : usage[v].status = "FINALIZED" \/ usage'[v].status = "FINALIZED"
                                 => usage'[v] = usage[v]
      BY <1>1, <2>1
    <2>3. \A c \in Centres : UsedAt(c)' = UsedAt(c)
      BY <1>1, <2>2, UsedStays
    <2> QED
      BY <2>1, <2>3 DEF StockAccount
  <1>4. ASSUME NEW w \in Workers, NEW u \in UsageIds, finalizeUsage(w, u)
        PROVE  StockAccount'
    <2>1. usage[u].status = "RECORDED" /\ Deduct(w, u)
      BY <1>4 DEF finalizeUsage
    <2>2. usage[u].serviceCenterId \in Centres
      BY <1>1, <2>1 DEF UsageHeld
    <2> QED
      BY <2>1, <2>2, DeductAccounts
  <1>5. ASSUME NEW c \in Centres, NEW quantity \in Int, writesShelf(c, quantity)
        PROVE  StockAccount'
    <2>1. /\ stock' = [stock EXCEPT ![c] = quantity]
          /\ counted' = [counted EXCEPT ![c] = @ + (quantity - stock[c])]
          /\ usage' = usage
      BY <1>5 DEF writesShelf, records
    <2>2. \A d \in Centres : UsedAt(d)' = UsedAt(d) /\ UsedAt(d) \in Nat
      BY <1>1, <2>1, UsedStays, UsedIsNatural
    <2>3. \A d \in Centres : stock[d] \in Int /\ counted[d] \in Int
      BY <1>1, BoundsAssumption
    <2> QED
      BY <1>1, <2>1, <2>2, <2>3 DEF StockAccount
  <1>6. ASSUME StockSteps
        PROVE  StockAccount'
    <2>1. ASSUME NEW c \in Centres, NEW quantity \in 0..MaxStock, setStock(c, quantity)
          PROVE  StockAccount'
      BY <1>5, <2>1 DEF setStock
    <2>2. ASSUME NEW c \in Centres, NEW delta \in (-MaxStock..MaxStock) \ {0},
                 adjustStock(c, delta)
          PROVE  StockAccount'
      <3>1. stock[c] + delta \in Int
        BY <1>1, BoundsAssumption
      <3> QED
        BY <1>5, <2>2, <3>1 DEF adjustStock
    <2> QED
      BY <1>6, <2>1, <2>2, Zenon DEF StockSteps
  <1>7. ASSUME NEW w \in Workers, begin(w) \/ abort(w)
        PROVE  StockAccount'
    BY <1>2, <1>7 DEF begin, abort, records
  <1>8. ASSUME NEW w \in Workers, WorkflowSteps(w)
        PROVE  StockAccount'
    BY <1>2, <1>8, Zenon DEF WorkflowSteps, assignServiceCenter, assignTechnician, startVisit,
                             endComplaint, reopenComplaint
  <1>9. ASSUME NEW w \in Workers, NEW r \in RequestIds,
               \/ createPartRequest(w, r)
               \/ \E c \in Centres, decision \in DECISION_STATUSES :
                     decidePartRequest(w, c, r, decision)
        PROVE  StockAccount'
    BY <1>2, <1>9, Zenon DEF createPartRequest, decidePartRequest
  <1>10. ASSUME UNCHANGED stockVars
         PROVE  StockAccount'
    BY <1>2, <1>10 DEF stockVars
  <1> QED
    BY <1>3, <1>4, <1>6, <1>7, <1>8, <1>9, <1>10, Zenon DEF StockNext, PartsSteps

LEMMA InitAccount == StockInit => StockAccount
  <1> SUFFICES ASSUME StockInit, NEW c \in Centres PROVE stock[c] = counted[c] - UsedAt(c)
    BY DEF StockAccount
  <1> DEFINE quantity == [u \in UsageIds |-> usage[u].quantity]
  <1>1. usageBy({c}) = {} /\ stock[c] = 0 /\ counted[c] = 0
    BY DEF StockInit, usageBy
  <1> HIDE DEF quantity
  <1>2. Parts({}, quantity) = {}
    BY Zenon DEF Parts
  <1>3. Cardinality(Parts({}, quantity)) = 0
    BY <1>2, FS_EmptySet
  <1>4. UsedAt(c) = 0
    BY <1>1, <1>3, Zenon DEF UsedAt, quantity
  <1> QED
    BY <1>1, <1>4

(* At each centre what the parts report gives as used is what left the      *)
(* shelf, whatever finalisations, deliveries and counts overlap.            *)
THEOREM StockAddsUp == StockSpec => []StockIsAccountedFor
  <1>1. StockSpec => []StockAccount
    BY InitAccount, NextAccount, StockInvariant, PTL DEF StockSpec
  <1>2. StockInv /\ StockAccount => StockIsAccountedFor
    <2> SUFFICES ASSUME StockInv, StockAccount, NEW c \in Centres
                 PROVE  LET row == partsReport({c})
                        IN  row.inStock = stock[c] /\ stock[c] = counted[c] - row.used
      BY DEF StockIsAccountedFor
    <2>1. stock[c] \in Nat
      BY BoundsAssumption DEF StockInv, StockTypeOK
    <2>2. Cardinality(Parts({c}, stock)) = stock[c]
      BY <2>1, PartsOfOne
    <2>3. stock[c] = counted[c] - UsedAt(c)
      BY DEF StockAccount
    <2> QED
      BY <2>2, <2>3 DEF partsReport, UsedAt
  <1> QED
    BY <1>1, <1>2, StockInvariant, PTL

-----------------------------------------------------------------------------
(* Every step, read as the ledger reads it, is a step of the ledger's.      *)
LEMMA AskedEntry ==
    ASSUME NEW r \in RequestIds
    PROVE  /\ Asked[r] = [status |-> IF requests[r].status \in WAITING_REQUEST_STATUSES
                                     THEN "WAITING" ELSE requests[r].status,
                          serviceCenterId |-> requests[r].serviceCenterId]
           /\ requests[r].status \in WAITING_REQUEST_STATUSES => Asked[r].status = "WAITING"
           /\ requests[r].status \notin WAITING_REQUEST_STATUSES
                 => Asked[r].status = requests[r].status
           /\ Asked[r].serviceCenterId = requests[r].serviceCenterId
  BY DEF Asked

LEMMA LedgerStays ==
    ASSUME UNCHANGED <<requests, usage, late, stock>>
    PROVE  UNCHANGED Ledger!vars
  BY DEF Ledger!vars, Asked

LEMMA InitLedger == StockInit => Ledger!Init
  <1> SUFFICES ASSUME StockInit PROVE Ledger!Init
    OBVIOUS
  <1>1. Asked = [r \in RequestIds |-> [status |-> "UNUSED", serviceCenterId |-> Absent]]
    BY DEF StockInit, Asked, WAITING_REQUEST_STATUSES
  <1> QED
    BY <1>1 DEF StockInit, Ledger!Init

LEMMA AssignServiceCenterLedger ==
    ASSUME StockInv, NEW w \in Workers, NEW c \in Centres, assignServiceCenter(w, c)
    PROVE  \E withdrawn \in SUBSET RequestIds : Ledger!Withdraw(withdrawn)
  <1>1. PICK inPlace \in BOOLEAN, visitLeft \in BOOLEAN :
           LET withdrawn == IF inPlace THEN {} ELSE Waiting(w)
           IN  /\ commits(w, ComplaintDocument \cup {Request(r) : r \in withdrawn})
               /\ requests' = [r \in RequestIds |->
                                 IF r \in withdrawn
                                 THEN [open[w].requests[r] EXCEPT !.status = "CANCELLED"]
                                 ELSE requests[r]]
               /\ UNCHANGED <<usage, late, stock, counted>>
    BY Zenon DEF assignServiceCenter
  <1> DEFINE withdrawn == IF inPlace THEN {} ELSE Waiting(w)
             documents == ComplaintDocument \cup {Request(r) : r \in withdrawn}
  <1>2. withdrawn \subseteq RequestIds
    BY DEF Waiting
  <1>3. \A r \in withdrawn : open[w].requests[r].status \in WAITING_REQUEST_STATUSES
    BY DEF Waiting
  <1>4. /\ commits(w, documents)
        /\ requests' = [r \in RequestIds |->
                          IF r \in withdrawn
                          THEN [open[w].requests[r] EXCEPT !.status = "CANCELLED"]
                          ELSE requests[r]]
        /\ UNCHANGED <<usage, late, stock>>
    BY <1>1, Zenon
  <1> HIDE DEF withdrawn
  <1>5. \A r \in withdrawn : Request(r) \in documents
    BY Zenon
  <1> HIDE DEF documents
  <1>6. \A r \in withdrawn : open[w].requests[r] = requests[r]
    BY <1>2, <1>4, <1>5, RequestRead
  <1>7. requests \in [RequestIds -> PartRequest]
    BY DEF StockInv, StockTypeOK
  <1>8. \A r \in withdrawn : Asked[r].status = "WAITING"
    BY <1>2, <1>3, <1>6, AskedEntry
  <1>9. ASSUME NEW r \in RequestIds
        PROVE  [Asked[r] EXCEPT !.status = "CANCELLED"]
                   = [status |-> "CANCELLED", serviceCenterId |-> requests[r].serviceCenterId]
    <2>1. PICK s : Asked[r] = [status |-> s, serviceCenterId |-> requests[r].serviceCenterId]
      BY DEF Asked
    <2> QED
      BY <2>1
  <1>10. ASSUME NEW r \in RequestIds
         PROVE  Asked'[r] = IF r \in withdrawn THEN [Asked[r] EXCEPT !.status = "CANCELLED"]
                           ELSE Asked[r]
    <2>1. CASE r \in withdrawn
      <3>1. requests'[r] = [requests[r] EXCEPT !.status = "CANCELLED"]
        BY <1>4, <1>6, <2>1
      <3>2. /\ requests'[r].status = "CANCELLED"
            /\ requests'[r].serviceCenterId = requests[r].serviceCenterId
        BY <1>7, <3>1 DEF PartRequest
      <3>3. Asked'[r] = [status |-> "CANCELLED", serviceCenterId |-> requests[r].serviceCenterId]
        BY <3>2 DEF Asked, WAITING_REQUEST_STATUSES
      <3> QED
        BY <1>9, <2>1, <3>3
    <2>2. CASE r \notin withdrawn
      <3>1. requests'[r] = requests[r]
        BY <1>4, <2>2
      <3> QED
        BY <2>2, <3>1 DEF Asked
    <2> QED
      BY <2>1, <2>2
  <1>11. Asked' = [r \in RequestIds |-> IF r \in withdrawn
                                        THEN [Asked[r] EXCEPT !.status = "CANCELLED"]
                                        ELSE Asked[r]]
    BY <1>10 DEF Asked
  <1>12. Ledger!Withdraw(withdrawn)
    BY <1>4, <1>8, <1>11 DEF Ledger!Withdraw
  <1> QED
    BY <1>2, <1>12

LEMMA ComplaintLedger ==
    ASSUME StockInv, NEW w \in Workers,
           \/ assignTechnician(w) \/ startVisit(w) \/ endComplaint(w) \/ reopenComplaint(w)
    PROVE  Ledger!Readmit \/ UNCHANGED Ledger!vars
  <1>1. CASE assignTechnician(w) \/ startVisit(w)
    BY <1>1, LedgerStays DEF assignTechnician, startVisit
  <1>2. CASE endComplaint(w)
    <2>1. open[w].complaint = complaint
      BY <1>2, ComplaintRead DEF endComplaint
    <2>2. late = {}
      BY <1>2, <2>1 DEF endComplaint, StockInv, LateHasEnded
    <2> QED
      BY <1>2, <2>2, LedgerStays DEF endComplaint
  <1>3. CASE reopenComplaint(w)
    <2>1. requests' = requests /\ late' = {} /\ UNCHANGED <<usage, stock>>
      BY <1>3 DEF reopenComplaint
    <2>2. Asked' = Asked
      BY <2>1 DEF Asked
    <2> QED
      BY <2>1, <2>2 DEF Ledger!Readmit
  <1> QED
    BY <1>1, <1>2, <1>3

(* What a write of one request is to the ledger.                            *)
LEMMA AskedAfter ==
    ASSUME StockTypeOK, NEW r \in RequestIds, NEW q \in PartRequest,
           requests' = [requests EXCEPT ![r] = q]
    PROVE  Asked' = [Asked EXCEPT ![r] =
                       [status |-> IF q.status \in WAITING_REQUEST_STATUSES THEN "WAITING"
                                   ELSE q.status,
                        serviceCenterId |-> q.serviceCenterId]]
  <1>1. requests \in [RequestIds -> PartRequest]
    BY DEF StockTypeOK
  <1>2. requests'[r] = q /\ \A o \in RequestIds \ {r} : requests'[o] = requests[o]
    BY <1>1
  <1>3. \A o \in RequestIds \ {r} : Asked'[o] = Asked[o]
    BY <1>2 DEF Asked
  <1>4. Asked'[r] = [status |-> IF q.status \in WAITING_REQUEST_STATUSES THEN "WAITING"
                                ELSE q.status,
                     serviceCenterId |-> q.serviceCenterId]
    BY <1>2 DEF Asked
  <1> QED
    BY <1>3, <1>4 DEF Asked

LEMMA CreatePartRequestLedger ==
    ASSUME StockInv, NEW w \in Workers, NEW r \in RequestIds, createPartRequest(w, r)
    PROVE  \E c \in Centres : Ledger!Ask(r, c)
  <1> DEFINE c == open[w].complaint.serviceCenterId
             q == [status |-> "REQUESTED", serviceCenterId |-> c]
  <1>1. StockTypeOK /\ open[w] # Absent
    BY DEF StockInv, createPartRequest, commits
  <1>2. c \in Centres
    BY <1>1, OpenTypes DEF Complaint
  <1>3. q \in PartRequest
    BY <1>2 DEF PartRequest
  <1>4. /\ requests[r].status = "UNUSED" /\ requests' = [requests EXCEPT ![r] = q]
        /\ UNCHANGED <<usage, late, stock>>
    BY DEF createPartRequest
  <1> HIDE DEF c
  <1>5. Asked' = [Asked EXCEPT ![r] = [status |-> "WAITING", serviceCenterId |-> c]]
    BY <1>1, <1>3, <1>4, AskedAfter DEF WAITING_REQUEST_STATUSES
  <1>6. Asked[r].status = "UNUSED"
    BY <1>4, AskedEntry DEF WAITING_REQUEST_STATUSES
  <1>7. Ledger!Ask(r, c)
    BY <1>4, <1>5, <1>6 DEF Ledger!Ask
  <1> QED
    BY <1>2, <1>7

(* Approving changes nothing the ledger knows of.                           *)
LEMMA DecidePartRequestLedger ==
    ASSUME StockInv, NEW w \in Workers, NEW c \in Centres, NEW r \in RequestIds,
           NEW decision \in DECISION_STATUSES, decidePartRequest(w, c, r, decision)
    PROVE  \/ \E answer \in Ledger!Answers : Ledger!Answer(c, r, answer)
           \/ UNCHANGED Ledger!vars
  <1>1. StockTypeOK /\ commits(w, {Request(r)})
    BY DEF StockInv, decidePartRequest
  <1>2. open[w].requests[r] = requests[r]
    BY <1>1, RequestRead, Zenon
  <1>3. requests[r].status \in WAITING_REQUEST_STATUSES /\ requests[r].serviceCenterId = c
    BY <1>2 DEF decidePartRequest, MayDecide
  <1>4. /\ requests' = [requests EXCEPT ![r].status = decision]
        /\ UNCHANGED <<usage, late, stock>>
    BY DEF decidePartRequest
  <1> DEFINE q == [requests[r] EXCEPT !.status = decision]
  <1>5. requests[r] \in PartRequest
    BY <1>1 DEF StockTypeOK
  <1>6. q \in PartRequest /\ q.status = decision /\ q.serviceCenterId = c
    BY <1>3, <1>5 DEF PartRequest, DECISION_STATUSES
  <1>7. requests' = [requests EXCEPT ![r] = q]
    BY <1>4
  <1> HIDE DEF q
  <1>8. Asked' = [Asked EXCEPT ![r] =
                    [status |-> IF decision \in WAITING_REQUEST_STATUSES THEN "WAITING"
                                ELSE decision,
                     serviceCenterId |-> c]]
    BY <1>1, <1>6, <1>7, AskedAfter
  <1>9. Asked[r] = [status |-> "WAITING", serviceCenterId |-> c]
    BY <1>3, AskedEntry
  <1>10. CASE decision = "APPROVED"
    <2>1. Asked' = [Asked EXCEPT ![r] = [status |-> "WAITING", serviceCenterId |-> c]]
      BY <1>8, <1>10 DEF WAITING_REQUEST_STATUSES
    <2>2. Asked' = Asked
      BY <1>9, <2>1 DEF Asked
    <2> QED
      BY <1>4, <2>2 DEF Ledger!vars
  <1>11. CASE decision # "APPROVED"
    <2>1. decision \in Ledger!Answers /\ decision \notin WAITING_REQUEST_STATUSES
      BY <1>11 DEF Ledger!Answers, DECISION_STATUSES, WAITING_REQUEST_STATUSES
    <2>2. Asked' = [Asked EXCEPT ![r] = [status |-> decision, serviceCenterId |-> c]]
      BY <1>8, <2>1
    <2>3. [Asked[r] EXCEPT !.status = decision] = [status |-> decision, serviceCenterId |-> c]
      BY <1>9
    <2>4. Asked' = [Asked EXCEPT ![r].status = decision]
      BY <2>2, <2>3
    <2> QED
      BY <1>4, <1>9, <2>1, <2>4 DEF Ledger!Answer
  <1> QED
    BY <1>10, <1>11

LEMMA RecordUsageLedger ==
    ASSUME StockInv, NEW w \in Workers, NEW u \in UsageIds, NEW quantity \in 1..MaxQuantity,
           recordUsage(w, u, quantity)
    PROVE  \E c \in Centres : Ledger!Enter(u, c, quantity)
  <1> DEFINE c == open[w].complaint.serviceCenterId
  <1>1. StockTypeOK /\ open[w] # Absent
    BY DEF StockInv, recordUsage, commits
  <1>2. c \in Centres
    BY <1>1, OpenTypes DEF Complaint
  <1>3. /\ usage[u].status = "UNUSED"
        /\ usage' = [usage EXCEPT ![u] = [status |-> "RECORDED", quantity |-> quantity,
                                          serviceCenterId |-> c]]
        /\ late' \in {late, late \cup {u}}
        /\ requests' = requests /\ stock' = stock
    BY DEF recordUsage
  <1> HIDE DEF c
  <1>4. Asked' = Asked
    BY <1>3 DEF Asked
  <1>5. Ledger!Enter(u, c, quantity)
    BY <1>3, <1>4 DEF Ledger!Enter
  <1> QED
    BY <1>2, <1>5

(* A line the transaction deducts is barred neither in its snapshot nor now. *)
LEMMA FinalizeUsageLedger ==
    ASSUME StockInv, NEW w \in Workers, NEW u \in UsageIds, finalizeUsage(w, u)
    PROVE  Ledger!Deduct(u)
  <1>1. /\ usage[u].status = "RECORDED" /\ Deduct(w, u) /\ ~RecordedAfterTheEnd(w, u)
    BY DEF finalizeUsage
  <1>2. /\ commits(w, {Line(u), Shelf(usage[u].serviceCenterId)})
        /\ stock[usage[u].serviceCenterId] >= usage[u].quantity
        /\ stock' = [stock EXCEPT ![usage[u].serviceCenterId] = @ - usage[u].quantity]
        /\ usage' = [usage EXCEPT ![u].status = "FINALIZED"]
        /\ requests' = requests /\ late' = late
    BY <1>1 DEF Deduct
  <1>3. u \notin late
    BY <1>1, <1>2, LineRead
  <1>4. Asked' = Asked
    BY <1>2 DEF Asked
  <1> QED
    BY <1>1, <1>2, <1>3, <1>4 DEF Ledger!Deduct

LEMMA StockLedger ==
    ASSUME StockInv, StockSteps
    PROVE  \E c \in Centres, quantity \in 0..MaxStock : Ledger!Count(c, quantity)
  <1>1. ASSUME NEW c \in Centres, NEW quantity, writesShelf(c, quantity)
        PROVE  Ledger!Count(c, quantity)
    <2>1. /\ stock' = [stock EXCEPT ![c] = quantity]
          /\ requests' = requests /\ UNCHANGED <<usage, late>>
      BY <1>1 DEF writesShelf, records
    <2>2. Asked' = Asked
      BY <2>1 DEF Asked
    <2> QED
      BY <2>1, <2>2 DEF Ledger!Count
  <1>2. ASSUME NEW c \in Centres, NEW delta \in (-MaxStock..MaxStock) \ {0}, adjustStock(c, delta)
        PROVE  stock[c] + delta \in 0..MaxStock /\ writesShelf(c, stock[c] + delta)
    <2>1. stock[c] \in 0..MaxStock /\ MaxStock \in Nat
      BY BoundsAssumption DEF StockInv, StockTypeOK
    <2>2. delta < 0 => stock[c] >= -delta
      BY <1>2 DEF adjustStock
    <2>3. stock[c] + delta <= MaxStock /\ writesShelf(c, stock[c] + delta)
      BY <1>2 DEF adjustStock
    <2> QED
      BY <2>1, <2>2, <2>3
  <1>3. CASE \E c \in Centres : \E quantity \in 0..MaxStock : setStock(c, quantity)
    BY <1>1, <1>3 DEF setStock
  <1>4. CASE \E c \in Centres : \E delta \in (-MaxStock..MaxStock) \ {0} : adjustStock(c, delta)
    <2>1. PICK c \in Centres, delta \in (-MaxStock..MaxStock) \ {0} : adjustStock(c, delta)
      BY <1>4
    <2> QED
      BY <1>1, <1>2, <2>1
  <1> QED
    BY <1>3, <1>4, Zenon DEF StockSteps

LEMMA NextLedger == StockInv /\ [StockNext]_stockVars => [Ledger!Next]_(Ledger!vars)
  <1> SUFFICES ASSUME StockInv, [StockNext]_stockVars PROVE Ledger!Next \/ UNCHANGED Ledger!vars
    OBVIOUS
  <1>1. CASE UNCHANGED stockVars
    BY <1>1, LedgerStays DEF stockVars
  <1>2. ASSUME NEW w \in Workers, begin(w) \/ abort(w)
        PROVE  UNCHANGED Ledger!vars
    BY <1>2, LedgerStays DEF begin, abort, records
  <1>3. ASSUME NEW w \in Workers, WorkflowSteps(w)
        PROVE  Ledger!Next \/ UNCHANGED Ledger!vars
    <2>1. ASSUME NEW c \in Centres, assignServiceCenter(w, c)
          PROVE  Ledger!Next
      BY <2>1, AssignServiceCenterLedger, Zenon DEF Ledger!Next
    <2>2. CASE assignTechnician(w) \/ startVisit(w) \/ endComplaint(w) \/ reopenComplaint(w)
      BY <2>2, ComplaintLedger, Zenon DEF Ledger!Next
    <2> QED
      BY <1>3, <2>1, <2>2, Zenon DEF WorkflowSteps
  <1>4. ASSUME NEW w \in Workers, PartsSteps(w)
        PROVE  Ledger!Next \/ UNCHANGED Ledger!vars
    <2>1. ASSUME NEW r \in RequestIds, createPartRequest(w, r)
          PROVE  Ledger!Next
      BY <2>1, CreatePartRequestLedger, Zenon DEF Ledger!Next
    <2>2. ASSUME NEW r \in RequestIds, NEW c \in Centres, NEW decision \in DECISION_STATUSES,
                 decidePartRequest(w, c, r, decision)
          PROVE  Ledger!Next \/ UNCHANGED Ledger!vars
      BY <2>2, DecidePartRequestLedger, Zenon DEF Ledger!Next
    <2>3. ASSUME NEW u \in UsageIds, NEW quantity \in 1..MaxQuantity, recordUsage(w, u, quantity)
          PROVE  Ledger!Next
      BY <2>3, RecordUsageLedger, Zenon DEF Ledger!Next
    <2>4. ASSUME NEW u \in UsageIds, finalizeUsage(w, u)
          PROVE  Ledger!Next
      BY <2>4, FinalizeUsageLedger, Zenon DEF Ledger!Next
    <2> QED
      BY <1>4, <2>1, <2>2, <2>3, <2>4, Zenon DEF PartsSteps
  <1>5. CASE StockSteps
    BY <1>5, StockLedger, Zenon DEF Ledger!Next
  <1> QED
    BY <1>1, <1>2, <1>3, <1>4, <1>5, Zenon DEF StockNext

(* The detailed service implements the ledger: transactions that overlap    *)
(* leave what one clerk would have left, doing one thing at a time.         *)
THEOREM LedgerKept == StockSpec => KeepsLedger
  <1>1. StockSpec => Ledger!Init /\ [][Ledger!Next]_(Ledger!vars)
    BY InitLedger, NextLedger, StockInvariant, PTL DEF StockSpec
  <1> QED
    BY <1>1, PTL DEF KeepsLedger, Ledger!Spec
=============================================================================
