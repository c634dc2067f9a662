--------------------------- MODULE Records_proofs ---------------------------
(* Theorems about Records, for every number of requests, customers, cities, *)
(* centres, photos and years: complaint numbers, what a failed request      *)
(* leaves behind, who hears of a deactivated centre's complaints, and the   *)
(* bytes of a photo beside its row.                                         *)
EXTENDS Records, FiniteSetTheorems, TLAPS

(* Where a request is that others have to reckon with.                      *)
Placed(c) == past(c, {"placing", "minting", "filing"})
Entering(c) == past(c, {"minting", "filing"})
Filing(c) == past(c, {"filing"})
Rereading(c) == at(c, {"customer", "centre"}, "rereading")
Opening(c) == at(c, {"centre"}, "staffing") \/ at(c, {"centre"}, "hiring")

(* What a request of each kind carries, and what a transaction has read.    *)
Carries(r) ==
    /\ r.job \in {"complaint", "customer", "account"} => r.mobile \in Mobiles
    /\ r.job \in {"complaint", "customer", "centre"} => r.city \in Cities
    /\ r.job \in {"centre", "account", "deactivate", "activate"} => r.code \in Codes

CallTypeOK == /\ call \in [Calls -> Call]
              /\ \A c \in Calls : call[c] # Waiting => Carries(req(c))
              /\ \A c \in Calls : Placed(c) => call[c].seen \in Snapshot

StateOK == /\ year \in Years /\ db \in Docs
           /\ reported \subseteq Number
           /\ cut \subseteq [job : {"centre", "deactivate"}, code : Codes]

(* A number minted and not yet committed is the next of its year, and       *)
(* nobody else's.                                                           *)
NumberInv ==
    /\ IsFiniteSet(db.complaints)
    /\ NumbersAreConsecutive
    /\ \A c \in Calls : Filing(c) =>
          /\ call[c].number \in Number
          /\ call[c].number.seq = db.counter[call[c].number.year] + 1
          /\ \A d \in Calls \ {c} :
                Filing(d) => call[d].number.year # call[c].number.year

(* One record for a mobile, and a customer entered with a complaint has it; *)
(* a transaction past its checks will find the customer it looked for, or   *)
(* none but its own.                                                        *)
CustomerInv ==
    /\ \A x, y \in db.customers : x.mobile = y.mobile => x = y
    /\ \A k \in db.complaints : customers(k.mobile) # {} /\ k.city \in db.cities
    /\ \A x \in db.customers : x.raised => \E k \in db.complaints : k.mobile = x.mobile
    /\ \A c \in Calls : /\ Placed(c) /\ ~req(c).new => customers(req(c).mobile) # {}
                        /\ Entering(c) /\ req(c).new
                              => /\ customers(req(c).mobile) = {}
                                 /\ ~pendingCustomer(c, req(c).mobile)

(* Who lost the race for a city will find it.                               *)
CityInv == lost = {} /\ \A c \in Calls : Rereading(c) => req(c).city \in db.cities

(* A centre a request still has to staff is there, with the owner it asked  *)
(* for.                                                                     *)
OwnersFound ==
    \A z \in db.centres :
       \/ z.owner = Absent \/ [job |-> "centre", code |-> z.code] \in cut
       \/ accounts(z.owner) # {}
       \/ \E c \in Unfinished : req(c).job = "centre" /\ req(c).code = z.code

CentreInv ==
    /\ OwnersFound
    /\ \A c \in Calls : Opening(c) =>
          /\ req(c).mobile \in Mobiles
          /\ centres(req(c).code) # {}
          /\ \A z \in centres(req(c).code) : z.owner = req(c).mobile

IntakeInv == /\ StateOK /\ CallTypeOK /\ NumberInv /\ CustomerInv /\ CityInv /\ CentreInv
             /\ StrandedIsReported

-----------------------------------------------------------------------------
(* A request at work.                                                       *)
Busy == [req : Request, step : Steps, seen : Snapshot \cup {Absent},
         number : Number \cup {Absent}]

LEMMA BusyCalls == \A x \in Busy : x # Waiting
  BY DEF Busy, Waiting

LEMMA WaitingOrBusy ==
    ASSUME CallTypeOK, NEW c \in Calls, call[c] # Waiting
    PROVE  /\ call[c] \in Busy /\ req(c) \in Request /\ Carries(req(c))
           /\ call[c].step \in Steps
  BY DEF CallTypeOK, Call, Busy, req

(* One request moves; the others stay where they are.                       *)
LEMMA OneCall ==
    ASSUME CallTypeOK, NEW c \in Calls, NEW new \in Call, call' = [call EXCEPT ![c] = new],
           new # Waiting => Carries(new.req),
           new # Waiting /\ new.req.job = "complaint" /\ new.step \in {"placing", "minting", "filing"}
              => new.seen \in Snapshot
    PROVE  /\ CallTypeOK' /\ call'[c] = new
           /\ \A d \in Calls \ {c} : call'[d] = call[d]
  <1>1. call' \in [Calls -> Call] /\ call'[c] = new /\ \A d \in Calls \ {c} : call'[d] = call[d]
    BY DEF CallTypeOK
  <1>2. \A d \in Calls : call'[d] # Waiting => Carries(call'[d].req)
    BY <1>1 DEF CallTypeOK, req
  <1>3. ASSUME NEW d \in Calls, Placed(d)'
        PROVE  call'[d].seen \in Snapshot
    BY <1>1, <1>3 DEF CallTypeOK, Placed, past, at, req
  <1> QED
    BY <1>1, <1>2, <1>3 DEF CallTypeOK, req

LEMMA Restepped ==
    ASSUME CallTypeOK, NEW c \in Calls, call[c] # Waiting, NEW step \in Steps, move(c, step),
           req(c).job = "complaint" /\ step \in {"placing", "minting", "filing"} => Placed(c)
    PROVE  /\ CallTypeOK' /\ call'[c] # Waiting /\ req(c)' = req(c) /\ call'[c].step = step
           /\ call'[c].number = call[c].number
           /\ \A d \in Calls \ {c} : call'[d] = call[d]
  <1> DEFINE new == [call[c] EXCEPT !.step = step]
  <1>1. call[c] \in Busy /\ Carries(call[c].req)
    BY WaitingOrBusy DEF req
  <1>2. /\ new \in Busy /\ new.req = call[c].req /\ new.step = step /\ new.seen = call[c].seen
        /\ new.number = call[c].number
    BY <1>1 DEF Busy
  <1>3. call' = [call EXCEPT ![c] = new]
    BY DEF move, CallTypeOK
  <1>4. Placed(c) => new.seen \in Snapshot
    BY <1>2 DEF CallTypeOK
  <1> HIDE DEF new
  <1>5. new \in Call /\ new # Waiting
    BY <1>2, BusyCalls DEF Busy, Call
  <1> QED
    BY <1>1, <1>2, <1>3, <1>4, <1>5, OneCall DEF req

LEMMA Left ==
    ASSUME CallTypeOK, NEW c \in Calls, leave(c)
    PROVE  /\ CallTypeOK' /\ call'[c] = Waiting
           /\ \A d \in Calls \ {c} : call'[d] = call[d]
  BY OneCall DEF leave, Call

-----------------------------------------------------------------------------
(* What each part of the invariant asks of a step: nobody newly in the      *)
(* places it speaks of, and nothing taken from the documents it reads.      *)
FilingKept == \A d \in Calls : Filing(d)' => Filing(d) /\ call'[d].number = call[d].number
PlacedKept == \A d \in Calls : /\ Placed(d)' => Placed(d) /\ req(d)' = req(d)
                               /\ Entering(d)' => Entering(d) /\ req(d)' = req(d)
RereadingKept == \A d \in Calls : Rereading(d)' => Rereading(d) /\ req(d)' = req(d)
OpeningKept == \A d \in Calls : Opening(d)' => Opening(d) /\ req(d)' = req(d)
UnfinishedKept == \A d \in Unfinished : d \in Unfinished' /\ req(d)' = req(d)

LEMMA NumberFrame ==
    ASSUME NumberInv, FilingKept,
           db'.counter = db.counter, db'.complaints = db.complaints
    PROVE  NumberInv'
  BY DEF NumberInv, NumbersAreConsecutive, FilingKept

LEMMA PendingKept ==
    ASSUME CustomerInv, PlacedKept, NEW c \in Calls, Entering(c)', req(c)'.new
    PROVE  ~pendingCustomer(c, req(c).mobile)'
  <1>1. /\ Entering(c) /\ req(c)' = req(c) /\ req(c).new
        /\ ~pendingCustomer(c, req(c).mobile)
    BY Zenon DEF CustomerInv, PlacedKept
  <1>2. ASSUME pendingCustomer(c, req(c).mobile)'
        PROVE  FALSE
    <2>1. PICK d \in Calls \ {c} : /\ Entering(d)' /\ req(d)'.mobile = req(c)'.mobile
                                   /\ req(d)'.new
      BY <1>2, Zenon DEF pendingCustomer, Entering
    <2>2. Entering(d) /\ req(d).mobile = req(c).mobile /\ req(d).new
      BY <1>1, <2>1, Zenon DEF PlacedKept
    <2> QED
      BY <1>1, <2>2, Zenon DEF pendingCustomer, Entering
  <1> QED
    BY <1>2

LEMMA CustomerFrame ==
    ASSUME CustomerInv, PlacedKept,
           db'.customers = db.customers, db'.complaints = db.complaints,
           db.cities \subseteq db'.cities
    PROVE  CustomerInv'
  <1>1. \A m : customers(m)' = customers(m)
    BY DEF customers
  <1>2. ASSUME NEW c \in Calls
        PROVE  (/\ Placed(c) /\ ~req(c).new => customers(req(c).mobile) # {}
                /\ Entering(c) /\ req(c).new
                     => /\ customers(req(c).mobile) = {}
                        /\ ~pendingCustomer(c, req(c).mobile))'
    <2>1. (Placed(c) /\ ~req(c).new => customers(req(c).mobile) # {})'
      BY <1>1, Zenon DEF CustomerInv, PlacedKept
    <2>2. ASSUME Entering(c)', req(c)'.new
          PROVE  /\ Entering(c) /\ req(c)' = req(c) /\ req(c).new
                 /\ customers(req(c).mobile) = {} /\ ~pendingCustomer(c, req(c).mobile)
      BY <2>2, Zenon DEF CustomerInv, PlacedKept
    <2> QED
      BY <1>1, <2>1, <2>2, PendingKept, Zenon
  <1> QED
    BY <1>1, <1>2 DEF CustomerInv

LEMMA CityFrame ==
    ASSUME CityInv, RereadingKept, lost' = lost, db.cities \subseteq db'.cities
    PROVE  CityInv'
  BY DEF CityInv, RereadingKept

LEMMA CentreFrame ==
    ASSUME CentreInv, OpeningKept, UnfinishedKept,
           db'.centres = db.centres, db'.accounts = db.accounts, cut \subseteq cut'
    PROVE  CentreInv'
  <1>1. /\ \A m : accounts(m)' = accounts(m)
        /\ \A code : centres(code)' = centres(code)
    BY DEF accounts, centres
  <1>2. OwnersFound'
    BY <1>1 DEF CentreInv, OwnersFound, UnfinishedKept
  <1> QED
    BY <1>1, <1>2 DEF CentreInv, OpeningKept

LEMMA StrandedMove ==
    ASSUME StrandedIsReported,
           \A d \in Unfinished : req(d).job = "deactivate" => d \in Unfinished' /\ req(d)' = req(d),
           db'.complaints = db.complaints, Active \subseteq Active',
           reported \subseteq reported', cut \subseteq cut'
    PROVE  StrandedIsReported'
  BY DEF StrandedIsReported

LEMMA StrandedFrame ==
    ASSUME StrandedIsReported, UnfinishedKept,
           db'.complaints = db.complaints, Active \subseteq Active',
           reported \subseteq reported', cut \subseteq cut'
    PROVE  StrandedIsReported'
  BY StrandedMove DEF UnfinishedKept

(* Most steps move one request and touch no document.                       *)
LEMMA QuietStep ==
    ASSUME IntakeInv, CallTypeOK', StateOK', FilingKept, PlacedKept, RereadingKept, OpeningKept,
           UnfinishedKept, db' = db, lost' = lost, reported' = reported, cut' = cut
    PROVE  IntakeInv'
  <1>1. Active' = Active
    BY DEF Active
  <1> QED
    BY <1>1, NumberFrame, CustomerFrame, CityFrame, CentreFrame, StrandedFrame DEF IntakeInv

(* The request that moves is the only one to look at.                       *)
LEMMA OthersKept ==
    ASSUME NEW c \in Calls, \A d \in Calls \ {c} : call'[d] = call[d]
    PROVE  \A d \in Calls \ {c} :
              /\ req(d)' = req(d) /\ call'[d].number = call[d].number
              /\ Filing(d)' <=> Filing(d)
              /\ Placed(d)' <=> Placed(d)
              /\ Entering(d)' <=> Entering(d)
              /\ Rereading(d)' <=> Rereading(d)
              /\ Opening(d)' <=> Opening(d)
              /\ d \in Unfinished => d \in Unfinished'
  BY DEF req, Filing, Placed, Entering, Rereading, Opening, past, at, Unfinished

LEMMA AwayKept ==
    ASSUME NEW c \in Calls, \A d \in Calls \ {c} : call'[d] = call[d],
           ~Placed(c)', ~Rereading(c)', ~Opening(c)'
    PROVE  /\ FilingKept /\ PlacedKept /\ RereadingKept /\ OpeningKept
           /\ c \notin Unfinished => UnfinishedKept
           /\ \A d \in Unfinished \ {c} : d \in Unfinished' /\ req(d)' = req(d)
  <1>1. ~Filing(c)' /\ ~Entering(c)'
    BY DEF Filing, Entering, Placed, past
  <1>2. Unfinished \subseteq Calls
    BY DEF Unfinished
  <1> QED
    BY <1>1, <1>2, OthersKept
       DEF FilingKept, PlacedKept, RereadingKept, OpeningKept, UnfinishedKept

LEMMA LeftKept ==
    ASSUME CallTypeOK, NEW c \in Calls, leave(c)
    PROVE  /\ CallTypeOK' /\ FilingKept /\ PlacedKept /\ RereadingKept /\ OpeningKept
           /\ c \notin Unfinished => UnfinishedKept
           /\ \A d \in Unfinished \ {c} : d \in Unfinished' /\ req(d)' = req(d)
  <1>1. /\ CallTypeOK' /\ call'[c] = Waiting
        /\ \A d \in Calls \ {c} : call'[d] = call[d]
    BY Left
  <1>2. ~Placed(c)' /\ ~Rereading(c)' /\ ~Opening(c)'
    BY <1>1 DEF Placed, Rereading, Opening, past, at
  <1> QED
    BY <1>1, <1>2, AwayKept

(* A request goes to a step at which nobody has to reckon with it.          *)
LEMMA AsideKept ==
    ASSUME CallTypeOK, NEW c \in Calls, call[c] # Waiting, req(c).job # "complaint",
           NEW step \in {"finding", "creating", "inserting", "saving", "reporting", "hiring"},
           step = "hiring" => req(c).job # "centre",
           move(c, step)
    PROVE  /\ CallTypeOK' /\ FilingKept /\ PlacedKept /\ RereadingKept /\ OpeningKept
           /\ c \notin Unfinished => UnfinishedKept
           /\ \A d \in Unfinished \ {c} : d \in Unfinished' /\ req(d)' = req(d)
           /\ call'[c] # Waiting /\ req(c)' = req(c) /\ call'[c].step = step
  <1>1. /\ CallTypeOK' /\ call'[c] # Waiting /\ req(c)' = req(c) /\ call'[c].step = step
        /\ \A d \in Calls \ {c} : call'[d] = call[d]
    BY Restepped DEF Steps
  <1>2. ~Placed(c)' /\ ~Rereading(c)' /\ ~Opening(c)'
    BY <1>1 DEF Placed, Rereading, Opening, past, at
  <1> QED
    BY <1>1, <1>2, AwayKept

LEMMA QuietLeave ==
    ASSUME IntakeInv, NEW c \in Calls, leave(c), c \notin Unfinished, db' = db, keepTheRest
    PROVE  IntakeInv'
  <1>1. StateOK'
    BY DEF IntakeInv, StateOK, keepTheRest
  <1> QED
    BY <1>1, LeftKept, QuietStep DEF IntakeInv, keepTheRest

-----------------------------------------------------------------------------
(* One lemma per step of a request.                                         *)
LEMMA ArriveKeeps ==
    ASSUME IntakeInv, NEW c \in Calls, NEW r \in Request, Carries(r), arrive(c, r)
    PROVE  IntakeInv'
  <1> DEFINE new == [req |-> r, step |-> "begin", seen |-> Absent, number |-> Absent]
  <1>1. /\ call[c] = Waiting /\ call' = [call EXCEPT ![c] = new] /\ db' = db /\ keepTheRest
    BY DEF arrive
  <1>2. new \in Busy /\ new.req = r /\ new.step = "begin"
    BY DEF Busy, Steps
  <1> HIDE DEF new
  <1>3. new \in Call
    BY <1>2 DEF Busy, Call
  <1>4. /\ CallTypeOK' /\ call'[c] = new
        /\ \A d \in Calls \ {c} : call'[d] = call[d]
    BY <1>1, <1>2, <1>3, OneCall DEF IntakeInv
  <1>5. ~Placed(c)' /\ ~Rereading(c)' /\ ~Opening(c)'
    BY <1>2, <1>4 DEF Placed, Rereading, Opening, past, at
  <1>6. c \notin Unfinished
    BY <1>1 DEF Unfinished, at
  <1>7. StateOK'
    BY <1>1 DEF IntakeInv, StateOK, keepTheRest
  <1> QED
    BY <1>1, <1>4, <1>5, <1>6, <1>7, AwayKept, QuietStep DEF keepTheRest

LEMMA RequestArrivesKeeps ==
    ASSUME IntakeInv, requestArrives
    PROVE  IntakeInv'
  <1>1. PICK c \in Calls :
          \/ \E m \in Mobiles, new \in BOOLEAN, city \in Cities, code \in Codes \cup {Absent} :
                createComplaint(c, m, new, city, code)
          \/ \E m \in Mobiles, city \in Cities : createCustomer(c, m, city)
          \/ \E code \in Codes, city \in Cities, owner \in Mobiles \cup {Absent} :
                createServiceCenter(c, code, city, owner)
          \/ \E m \in Mobiles, code \in Codes : createUser(c, m, code)
          \/ \E code \in Codes, job \in {"deactivate", "activate"} : setActive(c, code, job)
    BY DEF requestArrives
  <1>2. \E r \in Request : Carries(r) /\ arrive(c, r)
    <2>1. ASSUME NEW m \in Mobiles, NEW new \in BOOLEAN, NEW city \in Cities,
                 NEW code \in Codes \cup {Absent}, createComplaint(c, m, new, city, code)
          PROVE  \E r \in Request : Carries(r) /\ arrive(c, r)
      <3> DEFINE r == [job |-> "complaint", mobile |-> m, new |-> new, city |-> city, code |-> code]
      <3>1. r \in Request /\ Carries(r)
        BY DEF Request, Carries
      <3> QED
        BY <2>1, <3>1 DEF createComplaint
    <2>2. ASSUME NEW m \in Mobiles, NEW city \in Cities, createCustomer(c, m, city)
          PROVE  \E r \in Request : Carries(r) /\ arrive(c, r)
      <3> DEFINE r == [job |-> "customer", mobile |-> m, new |-> TRUE, city |-> city, code |-> Absent]
      <3>1. r \in Request /\ Carries(r)
        BY DEF Request, Carries
      <3> QED
        BY <2>2, <3>1 DEF createCustomer
    <2>3. ASSUME NEW code \in Codes, NEW city \in Cities, NEW owner \in Mobiles \cup {Absent},
                 createServiceCenter(c, code, city, owner)
          PROVE  \E r \in Request : Carries(r) /\ arrive(c, r)
      <3> DEFINE r == [job |-> "centre", mobile |-> owner, new |-> TRUE, city |-> city, code |-> code]
      <3>1. r \in Request /\ Carries(r)
        BY DEF Request, Carries
      <3> QED
        BY <2>3, <3>1 DEF createServiceCenter
    <2>4. ASSUME NEW m \in Mobiles, NEW code \in Codes, createUser(c, m, code)
          PROVE  \E r \in Request : Carries(r) /\ arrive(c, r)
      <3> DEFINE r == [job |-> "account", mobile |-> m, new |-> TRUE, city |-> Absent, code |-> code]
      <3>1. r \in Request /\ Carries(r)
        BY DEF Request, Carries
      <3> QED
        BY <2>4, <3>1 DEF createUser
    <2>5. ASSUME NEW code \in Codes, NEW job \in {"deactivate", "activate"}, setActive(c, code, job)
          PROVE  \E r \in Request : Carries(r) /\ arrive(c, r)
      <3> DEFINE r == [job |-> job, mobile |-> Absent, new |-> FALSE, city |-> Absent, code |-> code]
      <3>1. r \in Request /\ Carries(r)
        BY DEF Request, Carries
      <3> QED
        BY <2>5, <3>1 DEF setActive
    <2> QED
      BY <1>1, <2>1, <2>2, <2>3, <2>4, <2>5
  <1> QED
    BY <1>2, ArriveKeeps

-----------------------------------------------------------------------------
(* The transaction.                                                         *)

(* A request in a transaction holds nothing that others wait for, but a     *)
(* record with its mobile and a number.                                     *)
LEMMA InTransaction ==
    ASSUME NEW c \in Calls, NEW step, at(c, {"complaint"}, step)
    PROVE  call[c] # Waiting /\ req(c).job = "complaint" /\ call[c].step = step /\ c \notin Unfinished
  BY DEF at, Unfinished

LEMMA ComplaintMove ==
    ASSUME IntakeInv, NEW c \in Calls, NEW new \in Busy, call[c] # Waiting,
           req(c).job = "complaint", call' = [call EXCEPT ![c] = new], new.req = req(c),
           new.step \in {"placing", "minting", "filing"} => new.seen \in Snapshot
    PROVE  /\ CallTypeOK' /\ call'[c] = new /\ req(c)' = req(c)
           /\ \A d \in Calls \ {c} : call'[d] = call[d]
           /\ RereadingKept /\ OpeningKept /\ UnfinishedKept
           /\ Placed(c)' <=> new.step \in {"placing", "minting", "filing"}
           /\ Entering(c)' <=> new.step \in {"minting", "filing"}
           /\ Filing(c)' <=> new.step = "filing"
  <1>1. new \in Call /\ new # Waiting /\ Carries(new.req)
    BY BusyCalls, WaitingOrBusy DEF Busy, Call, IntakeInv
  <1>2. CallTypeOK' /\ call'[c] = new /\ \A d \in Calls \ {c} : call'[d] = call[d]
    BY <1>1, OneCall DEF IntakeInv
  <1>3. /\ req(c)' = req(c) /\ call'[c] # Waiting /\ req(c)'.job = "complaint"
        /\ call'[c].step = new.step
    BY <1>1, <1>2 DEF req
  <1>4. ~Rereading(c)' /\ ~Opening(c)' /\ c \notin Unfinished
    BY <1>3 DEF Rereading, Opening, Unfinished, at
  <1>5. /\ Placed(c)' <=> new.step \in {"placing", "minting", "filing"}
        /\ Entering(c)' <=> new.step \in {"minting", "filing"}
        /\ Filing(c)' <=> new.step = "filing"
    BY <1>3 DEF Placed, Entering, Filing, past, at
  <1>6. RereadingKept /\ OpeningKept /\ UnfinishedKept
    <2>1. Unfinished \subseteq Calls
      BY DEF Unfinished
    <2> QED
      BY <1>2, <1>4, <2>1, OthersKept DEF RereadingKept, OpeningKept, UnfinishedKept
  <1> QED
    BY <1>2, <1>3, <1>5, <1>6

(* A request that is placed, or enters its customer, does so beside the     *)
(* others, who stay where they are.                                         *)
LEMMA CustomerMove ==
    ASSUME CustomerInv, NEW c \in Calls, \A d \in Calls \ {c} : call'[d] = call[d],
           req(c)' = req(c), db' = db,
           Placed(c)' /\ ~req(c).new => customers(req(c).mobile) # {},
           Entering(c)' /\ req(c).new => /\ customers(req(c).mobile) = {}
                                         /\ ~pendingCustomer(c, req(c).mobile)
    PROVE  CustomerInv'
  <1>1. \A m : customers(m)' = customers(m)
    BY DEF customers
  <1>2. \A d \in Calls \ {c} : /\ req(d)' = req(d)
                               /\ Placed(d)' <=> Placed(d)
                               /\ Entering(d)' <=> Entering(d)
    BY OthersKept
  <1>3. ASSUME NEW d \in Calls
        PROVE  (Placed(d) /\ ~req(d).new => customers(req(d).mobile) # {})'
    BY <1>1, <1>2, Zenon DEF CustomerInv
  <1>4. ASSUME NEW d \in Calls, Entering(d)', req(d)'.new
        PROVE  (customers(req(d).mobile) = {} /\ ~pendingCustomer(d, req(d).mobile))'
    <2>1. customers(req(d).mobile) = {} /\ ~pendingCustomer(d, req(d).mobile) /\ req(d)' = req(d)
      BY <1>2, <1>4, Zenon DEF CustomerInv
    <2>2. ASSUME NEW e \in Calls \ {d}, Entering(e)', req(e)'.mobile = req(d)'.mobile, req(e)'.new
          PROVE  FALSE
      <3>1. CASE e # c
        <4>1. Entering(e) /\ req(e).mobile = req(d).mobile /\ req(e).new
          BY <1>2, <2>1, <2>2, <3>1, Zenon
        <4> QED
          BY <2>1, <4>1, Zenon DEF pendingCustomer, Entering
      <3>2. CASE e = c
        <4>1. ~pendingCustomer(c, req(c).mobile) /\ d \in Calls \ {c}
          BY <2>2, <3>2, Zenon
        <4>2. Entering(d) /\ req(d).mobile = req(c).mobile /\ req(d).new
          BY <1>2, <1>4, <2>1, <2>2, <3>2, <4>1, Zenon
        <4> QED
          BY <4>1, <4>2, Zenon DEF pendingCustomer, Entering
      <3> QED
        BY <3>1, <3>2
    <2> QED
      BY <1>1, <2>1, <2>2, Zenon DEF pendingCustomer, Entering
  <1> QED
    BY <1>1, <1>3, <1>4, Zenon DEF CustomerInv

LEMMA RunAgainKeeps ==
    ASSUME IntakeInv, NEW c \in Calls, NEW step, at(c, {"complaint"}, step), runAgain(c)
    PROVE  IntakeInv'
  <1> DEFINE new == [call[c] EXCEPT !.step = "begin", !.seen = Absent]
  <1>1. call[c] \in Busy /\ call[c] # Waiting /\ req(c).job = "complaint" /\ c \notin Unfinished
    BY InTransaction, WaitingOrBusy DEF IntakeInv
  <1>2. /\ call' = [call EXCEPT ![c] = new] /\ db' = db /\ keepTheRest
    BY DEF runAgain, IntakeInv, CallTypeOK
  <1>3. new \in Busy /\ new.req = req(c) /\ new.step = "begin"
    BY <1>1 DEF Busy, Steps, req
  <1> HIDE DEF new
  <1>4. /\ CallTypeOK' /\ RereadingKept /\ OpeningKept /\ UnfinishedKept
        /\ ~Placed(c)' /\ ~Entering(c)' /\ ~Filing(c)'
        /\ \A d \in Calls \ {c} : call'[d] = call[d]
    BY <1>1, <1>2, <1>3, ComplaintMove
  <1>5. FilingKept /\ PlacedKept
    BY <1>4, OthersKept DEF FilingKept, PlacedKept
  <1>6. StateOK'
    BY <1>2 DEF IntakeInv, StateOK, keepTheRest
  <1> QED
    BY <1>2, <1>4, <1>5, <1>6, QuietStep DEF keepTheRest

LEMMA ResolveCustomerKeeps ==
    ASSUME IntakeInv, NEW c \in Calls, resolveCustomer(c)
    PROVE  IntakeInv'
  <1>1. /\ call[c] \in Busy /\ call[c] # Waiting /\ req(c).job = "complaint" /\ c \notin Unfinished
        /\ call[c].step = "begin" /\ db' = db /\ keepTheRest
    BY InTransaction, WaitingOrBusy DEF IntakeInv, resolveCustomer
  <1>2. CASE leave(c)
    BY <1>1, <1>2, QuietLeave
  <1>3. CASE /\ req(c).new <=> customers(req(c).mobile) = {}
             /\ call' = [call EXCEPT ![c].step = "placing",
                            ![c].seen = [counter |-> db.counter, city |-> req(c).city \in db.cities,
                                        active |-> Active]]
    <2> DEFINE snapshot == [counter |-> db.counter, city |-> req(c).city \in db.cities,
                            active |-> Active]
               new == [call[c] EXCEPT !.step = "placing", !.seen = snapshot]
    <2>1. Active \subseteq Codes
      BY DEF Active, IntakeInv, StateOK, Docs, Centre
    <2>2. snapshot \in Snapshot
      BY <2>1 DEF Snapshot, IntakeInv, StateOK, Docs
    <2> HIDE DEF snapshot
    <2>3. call' = [call EXCEPT ![c] = new]
      BY <1>3 DEF snapshot, IntakeInv, CallTypeOK
    <2>4. new \in Busy /\ new.req = req(c) /\ new.step = "placing" /\ new.seen \in Snapshot
      BY <1>1, <2>2 DEF Busy, Steps, req
    <2> HIDE DEF new
    <2>5. /\ CallTypeOK' /\ RereadingKept /\ OpeningKept /\ UnfinishedKept /\ req(c)' = req(c)
          /\ ~Entering(c)' /\ ~Filing(c)'
          /\ \A d \in Calls \ {c} : call'[d] = call[d]
      BY <1>1, <2>3, <2>4, ComplaintMove
    <2>6. CustomerInv'
      <3>1. ~req(c).new => customers(req(c).mobile) # {}
        BY <1>3, Zenon
      <3> QED
        BY <1>1, <2>5, <3>1, CustomerMove, Zenon DEF IntakeInv
    <2>7. FilingKept
      BY <2>5, OthersKept DEF FilingKept
    <2>8. StateOK' /\ Active' = Active
      BY <1>1 DEF IntakeInv, StateOK, keepTheRest, Active
    <2>9. NumberInv' /\ CityInv' /\ CentreInv' /\ StrandedIsReported'
      BY <1>1, <2>5, <2>7, <2>8, NumberFrame, CityFrame, CentreFrame, StrandedFrame
         DEF IntakeInv, keepTheRest
    <2> QED
      BY <2>5, <2>6, <2>8, <2>9 DEF IntakeInv
  <1> QED
    BY <1>2, <1>3 DEF resolveCustomer

LEMMA EnrolCustomerKeeps ==
    ASSUME IntakeInv, NEW c \in Calls, enrolCustomer(c)
    PROVE  IntakeInv'
  <1>1. /\ at(c, {"complaint"}, "placing") /\ db' = db /\ keepTheRest
        /\ call[c] \in Busy /\ call[c] # Waiting /\ req(c).job = "complaint" /\ c \notin Unfinished
    BY InTransaction, WaitingOrBusy DEF IntakeInv, enrolCustomer, runAgain
  <1>2. CASE runAgain(c)
    BY <1>1, <1>2, RunAgainKeeps
  <1>3. CASE ~clash(c) /\ move(c, "minting")
    <2> DEFINE new == [call[c] EXCEPT !.step = "minting"]
    <2>1. Placed(c)
      BY <1>1 DEF Placed, past
    <2>2. new \in Busy /\ new.req = req(c) /\ new.step = "minting" /\ new.seen \in Snapshot
      BY <1>1, <2>1 DEF Busy, Steps, req, IntakeInv, CallTypeOK
    <2>3. call' = [call EXCEPT ![c] = new]
      BY <1>3 DEF move, IntakeInv, CallTypeOK
    <2> HIDE DEF new
    <2>4. /\ CallTypeOK' /\ RereadingKept /\ OpeningKept /\ UnfinishedKept /\ req(c)' = req(c)
          /\ ~Filing(c)'
          /\ \A d \in Calls \ {c} : call'[d] = call[d]
      BY <1>1, <2>2, <2>3, ComplaintMove
    <2>5. CustomerInv'
      <3>1. ~req(c).new => customers(req(c).mobile) # {}
        BY <2>1, Zenon DEF IntakeInv, CustomerInv
      <3>2. req(c).new => /\ customers(req(c).mobile) = {}
                          /\ ~pendingCustomer(c, req(c).mobile)
        BY <1>3, Zenon DEF clash
      <3> QED
        BY <1>1, <2>4, <3>1, <3>2, CustomerMove, Zenon DEF IntakeInv
    <2>6. FilingKept
      BY <2>4, OthersKept DEF FilingKept
    <2>7. StateOK' /\ Active' = Active
      BY <1>1 DEF IntakeInv, StateOK, keepTheRest, Active
    <2>8. NumberInv' /\ CityInv' /\ CentreInv' /\ StrandedIsReported'
      BY <1>1, <2>4, <2>6, <2>7, NumberFrame, CityFrame, CentreFrame, StrandedFrame
         DEF IntakeInv, keepTheRest
    <2> QED
      BY <2>4, <2>5, <2>7, <2>8 DEF IntakeInv
  <1> QED
    BY <1>2, <1>3 DEF enrolCustomer

LEMMA RefuseCentreKeeps ==
    ASSUME IntakeInv, NEW c \in Calls, refuseCentre(c)
    PROVE  IntakeInv'
  BY InTransaction, QuietLeave DEF refuseCentre

LEMMA AbortKeeps ==
    ASSUME IntakeInv, NEW c \in Calls, abort(c)
    PROVE  IntakeInv'
  BY InTransaction, QuietLeave DEF abort, past

(* The number a transaction mints is the one after the year's counter, and  *)
(* no other open transaction has it: who finds the counter moved starts     *)
(* again.                                                                   *)
LEMMA NextComplaintNumberKeeps ==
    ASSUME IntakeInv, NEW c \in Calls, nextComplaintNumber(c)
    PROVE  IntakeInv'
  <1>1. /\ at(c, {"complaint"}, "minting") /\ db' = db /\ keepTheRest
        /\ call[c] \in Busy /\ call[c] # Waiting /\ req(c).job = "complaint" /\ c \notin Unfinished
    BY InTransaction, WaitingOrBusy DEF IntakeInv, nextComplaintNumber, runAgain
  <1>2. CASE runAgain(c)
    BY <1>1, <1>2, RunAgainKeeps
  <1>3. CASE ~counterMoved(c) /\ mint(c)
    <2> DEFINE number == [year |-> year, seq |-> db.counter[year] + 1]
               new == [call[c] EXCEPT !.step = "filing", !.number = number]
    <2>1. Placed(c) /\ Entering(c)
      BY <1>1 DEF Placed, Entering, past
    <2>2. /\ number \in Number /\ number.year = year
          /\ number.seq = db.counter[number.year] + 1
      BY DEF Number, IntakeInv, StateOK, Docs
    <2>3. call' = [call EXCEPT ![c] = new]
      BY <1>3 DEF mint, IntakeInv, CallTypeOK
    <2> HIDE DEF number
    <2>4. /\ new \in Busy /\ new.req = req(c) /\ new.step = "filing" /\ new.seen \in Snapshot
          /\ new.number = number
      BY <1>1, <2>1, <2>2 DEF Busy, Steps, req, IntakeInv, CallTypeOK
    <2> HIDE DEF new
    <2>5. /\ CallTypeOK' /\ RereadingKept /\ OpeningKept /\ UnfinishedKept /\ req(c)' = req(c)
          /\ call'[c] = new
          /\ \A d \in Calls \ {c} : call'[d] = call[d]
      BY <1>1, <2>3, <2>4, ComplaintMove
    <2>6. PlacedKept
      BY <2>1, <2>5, OthersKept DEF PlacedKept
    <2>7. \A d \in Calls \ {c} : Filing(d) => call[d].number.year # year
      BY <1>3 DEF counterMoved, pendingCounter, Filing
    <2>8. NumberInv'
      <3>1. \A d \in Calls \ {c} : /\ Filing(d)' <=> Filing(d)
                                   /\ call'[d].number = call[d].number
        BY <2>5, OthersKept
      <3>2. call'[c].number = number
        BY <2>4, <2>5
      <3>3. NumbersAreConsecutive'
        BY <1>1 DEF IntakeInv, NumberInv, NumbersAreConsecutive
      <3> QED
        BY <1>1, <2>2, <2>7, <3>1, <3>2, <3>3 DEF IntakeInv, NumberInv
    <2>9. StateOK' /\ Active' = Active
      BY <1>1 DEF IntakeInv, StateOK, keepTheRest, Active
    <2>10. CustomerInv' /\ CityInv' /\ CentreInv' /\ StrandedIsReported'
      BY <1>1, <2>5, <2>6, <2>9, CustomerFrame, CityFrame, CentreFrame, StrandedFrame
         DEF IntakeInv, keepTheRest
    <2> QED
      BY <2>5, <2>8, <2>9, <2>10 DEF IntakeInv
  <1> QED
    BY <1>2, <1>3 DEF nextComplaintNumber

(* One complaint more, with the next number of its year: the numbers of the *)
(* year still run from 1 to the counter, one complaint each.                *)
NumberedIn(complaints, y) == {x \in complaints : x.number.year = y}
Seqs(complaints) == {x.number.seq : x \in complaints}
Consecutive(complaints, y, counter) ==
    Seqs(NumberedIn(complaints, y)) = 1..counter /\ Cardinality(NumberedIn(complaints, y)) = counter

LEMMA OneMoreNumber ==
    ASSUME NEW complaints, IsFiniteSet(complaints), NEW k, NEW counter \in Nat,
           Consecutive(complaints, k.number.year, counter), k.number.seq = counter + 1
    PROVE  /\ IsFiniteSet(complaints \cup {k})
           /\ Consecutive(complaints \cup {k}, k.number.year, counter + 1)
           /\ \A y : y # k.number.year
                 => NumberedIn(complaints \cup {k}, y) = NumberedIn(complaints, y)
  <1> DEFINE year0 == k.number.year
             of == NumberedIn(complaints, year0)
  <1>1. NumberedIn(complaints \cup {k}, year0) = of \cup {k}
    BY DEF NumberedIn
  <1>2. \A y : y # year0 => NumberedIn(complaints \cup {k}, y) = NumberedIn(complaints, y)
    BY DEF NumberedIn
  <1>3. IsFiniteSet(of)
    BY FS_Subset DEF NumberedIn
  <1>4. IsFiniteSet(complaints \cup {k})
    BY FS_AddElement
  <1>5. Seqs(of) = 1..counter /\ Cardinality(of) = counter
    BY DEF Consecutive
  <1>6. Seqs(of \cup {k}) = Seqs(of) \cup {k.number.seq}
    BY DEF Seqs
  <1> HIDE DEF of, year0
  <1>7. k \notin of
    BY <1>5 DEF Seqs
  <1>8. Cardinality(of \cup {k}) = counter + 1
    BY <1>3, <1>5, <1>7, FS_AddElement
  <1>9. Seqs(of \cup {k}) = 1..(counter + 1)
    <2>1. 1..(counter + 1) = (1..counter) \cup {counter + 1}
      OBVIOUS
    <2> QED
      BY <1>5, <1>6, <2>1, Zenon
  <1>10. Consecutive(complaints \cup {k}, year0, counter + 1)
    BY <1>1, <1>8, <1>9 DEF Consecutive
  <1> QED
    BY <1>2, <1>4, <1>10 DEF year0

LEMMA NumbersByYear ==
    NumbersAreConsecutive <=> \A y \in Years : Consecutive(db.complaints, y, db.counter[y])
  BY DEF NumbersAreConsecutive, Consecutive, Seqs, NumberedIn

(* The complaint, its customer and its city are there together.             *)
LEMMA FileComplaintKeeps ==
    ASSUME IntakeInv, NEW c \in Calls, fileComplaint(c)
    PROVE  IntakeInv'
  <1> DEFINE n == call[c].number
             k == [number |-> n, mobile |-> req(c).mobile, city |-> req(c).city,
                   centre |-> req(c).code, blind |-> ~(req(c).code \in Active \cup {Absent})]
  <1>1. /\ at(c, {"complaint"}, "filing") /\ leave(c) /\ keepTheRest
        /\ call[c] # Waiting /\ req(c) \in Request /\ Carries(req(c))
        /\ req(c).job = "complaint" /\ c \notin Unfinished
    BY InTransaction, WaitingOrBusy DEF IntakeInv, fileComplaint
  <1>2. Filing(c) /\ Entering(c) /\ Placed(c)
    BY <1>1 DEF Filing, Entering, Placed, past
  <1>3. /\ req(c).mobile \in Mobiles /\ req(c).city \in Cities /\ req(c).code \in Codes \cup {Absent}
        /\ req(c).new \in BOOLEAN
    BY <1>1 DEF Carries, Request
  <1>4. /\ n \in Number /\ n.year \in Years /\ n.seq = db.counter[n.year] + 1 /\ n.seq \in Nat
        /\ \A d \in Calls \ {c} : Filing(d) => call[d].number.year # n.year
    BY <1>2 DEF IntakeInv, NumberInv, Number
  <1>5. /\ CallTypeOK' /\ FilingKept /\ PlacedKept /\ RereadingKept /\ OpeningKept /\ UnfinishedKept
        /\ call'[c] = Waiting /\ \A d \in Calls \ {c} : call'[d] = call[d]
    BY <1>1, LeftKept, Left DEF IntakeInv
  <1>6. /\ k \in Complaint /\ k.number = n /\ k.mobile = req(c).mobile /\ k.city = req(c).city
        /\ k.centre = req(c).code
    BY <1>3, <1>4 DEF Complaint
  <1>7. k.blind <=> ~(k.centre \in Active \cup {Absent})
    BY Zenon
  <1>8. db' = [db EXCEPT !.counter[n.year] = n.seq, !.cities = @ \cup {req(c).city},
                         !.customers = @ \cup enrolled(c), !.complaints = @ \cup {k}]
    BY DEF fileComplaint
  <1> HIDE DEF n, k
  <1>9. enrolled(c) \subseteq Customer
    <2>1. [mobile |-> req(c).mobile, city |-> req(c).city, raised |-> TRUE] \in Customer
      BY <1>3 DEF Customer
    <2> QED
      BY <2>1, Zenon DEF enrolled
  <1>10. /\ db' \in Docs
         /\ db'.counter = [db.counter EXCEPT ![n.year] = n.seq]
         /\ db'.cities = db.cities \cup {req(c).city}
         /\ db'.customers = db.customers \cup enrolled(c)
         /\ db'.complaints = db.complaints \cup {k}
         /\ db'.centres = db.centres /\ db'.accounts = db.accounts
    BY <1>3, <1>4, <1>6, <1>8, <1>9 DEF IntakeInv, StateOK, Docs
  <1>11. StateOK' /\ Active' = Active
    BY <1>1, <1>10 DEF IntakeInv, StateOK, keepTheRest, Active
  <1>12. NumberInv'
    <2>1. /\ IsFiniteSet(db.complaints) /\ db.counter \in [Years -> Nat]
          /\ \A y \in Years : Consecutive(db.complaints, y, db.counter[y])
      BY NumbersByYear DEF IntakeInv, NumberInv, StateOK, Docs
    <2>2. /\ IsFiniteSet(db.complaints \cup {k})
          /\ Consecutive(db.complaints \cup {k}, n.year, db.counter[n.year] + 1)
          /\ \A y : y # n.year
                => NumberedIn(db.complaints \cup {k}, y) = NumberedIn(db.complaints, y)
      BY <1>4, <1>6, <2>1, OneMoreNumber
    <2>3. \A y \in Years : Consecutive(db'.complaints, y, db'.counter[y])
      <3>1. ASSUME NEW y \in Years, y # n.year
            PROVE  Consecutive(db'.complaints, y, db'.counter[y])
        <4>1. db'.counter[y] = db.counter[y]
          BY <1>10, <2>1, <3>1
        <4>2. NumberedIn(db'.complaints, y) = NumberedIn(db.complaints, y)
          BY <1>10, <2>2, <3>1
        <4> QED
          BY <2>1, <4>1, <4>2 DEF Consecutive
      <3>2. db'.counter[n.year] = db.counter[n.year] + 1
        BY <1>4, <1>10, <2>1
      <3> QED
        BY <1>10, <2>2, <3>1, <3>2
    <2>4. IsFiniteSet(db.complaints)' /\ NumbersAreConsecutive'
      BY <1>10, <2>2, <2>3 DEF NumbersAreConsecutive, Consecutive, Seqs, NumberedIn
    <2>5. ASSUME NEW d \in Calls, Filing(d)'
          PROVE  /\ call'[d].number \in Number
                 /\ call'[d].number.seq = db'.counter[call'[d].number.year] + 1
                 /\ \A e \in Calls \ {d} :
                       Filing(e)' => call'[e].number.year # call'[d].number.year
      <3>1. d # c
        BY <1>5, <2>5 DEF Filing, past, at
      <3>2. /\ Filing(d) /\ call'[d].number = call[d].number
            /\ call[d].number \in Number /\ call[d].number.year # n.year
            /\ call[d].number.seq = db.counter[call[d].number.year] + 1
            /\ \A e \in Calls \ {d} : Filing(e) => call[e].number.year # call[d].number.year
        BY <1>4, <1>5, <2>5, <3>1 DEF FilingKept, IntakeInv, NumberInv
      <3>3. db'.counter[call[d].number.year] = db.counter[call[d].number.year]
        BY <1>10, <2>1, <3>2 DEF Number
      <3> QED
        BY <1>5, <3>2, <3>3 DEF FilingKept
    <2> QED
      BY <2>4, <2>5 DEF NumberInv
  <1>13. CustomerInv'
    <2>1. req(c).new => customers(req(c).mobile) = {} /\ ~pendingCustomer(c, req(c).mobile)
      BY <1>2, Zenon DEF IntakeInv, CustomerInv
    <2>2. ~req(c).new => customers(req(c).mobile) # {}
      BY <1>2, Zenon DEF IntakeInv, CustomerInv
    <2>3. CASE ~req(c).new
      <3>1. enrolled(c) = {}
        BY <2>3 DEF enrolled
      <3>2. db'.customers = db.customers
        BY <1>10, <3>1
      <3>3. \A m : customers(m)' = customers(m)
        BY <3>2 DEF customers
      <3>4. \A x \in db'.complaints : customers(x.mobile)' # {} /\ x.city \in db'.cities
        BY <1>6, <1>10, <2>2, <2>3, <3>3 DEF IntakeInv, CustomerInv
      <3>5. \A x \in db'.customers : x.raised => \E y \in db'.complaints : y.mobile = x.mobile
        BY <1>10, <3>2 DEF IntakeInv, CustomerInv
      <3>6. \A d \in Calls : (Placed(d) /\ ~req(d).new => customers(req(d).mobile) # {})'
        BY <1>5, <3>3, Zenon DEF PlacedKept, IntakeInv, CustomerInv
      <3>7. \A d \in Calls : (Entering(d) /\ req(d).new => customers(req(d).mobile) = {})'
        BY <1>5, <3>3, Zenon DEF PlacedKept, IntakeInv, CustomerInv
      <3>8. \A d \in Calls : (Entering(d) /\ req(d).new => ~pendingCustomer(d, req(d).mobile))'
        BY <1>5, PendingKept, Zenon DEF IntakeInv
      <3> QED
        BY <3>2, <3>4, <3>5, <3>6, <3>7, <3>8 DEF IntakeInv, CustomerInv
    <2>4. CASE req(c).new
      <3> DEFINE x0 == [mobile |-> req(c).mobile, city |-> req(c).city, raised |-> TRUE]
      <3>0. PICK mobile \in Mobiles : mobile = req(c).mobile
        BY <1>3
      <3>1. enrolled(c) = {x0} /\ x0.mobile = mobile
        BY <2>4, <3>0 DEF enrolled
      <3> HIDE DEF x0
      <3>2. db'.customers = db.customers \cup {x0}
        BY <1>10, <3>1
      <3>3. /\ \A m : m # mobile => customers(m)' = customers(m)
            /\ customers(mobile)' # {}
            /\ \A m : customers(m) # {} => customers(m)' # {}
        <4>1. ASSUME NEW m, m # mobile
              PROVE  customers(m)' = customers(m)
          BY <3>1, <3>2, <4>1 DEF customers
        <4>2. x0 \in customers(mobile)'
          BY <3>1, <3>2 DEF customers
        <4> QED
          BY <4>1, <4>2
      <3>4. \A x, y \in db'.customers : x.mobile = y.mobile => x = y
        <4>1. \A x \in db.customers : x.mobile # x0.mobile
          BY <2>1, <2>4, <3>0, <3>1 DEF customers
        <4> QED
          BY <3>2, <4>1 DEF IntakeInv, CustomerInv
      <3>5. \A x \in db'.complaints : customers(x.mobile)' # {} /\ x.city \in db'.cities
        BY <1>6, <1>10, <3>0, <3>3 DEF IntakeInv, CustomerInv
      <3>6. \A x \in db'.customers : x.raised => \E y \in db'.complaints : y.mobile = x.mobile
        BY <1>6, <1>10, <3>0, <3>1, <3>2 DEF IntakeInv, CustomerInv
      <3>7. \A d \in Calls : (Placed(d) /\ ~req(d).new => customers(req(d).mobile) # {})'
        BY <1>5, <3>3, Zenon DEF PlacedKept, IntakeInv, CustomerInv
      <3>8. ASSUME NEW d \in Calls, Entering(d)', req(d)'.new
            PROVE  (customers(req(d).mobile) = {})'
        <4>1. d # c
          BY <1>5, <3>8 DEF Entering, past, at
        <4>2. Entering(d) /\ req(d)' = req(d) /\ req(d).new /\ customers(req(d).mobile) = {}
          BY <1>5, <3>8, Zenon DEF PlacedKept, IntakeInv, CustomerInv
        <4>3. req(d).mobile # req(c).mobile
          BY <2>1, <2>4, <4>1, <4>2, Zenon DEF pendingCustomer, Entering
        <4> QED
          BY <3>0, <3>3, <4>2, <4>3
      <3>9. \A d \in Calls : (Entering(d) /\ req(d).new => ~pendingCustomer(d, req(d).mobile))'
        BY <1>5, PendingKept, Zenon DEF IntakeInv
      <3> QED
        BY <3>4, <3>5, <3>6, <3>7, <3>8, <3>9, Zenon DEF CustomerInv
    <2> QED
      BY <2>3, <2>4
  <1>14. CityInv' /\ CentreInv'
    BY <1>1, <1>5, <1>10, CityFrame, CentreFrame DEF IntakeInv, keepTheRest
  <1>15. StrandedIsReported'
    <2>1. \A x \in db.complaints :
             \/ x.centre \in Active' \cup {Absent}
             \/ x.number \in reported' \/ x.blind
             \/ [job |-> "deactivate", code |-> x.centre] \in cut'
             \/ \E d \in Unfinished' : req(d)'.job = "deactivate" /\ req(d)'.code = x.centre
      BY <1>1, <1>5, <1>11 DEF IntakeInv, StrandedIsReported, UnfinishedKept, keepTheRest
    <2>2. k.centre \in Active' \cup {Absent} \/ k.blind
      BY <1>7, <1>11, Zenon
    <2> QED
      BY <1>10, <2>1, <2>2 DEF StrandedIsReported
  <1> QED
    BY <1>5, <1>11, <1>12, <1>13, <1>14, <1>15 DEF IntakeInv

-----------------------------------------------------------------------------
(* The office screens.                                                      *)
LEMMA AtWork ==
    ASSUME IntakeInv, NEW c \in Calls, NEW jobs, NEW step, at(c, jobs, step)
    PROVE  /\ call[c] \in Busy /\ call[c] # Waiting /\ call[c].step = step /\ req(c).job \in jobs
           /\ req(c) \in Request /\ Carries(req(c))
           /\ step \notin {"staffing", "hiring", "reporting"} => c \notin Unfinished
  BY WaitingOrBusy DEF at, Unfinished, IntakeInv

LEMMA QuietAside ==
    ASSUME IntakeInv, NEW c \in Calls, call[c] # Waiting, req(c).job # "complaint",
           NEW step \in {"finding", "creating", "inserting", "saving", "reporting", "hiring"},
           step = "hiring" => req(c).job # "centre",
           move(c, step), c \notin Unfinished, db' = db, keepTheRest
    PROVE  IntakeInv'
  <1>1. StateOK'
    BY DEF IntakeInv, StateOK, keepTheRest
  <1>2. /\ CallTypeOK' /\ FilingKept /\ PlacedKept /\ RereadingKept /\ OpeningKept
        /\ UnfinishedKept
    BY AsideKept DEF IntakeInv
  <1> QED
    BY <1>1, <1>2, QuietStep DEF keepTheRest

LEMMA CheckTakenKeeps ==
    ASSUME IntakeInv, NEW c \in Calls, checkTaken(c)
    PROVE  IntakeInv'
  <1>1. /\ call[c] # Waiting /\ req(c).job \in {"customer", "centre", "account"}
        /\ c \notin Unfinished /\ db' = db /\ keepTheRest
    BY AtWork DEF checkTaken
  <1>2. CASE leave(c)
    BY <1>1, <1>2, QuietLeave
  <1>3. CASE move(c, "hiring") /\ req(c).job = "account"
    BY <1>1, <1>3, QuietAside
  <1>4. CASE move(c, "finding")
    BY <1>1, <1>4, QuietAside
  <1> QED
    BY <1>2, <1>3, <1>4 DEF checkTaken

LEMMA FindCityKeeps ==
    ASSUME IntakeInv, NEW c \in Calls, findCity(c)
    PROVE  IntakeInv'
  <1>1. /\ call[c] # Waiting /\ req(c).job \in {"customer", "centre"}
        /\ c \notin Unfinished /\ db' = db /\ keepTheRest
    BY AtWork DEF findCity
  <1>2. CASE move(c, "inserting")
    BY <1>1, <1>2, QuietAside
  <1>3. CASE move(c, "creating")
    BY <1>1, <1>3, QuietAside
  <1> QED
    BY <1>2, <1>3 DEF findCity

(* A duplicate key means that the winner's city is there to be read.        *)
LEMMA CreateCityKeeps ==
    ASSUME IntakeInv, NEW c \in Calls, createCity(c)
    PROVE  IntakeInv'
  <1>1. /\ call[c] # Waiting /\ req(c).job \in {"customer", "centre"} /\ req(c).city \in Cities
        /\ c \notin Unfinished /\ keepTheRest
    BY AtWork DEF createCity, Carries
  <1>2. CASE req(c).city \in db.cities /\ move(c, "rereading") /\ db' = db
    <2>1. /\ CallTypeOK' /\ call'[c] # Waiting /\ req(c)' = req(c) /\ call'[c].step = "rereading"
          /\ \A d \in Calls \ {c} : call'[d] = call[d]
      BY <1>1, <1>2, Restepped DEF Steps, IntakeInv
    <2>2. ~Filing(c)' /\ ~Placed(c)' /\ ~Entering(c)' /\ ~Opening(c)'
      BY <2>1 DEF Filing, Placed, Entering, Opening, past, at
    <2>3. Unfinished \subseteq Calls
      BY DEF Unfinished
    <2>4. FilingKept /\ PlacedKept /\ OpeningKept /\ UnfinishedKept
      BY <1>1, <2>1, <2>2, <2>3, OthersKept
         DEF FilingKept, PlacedKept, OpeningKept, UnfinishedKept
    <2>5. CityInv'
      BY <1>1, <1>2, <2>1, OthersKept DEF IntakeInv, CityInv, keepTheRest
    <2>6. StateOK' /\ Active' = Active
      BY <1>1, <1>2 DEF IntakeInv, StateOK, keepTheRest, Active
    <2>7. NumberInv' /\ CustomerInv' /\ CentreInv' /\ StrandedIsReported'
      BY <1>1, <1>2, <2>4, <2>6, NumberFrame, CustomerFrame, CentreFrame, StrandedFrame
         DEF IntakeInv, keepTheRest
    <2> QED
      BY <2>1, <2>5, <2>6, <2>7 DEF IntakeInv
  <1>3. CASE move(c, "inserting") /\ db' = [db EXCEPT !.cities = @ \cup {req(c).city}]
    <2>1. /\ db' \in Docs /\ db.cities \subseteq db'.cities
          /\ db'.counter = db.counter /\ db'.complaints = db.complaints
          /\ db'.customers = db.customers
          /\ db'.centres = db.centres /\ db'.accounts = db.accounts
      BY <1>1, <1>3 DEF IntakeInv, StateOK, Docs
    <2>2. /\ CallTypeOK' /\ FilingKept /\ PlacedKept /\ RereadingKept /\ OpeningKept
          /\ UnfinishedKept
      BY <1>1, <1>3, AsideKept DEF IntakeInv
    <2>3. StateOK' /\ Active' = Active
      BY <1>1, <2>1 DEF IntakeInv, StateOK, keepTheRest, Active
    <2> QED
      BY <1>1, <2>1, <2>2, <2>3, NumberFrame, CustomerFrame, CityFrame, CentreFrame, StrandedFrame
         DEF IntakeInv, keepTheRest
  <1> QED
    BY <1>2, <1>3 DEF createCity

LEMMA RereadCityKeeps ==
    ASSUME IntakeInv, NEW c \in Calls, rereadCity(c)
    PROVE  IntakeInv'
  <1>1. /\ call[c] # Waiting /\ req(c).job \in {"customer", "centre"} /\ Rereading(c)
        /\ c \notin Unfinished
    BY AtWork DEF rereadCity, Rereading
  <1>2. req(c).city \in db.cities
    BY <1>1 DEF IntakeInv, CityInv
  <1>3. move(c, "inserting") /\ db' = db /\ keepTheRest
    BY <1>2 DEF rereadCity, keepTheRest
  <1> QED
    BY <1>1, <1>3, QuietAside

(* The unique index on mobile: no second record, and none beside one that   *)
(* an open transaction has entered.                                         *)
LEMMA InsertCustomerKeeps ==
    ASSUME IntakeInv, NEW c \in Calls, insertCustomer(c)
    PROVE  IntakeInv'
  <1>1. /\ call[c] # Waiting /\ req(c).job = "customer" /\ req(c).mobile \in Mobiles
        /\ req(c).city \in Cities /\ c \notin Unfinished /\ leave(c) /\ keepTheRest
        /\ ~pendingCustomer(c, req(c).mobile)
    BY AtWork DEF insertCustomer, Carries
  <1>2. CASE db' = db
    BY <1>1, <1>2, QuietLeave
  <1>3. CASE /\ customers(req(c).mobile) = {}
             /\ db' = [db EXCEPT !.customers = @ \cup {[mobile |-> req(c).mobile,
                                                       city |-> req(c).city, raised |-> FALSE]}]
    <2> DEFINE x0 == [mobile |-> req(c).mobile, city |-> req(c).city, raised |-> FALSE]
    <2>1. PICK mobile \in Mobiles : mobile = req(c).mobile
      BY <1>1
    <2>2. x0 \in Customer /\ x0.mobile = mobile /\ x0.raised = FALSE
      BY <1>1, <2>1 DEF Customer
    <2>3. db' = [db EXCEPT !.customers = @ \cup {x0}]
      BY <1>3
    <2> HIDE DEF x0
    <2>4. /\ db' \in Docs /\ db'.cities = db.cities /\ db'.customers = db.customers \cup {x0}
          /\ db'.counter = db.counter /\ db'.complaints = db.complaints
          /\ db'.centres = db.centres /\ db'.accounts = db.accounts
      BY <2>2, <2>3 DEF IntakeInv, StateOK, Docs
    <2>5. /\ CallTypeOK' /\ FilingKept /\ PlacedKept /\ RereadingKept /\ OpeningKept
          /\ UnfinishedKept /\ call'[c] = Waiting
      BY <1>1, LeftKept, Left DEF IntakeInv
    <2>6. /\ \A m : m # mobile => customers(m)' = customers(m)
          /\ \A m : customers(m) # {} => customers(m)' # {}
      <3>1. ASSUME NEW m, m # mobile
            PROVE  customers(m)' = customers(m)
        BY <2>2, <2>4, <3>1 DEF customers
      <3>2. x0 \in customers(mobile)'
        BY <2>2, <2>4 DEF customers
      <3> QED
        BY <3>1, <3>2
    <2>7. CustomerInv'
      <3>1. \A x, y \in db'.customers : x.mobile = y.mobile => x = y
        <4>1. \A x \in db.customers : x.mobile # mobile
          BY <1>3, <2>1 DEF customers
        <4> QED
          BY <2>2, <2>4, <4>1 DEF IntakeInv, CustomerInv
      <3>2. \A k \in db'.complaints : customers(k.mobile)' # {} /\ k.city \in db'.cities
        BY <2>4, <2>6 DEF IntakeInv, CustomerInv
      <3>3. \A x \in db'.customers : x.raised => \E y \in db'.complaints : y.mobile = x.mobile
        BY <2>2, <2>4 DEF IntakeInv, CustomerInv
      <3>4. \A d \in Calls : (Placed(d) /\ ~req(d).new => customers(req(d).mobile) # {})'
        BY <2>5, <2>6, Zenon DEF PlacedKept, IntakeInv, CustomerInv
      <3>5. ASSUME NEW d \in Calls, Entering(d)', req(d)'.new
            PROVE  (customers(req(d).mobile) = {})'
        <4>1. d # c
          BY <2>5, <3>5 DEF Entering, past, at
        <4>2. Entering(d) /\ req(d)' = req(d) /\ req(d).new /\ customers(req(d).mobile) = {}
          BY <2>5, <3>5, Zenon DEF PlacedKept, IntakeInv, CustomerInv
        <4>3. req(d).mobile # req(c).mobile
          BY <1>1, <4>1, <4>2, Zenon DEF pendingCustomer, Entering
        <4> QED
          BY <2>1, <2>6, <4>2, <4>3
      <3>6. \A d \in Calls : (Entering(d) /\ req(d).new => ~pendingCustomer(d, req(d).mobile))'
        BY <2>5, PendingKept, Zenon DEF IntakeInv
      <3> QED
        BY <3>1, <3>2, <3>3, <3>4, <3>5, <3>6, Zenon DEF CustomerInv
    <2>8. StateOK' /\ Active' = Active
      BY <1>1, <2>4 DEF IntakeInv, StateOK, keepTheRest, Active
    <2>9. NumberInv' /\ CityInv' /\ CentreInv' /\ StrandedIsReported'
      BY <1>1, <2>4, <2>5, <2>8, NumberFrame, CityFrame, CentreFrame, StrandedFrame
         DEF IntakeInv, keepTheRest
    <2> QED
      BY <2>5, <2>7, <2>8, <2>9 DEF IntakeInv
  <1> QED
    BY <1>2, <1>3 DEF insertCustomer

(* The unique index on code: the centre just made is the only one, and its  *)
(* owner is still to come.                                                  *)
LEMMA InsertCentreKeeps ==
    ASSUME IntakeInv, NEW c \in Calls, insertCentre(c)
    PROVE  IntakeInv'
  <1>1. /\ call[c] # Waiting /\ req(c).job = "centre" /\ req(c).mobile \in Mobiles \cup {Absent}
        /\ req(c).city \in Cities /\ req(c).code \in Codes /\ c \notin Unfinished /\ keepTheRest
    BY AtWork DEF insertCentre, Carries, Request
  <1>2. CASE leave(c) /\ db' = db
    BY <1>1, <1>2, QuietLeave
  <1>3. CASE /\ centres(req(c).code) = {}
             /\ db' = [db EXCEPT !.centres = @ \cup {[code |-> req(c).code, city |-> req(c).city,
                                                     active |-> TRUE, owner |-> req(c).mobile]}]
             /\ IF req(c).mobile = Absent THEN leave(c) ELSE move(c, "staffing")
    <2> DEFINE z0 == [code |-> req(c).code, city |-> req(c).city, active |-> TRUE,
                      owner |-> req(c).mobile]
    <2>1. PICK code \in Codes, owner \in Mobiles \cup {Absent} :
                  code = req(c).code /\ owner = req(c).mobile
      BY <1>1
    <2>2. z0 \in Centre /\ z0.code = code /\ z0.owner = owner
      BY <1>1, <2>1 DEF Centre
    <2>3. db' = [db EXCEPT !.centres = @ \cup {z0}]
      BY <1>3
    <2> HIDE DEF z0
    <2>4. /\ db' \in Docs /\ db'.cities = db.cities /\ db'.customers = db.customers
          /\ db'.counter = db.counter /\ db'.complaints = db.complaints
          /\ db'.centres = db.centres \cup {z0} /\ db'.accounts = db.accounts
      BY <2>2, <2>3 DEF IntakeInv, StateOK, Docs
    <2>5. /\ \A z \in db.centres : z.code # code
          /\ centres(code)' = {z0}
          /\ \A other : other # code => centres(other)' = centres(other)
      <3>1. \A z \in db.centres : z.code # code
        BY <1>3, <2>1 DEF centres
      <3>2. centres(code)' = {z0}
        BY <2>2, <2>4, <3>1 DEF centres
      <3>3. ASSUME NEW other, other # code
            PROVE  centres(other)' = centres(other)
        BY <2>2, <2>4, <3>3 DEF centres
      <3> QED
        BY <3>1, <3>2, <3>3
    <2>6. /\ CallTypeOK' /\ FilingKept /\ PlacedKept /\ RereadingKept /\ UnfinishedKept
          /\ \A d \in Calls \ {c} : call'[d] = call[d]
          /\ Opening(c)' => owner # Absent /\ req(c)' = req(c)
          /\ owner # Absent => c \in Unfinished' /\ req(c)' = req(c)
      <3>1. CASE owner = Absent /\ leave(c)
        <4>1. ~Opening(c)'
          BY <3>1, Left DEF IntakeInv, Opening, at
        <4> QED
          BY <1>1, <3>1, <4>1, Left, LeftKept DEF IntakeInv
      <3>2. CASE owner # Absent /\ move(c, "staffing")
        <4>1. /\ CallTypeOK' /\ call'[c] # Waiting /\ req(c)' = req(c) /\ call'[c].step = "staffing"
              /\ \A d \in Calls \ {c} : call'[d] = call[d]
          BY <1>1, <3>2, Restepped DEF Steps, IntakeInv
        <4>2. ~Filing(c)' /\ ~Placed(c)' /\ ~Entering(c)' /\ ~Rereading(c)' /\ c \in Unfinished'
          BY <1>1, <4>1 DEF Filing, Placed, Entering, Rereading, Unfinished, past, at
        <4>3. Unfinished \subseteq Calls
          BY DEF Unfinished
        <4> QED
          BY <1>1, <3>2, <4>1, <4>2, <4>3, OthersKept
             DEF FilingKept, PlacedKept, RereadingKept, UnfinishedKept
      <3> QED
        BY <1>3, <2>1, <3>1, <3>2
    <2>7. CentreInv'
      <3>1. OwnersFound'
        <4>1. \A m : accounts(m)' = accounts(m)
          BY <2>4 DEF accounts
        <4>2. \A z \in db.centres :
                 \/ z.owner = Absent \/ [job |-> "centre", code |-> z.code] \in cut'
                 \/ accounts(z.owner)' # {}
                 \/ \E d \in Unfinished' : req(d)'.job = "centre" /\ req(d)'.code = z.code
          BY <1>1, <2>6, <4>1 DEF IntakeInv, CentreInv, OwnersFound, UnfinishedKept, keepTheRest
        <4>3. \/ z0.owner = Absent
              \/ \E d \in Unfinished' : req(d)'.job = "centre" /\ req(d)'.code = z0.code
          BY <1>1, <2>1, <2>2, <2>6
        <4> QED
          BY <2>4, <4>2, <4>3 DEF OwnersFound
      <3>2. ASSUME NEW d \in Calls, Opening(d)'
            PROVE  (/\ req(d).mobile \in Mobiles
                    /\ centres(req(d).code) # {}
                    /\ \A z \in centres(req(d).code) : z.owner = req(d).mobile)'
        <4>1. CASE d = c
          BY <1>1, <2>1, <2>2, <2>5, <2>6, <3>2, <4>1
        <4>2. CASE d # c
          <5>1. /\ Opening(d) /\ req(d)' = req(d)
                /\ req(d).mobile \in Mobiles /\ centres(req(d).code) # {}
                /\ \A z \in centres(req(d).code) : z.owner = req(d).mobile
            BY <2>6, <3>2, <4>2, OthersKept DEF IntakeInv, CentreInv
          <5>2. req(d).code # code
            BY <2>5, <5>1 DEF centres
          <5> QED
            BY <2>5, <5>1, <5>2
        <4> QED
          BY <4>1, <4>2
      <3> QED
        BY <3>1, <3>2 DEF CentreInv
    <2>8. StateOK'
      BY <1>1, <2>4 DEF IntakeInv, StateOK, keepTheRest
    <2>9. Active \subseteq Active'
      BY <2>4 DEF Active
    <2>10. NumberInv' /\ CustomerInv' /\ CityInv' /\ StrandedIsReported'
      BY <1>1, <2>4, <2>6, <2>9, NumberFrame, CustomerFrame, CityFrame, StrandedFrame
         DEF IntakeInv, keepTheRest
    <2> QED
      BY <2>6, <2>7, <2>8, <2>10 DEF IntakeInv
  <1> QED
    BY <1>2, <1>3 DEF insertCentre

(* The request that staffed a centre leaves it: its owner has an account, or*)
(* was refused because the centre is no longer active.                      *)
LEMMA OwnerSettled ==
    ASSUME IntakeInv, NEW c \in Calls, leave(c), req(c).job \in {"centre", "account"},
           \/ Opening(c) \/ c \notin Unfinished,
           db'.centres = db.centres,
           \A m : accounts(m) # {} => accounts(m)' # {}, cut \subseteq cut',
           Opening(c) => \/ accounts(req(c).mobile) # {}
                         \/ \E a \in db'.accounts : a.mobile = req(c).mobile
                         \/ [job |-> "centre", code |-> req(c).code] \in cut'
    PROVE  CentreInv'
  <1>1. /\ OpeningKept
        /\ \A d \in Unfinished \ {c} : d \in Unfinished' /\ req(d)' = req(d)
    BY LeftKept DEF IntakeInv
  <1>2. \A code : centres(code)' = centres(code)
    BY DEF centres
  <1>3. ASSUME NEW z \in db.centres, Opening(c), req(c).code = z.code
        PROVE  accounts(z.owner)' # {} \/ [job |-> "centre", code |-> z.code] \in cut'
    <2>1. z.owner = req(c).mobile
      BY <1>3 DEF IntakeInv, CentreInv, centres
    <2>2. (\E a \in db'.accounts : a.mobile = z.owner) => accounts(z.owner)' # {}
      BY DEF accounts
    <2> QED
      BY <1>3, <2>1, <2>2
  <1>4. OwnersFound'
    <2> SUFFICES ASSUME NEW z \in db.centres
                 PROVE  \/ z.owner = Absent \/ [job |-> "centre", code |-> z.code] \in cut'
                        \/ accounts(z.owner)' # {}
                        \/ \E d \in Unfinished' : req(d)'.job = "centre" /\ req(d)'.code = z.code
      BY DEF OwnersFound
    <2> QED
      BY <1>1, <1>3 DEF IntakeInv, CentreInv, OwnersFound
  <1> QED
    BY <1>1, <1>2, <1>4 DEF IntakeInv, CentreInv, OpeningKept

LEMMA FindOwnerKeeps ==
    ASSUME IntakeInv, NEW c \in Calls, findOwner(c)
    PROVE  IntakeInv'
  <1>1. /\ call[c] # Waiting /\ req(c).job = "centre" /\ Opening(c) /\ db' = db /\ keepTheRest
    BY AtWork DEF findOwner, Opening
  <1>2. CASE accounts(req(c).mobile) # {} /\ leave(c)
    <2>1. /\ CallTypeOK' /\ FilingKept /\ PlacedKept /\ RereadingKept
          /\ \A d \in Unfinished \ {c} : d \in Unfinished' /\ req(d)' = req(d)
      BY <1>2, LeftKept DEF IntakeInv
    <2>2. CentreInv'
      <3>1. \A m : accounts(m)' = accounts(m)
        BY <1>1 DEF accounts
      <3> QED
        BY <1>1, <1>2, <3>1, OwnerSettled DEF keepTheRest
    <2>3. StateOK' /\ Active' = Active
      BY <1>1 DEF IntakeInv, StateOK, keepTheRest, Active
    <2>4. StrandedIsReported'
      BY <1>1, <2>1, <2>3, StrandedMove DEF IntakeInv, keepTheRest
    <2>5. NumberInv' /\ CustomerInv' /\ CityInv'
      BY <1>1, <2>1, NumberFrame, CustomerFrame, CityFrame DEF IntakeInv, keepTheRest
    <2> QED
      BY <2>1, <2>2, <2>3, <2>4, <2>5 DEF IntakeInv
  <1>3. CASE move(c, "hiring")
    <2>1. /\ CallTypeOK' /\ call'[c] # Waiting /\ req(c)' = req(c) /\ call'[c].step = "hiring"
          /\ \A d \in Calls \ {c} : call'[d] = call[d]
      BY <1>1, <1>3, Restepped DEF Steps, IntakeInv
    <2>2. ~Filing(c)' /\ ~Placed(c)' /\ ~Entering(c)' /\ ~Rereading(c)' /\ c \in Unfinished'
      BY <1>1, <2>1 DEF Filing, Placed, Entering, Rereading, Unfinished, past, at
    <2>3. Unfinished \subseteq Calls
      BY DEF Unfinished
    <2>4. FilingKept /\ PlacedKept /\ RereadingKept /\ OpeningKept /\ UnfinishedKept
      BY <1>1, <2>1, <2>2, <2>3, OthersKept
         DEF FilingKept, PlacedKept, RereadingKept, OpeningKept, UnfinishedKept
    <2>5. StateOK'
      BY <1>1 DEF IntakeInv, StateOK, keepTheRest
    <2> QED
      BY <1>1, <2>1, <2>4, <2>5, QuietStep DEF keepTheRest
  <1> QED
    BY <1>2, <1>3 DEF findOwner

LEMMA InsertAccountKeeps ==
    ASSUME IntakeInv, NEW c \in Calls, insertAccount(c)
    PROVE  IntakeInv'
  <1>1. /\ call[c] # Waiting /\ req(c).job \in {"centre", "account"} /\ call[c].step = "hiring"
        /\ req(c).code \in Codes /\ leave(c) /\ UNCHANGED <<year, lost, reported>>
    BY AtWork DEF insertAccount, Carries
  <1>2. Opening(c) <=> req(c).job = "centre"
    BY <1>1 DEF Opening, at
  <1>3. Opening(c) \/ c \notin Unfinished
    BY <1>1, <1>2 DEF Unfinished, Opening, at
  <1>4. req(c).mobile \in Mobiles
    <2>1. CASE Opening(c)
      BY <2>1 DEF IntakeInv, CentreInv
    <2>2. CASE req(c).job = "account"
      BY <2>2, AtWork DEF insertAccount, Carries
    <2> QED
      BY <1>1, <1>2, <2>1, <2>2
  <1>5. PICK code \in Codes, mobile \in Mobiles : code = req(c).code /\ mobile = req(c).mobile
    BY <1>1, <1>4
  <1> DEFINE a0 == [mobile |-> mobile, centre |-> code]
             ok == code \in Active /\ accounts(mobile) = {}
  <1>6. a0 \in Account /\ a0.mobile = mobile
    BY DEF Account
  <1>7. /\ db' \in Docs /\ db'.cities = db.cities /\ db'.customers = db.customers
        /\ db'.counter = db.counter /\ db'.complaints = db.complaints
        /\ db'.centres = db.centres
        /\ db.accounts \subseteq db'.accounts
        /\ ok => a0 \in db'.accounts
    <2>1. db' = IF ok THEN [db EXCEPT !.accounts = @ \cup {a0}] ELSE db
      BY <1>5 DEF insertAccount
    <2> HIDE DEF a0, ok
    <2> QED
      BY <1>6, <2>1 DEF IntakeInv, StateOK, Docs
  <1>8. /\ cut \subseteq cut' /\ cut' \subseteq [job : {"centre", "deactivate"}, code : Codes]
        /\ req(c).job = "centre" /\ code \notin Active => [job |-> "centre", code |-> code] \in cut'
    <2> DEFINE one == [job |-> "centre", code |-> code]
    <2>1. cut' = IF req(c).job = "centre" /\ code \notin Active THEN cut \cup {one} ELSE cut
      BY <1>5 DEF insertAccount
    <2>2. one \in [job : {"centre", "deactivate"}, code : Codes]
      OBVIOUS
    <2> HIDE DEF one
    <2>3. /\ cut \subseteq cut' /\ cut' \subseteq [job : {"centre", "deactivate"}, code : Codes]
          /\ req(c).job = "centre" /\ code \notin Active => one \in cut'
      BY <2>1, <2>2 DEF IntakeInv, StateOK
    <2> QED
      BY <2>3 DEF one
  <1> HIDE DEF a0
  <1>9. /\ CallTypeOK' /\ FilingKept /\ PlacedKept /\ RereadingKept
        /\ \A d \in Unfinished \ {c} : d \in Unfinished' /\ req(d)' = req(d)
    BY <1>1, LeftKept DEF IntakeInv
  <1>10. CentreInv'
    <2>1. \A m : accounts(m) # {} => accounts(m)' # {}
      BY <1>7 DEF accounts
    <2>2. Opening(c) => \/ accounts(req(c).mobile) # {}
                        \/ \E a \in db'.accounts : a.mobile = req(c).mobile
                        \/ [job |-> "centre", code |-> req(c).code] \in cut'
      BY <1>2, <1>5, <1>6, <1>7, <1>8
    <2> QED
      BY <1>1, <1>3, <1>7, <1>8, <2>1, <2>2, OwnerSettled
  <1>11. StateOK' /\ Active' = Active
    BY <1>1, <1>7, <1>8 DEF IntakeInv, StateOK, Active
  <1>12. StrandedIsReported'
    BY <1>1, <1>7, <1>8, <1>9, <1>11, StrandedMove DEF IntakeInv
  <1>13. NumberInv' /\ CustomerInv' /\ CityInv'
    BY <1>1, <1>7, <1>9, NumberFrame, CustomerFrame, CityFrame DEF IntakeInv
  <1> QED
    BY <1>9, <1>10, <1>11, <1>12, <1>13 DEF IntakeInv

LEMMA FindCentreKeeps ==
    ASSUME IntakeInv, NEW c \in Calls, findCentre(c)
    PROVE  IntakeInv'
  <1>1. /\ call[c] # Waiting /\ req(c).job \in {"deactivate", "activate"}
        /\ c \notin Unfinished /\ db' = db /\ keepTheRest
    BY AtWork DEF findCentre
  <1>2. CASE move(c, "saving")
    BY <1>1, <1>2, QuietAside
  <1>3. CASE leave(c)
    BY <1>1, <1>3, QuietLeave
  <1> QED
    BY <1>2, <1>3 DEF findCentre

(* A centre is switched on or off and keeps its code and its owner; whoever *)
(* switched it off still has to look up what it strands.                    *)
LEMMA SaveCentreKeeps ==
    ASSUME IntakeInv, NEW c \in Calls, saveCentre(c, "saving", "reporting")
    PROVE  IntakeInv'
  <1>1. /\ call[c] # Waiting /\ req(c).job \in {"deactivate", "activate"} /\ req(c).code \in Codes
        /\ c \notin Unfinished /\ db' = [db EXCEPT !.centres = saved(c)] /\ keepTheRest
        /\ IF wanted(c) THEN leave(c) ELSE move(c, "reporting")
    BY AtWork DEF saveCentre, Carries
  <1>2. wanted(c) \in BOOLEAN /\ (wanted(c) <=> req(c).job = "activate")
    BY DEF wanted
  <1>3. ASSUME NEW z \in db.centres
        PROVE  /\ [z EXCEPT !.active = wanted(c)] \in Centre
               /\ [z EXCEPT !.active = wanted(c)].code = z.code
               /\ [z EXCEPT !.active = wanted(c)].owner = z.owner
               /\ [z EXCEPT !.active = wanted(c)].active = wanted(c)
    <2>1. z \in Centre
      BY DEF IntakeInv, StateOK, Docs
    <2> HIDE DEF wanted
    <2> QED
      BY <1>2, <2>1 DEF Centre
  <1> DEFINE after(z) == IF z.code = req(c).code THEN [z EXCEPT !.active = wanted(c)] ELSE z
  <1>4. saved(c) = {after(z) : z \in db.centres}
    BY DEF saved
  <1>5. \A z \in db.centres : after(z) \in Centre /\ after(z).code = z.code /\ after(z).owner = z.owner
    BY <1>3 DEF IntakeInv, StateOK, Docs
  <1>6. \A z \in db.centres : /\ z.code # req(c).code => after(z) = z
                              /\ z.code = req(c).code => after(z).active = wanted(c)
    BY <1>3
  <1> HIDE DEF after
  <1>7. /\ db' \in Docs /\ db'.cities = db.cities /\ db'.customers = db.customers
        /\ db'.counter = db.counter /\ db'.complaints = db.complaints
        /\ db'.centres = {after(z) : z \in db.centres} /\ db'.accounts = db.accounts
    <2>1. saved(c) \subseteq Centre
      BY <1>4, <1>5
    <2> QED
      BY <1>1, <1>4, <2>1 DEF IntakeInv, StateOK, Docs
  <1>8. /\ CallTypeOK' /\ FilingKept /\ PlacedKept /\ RereadingKept /\ OpeningKept
        /\ UnfinishedKept
        /\ req(c).job = "deactivate" => c \in Unfinished' /\ req(c)' = req(c)
    <2>1. CASE leave(c) /\ req(c).job = "activate"
      BY <1>1, <2>1, LeftKept DEF IntakeInv
    <2>2. CASE move(c, "reporting")
      BY <1>1, <2>2, AsideKept DEF IntakeInv, Unfinished, at
    <2> QED
      BY <1>1, <1>2, <2>1, <2>2
  <1>9. \A code \in Active : \/ code \in Active'
                             \/ code = req(c).code /\ req(c).job = "deactivate"
    <2> SUFFICES ASSUME NEW z \in db.centres, z.active,
                        z.code # req(c).code \/ req(c).job = "activate"
                 PROVE  z.code \in Active'
      BY <1>1 DEF Active
    <2>1. after(z).active = TRUE /\ after(z) \in db'.centres /\ after(z).code = z.code
      <3>1. z.active = TRUE
        BY DEF IntakeInv, StateOK, Docs, Centre
      <3> QED
        BY <1>2, <1>5, <1>6, <1>7, <3>1
    <2> QED
      BY <2>1 DEF Active
  <1>10. CentreInv'
    <2>1. \A m : accounts(m)' = accounts(m)
      BY <1>7 DEF accounts
    <2>2. ASSUME NEW z \in db.centres
          PROVE  \/ z.owner = Absent \/ [job |-> "centre", code |-> z.code] \in cut'
                 \/ accounts(z.owner)' # {}
                 \/ \E d \in Unfinished' : req(d)'.job = "centre" /\ req(d)'.code = z.code
      BY <1>1, <1>8, <2>1 DEF IntakeInv, CentreInv, OwnersFound, UnfinishedKept, keepTheRest
    <2>3. OwnersFound'
      <3> SUFFICES ASSUME NEW x \in db'.centres
                   PROVE  \/ x.owner = Absent \/ [job |-> "centre", code |-> x.code] \in cut'
                          \/ accounts(x.owner)' # {}
                          \/ \E d \in Unfinished' : req(d)'.job = "centre" /\ req(d)'.code = x.code
        BY DEF OwnersFound
      <3>1. PICK z \in db.centres : x = after(z) /\ x.code = z.code /\ x.owner = z.owner
        BY <1>5, <1>7
      <3> QED
        BY <2>2, <3>1
    <2>4. ASSUME NEW code
          PROVE  /\ centres(code) # {} => centres(code)' # {}
                 /\ \A x \in centres(code)' : \E z \in centres(code) : x.owner = z.owner
      BY <1>5, <1>7 DEF centres
    <2> QED
      BY <1>8, <2>3, <2>4 DEF IntakeInv, CentreInv, OpeningKept
  <1>11. StrandedIsReported'
    BY <1>1, <1>7, <1>8, <1>9 DEF IntakeInv, StrandedIsReported, UnfinishedKept, keepTheRest
  <1>12. StateOK'
    BY <1>1, <1>7 DEF IntakeInv, StateOK, keepTheRest
  <1>13. NumberInv' /\ CustomerInv' /\ CityInv'
    BY <1>1, <1>7, <1>8, NumberFrame, CustomerFrame, CityFrame DEF IntakeInv, keepTheRest
  <1> QED
    BY <1>8, <1>10, <1>11, <1>12, <1>13 DEF IntakeInv

(* The answer names every open complaint the centre holds.                  *)
LEMMA FindStrandedKeeps ==
    ASSUME IntakeInv, NEW c \in Calls, findStranded(c, "reporting", "done")
    PROVE  IntakeInv'
  <1>1. /\ call[c] # Waiting /\ req(c).job = "deactivate" /\ leave(c)
        /\ reported' = reported \cup stranded(c) /\ UNCHANGED <<year, db, lost, cut>>
    BY AtWork DEF findStranded
  <1>2. /\ CallTypeOK' /\ FilingKept /\ PlacedKept /\ RereadingKept /\ OpeningKept
        /\ \A d \in Unfinished \ {c} : d \in Unfinished' /\ req(d)' = req(d)
    BY <1>1, LeftKept DEF IntakeInv
  <1>3. stranded(c) \subseteq Number
    BY DEF stranded, IntakeInv, StateOK, Docs, Complaint
  <1>4. StateOK' /\ Active' = Active
    BY <1>1, <1>3 DEF IntakeInv, StateOK, Active
  <1>5. \A k \in db.complaints : k.centre = req(c).code => k.number \in reported'
    BY <1>1 DEF stranded
  <1>6. StrandedIsReported'
    BY <1>1, <1>2, <1>4, <1>5 DEF IntakeInv, StrandedIsReported
  <1>7. CentreInv'
    <2>1. /\ \A m : accounts(m)' = accounts(m)
          /\ \A code : centres(code)' = centres(code)
      BY <1>1 DEF accounts, centres
    <2>2. OwnersFound'
      BY <1>1, <1>2, <2>1 DEF IntakeInv, CentreInv, OwnersFound
    <2> QED
      BY <1>2, <2>1, <2>2 DEF IntakeInv, CentreInv, OpeningKept
  <1>8. NumberInv' /\ CustomerInv' /\ CityInv'
    BY <1>1, <1>2, NumberFrame, CustomerFrame, CityFrame DEF IntakeInv
  <1> QED
    BY <1>2, <1>4, <1>6, <1>7, <1>8 DEF IntakeInv

LEMMA StillKept ==
    ASSUME call' = call
    PROVE  FilingKept /\ PlacedKept /\ RereadingKept /\ OpeningKept /\ UnfinishedKept
  BY DEF FilingKept, PlacedKept, RereadingKept, OpeningKept, UnfinishedKept, req, Filing, Placed,
         Entering, Rereading, Opening, past, at, Unfinished

LEMMA NewYearKeeps ==
    ASSUME IntakeInv, NewYear
    PROVE  IntakeInv'
  <1>1. StateOK'
    BY YearAssumption DEF NewYear, IntakeInv, StateOK, Years
  <1>2. CallTypeOK'
    BY DEF NewYear, IntakeInv, CallTypeOK, Placed, past, at, req
  <1> QED
    BY <1>1, <1>2, StillKept, QuietStep DEF NewYear

(* The process ends: what was unfinished is remembered as cut short.        *)
LEMMA RestartKeeps ==
    ASSUME IntakeInv, Restart
    PROVE  IntakeInv'
  <1>1. /\ call' = [c \in Calls |-> Waiting] /\ UNCHANGED <<year, db, lost, reported>>
        /\ cut' = cut \cup {[job |-> req(c).job, code |-> req(c).code] : c \in Unfinished}
    BY DEF Restart
  <1>2. \A c \in Calls : /\ call'[c] = Waiting /\ ~Filing(c)' /\ ~Placed(c)' /\ ~Entering(c)'
                         /\ ~Rereading(c)' /\ ~Opening(c)'
    BY <1>1 DEF Filing, Placed, Entering, Rereading, Opening, past, at
  <1>3. CallTypeOK'
    BY <1>1, <1>2 DEF CallTypeOK, Call
  <1>4. FilingKept /\ PlacedKept /\ RereadingKept
    BY <1>2 DEF FilingKept, PlacedKept, RereadingKept
  <1>5. /\ cut \subseteq cut'
        /\ \A c \in Unfinished : [job |-> req(c).job, code |-> req(c).code] \in cut'
    BY <1>1
  <1>6. ASSUME NEW c \in Unfinished
        PROVE  req(c).job \in {"centre", "deactivate"} /\ req(c).code \in Codes
    BY WaitingOrBusy DEF Unfinished, at, Carries, IntakeInv
  <1>7. StateOK'
    BY <1>1, <1>6 DEF IntakeInv, StateOK
  <1>8. CentreInv'
    <2>1. \A m : accounts(m)' = accounts(m)
      BY <1>1 DEF accounts
    <2>2. ASSUME NEW z \in db.centres
          PROVE  \/ z.owner = Absent \/ [job |-> "centre", code |-> z.code] \in cut'
                 \/ accounts(z.owner)' # {}
      <3>1. ASSUME NEW c \in Unfinished, req(c).job = "centre", req(c).code = z.code
            PROVE  [job |-> "centre", code |-> z.code] \in cut'
        BY <1>5, <3>1, Zenon
      <3> QED
        BY <1>5, <2>1, <3>1 DEF IntakeInv, CentreInv, OwnersFound
    <2>3. OwnersFound'
      BY <1>1, <2>2 DEF OwnersFound
    <2> QED
      BY <1>2, <2>3 DEF CentreInv
  <1>9. StrandedIsReported'
    <2>1. Active' = Active
      BY <1>1 DEF Active
    <2> QED
      BY <1>1, <1>5, <2>1 DEF IntakeInv, StrandedIsReported
  <1>10. NumberInv' /\ CustomerInv' /\ CityInv'
    BY <1>1, <1>4, NumberFrame, CustomerFrame, CityFrame DEF IntakeInv
  <1> QED
    BY <1>3, <1>7, <1>8, <1>9, <1>10 DEF IntakeInv

LEMMA RequestProceedsKeeps ==
    ASSUME IntakeInv, requestProceeds
    PROVE  IntakeInv'
  BY ResolveCustomerKeeps, EnrolCustomerKeeps, NextComplaintNumberKeeps, RefuseCentreKeeps,
     FileComplaintKeeps, AbortKeeps, CheckTakenKeeps, FindCityKeeps, CreateCityKeeps,
     RereadCityKeeps, InsertCustomerKeeps, InsertCentreKeeps, FindOwnerKeeps, InsertAccountKeeps,
     FindCentreKeeps, SaveCentreKeeps, FindStrandedKeeps
     DEF requestProceeds, deactivation

LEMMA IntakeStill ==
    ASSUME IntakeInv, UNCHANGED intakeVars
    PROVE  IntakeInv'
  <1>1. StateOK' /\ CallTypeOK'
    BY DEF intakeVars, IntakeInv, StateOK, CallTypeOK, Placed, past, at, req
  <1> QED
    BY <1>1, StillKept, QuietStep DEF intakeVars

-----------------------------------------------------------------------------
(* Photos. A key an upload holds is nobody else's and in no timeline entry  *)
(* yet; its bytes are there until it removes them, its row once it has one. *)
Holds(c) == upload[c].step \in {"filing", "noting", "removing"}

HoldersInv ==
    \A c \in Uploaders : Holds(c) =>
        /\ upload[c].key \in drawn \ noted
        /\ \A d \in Uploaders \ {c} : Holds(d) => upload[d].key # upload[c].key
        /\ upload[c].step \in {"filing", "noting"} => upload[c].key \in stored
        /\ upload[c].step = "noting" => \E r \in RowsSet : r.key = upload[c].key

UploadInv == UploadsTypeOK /\ HoldersInv /\ FilesHaveTheirRows

LEMMA HoldingIsHolds == holding = {c \in Uploaders : Holds(c)}
  BY DEF holding, Holds

(* What each step of an upload finds.                                       *)
LEMMA UploadKinds ==
    ASSUME UploadsTypeOK, NEW c \in Uploaders
    PROVE  /\ upload[c] \in Upload
           /\ upload[c].step = "looking" \/ upload[c].step = "saving"
                 => upload[c] \in [step : {"looking", "saving"}, photo : Photos, visit : Trips]
           /\ Holds(c) => upload[c] \in [step : {"filing", "noting", "removing"}, photo : Photos,
                                         visit : Trips, key : Keys]
           /\ Resting.step = "idle" /\ Resting \in Upload
  BY DEF UploadsTypeOK, Upload, Resting, Holds

LEMMA OneUpload ==
    ASSUME UploadsTypeOK, NEW c \in Uploaders, NEW new \in Upload,
           upload' = [upload EXCEPT ![c] = new]
    PROVE  /\ upload' \in [Uploaders -> Upload] /\ upload'[c] = new
           /\ \A d \in Uploaders \ {c} : upload'[d] = upload[d] /\ (Holds(d)' <=> Holds(d))
           /\ Holds(c)' <=> new.step \in {"filing", "noting", "removing"}
  BY DEF UploadsTypeOK, Holds

(* An upload that holds nothing begins, looks or ends.                      *)
LEMMA UnheldKeeps ==
    ASSUME UploadInv, NEW c \in Uploaders, ~Holds(c), NEW new \in Upload,
           upload' = [upload EXCEPT ![c] = new],
           new.step \notin {"filing", "noting", "removing"},
           answered' \subseteq [photo : Photos, visit : Trips],
           UNCHANGED <<trip, rows, stored, drawn, noted, abandoned>>
    PROVE  UploadInv'
  <1>1. /\ upload' \in [Uploaders -> Upload]
        /\ \A d \in Uploaders \ {c} : upload'[d] = upload[d] /\ (Holds(d)' <=> Holds(d))
        /\ ~Holds(c)'
    BY OneUpload DEF UploadInv
  <1>2. UploadsTypeOK'
    BY <1>1 DEF UploadInv, UploadsTypeOK
  <1>3. HoldersInv'
    BY <1>1 DEF UploadInv, HoldersInv, RowsSet
  <1>4. FilesHaveTheirRows'
    BY <1>1, HoldingIsHolds DEF UploadInv, FilesHaveTheirRows, RowsSet, holding, Holds
  <1> QED
    BY <1>2, <1>3, <1>4 DEF UploadInv

LEMMA UploadAttachmentKeeps ==
    ASSUME UploadInv, NEW c \in Uploaders, NEW photo \in Photos, uploadAttachment(c, photo)
    PROVE  UploadInv'
  <1> DEFINE new == [step |-> "looking", photo |-> photo, visit |-> trip]
  <1>1. new \in Upload /\ new.step = "looking"
    BY DEF Upload, UploadInv, UploadsTypeOK
  <1>2. /\ ~Holds(c) /\ upload' = [upload EXCEPT ![c] = new]
        /\ UNCHANGED <<trip, rows, stored, drawn, noted, answered, abandoned>>
    BY DEF uploadAttachment, Holds, Resting
  <1> HIDE DEF new
  <1> QED
    BY <1>1, <1>2, UnheldKeeps DEF UploadInv, UploadsTypeOK

LEMMA FindExistingKeeps ==
    ASSUME UploadInv, NEW c \in Uploaders, findExisting(c)
    PROVE  UploadInv'
  <1>1. /\ upload[c].step = "looking" /\ ~Holds(c)
        /\ upload[c] \in [step : {"looking", "saving"}, photo : Photos, visit : Trips]
        /\ UNCHANGED <<trip, rows, stored, drawn, noted, abandoned>>
    BY UploadKinds DEF findExisting, Holds, UploadInv
  <1>2. answered' \subseteq [photo : Photos, visit : Trips]
    BY <1>1 DEF findExisting, UploadInv, UploadsTypeOK
  <1>3. CASE upload' = [upload EXCEPT ![c] = Resting]
    BY <1>1, <1>2, <1>3, UploadKinds, UnheldKeeps DEF UploadInv
  <1>4. CASE upload' = [upload EXCEPT ![c].step = "saving"]
    <2> DEFINE new == [upload[c] EXCEPT !.step = "saving"]
    <2>1. new \in Upload /\ new.step = "saving"
      BY <1>1 DEF Upload
    <2>2. upload' = [upload EXCEPT ![c] = new]
      BY <1>4 DEF UploadInv, UploadsTypeOK
    <2> HIDE DEF new
    <2> QED
      BY <1>1, <1>2, <2>1, <2>2, UnheldKeeps
  <1> QED
    BY <1>3, <1>4 DEF findExisting

(* The key is new: no upload holds it, no entry speaks of it.               *)
LEMMA SaveBytesKeeps ==
    ASSUME UploadInv, NEW c \in Uploaders, saveBytes(c)
    PROVE  UploadInv'
  <1>1. /\ upload[c].step = "saving" /\ ~Holds(c)
        /\ upload[c] \in [step : {"looking", "saving"}, photo : Photos, visit : Trips]
        /\ UNCHANGED <<trip, rows, noted, answered, abandoned>>
    BY UploadKinds DEF saveBytes, Holds, UploadInv
  <1>2. CASE upload' = [upload EXCEPT ![c] = Resting] /\ UNCHANGED <<stored, drawn>>
    BY <1>1, <1>2, UploadKinds, UnheldKeeps DEF UploadInv, UploadsTypeOK
  <1>3. ASSUME NEW k \in Keys \ drawn, stored' = stored \cup {k}, drawn' = drawn \cup {k},
               upload' = [upload EXCEPT ![c] =
                            [step |-> "filing", photo |-> upload[c].photo,
                             visit |-> upload[c].visit, key |-> k]]
        PROVE  UploadInv'
    <2> DEFINE new == [step |-> "filing", photo |-> upload[c].photo, visit |-> upload[c].visit,
                       key |-> k]
    <2>1. new \in Upload /\ new.step = "filing" /\ new.key = k
      BY <1>1 DEF Upload
    <2>2. upload' = [upload EXCEPT ![c] = new]
      BY <1>3
    <2> HIDE DEF new
    <2>3. /\ upload' \in [Uploaders -> Upload] /\ upload'[c] = new /\ Holds(c)'
          /\ \A d \in Uploaders \ {c} : upload'[d] = upload[d] /\ (Holds(d)' <=> Holds(d))
      BY <2>1, <2>2, OneUpload DEF UploadInv
    <2>4. UploadsTypeOK'
      BY <1>1, <1>3, <2>3 DEF UploadInv, UploadsTypeOK
    <2>5. HoldersInv'
      <3>1. \A d \in Uploaders \ {c} : Holds(d) => upload[d].key # k
        BY <1>3 DEF UploadInv, HoldersInv
      <3>2. k \notin noted
        BY <1>3 DEF UploadInv, UploadsTypeOK
      <3>3. RowsSet' = RowsSet
        BY <1>1 DEF RowsSet
      <3> QED
        BY <1>1, <1>3, <2>1, <2>3, <3>1, <3>2, <3>3 DEF UploadInv, HoldersInv
    <2>6. FilesHaveTheirRows'
      <3>1. RowsSet' = RowsSet
        BY <1>1 DEF RowsSet
      <3>2. c \in holding' /\ upload'[c].key = k
        BY <2>1, <2>3, HoldingIsHolds DEF holding, Holds
      <3>3. \A d \in holding : d \in holding' /\ upload'[d].key = upload[d].key
        BY <1>1, <2>3 DEF holding, Holds
      <3> QED
        BY <1>1, <1>3, <3>1, <3>2, <3>3 DEF UploadInv, FilesHaveTheirRows
    <2> QED
      BY <2>4, <2>5, <2>6 DEF UploadInv
  <1> QED
    BY <1>2, <1>3 DEF saveBytes, freshKeys

(* A holder goes on with its key, or lets it go.                            *)
LEMMA Holder ==
    ASSUME UploadInv, NEW c \in Uploaders, Holds(c), NEW step \in {"noting", "removing"},
           upload' = [upload EXCEPT ![c].step = step]
    PROVE  /\ upload' \in [Uploaders -> Upload]
           /\ upload'[c].step = step /\ upload'[c].key = upload[c].key /\ Holds(c)'
           /\ \A d \in Uploaders \ {c} : upload'[d] = upload[d] /\ (Holds(d)' <=> Holds(d))
           /\ \A d \in holding : d \in holding' /\ upload'[d].key = upload[d].key
  <1> DEFINE new == [upload[c] EXCEPT !.step = step]
  <1>1. new \in Upload /\ new.step = step /\ new.key = upload[c].key
    BY UploadKinds DEF Upload, UploadInv
  <1>2. upload' = [upload EXCEPT ![c] = new]
    BY DEF UploadInv, UploadsTypeOK
  <1> HIDE DEF new
  <1>3. /\ upload' \in [Uploaders -> Upload] /\ upload'[c] = new /\ Holds(c)'
        /\ \A d \in Uploaders \ {c} : upload'[d] = upload[d] /\ (Holds(d)' <=> Holds(d))
    BY <1>1, <1>2, OneUpload DEF UploadInv
  <1>4. \A d \in holding : d \in holding' /\ upload'[d].key = upload[d].key
    BY <1>1, <1>3 DEF holding, Holds
  <1> QED
    BY <1>1, <1>3, <1>4

LEMMA LettingGo ==
    ASSUME UploadInv, NEW c \in Uploaders, Holds(c), upload' = [upload EXCEPT ![c] = Resting]
    PROVE  /\ upload' \in [Uploaders -> Upload] /\ ~Holds(c)'
           /\ \A d \in Uploaders \ {c} : upload'[d] = upload[d] /\ (Holds(d)' <=> Holds(d))
           /\ \A d \in holding \ {c} : d \in holding' /\ upload'[d].key = upload[d].key
  <1>1. /\ upload' \in [Uploaders -> Upload] /\ ~Holds(c)'
        /\ \A d \in Uploaders \ {c} : upload'[d] = upload[d] /\ (Holds(d)' <=> Holds(d))
    BY UploadKinds, OneUpload DEF UploadInv
  <1> QED
    BY <1>1 DEF holding, Holds

LEMMA CreateRowKeeps ==
    ASSUME UploadInv, NEW c \in Uploaders, createRow(c)
    PROVE  UploadInv'
  <1>1. /\ upload[c].step = "filing" /\ Holds(c)
        /\ UNCHANGED <<trip, stored, drawn, noted, answered, abandoned>>
    BY DEF createRow, Holds
  <1>2. /\ upload[c].photo \in Photos /\ upload[c].visit \in Trips /\ upload[c].key \in Keys
    BY <1>1, UploadKinds DEF UploadInv
  <1>3. CASE rows' = fileRow(upload[c]) /\ upload' = [upload EXCEPT ![c].step = "noting"]
    <2> DEFINE row == [photo |-> upload[c].photo, visit |-> upload[c].visit, key |-> upload[c].key]
    <2>1. row \in Row /\ row.key = upload[c].key /\ rows' = Append(rows, row)
      BY <1>2, <1>3 DEF Row, fileRow
    <2> HIDE DEF row
    <2>2. rows' \in Seq(Row) /\ RowsSet \subseteq RowsSet' /\ row \in RowsSet'
      <3>1. rows \in Seq(Row)
        BY DEF UploadInv, UploadsTypeOK
      <3> QED
        BY <2>1, <3>1 DEF RowsSet
    <2>3. /\ upload' \in [Uploaders -> Upload]
          /\ upload'[c].step = "noting" /\ upload'[c].key = upload[c].key /\ Holds(c)'
          /\ \A d \in Uploaders \ {c} : upload'[d] = upload[d] /\ (Holds(d)' <=> Holds(d))
          /\ \A d \in holding : d \in holding' /\ upload'[d].key = upload[d].key
      BY <1>1, <1>3, Holder
    <2>4. UploadsTypeOK'
      BY <1>1, <2>2, <2>3 DEF UploadInv, UploadsTypeOK
    <2>5. HoldersInv'
      BY <1>1, <2>1, <2>2, <2>3 DEF UploadInv, HoldersInv
    <2>6. FilesHaveTheirRows'
      BY <1>1, <2>2, <2>3 DEF UploadInv, FilesHaveTheirRows
    <2> QED
      BY <2>4, <2>5, <2>6 DEF UploadInv
  <1>4. CASE UNCHANGED rows /\ upload' = [upload EXCEPT ![c].step = "removing"]
    <2>1. /\ upload' \in [Uploaders -> Upload]
          /\ upload'[c].step = "removing" /\ upload'[c].key = upload[c].key /\ Holds(c)'
          /\ \A d \in Uploaders \ {c} : upload'[d] = upload[d] /\ (Holds(d)' <=> Holds(d))
          /\ \A d \in holding : d \in holding' /\ upload'[d].key = upload[d].key
      BY <1>1, <1>4, Holder
    <2>2. RowsSet' = RowsSet
      BY <1>4 DEF RowsSet
    <2>3. UploadsTypeOK'
      BY <1>1, <1>4, <2>1 DEF UploadInv, UploadsTypeOK
    <2>4. HoldersInv'
      BY <1>1, <2>1, <2>2 DEF UploadInv, HoldersInv
    <2>5. FilesHaveTheirRows'
      BY <1>1, <2>1, <2>2 DEF UploadInv, FilesHaveTheirRows
    <2> QED
      BY <2>3, <2>4, <2>5 DEF UploadInv
  <1> QED
    BY <1>3, <1>4 DEF createRow

LEMMA RecordActivityKeeps ==
    ASSUME UploadInv, NEW c \in Uploaders, recordActivity(c)
    PROVE  UploadInv'
  <1>1. /\ upload[c].step = "noting" /\ Holds(c) /\ c \in holding
        /\ UNCHANGED <<trip, rows, stored, drawn, abandoned>>
    BY DEF recordActivity, Holds, holding
  <1>2. /\ upload[c].photo \in Photos /\ upload[c].visit \in Trips /\ upload[c].key \in Keys
    BY <1>1, UploadKinds DEF UploadInv
  <1>3. RowsSet' = RowsSet
    BY <1>1 DEF RowsSet
  <1>4. CASE /\ noted' = noted \cup {upload[c].key} /\ upload' = [upload EXCEPT ![c] = Resting]
             /\ answered' = answered \cup {[photo |-> upload[c].photo, visit |-> upload[c].visit]}
    <2>1. /\ upload' \in [Uploaders -> Upload] /\ ~Holds(c)'
          /\ \A d \in Uploaders \ {c} : upload'[d] = upload[d] /\ (Holds(d)' <=> Holds(d))
          /\ \A d \in holding \ {c} : d \in holding' /\ upload'[d].key = upload[d].key
      BY <1>1, <1>4, LettingGo
    <2>2. /\ upload[c].key \in drawn /\ upload[c].key \in stored
          /\ \E r \in RowsSet : r.key = upload[c].key
          /\ \A d \in Uploaders \ {c} : Holds(d) => upload[d].key # upload[c].key
      BY <1>1 DEF UploadInv, HoldersInv
    <2>3. UploadsTypeOK'
      BY <1>1, <1>2, <1>4, <2>1, <2>2 DEF UploadInv, UploadsTypeOK
    <2>4. HoldersInv'
      BY <1>1, <1>3, <1>4, <2>1, <2>2 DEF UploadInv, HoldersInv
    <2>5. FilesHaveTheirRows'
      BY <1>1, <1>3, <1>4, <2>1, <2>2 DEF UploadInv, FilesHaveTheirRows
    <2> QED
      BY <2>3, <2>4, <2>5 DEF UploadInv
  <1>5. CASE /\ UNCHANGED <<noted, answered>>
             /\ upload' = [upload EXCEPT ![c].step = "removing"]
    <2>1. /\ upload' \in [Uploaders -> Upload]
          /\ upload'[c].step = "removing" /\ upload'[c].key = upload[c].key /\ Holds(c)'
          /\ \A d \in Uploaders \ {c} : upload'[d] = upload[d] /\ (Holds(d)' <=> Holds(d))
          /\ \A d \in holding : d \in holding' /\ upload'[d].key = upload[d].key
      BY <1>1, <1>5, Holder
    <2>2. UploadsTypeOK'
      BY <1>1, <1>5, <2>1 DEF UploadInv, UploadsTypeOK
    <2>3. HoldersInv'
      BY <1>1, <1>3, <1>5, <2>1 DEF UploadInv, HoldersInv
    <2>4. FilesHaveTheirRows'
      BY <1>1, <1>3, <1>5, <2>1 DEF UploadInv, FilesHaveTheirRows
    <2> QED
      BY <2>2, <2>3, <2>4 DEF UploadInv
  <1> QED
    BY <1>4, <1>5 DEF recordActivity

(* The bytes that go are in no timeline entry.                              *)
LEMMA RemoveBytesKeeps ==
    ASSUME UploadInv, NEW c \in Uploaders, removeBytes(c)
    PROVE  UploadInv'
  <1>1. /\ upload[c].step = "removing" /\ Holds(c) /\ c \in holding
        /\ upload' = [upload EXCEPT ![c] = Resting]
        /\ UNCHANGED <<trip, rows, drawn, noted, answered>>
    BY DEF removeBytes, Holds, holding
  <1>2. RowsSet' = RowsSet
    BY <1>1 DEF RowsSet
  <1>3. /\ upload' \in [Uploaders -> Upload] /\ ~Holds(c)'
        /\ \A d \in Uploaders \ {c} : upload'[d] = upload[d] /\ (Holds(d)' <=> Holds(d))
        /\ \A d \in holding \ {c} : d \in holding' /\ upload'[d].key = upload[d].key
    BY <1>1, LettingGo
  <1>4. /\ upload[c].key \in drawn /\ upload[c].key \notin noted
        /\ \A d \in Uploaders \ {c} : Holds(d) => upload[d].key # upload[c].key
    BY <1>1 DEF UploadInv, HoldersInv
  <1>5. \/ stored' = stored \ {upload[c].key} /\ abandoned' = abandoned
        \/ abandoned' = abandoned \cup {upload[c].key} /\ stored' = stored
    BY DEF removeBytes
  <1>6. UploadsTypeOK'
    BY <1>1, <1>3, <1>4, <1>5 DEF UploadInv, UploadsTypeOK
  <1>7. HoldersInv'
    BY <1>1, <1>2, <1>3, <1>4, <1>5 DEF UploadInv, HoldersInv
  <1>8. FilesHaveTheirRows'
    BY <1>1, <1>2, <1>3, <1>4, <1>5 DEF UploadInv, FilesHaveTheirRows
  <1> QED
    BY <1>6, <1>7, <1>8 DEF UploadInv

LEMMA UploadRestartKeeps ==
    ASSUME UploadInv, restart
    PROVE  UploadInv'
  <1>1. /\ upload' = [c \in Uploaders |-> Resting]
        /\ abandoned' = abandoned \cup {upload[c].key : c \in holding}
        /\ UNCHANGED <<trip, rows, stored, drawn, noted, answered>>
    BY DEF restart
  <1>2. RowsSet' = RowsSet
    BY <1>1 DEF RowsSet
  <1>3. \A c \in Uploaders : ~Holds(c)'
    BY <1>1 DEF Holds, Resting
  <1>4. \A c \in holding : upload[c].key \in drawn
    BY HoldingIsHolds DEF UploadInv, HoldersInv
  <1>5. UploadsTypeOK'
    BY <1>1, <1>4 DEF UploadInv, UploadsTypeOK, Upload
  <1>6. HoldersInv'
    BY <1>3 DEF HoldersInv
  <1>7. FilesHaveTheirRows'
    BY <1>1, <1>2 DEF UploadInv, FilesHaveTheirRows
  <1> QED
    BY <1>5, <1>6, <1>7 DEF UploadInv

LEMMA UploadStill ==
    ASSUME UploadInv, UNCHANGED uploadVars
    PROVE  UploadInv'
  BY DEF uploadVars, UploadInv, UploadsTypeOK, HoldersInv, Holds, FilesHaveTheirRows, RowsSet,
         holding

LEMMA NextTripKeeps ==
    ASSUME UploadInv, NextTrip
    PROVE  UploadInv'
  BY TripsAssumption DEF NextTrip, UploadInv, UploadsTypeOK, HoldersInv, Holds,
         FilesHaveTheirRows, RowsSet, holding, Trips

-----------------------------------------------------------------------------
(* Together, from the first document on.                                    *)
LEMMA IntakeBegins ==
    ASSUME IntakeInit
    PROVE  IntakeInv
  <1>1. PICK known \in SUBSET Codes, city \in Cities :
           db = [counter |-> [y \in Years |-> 0], complaints |-> {}, customers |-> {},
                 cities |-> IF known = {} THEN {} ELSE {city},
                 centres |-> {[code |-> z, city |-> city, active |-> TRUE,
                               owner |-> Absent] : z \in known},
                 accounts |-> {}]
    BY DEF IntakeInit
  <1>2. /\ year = 0 /\ lost = {} /\ reported = {} /\ cut = {}
        /\ \A c \in Calls : call[c] = Waiting
        /\ call \in [Calls -> Call]
    BY DEF IntakeInit, Call
  <1>3. \A c \in Calls : /\ ~Filing(c) /\ ~Placed(c) /\ ~Entering(c)
                         /\ ~Rereading(c) /\ ~Opening(c)
    BY <1>2 DEF Filing, Placed, Entering, Rereading, Opening, past, at
  <1>4. /\ db.complaints = {} /\ db.customers = {} /\ db.accounts = {}
        /\ db.counter = [y \in Years |-> 0]
        /\ db.cities = IF known = {} THEN {} ELSE {city}
        /\ db.centres = {[code |-> z, city |-> city, active |-> TRUE,
                          owner |-> Absent] : z \in known}
        /\ \A z \in db.centres : z.owner = Absent
    BY <1>1
  <1>5. /\ db.centres \subseteq Centre
        /\ db.counter \in [Years -> Nat]
        /\ db.cities \subseteq Cities
    <2>1. ASSUME NEW z \in db.centres
          PROVE  z \in Centre
      <3>1. PICK y \in known : z = [code |-> y, city |-> city, active |-> TRUE, owner |-> Absent]
        BY <1>4
      <3> QED
        BY <3>1 DEF Centre
    <2>2. db.cities \subseteq Cities
      BY <1>4
    <2>3. db.counter \in [Years -> Nat]
      BY <1>4
    <2> QED
      BY <2>1, <2>2, <2>3
  <1>6. db \in Docs
    BY <1>1, <1>4, <1>5 DEF Docs
  <1>7. StateOK
    BY <1>2, <1>6, YearAssumption DEF StateOK, Years
  <1>8. CallTypeOK
    BY <1>2, <1>3 DEF CallTypeOK
  <1>9. NumbersAreConsecutive
    <2> SUFFICES ASSUME NEW y \in Years
                 PROVE  LET of == {k \in db.complaints : k.number.year = y}
                        IN  /\ {k.number.seq : k \in of} = 1..db.counter[y]
                            /\ Cardinality(of) = db.counter[y]
      BY DEF NumbersAreConsecutive
    <2>1. {k \in db.complaints : k.number.year = y} = {} /\ db.counter[y] = 0
      BY <1>4
    <2>2. Cardinality({}) = 0
      BY FS_EmptySet
    <2>3. {k.number.seq : k \in {x \in db.complaints : x.number.year = y}} = {}
      BY <2>1
    <2>4. 1..0 = {}
      OBVIOUS
    <2> QED
      BY <2>1, <2>2, <2>3, <2>4
  <1>10. NumberInv
    BY <1>3, <1>4, <1>9, FS_EmptySet DEF NumberInv
  <1>11. CustomerInv /\ CityInv
    BY <1>2, <1>3, <1>4 DEF CustomerInv, CityInv
  <1>12. CentreInv /\ StrandedIsReported
    BY <1>3, <1>4 DEF CentreInv, OwnersFound, StrandedIsReported
  <1> QED
    BY <1>7, <1>8, <1>10, <1>11, <1>12 DEF IntakeInv

LEMMA UploadsBegin ==
    ASSUME UploadsInit
    PROVE  UploadInv
  <1>1. \A c \in Uploaders : ~Holds(c)
    BY DEF UploadsInit, Holds, Resting
  <1>2. UploadsTypeOK
    BY TripsAssumption DEF UploadsInit, UploadsTypeOK, Upload, Trips
  <1> QED
    BY <1>1, <1>2 DEF UploadsInit, UploadInv, HoldersInv, FilesHaveTheirRows

RecordsInv == IntakeInv /\ UploadInv /\ requests \in 0..MaxRequests

LEMMA UploadsGoOn ==
    ASSUME UploadInv, uploadArrives \/ uploadProceeds \/ NextTrip
    PROVE  UploadInv'
  BY UploadAttachmentKeeps, FindExistingKeeps, SaveBytesKeeps, CreateRowKeeps,
     RecordActivityKeeps, RemoveBytesKeeps, NextTripKeeps DEF uploadArrives, uploadProceeds

LEMMA RecordsStep ==
    ASSUME RecordsInv, [RecordsNext]_recordVars
    PROVE  RecordsInv'
  <1>1. CASE Arrive
    <2>1. requests' \in 0..MaxRequests
      BY <1>1, RequestsAssumption DEF Arrive, RecordsInv
    <2>2. \/ requestArrives /\ UNCHANGED uploadVars
          \/ uploadArrives /\ UNCHANGED intakeVars
      BY <1>1 DEF Arrive
    <2> QED
      BY <2>1, <2>2, RequestArrivesKeeps, UploadsGoOn, IntakeStill, UploadStill DEF RecordsInv
  <1>2. CASE Proceed
    <2>1. requests' \in 0..MaxRequests
      BY <1>2 DEF Proceed, RecordsInv
    <2>2. \/ requestProceeds /\ UNCHANGED uploadVars
          \/ NewYear /\ UNCHANGED uploadVars
          \/ (uploadProceeds \/ NextTrip) /\ UNCHANGED intakeVars
      BY <1>2 DEF Proceed
    <2> QED
      BY <2>1, <2>2, RequestProceedsKeeps, NewYearKeeps, UploadsGoOn, IntakeStill, UploadStill
         DEF RecordsInv
  <1>3. CASE Stop
    <2>1. requests' \in 0..MaxRequests
      BY <1>3 DEF Stop, RecordsInv
    <2>2. \/ Restart /\ restart
          \/ Restart /\ UNCHANGED uploadVars
          \/ restart /\ UNCHANGED intakeVars
      BY <1>3 DEF Stop
    <2> QED
      BY <2>1, <2>2, RestartKeeps, UploadRestartKeeps, IntakeStill, UploadStill DEF RecordsInv
  <1>4. CASE UNCHANGED recordVars
    <2>1. UNCHANGED intakeVars /\ UNCHANGED uploadVars /\ requests' = requests
      BY <1>4 DEF recordVars
    <2> QED
      BY <2>1, IntakeStill, UploadStill DEF RecordsInv
  <1> QED
    BY <1>1, <1>2, <1>3, <1>4 DEF RecordsNext

LEMMA RecordsAlways == RecordsSpec => []RecordsInv
  <1>1. RecordsInit => RecordsInv
    BY IntakeBegins, UploadsBegin, RequestsAssumption DEF RecordsInit, RecordsInv
  <1>2. RecordsInv /\ [RecordsNext]_recordVars => RecordsInv'
    BY RecordsStep
  <1> QED
    BY <1>1, <1>2, PTL DEF RecordsSpec

(* One record for a complaint's mobile: there is one, and no two share it.  *)
LEMMA OneCustomer ==
    ASSUME IntakeInv, NEW k \in db.complaints
    PROVE  Cardinality(customers(k.mobile)) = 1
  <1>1. PICK x : x \in customers(k.mobile)
    BY DEF IntakeInv, CustomerInv
  <1>2. customers(k.mobile) = {x}
    BY <1>1 DEF IntakeInv, CustomerInv, customers
  <1>3. Cardinality({x}) = 1
    BY FS_Singleton
  <1> QED
    BY <1>2, <1>3

LEMMA IntakeIsWhole ==
    ASSUME IntakeInv
    PROVE  NothingHalfMade
  BY OneCustomer DEF IntakeInv, CustomerInv, CityInv, CentreInv, OwnersFound, NothingHalfMade

(* Documents, requests and uploads keep their types.                        *)
THEOREM RecordsTypes == RecordsSpec => []RecordsTypeOK
  <1>1. IntakeInv => IntakeTypeOK
    BY DEF IntakeInv, StateOK, CallTypeOK, CityInv, IntakeTypeOK, Docs
  <1>2. RecordsInv => RecordsTypeOK
    BY <1>1 DEF RecordsInv, UploadInv, RecordsTypeOK
  <1> QED
    BY <1>2, RecordsAlways, PTL

(* The complaint numbers of a year are 1 to its counter, one complaint      *)
(* each, however many creations overlap, are run again, abort, are cut off  *)
(* by a restart or cross the turn of the year (nextComplaintNumber in the   *)
(* transaction of createComplaint).                                         *)
THEOREM NumbersInARow == RecordsSpec => []NumbersAreConsecutive
  <1>1. RecordsInv => NumbersAreConsecutive
    BY DEF RecordsInv, IntakeInv, NumberInv
  <1> QED
    BY <1>1, RecordsAlways, PTL

(* A failed request leaves nothing half-made: a complaint has its customer, *)
(* one record, and its city; a customer entered with a complaint has one; a *)
(* centre asked for with an owner has him, or the recorded reason why not   *)
(* (createComplaint, createServiceCenter, findOrCreateCity).                *)
THEOREM NothingIsHalfMade == RecordsSpec => []NothingHalfMade
  <1>1. RecordsInv => NothingHalfMade
    BY IntakeIsWhole DEF RecordsInv
  <1> QED
    BY <1>1, RecordsAlways, PTL

(* The open complaints of a deactivated centre are named in the answer to   *)
(* its deactivation, but for one whose transaction had read the centre      *)
(* before, and unless the server stopped (updateServiceCenter).             *)
THEOREM StrandedAreNamed == RecordsSpec => []StrandedIsReported
  <1>1. RecordsInv => StrandedIsReported
    BY DEF RecordsInv, IntakeInv
  <1> QED
    BY <1>1, RecordsAlways, PTL

(* A photo the timeline speaks of has its row and its bytes, and bytes      *)
(* without a row belong to an upload under way, or were left by a restart   *)
(* or a removal that failed (uploadAttachment).                             *)
THEOREM FilesKeepTheirRows == RecordsSpec => []FilesHaveTheirRows
  <1>1. RecordsInv => FilesHaveTheirRows
    BY DEF RecordsInv, UploadInv
  <1> QED
    BY <1>1, RecordsAlways, PTL
=============================================================================
