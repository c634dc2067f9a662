------------------------------- MODULE Intake ------------------------------
(* Raising complaints and the records beside them: the customer, the city,  *)
(* the complaint number, centres and accounts. createComplaint is one       *)
(* transaction (complaint.service.ts); the office screens' handlers are     *)
(* checks followed by separate writes (masters.service.ts,                  *)
(* users.service.ts). Unique indexes decide their races.                    *)
EXTENDS Integers, FiniteSets

CONSTANTS Calls,     \* requests served at one time
          Mobiles,   \* mobile numbers, of customers and of accounts
          Cities,    \* city names typed, all of one state
          Codes,     \* codes of service centres
          Absent,    \* an absent value
          MaxYear    \* bound: the last year, counting from 0

ASSUME AbsentAssumption == Absent \notin Mobiles \cup Cities \cup Codes
ASSUME YearAssumption == MaxYear \in Nat

VARIABLES year,      \* companyYear of the server's clock
          db,        \* the committed documents
          call,      \* requests under way
          lost,      \* history: cities whose creation was refused for losing a race
          reported,  \* history: complaints a deactivation's answer named
          cut        \* history: creations and deactivations that were cut short
intakeVars == <<year, db, call, lost, reported, cut>>

Years == 0..MaxYear
Number == [year : Years, seq : Nat \ {0}]

Complaint == [number : Number, mobile : Mobiles, city : Cities,
              centre : Codes \cup {Absent},
              blind : BOOLEAN]   \* history: its centre had just been deactivated
Customer == [mobile : Mobiles, city : Cities,
             raised : BOOLEAN]   \* made by createComplaint
Centre == [code : Codes, city : Cities, active : BOOLEAN,
           owner : Mobiles \cup {Absent}]   \* the owner asked for with it
Account == [mobile : Mobiles, centre : Codes]

Docs == [counter : [Years -> Nat], complaints : SUBSET Complaint,
         customers : SUBSET Customer, cities : SUBSET Cities,
         centres : SUBSET Centre, accounts : SUBSET Account]

(* A request carries what was typed; code is the centre it is about. A      *)
(* transaction also keeps what its snapshot held: the counters, whether the *)
(* city was there, the centres that were active; and the number it minted.  *)
Request == [job : {"complaint", "customer", "centre", "account", "deactivate", "activate"},
            mobile : Mobiles \cup {Absent}, new : BOOLEAN,
            city : Cities \cup {Absent}, code : Codes \cup {Absent}]
Steps == {"begin", "placing", "minting", "filing",
          "finding", "creating", "rereading", "inserting", "staffing", "hiring",
          "saving", "reporting"}
Waiting == [req |-> Absent]
Snapshot == [counter : [Years -> Nat], city : BOOLEAN, active : SUBSET Codes]
Call == {Waiting} \cup [req : Request, step : Steps, seen : Snapshot \cup {Absent},
                        number : Number \cup {Absent}]

(* Centres may be on file from before, without an owner's account.          *)
IntakeInit == /\ year = 0
              /\ \E known \in SUBSET Codes, city \in Cities :
                    db = [counter |-> [y \in Years |-> 0], complaints |-> {}, customers |-> {},
                          cities |-> IF known = {} THEN {} ELSE {city},
                          centres |-> {[code |-> z, city |-> city, active |-> TRUE,
                                        owner |-> Absent] : z \in known},
                          accounts |-> {}]
              /\ call = [c \in Calls |-> Waiting]
              /\ lost = {} /\ reported = {} /\ cut = {}

customers(m) == {k \in db.customers : k.mobile = m}
centres(code) == {z \in db.centres : z.code = code}
Active == {z.code : z \in {x \in db.centres : x.active}}
accounts(m) == {a \in db.accounts : a.mobile = m}

req(c) == call[c].req
at(c, jobs, step) == call[c] # Waiting /\ req(c).job \in jobs /\ call[c].step = step
move(c, step) == call' = [call EXCEPT ![c].step = step]
leave(c) == call' = [call EXCEPT ![c] = Waiting]
keepTheRest == UNCHANGED <<year, lost, reported, cut>>

arrive(c, r) ==
    /\ call[c] = Waiting
    /\ call' = [call EXCEPT ![c] = [req |-> r, step |-> "begin", seen |-> Absent,
                                    number |-> Absent]]
    /\ db' = db /\ keepTheRest

----------------------------------------------------------------------------
(* createComplaint is one transaction. It sees the documents as they were   *)
(* at its first read, plus its own writes, which nobody else sees before    *)
(* the commit. Writing what another open transaction has written, or what   *)
(* has changed since, is a transient error: withTransaction runs the        *)
(* callback again from the start.                                           *)
past(d, steps) == \E s \in steps : at(d, {"complaint"}, s)
pendingCity(c, city) ==
    \E d \in Calls \ {c} : past(d, {"minting", "filing"}) /\ req(d).city = city /\ ~call[d].seen.city
pendingCustomer(c, m) ==
    \E d \in Calls \ {c} : past(d, {"minting", "filing"}) /\ req(d).mobile = m /\ req(d).new
pendingCounter(c, y) ==
    \E d \in Calls \ {c} : past(d, {"filing"}) /\ call[d].number.year = y

createComplaint(c, m, new, city, code) ==
    arrive(c, [job |-> "complaint", mobile |-> m, new |-> new, city |-> city, code |-> code])

(* resolveCustomer: a mobile already on file is refused for a new customer, *)
(* and so is a known customer who is not there.                             *)
resolveCustomer(c) ==
    /\ at(c, {"complaint"}, "begin")
    /\ IF req(c).new <=> customers(req(c).mobile) = {}
       THEN call' = [call EXCEPT ![c].step = "placing",
                       ![c].seen = [counter |-> db.counter, city |-> req(c).city \in db.cities,
                                   active |-> Active]]
       ELSE leave(c)
    /\ db' = db /\ keepTheRest

runAgain(c) == /\ call' = [call EXCEPT ![c].step = "begin", ![c].seen = Absent]
               /\ db' = db /\ keepTheRest

(* findOrCreateCity and Customer.create, both in the session. The mutant    *)
(* drops the session from the customer's insert.                            *)
enrolled(c) == IF req(c).new
               THEN {[mobile |-> req(c).mobile, city |-> req(c).city, raised |-> TRUE]}
               ELSE {}
clash(c) == \/ ~call[c].seen.city /\ (req(c).city \in db.cities \/ pendingCity(c, req(c).city))
            \/ req(c).new /\ (customers(req(c).mobile) # {} \/ pendingCustomer(c, req(c).mobile))
enrolOutside(c) ==
    /\ at(c, {"complaint"}, "placing")
    /\ \/ clash(c) /\ runAgain(c)
       \/ /\ ~clash(c)
          /\ move(c, "minting")
          /\ db' = [db EXCEPT !.customers = @ \cup enrolled(c)]
          /\ keepTheRest
enrolCustomer(c) ==
    /\ at(c, {"complaint"}, "placing")
    /\ \/ clash(c) /\ runAgain(c)
       \/ ~clash(c) /\ move(c, "minting") /\ db' = db /\ keepTheRest

(* A chosen centre must be active, as the snapshot has it: refused here and *)
(* once more, from the same snapshot, when the complaint is written         *)
(* (refActive).                                                             *)
centreTaken(c) == req(c).code \in call[c].seen.active \cup {Absent}
refuseCentre(c) == /\ at(c, {"complaint"}, "minting") /\ ~centreTaken(c)
                   /\ leave(c)
                   /\ db' = db /\ keepTheRest

(* nextComplaintNumber: $inc on the counter of the year, in the session, so *)
(* the increment is given back with an abort. The mutant forgets to pass it.*)
counterMoved(c) == db.counter[year] # call[c].seen.counter[year] \/ pendingCounter(c, year)
mint(c) == call' = [call EXCEPT ![c].step = "filing",
                                ![c].number = [year |-> year, seq |-> db.counter[year] + 1]]
mintOutside(c) == /\ at(c, {"complaint"}, "minting")
                  /\ mint(c)
                  /\ db' = [db EXCEPT !.counter[year] = @ + 1]
                  /\ keepTheRest
nextComplaintNumber(c) ==
    /\ at(c, {"complaint"}, "minting") /\ centreTaken(c)
    /\ \/ counterMoved(c) /\ runAgain(c)
       \/ ~counterMoved(c) /\ mint(c) /\ db' = db /\ keepTheRest

(* Complaint.create, its timeline entries and the commit.                   *)
fileComplaint(c) ==
    /\ at(c, {"complaint"}, "filing")
    /\ LET n == call[c].number IN
       db' = [db EXCEPT !.counter[n.year] = n.seq,
                        !.cities = @ \cup {req(c).city},
                        !.customers = @ \cup enrolled(c),
                        !.complaints = @ \cup {[number |-> n, mobile |-> req(c).mobile,
                                                city |-> req(c).city, centre |-> req(c).code,
                                                blind |-> ~(req(c).code \in Active \cup {Absent})]}]
    /\ leave(c)
    /\ keepTheRest

(* A product that is gone, a refused document, retries given up: the        *)
(* transaction leaves nothing.                                              *)
abort(c) == /\ past(c, {"placing", "minting", "filing"})
            /\ leave(c)
            /\ db' = db /\ keepTheRest

----------------------------------------------------------------------------
(* The office screens. Each await is a step: a check, the city, the write.  *)
createCustomer(c, m, city) ==
    arrive(c, [job |-> "customer", mobile |-> m, new |-> TRUE, city |-> city, code |-> Absent])
createServiceCenter(c, code, city, owner) ==
    arrive(c, [job |-> "centre", mobile |-> owner, new |-> TRUE, city |-> city, code |-> code])
createUser(c, m, code) ==
    arrive(c, [job |-> "account", mobile |-> m, new |-> TRUE, city |-> Absent, code |-> code])

(* The first lookup: the customer's mobile, the centre's code; for an       *)
(* account, its centre (there and active) and its mobile.                   *)
taken(r) == \/ r.job = "customer" /\ customers(r.mobile) # {}
            \/ r.job = "centre" /\ centres(r.code) # {}
            \/ r.job = "account" /\ (r.code \notin Active \/ accounts(r.mobile) # {})
checkTaken(c) ==
    /\ at(c, {"customer", "centre", "account"}, "begin")
    /\ IF taken(req(c)) THEN leave(c)
       ELSE move(c, IF req(c).job = "account" THEN "hiring" ELSE "finding")
    /\ db' = db /\ keepTheRest

(* findOrCreateCity outside a transaction: look, create, and on a duplicate *)
(* key look again for what the winner made. An insert waits for an open     *)
(* transaction that holds the key.                                          *)
findCity(c) ==
    /\ at(c, {"customer", "centre"}, "finding")
    /\ move(c, IF req(c).city \in db.cities THEN "inserting" ELSE "creating")
    /\ db' = db /\ keepTheRest
createCity(c) ==
    /\ at(c, {"customer", "centre"}, "creating") /\ ~pendingCity(c, req(c).city)
    /\ IF req(c).city \in db.cities
       THEN move(c, "rereading") /\ db' = db
       ELSE move(c, "inserting") /\ db' = [db EXCEPT !.cities = @ \cup {req(c).city}]
    /\ keepTheRest
rereadCity(c) ==
    /\ at(c, {"customer", "centre"}, "rereading")
    /\ IF req(c).city \in db.cities
       THEN move(c, "inserting") /\ lost' = lost
       ELSE leave(c) /\ lost' = lost \cup {req(c).city}
    /\ UNCHANGED <<year, db, reported, cut>>

(* Customer.create under the unique index on mobile.                        *)
insertCustomer(c) ==
    /\ at(c, {"customer"}, "inserting") /\ ~pendingCustomer(c, req(c).mobile)
    /\ db' = IF customers(req(c).mobile) # {} THEN db
             ELSE [db EXCEPT !.customers = @ \cup {[mobile |-> req(c).mobile,
                                                    city |-> req(c).city, raised |-> FALSE]}]
    /\ leave(c)
    /\ keepTheRest

(* ServiceCenter.create under the unique index on code; with an owner asked *)
(* for, his account comes after it.                                         *)
insertCentre(c) ==
    /\ at(c, {"centre"}, "inserting")
    /\ IF centres(req(c).code) # {} THEN leave(c) /\ db' = db
       ELSE /\ db' = [db EXCEPT !.centres = @ \cup {[code |-> req(c).code, city |-> req(c).city,
                                                     active |-> TRUE, owner |-> req(c).mobile]}]
            /\ IF req(c).mobile = Absent THEN leave(c) ELSE move(c, "staffing")
    /\ keepTheRest

(* The owner's mobile is looked up only now: a taken one refuses the        *)
(* request, and the centre stays.                                           *)
findOwner(c) ==
    /\ at(c, {"centre"}, "staffing")
    /\ IF accounts(req(c).mobile) # {} THEN leave(c) ELSE move(c, "hiring")
    /\ db' = db /\ keepTheRest

(* User.create: the centre must be active (refActive), the mobile unique.   *)
(* The owner of a centre deactivated a moment before is refused like a      *)
(* taken mobile, and the centre stays.                                      *)
insertAccount(c) ==
    LET ok == req(c).code \in Active /\ accounts(req(c).mobile) = {} IN
    /\ at(c, {"centre", "account"}, "hiring")
    /\ db' = IF ok THEN [db EXCEPT !.accounts = @ \cup {[mobile |-> req(c).mobile,
                                                        centre |-> req(c).code]}]
             ELSE db
    /\ cut' = IF req(c).job = "centre" /\ req(c).code \notin Active
              THEN cut \cup {[job |-> "centre", code |-> req(c).code]} ELSE cut
    /\ leave(c)
    /\ UNCHANGED <<year, lost, reported>>

(* updateServiceCenter, of the active flag: the centre is read; saved, if    *)
(* that changes anything; and after a deactivation the open complaints it   *)
(* still holds are looked up for the answer.                                *)
setActive(c, code, job) ==
    arrive(c, [job |-> job, mobile |-> Absent, new |-> FALSE, city |-> Absent, code |-> code])
wanted(c) == req(c).job = "activate"
findCentre(c) ==
    /\ at(c, {"deactivate", "activate"}, "begin")
    /\ IF \E z \in centres(req(c).code) : z.active # wanted(c) THEN move(c, "saving") ELSE leave(c)
    /\ db' = db /\ keepTheRest
saved(c) == {IF z.code = req(c).code THEN [z EXCEPT !.active = wanted(c)] ELSE z : z \in db.centres}
stranded(c) == {k.number : k \in {x \in db.complaints : x.centre = req(c).code}}
saveCentre(c, step, next) ==
    /\ at(c, {"deactivate", "activate"}, step)
    /\ db' = [db EXCEPT !.centres = saved(c)]
    /\ IF wanted(c) \/ next = "done" THEN leave(c) ELSE move(c, next)
    /\ keepTheRest
findStranded(c, step, next) ==
    /\ at(c, {"deactivate"}, step)
    /\ reported' = reported \cup stranded(c)
    /\ IF next = "done" THEN leave(c) ELSE move(c, next)
    /\ UNCHANGED <<year, db, lost, cut>>
(* The mutant looks them up before it saves.                                *)
reportFirst(c) == findStranded(c, "saving", "reporting") \/ saveCentre(c, "reporting", "done")
deactivation(c) == saveCentre(c, "saving", "reporting") \/ findStranded(c, "reporting", "done")

----------------------------------------------------------------------------
NewYear == /\ year < MaxYear
           /\ year' = year + 1
           /\ UNCHANGED <<db, call, lost, reported, cut>>

Unfinished == {c \in Calls : \/ at(c, {"centre"}, "staffing") \/ at(c, {"centre"}, "hiring")
                              \/ at(c, {"deactivate"}, "reporting")}

(* The process ends; the database aborts what was open.                     *)
Restart == /\ \E c \in Calls : call[c] # Waiting
           /\ call' = [c \in Calls |-> Waiting]
           /\ cut' = cut \cup {[job |-> req(c).job, code |-> req(c).code] : c \in Unfinished}
           /\ UNCHANGED <<year, db, lost, reported>>

requestArrives ==
    \E c \in Calls :
       \/ \E m \in Mobiles, new \in BOOLEAN, city \in Cities, code \in Codes \cup {Absent} :
             createComplaint(c, m, new, city, code)
       \/ \E m \in Mobiles, city \in Cities : createCustomer(c, m, city)
       \/ \E code \in Codes, city \in Cities, owner \in Mobiles \cup {Absent} :
             createServiceCenter(c, code, city, owner)
       \/ \E m \in Mobiles, code \in Codes : createUser(c, m, code)
       \/ \E code \in Codes, job \in {"deactivate", "activate"} : setActive(c, code, job)

requestProceeds ==
    \E c \in Calls : \/ resolveCustomer(c) \/ enrolCustomer(c) \/ nextComplaintNumber(c)
                     \/ refuseCentre(c) \/ fileComplaint(c) \/ abort(c)
                     \/ checkTaken(c) \/ findCity(c) \/ createCity(c) \/ rereadCity(c)
                     \/ insertCustomer(c) \/ insertCentre(c) \/ findOwner(c) \/ insertAccount(c)
                     \/ findCentre(c) \/ deactivation(c)

----------------------------------------------------------------------------
IntakeTypeOK == /\ year \in Years
                /\ db.counter \in [Years -> Nat]
                /\ db.complaints \subseteq Complaint /\ db.customers \subseteq Customer
                /\ db.cities \subseteq Cities
                /\ db.centres \subseteq Centre /\ db.accounts \subseteq Account
                /\ \A c \in Calls : call[c] \in Call
                /\ lost \subseteq Cities /\ reported \subseteq Number
                /\ cut \subseteq [job : {"centre", "deactivate"}, code : Codes]

(* The numbers of a year are exactly 1 to its counter, one complaint each:  *)
(* no duplicate and no permanent gap, however creations overlap, fail or    *)
(* cross the turn of the year (complaintNumber.ts: concurrent creations get *)
(* distinct numbers, an abort returns its number).                          *)
NumbersAreConsecutive ==
    \A y \in Years :
       LET of == {k \in db.complaints : k.number.year = y}
       IN  /\ {k.number.seq : k \in of} = 1..db.counter[y]
           /\ Cardinality(of) = db.counter[y]

(* A request that fails leaves nothing half-made behind. A complaint that is *)
(* not raised leaves no customer, and one that is has its customer and its  *)
(* city on file, one record for the mobile. A centre asked for with an      *)
(* owner has one, unless his mobile belongs to another account, or the      *)
(* server stopped or the centre was deactivated in between. And none fails  *)
(* because somebody typed the same new city first: "losing that race is not *)
(* an error here".                                                          *)
NothingHalfMade ==
    /\ lost = {}
    /\ \A k \in db.complaints : k.city \in db.cities /\ Cardinality(customers(k.mobile)) = 1
    /\ \A k \in db.customers : k.raised => \E x \in db.complaints : x.mobile = k.mobile
    /\ \A z \in db.centres :
          \/ z.owner = Absent \/ [job |-> "centre", code |-> z.code] \in cut
          \/ accounts(z.owner) # {}
          \/ \E c \in Unfinished : req(c).job = "centre" /\ req(c).code = z.code

(* "Open complaints must be reassigned by Admin" (masters.service.ts): every *)
(* open complaint at a deactivated centre was named in the answer to the    *)
(* deactivation, or will be, or the server stopped before it could be; but  *)
(* for one whose transaction had read the centre before it was deactivated  *)
(* and committed after, which nothing prevents and no answer names.         *)
StrandedIsReported ==
    \A k \in db.complaints :
        \/ k.centre \in Active \cup {Absent}
        \/ k.number \in reported \/ k.blind
        \/ [job |-> "deactivate", code |-> k.centre] \in cut
        \/ \E c \in Unfinished : req(c).job = "deactivate" /\ req(c).code = k.centre
=============================================================================
