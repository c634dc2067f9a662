---------------------------- MODULE PartsLedger ----------------------------
(* What the parts desk promises each centre, as if everything were done one *)
(* thing at a time: requests are raised and answered once, usage lines are  *)
(* entered and deducted once, and a shelf holds what was counted less what  *)
(* was deducted. Complaints, transactions and what they read do not appear; *)
(* PartsStock shows that its overlapping transactions leave no other trace. *)
EXTENDS Integers

CONSTANTS Centres, RequestIds, UsageIds, None,
          MaxQuantity,   \* parts a line may be of
          MaxStock       \* parts a shelf may hold

VARIABLES asked,    \* the requests
          lines,    \* the usage lines
          barred,   \* lines that may not be deducted as things stand
          shelf     \* parts in stock at each centre
vars == <<asked, lines, barred, shelf>>

(* An approved request still waits for its part.                            *)
Answers == {"ISSUED", "UNAVAILABLE", "REJECTED", "CANCELLED"}

TypeOK ==
    /\ asked \in [RequestIds -> [status : {"UNUSED", "WAITING"} \cup Answers,
                                 serviceCenterId : Centres \cup {None}]]
    /\ lines \in [UsageIds -> [status : {"UNUSED", "RECORDED", "FINALIZED"},
                               serviceCenterId : Centres \cup {None},
                               quantity : 0..MaxQuantity]]
    /\ barred \subseteq UsageIds
    /\ shelf \in [Centres -> 0..MaxStock]

Init ==
    /\ asked = [r \in RequestIds |-> [status |-> "UNUSED", serviceCenterId |-> None]]
    /\ lines = [u \in UsageIds |-> [status |-> "UNUSED", serviceCenterId |-> None,
                                    quantity |-> 0]]
    /\ barred = {}
    /\ shelf = [c \in Centres |-> 0]

-----------------------------------------------------------------------------
(* A part is asked for at a centre.                                         *)
Ask(r, c) ==
    /\ asked[r].status = "UNUSED"
    /\ asked' = [asked EXCEPT ![r] = [status |-> "WAITING", serviceCenterId |-> c]]
    /\ UNCHANGED <<lines, barred, shelf>>

(* A centre answers a request of its own.                                   *)
Answer(c, r, answer) ==
    /\ asked[r] = [status |-> "WAITING", serviceCenterId |-> c]
    /\ asked' = [asked EXCEPT ![r].status = answer]
    /\ UNCHANGED <<lines, barred, shelf>>

(* The complaint goes elsewhere: requests that wait are called off, all at  *)
(* one time.                                                                *)
Withdraw(withdrawn) ==
    /\ \A r \in withdrawn : asked[r].status = "WAITING"
    /\ asked' = [r \in RequestIds |-> IF r \in withdrawn
                                      THEN [asked[r] EXCEPT !.status = "CANCELLED"]
                                      ELSE asked[r]]
    /\ UNCHANGED <<lines, barred, shelf>>

(* A line is entered; only then can it be found to be too late.             *)
Enter(u, c, quantity) ==
    /\ lines[u].status = "UNUSED"
    /\ lines' = [lines EXCEPT ![u] = [status |-> "RECORDED", quantity |-> quantity,
                                      serviceCenterId |-> c]]
    /\ barred' \in {barred, barred \cup {u}}
    /\ UNCHANGED <<asked, shelf>>

(* The parts of a line leave the shelf of its centre, which has them.       *)
Deduct(u) ==
    LET c == lines[u].serviceCenterId
    IN  /\ lines[u].status = "RECORDED"
        /\ u \notin barred
        /\ shelf[c] >= lines[u].quantity
        /\ shelf' = [shelf EXCEPT ![c] = @ - lines[u].quantity]
        /\ lines' = [lines EXCEPT ![u].status = "FINALIZED"]
        /\ UNCHANGED <<asked, barred>>

(* The complaint is taken up again: its late lines count with the others.   *)
Readmit ==
    /\ barred' = {}
    /\ UNCHANGED <<asked, lines, shelf>>

(* A delivery, a correction or a count of one shelf.                        *)
Count(c, quantity) ==
    /\ shelf' = [shelf EXCEPT ![c] = quantity]
    /\ UNCHANGED <<asked, lines, barred>>

Next ==
    \/ Readmit
    \/ \E r \in RequestIds, c \in Centres :
          Ask(r, c) \/ \E answer \in Answers : Answer(c, r, answer)
    \/ \E withdrawn \in SUBSET RequestIds : Withdraw(withdrawn)
    \/ \E u \in UsageIds :
          Deduct(u) \/ \E c \in Centres, quantity \in 1..MaxQuantity : Enter(u, c, quantity)
    \/ \E c \in Centres, quantity \in 0..MaxStock : Count(c, quantity)

Spec == Init /\ [][Next]_vars
=============================================================================
