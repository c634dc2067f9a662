-------------------------- MODULE ServiceLifecycle --------------------------
(* What the service desk promises about one complaint, whatever goes on     *)
(* behind it: who holds it, when it may close, and what a closure leaves    *)
(* behind. Technicians, visits, codes, attempts, clocks and part requests   *)
(* do not appear; ComplaintService shows that the workflow, with all of     *)
(* them, takes no step that is not one of these.                            *)
EXTENDS Sequences

CONSTANTS Centres,   \* who may hold a complaint
          Roles,     \* who may close one
          Desk,      \* the role whose word alone closes a complaint
          None       \* an absent reference

VARIABLES stage,     \* waiting for somebody to come, attended, closed or cancelled
          holder,    \* the centre answerable for it
          confirmed, \* the customer has given the word for the work done
          standing,  \* the closure that stands, if one does
          closures   \* the closures that were reopened, oldest first
vars == <<stage, holder, confirmed, standing, closures>>

Closure == [closedBy : Roles, rating : Centres \cup {None}]

TypeOK == /\ stage \in {"waiting", "attended", "closed", "cancelled"}
          /\ holder \in Centres \cup {None}
          /\ confirmed \in BOOLEAN
          /\ standing \in Closure \cup {None}
          /\ closures \in Seq(Closure)

Init == /\ stage = "waiting"
        /\ holder \in Centres \cup {None}
        /\ confirmed = FALSE
        /\ standing = None
        /\ closures = <<>>

-----------------------------------------------------------------------------
Open == stage \in {"waiting", "attended"}

(* The complaint goes to another centre, which has not been there yet.      *)
Send(c) == /\ Open
           /\ c # holder
           /\ holder' = c
           /\ stage' = "waiting"
           /\ UNCHANGED <<confirmed, standing, closures>>

(* Somebody of the centre that holds it goes to work.                       *)
Attend == /\ stage = "waiting"
          /\ holder # None
          /\ stage' = "attended"
          /\ UNCHANGED <<holder, confirmed, standing, closures>>

(* Another visit is booked before the work is done.                         *)
Await == /\ stage = "attended"
         /\ stage' = "waiting"
         /\ UNCHANGED <<holder, confirmed, standing, closures>>

(* The customer gives the word, and only about work somebody came for.      *)
Confirm == /\ stage = "attended"
           /\ confirmed' = TRUE
           /\ UNCHANGED <<stage, holder, standing, closures>>

(* The desk sends the work back: the word given no longer counts.           *)
Withdraw == /\ stage = "attended"
            /\ confirmed' = FALSE
            /\ UNCHANGED <<stage, holder, standing, closures>>

(* Only the desk closes without the customer's word, and nobody closes what *)
(* nobody attended. The word may come with the closure.                     *)
Close(role) == /\ stage = "attended"
               /\ stage' = "closed"
               /\ confirmed' \in {confirmed, TRUE}
               /\ confirmed' \/ role = Desk
               /\ standing' = [closedBy |-> role, rating |-> None]
               /\ UNCHANGED <<holder, closures>>

(* The customer rates the centre that holds the closed complaint.           *)
Rate == /\ stage = "closed"
        /\ holder # None
        /\ standing' = [standing EXCEPT !.rating = holder]
        /\ UNCHANGED <<stage, holder, confirmed, closures>>

(* A complaint comes back: its closure is filed, nothing of it carries on.  *)
Reopen == /\ stage \in {"closed", "cancelled"}
          /\ stage' = "waiting"
          /\ confirmed' = FALSE
          /\ standing' = None
          /\ closures' = IF stage = "closed" THEN Append(closures, standing) ELSE closures
          /\ UNCHANGED holder

Cancel == /\ Open
          /\ stage' = "cancelled"
          /\ UNCHANGED <<holder, confirmed, standing, closures>>

Next == \/ \E c \in Centres : Send(c)
        \/ Attend \/ Await \/ Confirm \/ Withdraw
        \/ \E role \in Roles : Close(role)
        \/ Rate \/ Reopen \/ Cancel

Spec == Init /\ [][Next]_vars
=============================================================================
