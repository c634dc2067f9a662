------------------------ MODULE MCComplaintWorkflow ------------------------
(* Small instances of the workflow for TLC: two centres, two                *)
(* technicians at the first and one at the second.                          *)
EXTENDS ComplaintService, TLC

CONSTANTS centreA, centreB, techA1, techA2, techB1

mcCentres == {centreA, centreB}
mcTechnicians == {techA1, techA2, techB1}
mcCentreOf == (techA1 :> centreA) @@ (techA2 :> centreA) @@ (techB1 :> centreB)

(* One technician at each centre.                                           *)
mcOneEach == {techA1, techB1}
mcOneEachCentreOf == (techA1 :> centreA) @@ (techB1 :> centreB)

mcSymmetry == Permutations({techA1, techA2})

(* The two centres are interchangeable, each with its technician.           *)
mcSwapped == {p \in Permutations(mcCentres \cup mcOneEach) :
                 \A t \in mcOneEach : /\ p[t] \in mcOneEach
                                      /\ mcOneEachCentreOf[p[t]] = p[mcOneEachCentreOf[t]]}

ASSUME ReasonAgrees
=============================================================================
