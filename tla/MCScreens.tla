----------------------------- MODULE MCScreens -----------------------------
(* The workflow driven from its screens, with one phone's drafts. The       *)
(* drafts are followed in the behaviours that stay at the first centre,     *)
(* before any account is deactivated and any complaint reopened; where only *)
(* one of these could come next, such a behaviour stops.                    *)
EXTENDS VisitDrafts, IntegrityCheck, Dashboards, MCComplaintWorkflow

mcPhoneAtCentreA ==
    \/ /\ complaint.serviceCenterId = centreA /\ complaint.reopenCount = 0
       /\ active = mcCentres \cup mcTechnicians
    \/ drafts = [k \in Keys |-> None] /\ sending = None /\ filed = [v \in VisitIds |-> None]

mcNext == DraftsNext /\ mcPhoneAtCentreA'
mcSpec == DraftsInit /\ [][mcNext]_draftVars
=============================================================================
