---------------------------- MODULE VisitDrafts ----------------------------
(* The visit flow on a technician's phone (tech/VisitFlowPage.tsx and       *)
(* tech/visit/useVisitDraft.ts) beside the workflow: what he types is kept  *)
(* on the phone until the server has it, across holds, reassignments, bad   *)
(* signal, and other technicians signing in on the same phone.              *)
EXTENDS Screens

VARIABLES drafts,   \* the phone's storage: what is kept under each key
          sending,  \* the submission under way, if one is
          filed     \* by visit, the words the server took from this phone
phoneVars == <<drafts, sending, filed>>
draftVars == <<vars, phoneVars>>

(* What somebody wrote, and of which visit.                                 *)
Words == [writer : Technicians, visit : VisitIds]

Keys == Technicians \X VisitIds

Submission == [technician : Technicians, visit : VisitIds, words : Words,
               reply : {"pending", "accepted", "failed"}]

DraftsInit == /\ Init
              /\ drafts = [k \in Keys |-> None]
              /\ sending = None
              /\ filed = [v \in VisitIds |-> None]

(* Mutant: one draft per technician and complaint, as it was at first.      *)
keyPerJob(t, v) == <<t, 1>>

keyFor(t, v) == <<t, v>>

(* The visit the page is about: the newest of his own under way.            *)
newestVisit(t) == {v \in OwnVisits(t, {"IN_PROGRESS"}) :
                      \A w \in OwnVisits(t, {"IN_PROGRESS"}) : w <= v}

ShowsForm(t, v) == /\ MayAct(Tech(t))
                   /\ phonePage(t).submit
                   /\ v \in newestVisit(t)

(* Text is added to what the form already shows.                            *)
update(t, v) ==
    /\ ShowsForm(t, v)
    /\ drafts[keyFor(t, v)] = None
    /\ drafts' = [drafts EXCEPT ![keyFor(t, v)] = [writer |-> t, visit |-> v]]
    /\ UNCHANGED <<vars, sending, filed>>

submit(t, v) ==
    /\ ShowsForm(t, v)
    /\ drafts[keyFor(t, v)] # None
    /\ sending = None
    /\ sending' = [technician |-> t, visit |-> v, words |-> drafts[keyFor(t, v)],
                   reply |-> "pending"]
    /\ UNCHANGED <<vars, drafts, filed>>

(* The request arrives: the server files the words with the visit it finds  *)
(* under way now. Its answer may be lost on the way back.                   *)
arrive ==
    /\ sending # None /\ sending.reply = "pending"
    /\ SubmitStep(sending.technician)
    /\ filed' = [v \in VisitIds |-> IF visits'[v] # visits[v] THEN sending.words ELSE filed[v]]
    /\ \E reply \in {"accepted", "failed"} : sending' = [sending EXCEPT !.reply = reply]
    /\ UNCHANGED drafts

(* It is lost, or refused.                                                  *)
fail ==
    /\ sending # None /\ sending.reply = "pending"
    /\ sending' = [sending EXCEPT !.reply = "failed"]
    /\ UNCHANGED <<vars, drafts, filed>>

discard(v) == drafts' = [drafts EXCEPT ![keyFor(sending.technician, v)] = None]

onSuccess ==
    /\ sending # None /\ sending.reply = "accepted"
    /\ discard(sending.visit)
    /\ sending' = None
    /\ UNCHANGED <<vars, filed>>

(* Mutant: a failed submission is taken for a lost reply.                   *)
confirmedAlways == TRUE

(* The complaint, asked again, is no longer being worked on.                *)
confirmed == complaint.status # "IN_PROGRESS"

(* Without an answer the page asks the server where the complaint stands;   *)
(* that may fail too, and does once the complaint is not his.               *)
onError ==
    /\ sending # None /\ sending.reply = "failed"
    /\ \/ UNCHANGED drafts
       \/ MayAct(Tech(sending.technician)) /\ confirmed /\ discard(sending.visit)
    /\ sending' = None
    /\ UNCHANGED <<vars, filed>>

(* Opening the job removes what anybody left on this phone about visits of  *)
(* it that are over.                                                        *)
forgetFinishedDrafts(t) ==
    /\ MayAct(Tech(t)) /\ myJobs(t)
    /\ drafts' = [k \in Keys |-> IF k[2] \in OwnVisits(t, {"COMPLETED", "CANCELLED"})
                                 THEN None ELSE drafts[k]]
    /\ drafts' # drafts
    /\ UNCHANGED <<vars, sending, filed>>

(* Everything else, from other screens and other phones. Nobody sets out    *)
(* while a submission is still on its way.                                  *)
SetsOut == \E v \in VisitsIn({"SCHEDULED"}) : visits'[v].status \in {"IN_PROGRESS", "COMPLETED"}

elsewhere ==
    /\ ScreenNext
    /\ sending # None => ~SetsOut
    /\ UNCHANGED phoneVars

DraftsNext ==
    \/ elsewhere
    \/ \E t \in Technicians, v \in VisitIds : update(t, v) \/ submit(t, v)
    \/ arrive \/ fail \/ onSuccess \/ onError
    \/ \E t \in Technicians : forgetFinishedDrafts(t)

DraftsSpec == DraftsInit /\ [][DraftsNext]_draftVars

-----------------------------------------------------------------------------
(* The server never files a visit's words with another visit, nor another's *)
(* under a technician's name: on a shared phone, after a revisit is booked, *)
(* whatever was left half written (useVisitDraft.ts 16-26).                 *)
WordsAreTheirOwn ==
    \A v \in VisitIds : filed[v] # None =>
        filed[v] = [writer |-> visits[v].technicianId, visit |-> v]

(* "The draft is cleared only once the server has the resolution"           *)
(* (useVisitDraft.ts 11-12), or its visit can no longer be submitted - save *)
(* when a submission fails just as the complaint leaves IN_PROGRESS for     *)
(* another reason, a hold say: the page takes that for success (onError)    *)
(* and drops the words of a visit that will go on.                          *)
DraftsOutliveTrouble ==
    [][\A k \in Keys : drafts[k] # None /\ drafts'[k] = None =>
          \/ visits[k[2]].status \in {"COMPLETED", "CANCELLED"}
          \/ /\ sending # None /\ sending.reply = "failed" /\ sending.visit = k[2]
             /\ complaint.status # "IN_PROGRESS"]_draftVars
=============================================================================
