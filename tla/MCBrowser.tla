----------------------------- MODULE MCBrowser -----------------------------
(* Small instances of the web client for TLC: the session two people share  *)
(* a browser for, in two tabs; the app's files on a phone over two releases;*)
(* the screen on which a complaint is raised. The three share no state, so  *)
(* each behaviour is one of them.                                           *)
EXTENDS Browser, OfflineShell, IntakeForm, TLC

CONSTANTS ann, bob, tab1, tab2, r1, r2,                 \* the session
          v1, v2, e1, e2, s1, s2, both, text,           \* releases, files
          asha, ravi, x1, y1                            \* the form

mcKindOf == (r1 :> "query") @@ (r2 :> "resume")

(* Each release has an entry file and a screen of its own, and they share   *)
(* one; "text" only looks like a file name.                                 *)
mcNamed == (v1 :> {e1}) @@ (v2 :> {e2})
mcInner == (v1 :> {s1, both, text}) @@ (v2 :> {s2, both, text})
mcBuilt == (v1 :> {e1, s1, both}) @@ (v2 :> {e2, s2, both})

(* Ravi's city is not in the list the page has; the one centre is in Asha's *)
(* town, and not proposed for Ravi's.                                       *)
mcHome == [pincode |-> "p1", city |-> "pune"]
mcFar == [pincode |-> "p2", city |-> "nagpur"]
mcHomeOf == (asha :> mcHome) @@ (ravi :> mcFar)
mcAddresses == {mcHome, mcFar}
mcUnlisted == {mcFar}
mcProductOf == (x1 :> "x") @@ (y1 :> "y")
mcCenter(n, pincode, city, pincodes, cities, active) ==
    [name |-> n, pincode |-> pincode, city |-> city, territory |-> city,
     servedPincodes |-> pincodes, servedCities |-> cities, isActive |-> active]
mcCenters == {mcCenter(1, "p1", "pune", {}, {"pune"}, TRUE)}

(* Every answer to every query, over up to three centres.                   *)
mcRanked == {mcCenter(n, p, c, served, cities, active) :
               n \in {0}, p \in {"p1", "p2"}, c \in {"pune", "nagpur"},
               served \in SUBSET {"p2"}, cities \in SUBSET {"pune"}, active \in BOOLEAN}
mcQueries == [pincode : {"p1", "p2", "p3", Missing}, city : {"pune", "nagpur", Missing},
              territory : {"pune", Missing}]
ASSUME mcRanksFairly ==
    \A a, b \in mcRanked, c \in {z \in mcRanked : z.isActive /\ z.servedCities = {}}, q \in mcQueries :
        RanksFairly({[a EXCEPT !.name = 1], [b EXCEPT !.name = 2], [c EXCEPT !.name = 3]}, q)

----------------------------------------------------------------------------
VARIABLE part      \* which of the three this behaviour is about
mcVars == <<vars, shellVars, formVars, part>>

mcInit == /\ part \in {"session", "shell", "form"}
          /\ Init /\ ShellInit /\ FormInit({asha, ravi}, mcCenters)
          /\ part # "shell" => live = v1
mcNext == /\ part' = part
          /\ \/ part = "session" /\ Next /\ UNCHANGED <<shellVars, formVars>>
             \/ part = "shell" /\ ShellNext /\ UNCHANGED <<vars, formVars>>
             \/ part = "form" /\ FormNext /\ UNCHANGED <<vars, shellVars>>
mcSpec == mcInit /\ [][mcNext]_mcVars /\ Fairness
=============================================================================
