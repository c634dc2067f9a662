--------------------------- MODULE Recommendation ---------------------------
(* Which centres are proposed for an address, and in which order            *)
(* (recommendation.service.ts). It ranks and explains; Admin chooses.       *)
EXTENDS Integers, Sequences, SequencesExt

SCORES == [SERVES_PINCODE |-> 100, SERVES_CITY |-> 70, LOCATED_IN_CITY |-> 60,
           SAME_TERRITORY |-> 30, NO_MATCH |-> 0]

(* A query's field is Missing when it was not sent, and matches nothing.    *)
Missing == "missing"

classify(center, query) ==
    IF query.pincode \in (center.servedPincodes \cup {center.pincode}) \ {Missing} THEN "SERVES_PINCODE"
    ELSE IF query.city \in center.servedCities \ {Missing} THEN "SERVES_CITY"
    ELSE IF query.city \in {center.city} \ {Missing} THEN "LOCATED_IN_CITY"
    ELSE IF query.territory \in {center.territory} \ {Missing} THEN "SAME_TERRITORY"
    ELSE "NO_MATCH"

(* What is in S, none before what comes before it; ties in any order.       *)
sorted(S, before) ==
    CHOOSE s \in SetToSeqs(S) : \A i, j \in DOMAIN s : i < j => <<s[j], s[i]>> \notin before

recommendServiceCenters(centers, query) ==
    LET classified == {[center |-> z, reason |-> classify(z, query)] :
                         z \in {x \in centers : x.isActive}}
        byName == {p \in classified \X classified : p[1].center.name < p[2].center.name}
        better == {p \in classified \X classified :
                      \/ SCORES[p[1].reason] > SCORES[p[2].reason]
                      \/ SCORES[p[1].reason] = SCORES[p[2].reason] /\ p \in byName}
        matching == {e \in classified : e.reason # "NO_MATCH"}
    IN  [recommended |-> sorted(matching, better),
         others |-> sorted(classified \ matching, byName),
         fellBackToAll |-> matching = {}]

(* What the page lists, top to bottom.                                      *)
listed(answer) == answer.recommended \o answer.others

(* What the service promises of its answer, said without its scores: every  *)
(* active centre is listed once and no other; nothing that covers a place   *)
(* more closely comes after what covers it less, a centre at the address    *)
(* itself being as close as any; and a centre is proposed only for a        *)
(* reason.                                                                  *)
Closer(a, b, query) ==
    LET here(z) == query.pincode # Missing /\ query.pincode \in z.servedPincodes \cup {z.pincode}
        inTown(z) == query.city # Missing /\ query.city \in z.servedCities \cup {z.city}
    IN  ~here(b) /\ (here(a) \/ (inTown(a) /\ ~inTown(b)))
RanksFairly(centers, query) ==
    LET answer == recommendServiceCenters(centers, query)
        list == listed(answer)
    IN  /\ Len(list) = Cardinality({z \in centers : z.isActive})
        /\ {list[i].center : i \in DOMAIN list} = {z \in centers : z.isActive}
        /\ \A i, j \in DOMAIN list : i < j => ~Closer(list[j].center, list[i].center, query)
        /\ \A i \in DOMAIN list : list[i].center.pincode = query.pincode
              => i <= Len(answer.recommended)
=============================================================================
