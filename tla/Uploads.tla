------------------------------ MODULE Uploads ------------------------------
(* Photos of a visit (attachments.service.ts): the bytes on disk, the rows  *)
(* that point at them and the timeline entries that speak of them are three *)
(* writes of one request, in no transaction. A phone with a bad signal asks *)
(* again while the first request still runs.                                *)
EXTENDS Integers, Sequences, FiniteSets

CONSTANTS Uploaders,   \* requests that carry a photo, served at one time
          Photos,      \* contents; the checksum tells them apart
          Keys,        \* storage keys save may draw, each at most once
          MaxTrips     \* bound: visits of the complaint

ASSUME TripsAssumption == MaxTrips \in Nat

VARIABLES trip,        \* latest visit started or completed; 0: none yet
          rows,        \* Attachment documents, oldest first
          stored,      \* keys whose bytes are on disk
          drawn,       \* keys handed out so far
          noted,       \* keys a timeline entry ATTACHMENT_ADDED speaks of
          upload,      \* requests under way
          answered,    \* history: photos whose upload was answered as done
          abandoned    \* history: keys a restart or a failed removal left behind
uploadVars == <<trip, rows, stored, drawn, noted, upload, answered, abandoned>>

Trips == 0..MaxTrips

Row == [photo : Photos, visit : Trips, key : Keys]

Resting == [step |-> "idle"]
Upload == {Resting}
          \cup [step : {"looking", "saving"}, photo : Photos, visit : Trips]
          \cup [step : {"filing", "noting", "removing"}, photo : Photos, visit : Trips,
                key : Keys]

UploadsInit == /\ trip = 0
               /\ rows = <<>>
               /\ stored = {}
               /\ drawn = {}
               /\ noted = {}
               /\ upload = [c \in Uploaders |-> Resting]
               /\ answered = {}
               /\ abandoned = {}

----------------------------------------------------------------------------
RowsSet == {rows[i] : i \in DOMAIN rows}

(* Attachment.findOne by visit and checksum.                                *)
existing(photo, visit) == {r \in RowsSet : r.photo = photo /\ r.visit = visit}

(* randomUUID: a key nobody has had. The mutant names the file after its    *)
(* checksum.                                                                *)
keyOfContents(photo) == {CHOOSE k \in Keys : TRUE}
freshKeys(photo) == Keys \ drawn

(* A visit starts: the workflow's startVisit.                               *)
NextTrip == /\ trip < MaxTrips
            /\ trip' = trip + 1
            /\ UNCHANGED <<rows, stored, drawn, noted, upload, answered, abandoned>>

(* The checks pass (a complaint in scope, held by a centre; the caller's    *)
(* own job) and the latest visit started or completed is read.              *)
uploadAttachment(c, photo) ==
    /\ upload[c] = Resting
    /\ upload' = [upload EXCEPT ![c] = [step |-> "looking", photo |-> photo, visit |-> trip]]
    /\ UNCHANGED <<trip, rows, stored, drawn, noted, answered, abandoned>>

(* The same photo on the same visit is answered with the row it has.        *)
findExisting(c) ==
    /\ upload[c].step = "looking"
    /\ LET u == upload[c] IN
       IF existing(u.photo, u.visit) # {}
       THEN /\ answered' = answered \cup {[photo |-> u.photo, visit |-> u.visit]}
            /\ upload' = [upload EXCEPT ![c] = Resting]
       ELSE /\ upload' = [upload EXCEPT ![c].step = "saving"]
            /\ UNCHANGED answered
    /\ UNCHANGED <<trip, rows, stored, drawn, noted, abandoned>>

(* storage().save: the file is written under a new key, or the request      *)
(* fails with nothing written.                                              *)
saveBytes(c) ==
    /\ upload[c].step = "saving"
    /\ \/ \E k \in freshKeys(upload[c].photo) :
            /\ stored' = stored \cup {k}
            /\ drawn' = drawn \cup {k}
            /\ upload' = [upload EXCEPT ![c] =
                            [step |-> "filing", photo |-> upload[c].photo,
                             visit |-> upload[c].visit, key |-> k]]
       \/ /\ upload' = [upload EXCEPT ![c] = Resting]
          /\ UNCHANGED <<stored, drawn>>
    /\ UNCHANGED <<trip, rows, noted, answered, abandoned>>

fileRow(u) == Append(rows, [photo |-> u.photo, visit |-> u.visit, key |-> u.key])

(* Attachment.create, which the database may refuse. The mutant answers the *)
(* error without cleaning up.                                               *)
createRow(c) ==
    /\ upload[c].step = "filing"
    /\ \/ /\ rows' = fileRow(upload[c])
          /\ upload' = [upload EXCEPT ![c].step = "noting"]
       \/ /\ upload' = [upload EXCEPT ![c].step = "removing"]
          /\ UNCHANGED rows
    /\ UNCHANGED <<trip, stored, drawn, noted, answered, abandoned>>

(* recordActivity, which throws when its entry cannot be written: the row   *)
(* stays.                                                                   *)
recordActivity(c) ==
    /\ upload[c].step = "noting"
    /\ \/ /\ noted' = noted \cup {upload[c].key}
          /\ answered' = answered \cup {[photo |-> upload[c].photo, visit |-> upload[c].visit]}
          /\ upload' = [upload EXCEPT ![c] = Resting]
       \/ /\ upload' = [upload EXCEPT ![c].step = "removing"]
          /\ UNCHANGED <<noted, answered>>
    /\ UNCHANGED <<trip, rows, stored, drawn, abandoned>>

(* The catch clause: the bytes go; a removal that fails is swallowed. The   *)
(* caller is told of the error.                                             *)
removeBytes(c) ==
    /\ upload[c].step = "removing"
    /\ \/ /\ stored' = stored \ {upload[c].key}
          /\ UNCHANGED abandoned
       \/ /\ abandoned' = abandoned \cup {upload[c].key}
          /\ UNCHANGED stored
    /\ upload' = [upload EXCEPT ![c] = Resting]
    /\ UNCHANGED <<trip, rows, drawn, noted, answered>>

holding == {c \in Uploaders : upload[c].step \in {"filing", "noting", "removing"}}

(* The process ends: nothing takes up what it was doing.                    *)
restart == /\ \E c \in Uploaders : upload[c] # Resting
           /\ abandoned' = abandoned \cup {upload[c].key : c \in holding}
           /\ upload' = [c \in Uploaders |-> Resting]
           /\ UNCHANGED <<trip, rows, stored, drawn, noted, answered>>

uploadArrives == \E c \in Uploaders, p \in Photos : uploadAttachment(c, p)
uploadProceeds == \E c \in Uploaders : \/ findExisting(c) \/ saveBytes(c) \/ createRow(c)
                                       \/ recordActivity(c) \/ removeBytes(c)

----------------------------------------------------------------------------
UploadsTypeOK ==
    /\ trip \in Trips
    /\ rows \in Seq(Row)
    /\ stored \subseteq drawn /\ noted \subseteq drawn /\ abandoned \subseteq drawn
    /\ drawn \subseteq Keys
    /\ upload \in [Uploaders -> Upload]
    /\ answered \subseteq [photo : Photos, visit : Trips]

(* No orphans in either direction: a photo the timeline says was added can  *)
(* be opened, its row and its bytes both there; and a file without a row    *)
(* belongs to an upload under way, or was left by a restart or by a removal *)
(* that itself failed.                                                      *)
FilesHaveTheirRows ==
    /\ \A k \in noted : k \in stored /\ \E r \in RowsSet : r.key = k
    /\ \A k \in stored \ abandoned :
          \/ \E r \in RowsSet : r.key = k
          \/ \E c \in holding : upload[c].key = k

(* A photo whose upload was answered as done can be opened. The code does   *)
(* not keep this: a failed timeline entry removes the bytes and leaves the  *)
(* row, and the next try is answered "already uploaded".                    *)
AnsweredIsOnFile ==
    \A a \in answered : \E r \in existing(a.photo, a.visit) : r.key \in stored
=============================================================================
