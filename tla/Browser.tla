------------------------------ MODULE Browser ------------------------------
(* One browser of the web client and the session it holds: the tabs share   *)
(* the stored session, each keeps its own cache, its own requests under way *)
(* and at most one renewal of the session (client/src/lib/api.ts, auth.tsx).*)
(* The server is what it answers: SignIn has its side of a session.         *)
EXTENDS Naturals, FiniteSets

CONSTANTS Persons,    \* people who use this browser
          Tabs,       \* its tabs with the client open
          Requests,   \* requests that will be made, each once
          KindOf,     \* which of the client's three functions makes it
          None,       \* an absent value
          MaxPairs    \* bound: token pairs the server issues

(* A query's answer is cached, a command's is not - but for one: the job's  *)
(* page puts the answer to "resume work" into the cache itself. A file is   *)
(* fetched like a query, and never signs out.                               *)
Kinds == {"query", "command", "resume", "file"}

ASSUME KindOfAssumption == KindOf \in [Requests -> Kinds]
ASSUME MaxPairsAssumption == MaxPairs \in Nat

VARIABLES issued,      \* token pairs issued, numbered in order
          expired,     \* access tokens up to this number have expired
          over,        \* sessions a sign-out has ended on the server
          revoked,     \* sessions whose account or password no longer holds
          store,       \* localStorage: the session, shared by the tabs
          showing,     \* by tab: whose screens it shows
          cache,       \* by tab: what it has cached
          event,       \* by tab: a storage event it has yet to handle
          refreshing,  \* by tab: the renewal in flight
          request,     \* by request: how far it is
          gone         \* history: sessions signed out on this browser
server == <<issued, expired, over, revoked>>
screen == <<showing, cache, event>>
vars == <<issued, expired, over, revoked, store, showing, cache, event, refreshing,
          request, gone>>

Pairs == 1..MaxPairs

(* The stored session: its sid is the number of its first pair.             *)
Session == [user : Persons, sid : Pairs, pair : Pairs]

ASSUME NoneAssumption == None \notin Persons \cup Session

Renewal == [current : Session, answer : {"asked", "renewed", "rejected"}]

Request == [stage : {"unmade", "sent", "waiting", "resent", "refused", "settled"},
            tab : Tabs \cup {None},
            session : Session \cup {None},     \* the token it carries
            wanted : BOOLEAN]                  \* its answer will be cached

(* Cached data: whom it was fetched for, and by which kind of request.      *)
Entry == [of : Persons, by : Kinds]

Unmade == [stage |-> "unmade", tab |-> None, session |-> None, wanted |-> FALSE]

Settled == [Unmade EXCEPT !.stage = "settled"]

UserOf(session) == IF session = None THEN None ELSE session.user

Init == /\ issued = 0 /\ expired = 0 /\ over = {} /\ revoked = {}
        /\ store = None
        /\ showing = [b \in Tabs |-> None]
        /\ cache = [b \in Tabs |-> {}]
        /\ event = [b \in Tabs |-> FALSE]
        /\ refreshing = [b \in Tabs |-> None]
        /\ request = [r \in Requests |-> Unmade]
        /\ gone = {}

-----------------------------------------------------------------------------
(* Keeping the tabs in step.                                                *)

(* AuthProvider empties the cache whenever the person changes.              *)
clears(next, cachedFor) == next # cachedFor

(* What `tab` shows once it knows of `session`.                             *)
shown(tab, session) == [showing EXCEPT ![tab] = UserOf(session)]

kept(tab, session) ==
    IF clears(UserOf(session), showing[tab]) THEN [cache EXCEPT ![tab] = {}] ELSE cache

(* Mutant: queries under way are left to finish.                            *)
leftRunning(reqs, tab, session) == reqs

(* A command runs on without the page that gave it, and this one's answer   *)
(* is cached whenever it comes.                                             *)
runsOn(r) == KindOf[r] = "resume"

(* queryClient.clear() drops the queries under way with the cached ones; it *)
(* does not stop a command.                                                 *)
dropped(reqs, tab, session) ==
    [r \in Requests |->
        IF reqs[r].tab = tab /\ clears(UserOf(session), showing[tab]) /\ ~runsOn(r)
        THEN [reqs[r] EXCEPT !.wanted = FALSE] ELSE reqs[r]]

(* The tab that stores a session tells its own listeners at once; the other *)
(* tabs get an event if the stored value changed.                           *)
saveSession(tab, session, reqs) ==
    /\ store' = session
    /\ showing' = shown(tab, session)
    /\ cache' = kept(tab, session)
    /\ request' = dropped(reqs, tab, session)
    /\ event' = [b \in Tabs |-> event[b] \/ (b # tab /\ session # store)]

onStorage(tab) ==
    /\ event[tab]
    /\ event' = [event EXCEPT ![tab] = FALSE]
    /\ showing' = shown(tab, store)
    /\ cache' = kept(tab, store)
    /\ request' = dropped(request, tab, store)
    /\ UNCHANGED <<server, store, refreshing, gone>>

-----------------------------------------------------------------------------
(* Signing in and out.                                                      *)

(* The sign-in page of a tab gets its answer. Every tab has heard of the    *)
(* last change by the time somebody has typed a password.                   *)
login(tab, person) ==
    /\ showing[tab] = None /\ \A b \in Tabs : ~event[b]
    /\ issued < MaxPairs                                         \* bound
    /\ issued' = issued + 1
    /\ saveSession(tab, [user |-> person, sid |-> issued + 1, pair |-> issued + 1], request)
    /\ UNCHANGED <<expired, over, revoked, refreshing, gone>>

(* Signed out here at once; the server is told, and nobody waits for it.    *)
logout(tab) ==
    /\ showing[tab] # None
    /\ saveSession(tab, None, request)
    /\ gone' = IF store = None THEN gone ELSE gone \cup {store.sid}
    /\ UNCHANGED <<server, refreshing>>

(* The sign-out reaches the server, if it ever does.                        *)
endServerSession(sid) ==
    /\ sid \in gone \ over
    /\ over' = over \cup {sid}
    /\ UNCHANGED <<issued, expired, revoked, store, screen, refreshing, request, gone>>

-----------------------------------------------------------------------------
(* Renewing the session.                                                    *)

(* Mutant: the server does not look for the session, as before it kept any. *)
forgetsSignOuts(sid) == sid \in revoked

(* A session that was signed out of is no longer there.                     *)
Refuses(sid) == sid \in over \cup revoked

(* The server answers: only a session it still has is renewed.              *)
answerRefresh(tab) ==
    /\ refreshing[tab] # None /\ refreshing[tab].answer = "asked"
    /\ LET sid == refreshing[tab].current.sid
       IN  IF Refuses(sid)
           THEN /\ refreshing' = [refreshing EXCEPT ![tab].answer = "rejected"]
                /\ UNCHANGED issued
           ELSE /\ issued < MaxPairs                             \* bound
                /\ issued' = issued + 1
                /\ refreshing' = [refreshing EXCEPT
                      ![tab] = [current |-> [@.current EXCEPT !.pair = issued + 1],
                                answer |-> "renewed"]]
    /\ UNCHANGED <<expired, over, revoked, store, screen, request, gone>>

(* The requests of `tab` that wait for its renewal go on with its outcome.  *)
woken(tab, stage, session) ==
    [r \in Requests |->
        IF request[r].tab = tab /\ request[r].stage = "waiting"
        THEN IF stage = "settled" THEN Settled
             ELSE [request[r] EXCEPT !.stage = stage, !.session = session]
        ELSE request[r]]

(* Mutant: the requests that share a renewal are forgotten when it is lost. *)
forgotten(tab) == request

(* No answer: connectionLost for each of them.                              *)
disconnected(tab) == woken(tab, "settled", None)

(* Mutant: a lost renewal signs out, as before the field walkthrough.       *)
lostIsRejected(tab) == saveSession(tab, None, woken(tab, "refused", None))

(* A lost renewal says nothing of the session: it is kept.                  *)
unavailable(tab) ==
    request' = disconnected(tab) /\ UNCHANGED <<store, showing, cache, event>>

loseRefresh(tab) ==
    /\ refreshing[tab] # None
    /\ unavailable(tab)
    /\ refreshing' = [refreshing EXCEPT ![tab] = None]
    /\ UNCHANGED <<server, gone>>

receiveRefresh(tab) ==
    /\ refreshing[tab] # None
    /\ \/ /\ refreshing[tab].answer = "renewed"
          /\ LET next == refreshing[tab].current
             IN  saveSession(tab, next, woken(tab, "resent", next))
       \/ /\ refreshing[tab].answer = "rejected"
          /\ saveSession(tab, None, woken(tab, "refused", None))
    /\ refreshing' = [refreshing EXCEPT ![tab] = None]
    /\ UNCHANGED <<server, gone>>

-----------------------------------------------------------------------------
(* Requests.                                                                *)

(* A screen asks, with the stored session's token; a tab has heard of the   *)
(* last change before it does.                                              *)
api(r, tab) ==
    /\ request[r].stage = "unmade"
    /\ showing[tab] # None /\ ~event[tab]
    /\ request' = [request EXCEPT ![r] = [stage |-> "sent", tab |-> tab, session |-> store,
                                          wanted |-> KindOf[r] # "command"]]
    /\ UNCHANGED <<server, store, screen, refreshing, gone>>

InFlight(r) == request[r].stage \in {"sent", "resent"}

Settle(r) == [request EXCEPT ![r] = Settled]

(* It is answered, and the answer reaches a query still in the cache, or is *)
(* put there.                                                               *)
receiveAnswer(r) ==
    /\ InFlight(r) /\ request[r].session # None
    /\ cache' = IF request[r].wanted
                THEN [cache EXCEPT ![request[r].tab] =
                         @ \cup {[of |-> request[r].session.user, by |-> KindOf[r]]}]
                ELSE cache
    /\ request' = Settle(r)
    /\ UNCHANGED <<server, store, showing, event, refreshing, gone>>

(* Lost on the way, or refused for a reason that says nothing of tokens.    *)
loseRequest(r) ==
    /\ InFlight(r)
    /\ request' = Settle(r)
    /\ UNCHANGED <<server, store, screen, refreshing, gone>>

Unauthenticated(r) == \/ request[r].session = None
                      \/ request[r].session.pair <= expired
                      \/ request[r].session.sid \in revoked

(* The first 401: it starts the tab's renewal or joins the one in flight;   *)
(* with nothing stored there is nothing to renew.                           *)
receive401(r) ==
    LET tab == request[r].tab
    IN  /\ request[r].stage = "sent" /\ Unauthenticated(r)
        /\ IF request[r].session = None \/ store = None
           THEN /\ request' = [request EXCEPT ![r].stage = "refused"]
                /\ UNCHANGED refreshing
           ELSE /\ request' = [request EXCEPT ![r].stage = "waiting"]
                /\ refreshing' = IF refreshing[tab] # None THEN refreshing
                                 ELSE [refreshing EXCEPT ![tab] =
                                         [current |-> store, answer |-> "asked"]]
        /\ UNCHANGED <<server, store, screen, gone>>

(* The second 401.                                                          *)
receiveSecond401(r) ==
    /\ request[r].stage = "resent" /\ Unauthenticated(r)
    /\ request' = [request EXCEPT ![r].stage = "refused"]
    /\ UNCHANGED <<server, store, screen, refreshing, gone>>

(* The error is read and thrown; `api` signs out with it, a file does not.  *)
throwRefused(r) ==
    /\ request[r].stage = "refused"
    /\ IF KindOf[r] = "file"
       THEN request' = Settle(r) /\ UNCHANGED <<store, screen>>
       ELSE saveSession(request[r].tab, None, Settle(r))
    /\ UNCHANGED <<server, refreshing, gone>>

-----------------------------------------------------------------------------
(* The server's side.                                                       *)

(* A quarter of an hour passes for the oldest token; a renewal is answered, *)
(* and what is resent with it, long before.                                 *)
InUse == {request[r].session.pair : r \in {q \in Requests : request[q].stage = "resent"}}
         \cup {refreshing[b].current.pair :
                  b \in {t \in Tabs : refreshing[t] # None /\ refreshing[t].answer = "renewed"}}

expire ==
    /\ expired < issued
    /\ expired + 1 \notin InUse
    /\ expired' = expired + 1
    /\ UNCHANGED <<issued, over, revoked, store, screen, refreshing, request, gone>>

(* A changed password, a deactivated account or centre.                     *)
revoke(sid) ==
    /\ sid \in (1..issued) \ revoked
    /\ revoked' = revoked \cup {sid}
    /\ UNCHANGED <<issued, expired, over, store, screen, refreshing, request, gone>>

-----------------------------------------------------------------------------
Answers(r) == \/ receiveAnswer(r) \/ loseRequest(r)
              \/ receive401(r) \/ receiveSecond401(r)

RefreshAnswers(tab) == loseRefresh(tab) \/ receiveRefresh(tab)

Next == \/ \E tab \in Tabs, person \in Persons : login(tab, person)
        \/ \E tab \in Tabs : \/ logout(tab) \/ onStorage(tab)
                             \/ answerRefresh(tab) \/ RefreshAnswers(tab)
        \/ \E sid \in Pairs : endServerSession(sid) \/ revoke(sid)
        \/ \E r \in Requests, tab \in Tabs : api(r, tab)
        \/ \E r \in Requests : Answers(r) \/ throwRefused(r)
        \/ expire

(* A request or a renewal is answered or fails in the end, and the browser  *)
(* runs what waits to run.                                                  *)
Fairness == /\ \A r \in Requests : WF_vars(Answers(r)) /\ WF_vars(throwRefused(r))
            /\ \A tab \in Tabs : WF_vars(RefreshAnswers(tab)) /\ WF_vars(onStorage(tab))

Spec == Init /\ [][Next]_vars /\ Fairness

-----------------------------------------------------------------------------
TypeOK == /\ issued \in 0..MaxPairs /\ expired \in 0..issued
          /\ over \subseteq Pairs /\ revoked \subseteq Pairs
          /\ store \in Session \cup {None}
          /\ showing \in [Tabs -> Persons \cup {None}]
          /\ cache \in [Tabs -> SUBSET Entry]
          /\ event \in [Tabs -> BOOLEAN]
          /\ refreshing \in [Tabs -> Renewal \cup {None}]
          /\ request \in [Requests -> Request]
          /\ gone \subseteq Pairs

(* Cached data never outlives the person it was fetched for: a tab that has *)
(* heard of the last change holds nothing a query or a file has fetched for *)
(* anybody else, whatever was under way when the person changed (auth.tsx   *)
(* 8-14, 48-59). What the job's page puts there itself is excepted: see     *)
(* NewCacheIsNewPersons.                                                    *)
CacheIsItsPersons ==
    \A tab \in Tabs :
        ~event[tab] => /\ showing[tab] = UserOf(store)
                       /\ \A e \in cache[tab] : e.of = showing[tab] \/ e.by = "resume"

(* What auth.tsx says without exception, lines 57-58: "A request still in   *)
(* flight for the previous person is cancelled with its query, so its       *)
(* answer cannot land in the new person's cache either." Whoever is signed  *)
(* in has only their own data in a tab's cache.                             *)
NewCacheIsNewPersons ==
    \A tab \in Tabs : showing[tab] # None /\ ~event[tab]
                         => \A e \in cache[tab] : e.of = showing[tab]

(* Somebody who signed in stays signed in until they sign out or the server *)
(* refuses their session: expired tokens, lost renewals and failed requests *)
(* never sign anybody out (RefreshOutcome, api.ts 138-152).                 *)
BadSignalKeepsSession ==
    issued > 0 /\ gone = {} /\ revoked = {} => store # None

(* The session is not stored here, nor on its way back with a renewal.      *)
Off(sid) ==
    /\ store # None => store.sid # sid
    /\ \A tab \in Tabs :
          refreshing[tab] # None /\ refreshing[tab].answer = "renewed"
             => refreshing[tab].current.sid # sid

(* A sign-out is final once the server has it: a session it has ended, when *)
(* this browser has let go of it, never comes back, whatever renewals other *)
(* tabs still ask for (auth.tsx 94-96, "so a copy of the refresh token      *)
(* cannot keep the session going"; refresh in auth.service.ts). A renewal   *)
(* granted before that does store it again (api.ts 194).                    *)
SignOutsAreFinal == [][\A sid \in over : Off(sid) => Off(sid)']_vars

(* No request is left hanging: it is answered, or fails, also when its      *)
(* renewal is lost or it shared another's (refreshSession, api.ts 155-159). *)
RequestsSettle ==
    \A r \in Requests : request[r].stage = "sent" ~> request[r].stage = "settled"
=============================================================================
