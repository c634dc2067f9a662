---------------------------- MODULE Client_proofs ----------------------------
(* Theorems about the web client, for every value of the constants: whose   *)
(* data a tab shows and who stays signed in or out, what a stored release   *)
(* holds, that the form for a complaint sends what it shows, and that the   *)
(* centres it proposes are ranked as the service promises.                  *)
EXTENDS Browser, OfflineShell, IntakeForm, FiniteSetTheorems, SequenceTheorems,
        WellFoundedInduction, TLAPS

(* Every token in use was issued, and one that came from a renewal still in *)
(* use has not expired; only sessions signed out here ended on the server.  *)
SessionInv ==
    /\ store # None => store.pair <= issued
    /\ \A b \in Tabs : refreshing[b] # None =>
          /\ refreshing[b].current.pair <= issued
          /\ refreshing[b].answer = "renewed" => refreshing[b].current.pair > expired
    /\ \A r \in Requests : InFlight(r) =>
          /\ request[r].session # None /\ request[r].session.pair <= issued
          /\ request[r].stage = "resent" => request[r].session.pair > expired
    /\ over \subseteq gone

(* Cached data that only one person sees.                                   *)
OnlyOf(entries, who) == \A e \in entries : e.of = who \/ e.by = "resume"

(* What a tab has cached, and what a query under way will bring it, is of   *)
(* the person it shows, whether or not it has heard of the last change; but *)
(* for the one command whose answer is put into the cache.                  *)
CacheInv ==
    /\ \A b \in Tabs : /\ OnlyOf(cache[b], showing[b])
                       /\ ~event[b] => showing[b] = UserOf(store)
    /\ \A r \in Requests :
          /\ request[r].stage \notin {"unmade", "settled"} => request[r].tab \in Tabs
          /\ InFlight(r) /\ request[r].wanted /\ ~runsOn(r)
                => request[r].session.user = showing[request[r].tab]

(* As long as nobody signed out and the server ended nothing, no renewal is *)
(* rejected and no request is refused, and what is stored stays.            *)
Untroubled ==
    gone = {} /\ revoked = {} =>
        /\ issued > 0 => store # None
        /\ \A b \in Tabs : refreshing[b] # None => refreshing[b].answer # "rejected"
        /\ \A r \in Requests : request[r].stage # "refused"

BrowserInv == TypeOK /\ SessionInv /\ CacheInv /\ Untroubled

LEMMA BrowserInit == Init => BrowserInv
  BY NoneAssumption, MaxPairsAssumption
     DEF Init, BrowserInv, TypeOK, SessionInv, CacheInv, OnlyOf, Untroubled, Unmade, Request, UserOf,
         InFlight, Pairs

LEMMA BlankRequests ==
    /\ Unmade \in Request /\ Settled \in Request
    /\ Unmade.stage = "unmade" /\ Settled.stage = "settled"
    /\ ~Settled.wanted
  BY DEF Unmade, Settled, Request

(* What a tab makes of a session it hears of: `reqs` are the requests as    *)
(* that session found them.                                                 *)
QueriesFit(reqs, tab, session) ==
    \A r \in Requests :
        /\ reqs[r].stage \notin {"unmade", "settled"} => reqs[r].tab \in Tabs
        /\ reqs[r].stage \in {"sent", "resent"} /\ reqs[r].wanted /\ ~runsOn(r)
              => \/ reqs[r].session.user = showing[reqs[r].tab]
                 \/ reqs[r].tab = tab /\ reqs[r].session = session

LEMMA TabShows ==
    ASSUME TypeOK, CacheInv, NEW tab \in Tabs, NEW session \in Session \cup {None},
           NEW reqs \in [Requests -> Request], QueriesFit(reqs, tab, session),
           \A r \in Requests : reqs[r].stage \in {"sent", "resent"} => reqs[r].session # None,
           showing' = shown(tab, session), cache' = kept(tab, session),
           request' = dropped(reqs, tab, session)
    PROVE  /\ showing' \in [Tabs -> Persons \cup {None}]
           /\ showing'[tab] = UserOf(session)
           /\ \A b \in Tabs \ {tab} : showing'[b] = showing[b]
           /\ cache' \in [Tabs -> SUBSET Entry]
           /\ \A b \in Tabs : OnlyOf(cache'[b], showing'[b])
           /\ request' \in [Requests -> Request]
           /\ \A r \in Requests : /\ request'[r].stage = reqs[r].stage
                                  /\ request'[r].session = reqs[r].session
                                  /\ request'[r].tab = reqs[r].tab
                                  /\ request'[r].stage \in {"sent", "resent"} /\ request'[r].wanted /\ ~runsOn(r)
                                     => request'[r].session.user = showing'[request'[r].tab]
  <1> DEFINE user == UserOf(session)
  <1>1. user \in Persons \cup {None}
    BY DEF UserOf, Session
  <1>2. /\ showing' \in [Tabs -> Persons \cup {None}]
        /\ showing'[tab] = user
        /\ \A b \in Tabs \ {tab} : showing'[b] = showing[b]
    BY <1>1 DEF shown, TypeOK
  <1>3. /\ cache' \in [Tabs -> SUBSET Entry]
        /\ \A b \in Tabs : OnlyOf(cache'[b], showing'[b])
    BY <1>2 DEF kept, clears, TypeOK, CacheInv, OnlyOf
  <1>4. ASSUME NEW r \in Requests
        PROVE  /\ request'[r] \in Request
               /\ request'[r].stage = reqs[r].stage
               /\ request'[r].session = reqs[r].session
               /\ request'[r].tab = reqs[r].tab
               /\ request'[r].wanted /\ ~runsOn(r)
                     => reqs[r].wanted /\ (reqs[r].tab = tab => user = showing[tab])
    <2>1. CASE reqs[r].tab = tab /\ clears(user, showing[tab]) /\ ~runsOn(r)
      <3>1. request'[r] = [reqs[r] EXCEPT !.wanted = FALSE]
        BY <2>1 DEF dropped
      <3> QED
        BY <3>1 DEF Request
    <2>2. CASE ~(reqs[r].tab = tab /\ clears(user, showing[tab]) /\ ~runsOn(r))
      <3>1. request'[r] = reqs[r]
        BY <2>2 DEF dropped
      <3> QED
        BY <2>2, <3>1 DEF clears
    <2> QED
      BY <2>1, <2>2
  <1>5. request' \in [Requests -> Request]
    <2>1. request' = [r \in Requests |-> request'[r]]
      BY DEF dropped
    <2> QED
      BY <1>4, <2>1
  <1>6. ASSUME NEW r \in Requests, reqs[r].stage \in {"sent", "resent"}, request'[r].wanted,
               ~runsOn(r)
        PROVE  reqs[r].session.user = showing'[reqs[r].tab]
    <2>1. reqs[r].wanted /\ (reqs[r].tab = tab => user = showing[tab])
      BY <1>4, <1>6
    <2>2. reqs[r].tab \in Tabs
      BY <1>6 DEF QueriesFit, Request
    <2>3. CASE reqs[r].tab # tab
      BY <1>2, <1>6, <2>1, <2>2, <2>3 DEF QueriesFit
    <2>4. CASE reqs[r].tab = tab
      <3>1. reqs[r].session = session => reqs[r].session.user = user
        BY <1>6 DEF UserOf
      <3> QED
        BY <1>2, <1>6, <2>1, <2>4, <3>1 DEF QueriesFit
    <2> QED
      BY <2>3, <2>4
  <1> HIDE DEF user
  <1> QED
    BY <1>2, <1>3, <1>4, <1>5, <1>6 DEF user

(* The stored session changes: the tab that stores it shows it at once, the *)
(* others have an event to handle.                                          *)
LEMMA SessionSaved ==
    ASSUME TypeOK, CacheInv, NEW tab \in Tabs, NEW session \in Session \cup {None},
           NEW reqs \in [Requests -> Request], QueriesFit(reqs, tab, session),
           \A r \in Requests : reqs[r].stage \in {"sent", "resent"} => reqs[r].session # None,
           saveSession(tab, session, reqs)
    PROVE  /\ store' = session
           /\ store' \in Session \cup {None}
           /\ showing' \in [Tabs -> Persons \cup {None}]
           /\ cache' \in [Tabs -> SUBSET Entry]
           /\ event' \in [Tabs -> BOOLEAN]
           /\ request' \in [Requests -> Request]
           /\ \A r \in Requests : /\ request'[r].stage = reqs[r].stage
                                  /\ request'[r].session = reqs[r].session
           /\ CacheInv'
  <1>1. /\ store' = session
        /\ showing' = shown(tab, session)
        /\ cache' = kept(tab, session)
        /\ request' = dropped(reqs, tab, session)
        /\ event' = [b \in Tabs |-> event[b] \/ (b # tab /\ session # store)]
    BY DEF saveSession
  <1>2. event' \in [Tabs -> BOOLEAN]
    BY <1>1
  <1>3. \A b \in Tabs : ~event'[b] => showing'[b] = UserOf(store')
    <2>1. \A b \in Tabs \ {tab} : ~event'[b] => ~event[b] /\ session = store
      BY <1>1, Zenon
    <2>2. showing'[tab] = UserOf(session) /\ \A b \in Tabs \ {tab} : showing'[b] = showing[b]
      BY <1>1, TabShows
    <2> QED
      BY <1>1, <2>1, <2>2 DEF CacheInv
  <1>4. CacheInv'
    BY <1>1, <1>3, TabShows DEF CacheInv, QueriesFit, InFlight
  <1> QED
    BY <1>1, <1>2, <1>4, TabShows

(* The requests that waited for a renewal.                                  *)
LEMMA WokenRequests ==
    ASSUME TypeOK, SessionInv, CacheInv, NEW tab \in Tabs, NEW stage \in {"settled", "resent", "refused"},
           NEW session \in Session \cup {None}, stage = "resent" => session # None
    PROVE  LET reqs == woken(tab, stage, session)
           IN  /\ reqs \in [Requests -> Request]
               /\ QueriesFit(reqs, tab, session)
               /\ \A r \in Requests :
                     \/ reqs[r].stage = request[r].stage /\ reqs[r].session = request[r].session
                     \/ reqs[r].stage = stage /\ (stage # "settled" => reqs[r].session = session)
               /\ \A r \in Requests : reqs[r].stage \in {"sent", "resent"} => reqs[r].session # None
  <1> DEFINE reqs == woken(tab, stage, session)
  <1>1. ASSUME NEW r \in Requests
        PROVE  \/ reqs[r] = request[r]
               \/ reqs[r] = Settled /\ stage = "settled"
               \/ /\ reqs[r] \in Request /\ reqs[r].stage = stage /\ stage # "settled"
                  /\ reqs[r].session = session /\ reqs[r].tab = tab
    <2>1. CASE request[r].tab = tab /\ request[r].stage = "waiting" /\ stage # "settled"
      <3>1. reqs[r] = [request[r] EXCEPT !.stage = stage, !.session = session]
        BY <2>1 DEF woken
      <3> QED
        BY <2>1, <3>1 DEF TypeOK, Request
    <2>2. CASE request[r].tab = tab /\ request[r].stage = "waiting" /\ stage = "settled"
      BY <2>2 DEF woken
    <2>3. CASE ~(request[r].tab = tab /\ request[r].stage = "waiting")
      BY <2>3 DEF woken
    <2> QED
      BY <2>1, <2>2, <2>3
  <1>2. reqs \in [Requests -> Request]
    <2>1. reqs = [r \in Requests |-> reqs[r]]
      BY DEF woken
    <2>2. \A r \in Requests : reqs[r] \in Request
      BY <1>1, BlankRequests DEF TypeOK
    <2> HIDE DEF reqs
    <2> QED
      BY <2>1, <2>2
  <1> HIDE DEF reqs
  <1>3. QueriesFit(reqs, tab, session)
    BY <1>1, BlankRequests DEF QueriesFit, CacheInv, InFlight
  <1>4. \A r \in Requests :
           \/ reqs[r].stage = request[r].stage /\ reqs[r].session = request[r].session
           \/ reqs[r].stage = stage /\ (stage # "settled" => reqs[r].session = session)
    BY <1>1, BlankRequests
  <1>5. \A r \in Requests : reqs[r].stage \in {"sent", "resent"} => reqs[r].session # None
    BY <1>1, BlankRequests DEF SessionInv, InFlight
  <1> QED
    BY <1>2, <1>3, <1>4, <1>5 DEF reqs

-----------------------------------------------------------------------------
(* One lemma per step of the browser.                                       *)
LEMMA LoginKeeps ==
    ASSUME BrowserInv, NEW tab \in Tabs, NEW user \in Persons, login(tab, user)
    PROVE  BrowserInv'
  <1> DEFINE session == [user |-> user, sid |-> issued + 1, pair |-> issued + 1]
  <1>1. issued \in Nat /\ issued < MaxPairs /\ issued' = issued + 1 /\ issued' \in 0..MaxPairs
    BY MaxPairsAssumption DEF login, BrowserInv, TypeOK
  <1>2. session \in Session /\ session # None /\ session.pair = issued + 1
    BY <1>1, MaxPairsAssumption, NoneAssumption DEF Session, Pairs
  <1>3. /\ saveSession(tab, session, request)
        /\ UNCHANGED <<expired, over, revoked, refreshing, gone>>
    BY DEF login
  <1> HIDE DEF session
  <1>4. /\ request \in [Requests -> Request] /\ QueriesFit(request, tab, session)
        /\ \A r \in Requests : request[r].stage \in {"sent", "resent"} => request[r].session # None
    BY DEF BrowserInv, TypeOK, SessionInv, CacheInv, QueriesFit, InFlight
  <1>5. /\ store' = session
        /\ store' \in Session \cup {None}
        /\ showing' \in [Tabs -> Persons \cup {None}]
        /\ cache' \in [Tabs -> SUBSET Entry]
        /\ event' \in [Tabs -> BOOLEAN]
        /\ request' \in [Requests -> Request]
        /\ \A r \in Requests : /\ request'[r].stage = request[r].stage
                               /\ request'[r].session = request[r].session
        /\ CacheInv'
    BY <1>2, <1>3, <1>4, SessionSaved DEF BrowserInv
  <1>6. TypeOK'
    BY <1>1, <1>3, <1>5 DEF BrowserInv, TypeOK
  <1>7. SessionInv'
    <2>1. \A r \in Requests : InFlight(r)' => request[r].session \in Session
      BY <1>5 DEF InFlight, BrowserInv, TypeOK, SessionInv, Request
    <2>2. \A b \in Tabs : refreshing[b] # None => refreshing[b].current \in Session
      BY DEF BrowserInv, TypeOK, Renewal
    <2> QED
      BY <1>1, <1>2, <1>3, <1>5, <2>1, <2>2 DEF BrowserInv, SessionInv, InFlight, Session, Pairs
  <1>8. Untroubled'
    BY <1>2, <1>3, <1>5 DEF BrowserInv, Untroubled
  <1> QED
    BY <1>5, <1>6, <1>7, <1>8 DEF BrowserInv

LEMMA LogoutKeeps ==
    ASSUME BrowserInv, NEW tab \in Tabs, logout(tab)
    PROVE  BrowserInv'
  <1>1. /\ saveSession(tab, None, request)
        /\ UNCHANGED <<server, refreshing>>
        /\ gone' = IF store = None THEN gone ELSE gone \cup {store.sid}
    BY DEF logout
  <1>2. /\ request \in [Requests -> Request] /\ QueriesFit(request, tab, None)
        /\ \A r \in Requests : request[r].stage \in {"sent", "resent"} => request[r].session # None
    BY DEF BrowserInv, TypeOK, SessionInv, CacheInv, QueriesFit, InFlight
  <1>3. /\ store' = None
        /\ showing' \in [Tabs -> Persons \cup {None}]
        /\ cache' \in [Tabs -> SUBSET Entry]
        /\ event' \in [Tabs -> BOOLEAN]
        /\ request' \in [Requests -> Request]
        /\ \A r \in Requests : /\ request'[r].stage = request[r].stage
                               /\ request'[r].session = request[r].session
        /\ CacheInv'
    BY <1>1, <1>2, SessionSaved DEF BrowserInv
  <1>4. gone' \subseteq Pairs /\ gone \subseteq gone'
    BY <1>1 DEF BrowserInv, TypeOK, Session
  <1>5. TypeOK'
    BY <1>1, <1>3, <1>4 DEF BrowserInv, TypeOK, server
  <1>6. SessionInv'
    BY <1>1, <1>3, <1>4 DEF BrowserInv, SessionInv, InFlight, server
  <1>7. Untroubled'
    <2> SUFFICES ASSUME gone' = {}, revoked' = {} PROVE Untroubled'
      BY DEF Untroubled
    <2>1. gone = {} /\ revoked = {} /\ store = None
      BY <1>1 DEF server
    <2> QED
      BY <1>1, <1>3, <2>1 DEF BrowserInv, Untroubled, server
  <1> QED
    BY <1>3, <1>5, <1>6, <1>7 DEF BrowserInv

LEMMA OnStorageKeeps ==
    ASSUME BrowserInv, NEW tab \in Tabs, onStorage(tab)
    PROVE  BrowserInv'
  <1>1. /\ showing' = shown(tab, store) /\ cache' = kept(tab, store)
        /\ request' = dropped(request, tab, store)
        /\ event' = [event EXCEPT ![tab] = FALSE]
        /\ UNCHANGED <<server, store, refreshing, gone>>
    BY DEF onStorage
  <1>2. /\ request \in [Requests -> Request] /\ QueriesFit(request, tab, store)
        /\ store \in Session \cup {None}
        /\ \A r \in Requests : request[r].stage \in {"sent", "resent"} => request[r].session # None
    BY DEF BrowserInv, TypeOK, SessionInv, CacheInv, QueriesFit, InFlight
  <1>3. /\ showing' \in [Tabs -> Persons \cup {None}]
        /\ showing'[tab] = UserOf(store)
        /\ \A b \in Tabs \ {tab} : showing'[b] = showing[b]
        /\ cache' \in [Tabs -> SUBSET Entry]
        /\ \A b \in Tabs : OnlyOf(cache'[b], showing'[b])
        /\ request' \in [Requests -> Request]
        /\ \A r \in Requests : /\ request'[r].stage = request[r].stage
                               /\ request'[r].session = request[r].session
                               /\ request'[r].tab = request[r].tab
                               /\ request'[r].stage \in {"sent", "resent"} /\ request'[r].wanted /\ ~runsOn(r)
                                  => request'[r].session.user = showing'[request'[r].tab]
    BY <1>1, <1>2, TabShows DEF BrowserInv
  <1>4. event' \in [Tabs -> BOOLEAN] /\ \A b \in Tabs \ {tab} : event'[b] = event[b]
    BY <1>1 DEF BrowserInv, TypeOK
  <1>5. TypeOK'
    BY <1>1, <1>3, <1>4 DEF BrowserInv, TypeOK, server
  <1>6. SessionInv' /\ Untroubled'
    BY <1>1, <1>3 DEF BrowserInv, SessionInv, Untroubled, InFlight, server
  <1>7. CacheInv'
    BY <1>1, <1>3, <1>4 DEF BrowserInv, CacheInv, InFlight
  <1> QED
    BY <1>5, <1>6, <1>7 DEF BrowserInv

(* A renewal is answered: with a pair never issued before, or not at all.   *)
LEMMA AnswerRefreshKeeps ==
    ASSUME BrowserInv, NEW tab \in Tabs, answerRefresh(tab)
    PROVE  BrowserInv'
  <1> DEFINE renewal == refreshing[tab]
  <1>1. /\ renewal \in Renewal /\ renewal.current \in Session
        /\ UNCHANGED <<expired, over, revoked, store, screen, request, gone>>
    BY DEF answerRefresh, BrowserInv, TypeOK, Renewal
  <1>2. CASE /\ renewal.current.sid \in over \cup revoked
             /\ refreshing' = [refreshing EXCEPT ![tab].answer = "rejected"]
             /\ issued' = issued
    <2>1. /\ refreshing' \in [Tabs -> Renewal \cup {None}]
          /\ refreshing'[tab].current = renewal.current /\ refreshing'[tab].answer = "rejected"
          /\ \A b \in Tabs \ {tab} : refreshing'[b] = refreshing[b]
      BY <1>1, <1>2 DEF BrowserInv, TypeOK, Renewal
    <2>2. gone # {} \/ revoked # {}
      BY <1>2 DEF BrowserInv, SessionInv
    <2>3. TypeOK'
      BY <1>1, <1>2, <2>1 DEF BrowserInv, TypeOK, screen
    <2>4. SessionInv'
      BY <1>1, <1>2, <2>1 DEF BrowserInv, SessionInv, InFlight, answerRefresh
    <2>5. CacheInv' /\ Untroubled'
      BY <1>1, <2>2 DEF BrowserInv, CacheInv, Untroubled, InFlight, screen
    <2> QED
      BY <2>3, <2>4, <2>5 DEF BrowserInv
  <1>3. CASE /\ issued < MaxPairs /\ issued' = issued + 1
             /\ refreshing' = [refreshing EXCEPT
                   ![tab] = [current |-> [renewal.current EXCEPT !.pair = issued + 1],
                             answer |-> "renewed"]]
    <2> DEFINE next == [renewal.current EXCEPT !.pair = issued + 1]
    <2>1. issued \in Nat /\ issued + 1 \in Pairs /\ issued' \in 0..MaxPairs /\ expired \in 0..issued
      BY <1>3, MaxPairsAssumption DEF BrowserInv, TypeOK, Pairs
    <2>2. next \in Session /\ next.pair = issued + 1
      BY <1>1, <2>1 DEF Session
    <2> HIDE DEF next
    <2>3. /\ refreshing' \in [Tabs -> Renewal \cup {None}]
          /\ refreshing'[tab].current = next /\ refreshing'[tab].answer = "renewed"
          /\ \A b \in Tabs \ {tab} : refreshing'[b] = refreshing[b]
      BY <1>3, <2>2 DEF BrowserInv, TypeOK, Renewal, next
    <2>4. TypeOK'
      BY <1>1, <1>3, <2>1, <2>3 DEF BrowserInv, TypeOK, screen
    <2>5. SessionInv'
      <3>1. \A r \in Requests : InFlight(r) => request[r].session \in Session
        BY DEF InFlight, BrowserInv, TypeOK, SessionInv, Request
      <3>2. \A b \in Tabs : refreshing[b] # None => refreshing[b].current \in Session
        BY DEF BrowserInv, TypeOK, Renewal
      <3>3. store # None => store \in Session
        BY DEF BrowserInv, TypeOK
      <3> QED
        BY <1>1, <1>3, <2>1, <2>2, <2>3, <3>1, <3>2, <3>3
           DEF BrowserInv, SessionInv, InFlight, Session, Pairs
    <2>6. CacheInv'
      BY <1>1 DEF BrowserInv, CacheInv, InFlight, screen
    <2>7. Untroubled'
      <3>1. gone = {} /\ revoked = {} => issued > 0
        <4>1. renewal.current.pair \in Pairs /\ renewal.current.pair <= issued
          BY <1>1 DEF Session, answerRefresh, BrowserInv, SessionInv
        <4> QED
          BY <2>1, <4>1, MaxPairsAssumption DEF Pairs
      <3> QED
        BY <1>1, <2>3, <3>1 DEF BrowserInv, Untroubled
    <2> QED
      BY <2>4, <2>5, <2>6, <2>7 DEF BrowserInv
  <1> QED
    BY <1>2, <1>3 DEF answerRefresh, Refuses

LEMMA LoseRefreshKeeps ==
    ASSUME BrowserInv, NEW tab \in Tabs, loseRefresh(tab)
    PROVE  BrowserInv'
  <1> DEFINE reqs == woken(tab, "settled", None)
  <1>1. /\ request' = reqs
        /\ refreshing' = [refreshing EXCEPT ![tab] = None]
        /\ UNCHANGED <<server, store, showing, cache, event, gone>>
    BY DEF loseRefresh, unavailable, disconnected
  <1>2. /\ reqs \in [Requests -> Request]
        /\ QueriesFit(reqs, tab, None)
        /\ \A r \in Requests :
              \/ reqs[r].stage = request[r].stage /\ reqs[r].session = request[r].session
              \/ reqs[r].stage = "settled"
        /\ \A r \in Requests : reqs[r].stage \in {"sent", "resent"} => reqs[r].session # None
    BY WokenRequests DEF BrowserInv
  <1> HIDE DEF reqs
  <1>3. /\ refreshing' \in [Tabs -> Renewal \cup {None}]
        /\ \A b \in Tabs : refreshing'[b] = refreshing[b] \/ refreshing'[b] = None
    BY <1>1 DEF BrowserInv, TypeOK
  <1>4. TypeOK'
    BY <1>1, <1>2, <1>3 DEF BrowserInv, TypeOK, server
  <1>5. SessionInv'
    BY <1>1, <1>2, <1>3 DEF BrowserInv, SessionInv, InFlight, server
  <1>6. CacheInv'
    BY <1>1, <1>2 DEF BrowserInv, CacheInv, QueriesFit, InFlight
  <1>7. Untroubled'
    BY <1>1, <1>2, <1>3 DEF BrowserInv, Untroubled, server
  <1> QED
    BY <1>4, <1>5, <1>6, <1>7 DEF BrowserInv

(* A renewal comes back: the requests that waited go on with it.            *)
LEMMA ReceiveRefreshKeeps ==
    ASSUME BrowserInv, NEW tab \in Tabs, receiveRefresh(tab)
    PROVE  BrowserInv'
  <1> DEFINE renewal == refreshing[tab]
  <1>1. /\ renewal \in Renewal /\ renewal.current \in Session
        /\ renewal.current.pair <= issued
        /\ renewal.answer = "renewed" => renewal.current.pair > expired
        /\ UNCHANGED <<server, gone>>
        /\ refreshing' = [refreshing EXCEPT ![tab] = None]
    BY DEF receiveRefresh, BrowserInv, TypeOK, Renewal, SessionInv
  <1>2. /\ refreshing' \in [Tabs -> Renewal \cup {None}]
        /\ \A b \in Tabs : refreshing'[b] = refreshing[b] \/ refreshing'[b] = None
    BY <1>1 DEF BrowserInv, TypeOK
  <1>3. ASSUME NEW session \in Session \cup {None}, NEW stage \in {"resent", "refused"},
               saveSession(tab, session, woken(tab, stage, session)),
               \/ session = renewal.current /\ stage = "resent" /\ renewal.answer = "renewed"
               \/ session = None /\ stage = "refused" /\ renewal.answer = "rejected"
        PROVE  BrowserInv'
    <2> DEFINE reqs == woken(tab, stage, session)
    <2>0. stage = "resent" => session # None
      BY <1>1, <1>3, NoneAssumption
    <2>1. /\ reqs \in [Requests -> Request]
          /\ QueriesFit(reqs, tab, session)
          /\ \A r \in Requests :
                \/ reqs[r].stage = request[r].stage /\ reqs[r].session = request[r].session
                \/ reqs[r].stage = stage /\ reqs[r].session = session
          /\ \A r \in Requests : reqs[r].stage \in {"sent", "resent"} => reqs[r].session # None
      BY <2>0, WokenRequests DEF BrowserInv
    <2>2. saveSession(tab, session, reqs)
      BY <1>3
    <2> HIDE DEF reqs
    <2>3. /\ store' = session
          /\ store' \in Session \cup {None}
          /\ showing' \in [Tabs -> Persons \cup {None}]
          /\ cache' \in [Tabs -> SUBSET Entry]
          /\ event' \in [Tabs -> BOOLEAN]
          /\ request' \in [Requests -> Request]
          /\ \A r \in Requests : /\ request'[r].stage = reqs[r].stage
                                 /\ request'[r].session = reqs[r].session
          /\ CacheInv'
      BY <2>1, <2>2, SessionSaved DEF BrowserInv
    <2>4. TypeOK'
      BY <1>1, <1>2, <2>3 DEF BrowserInv, TypeOK, server
    <2>5. SessionInv'
      BY <1>1, <1>2, <1>3, <2>1, <2>3, NoneAssumption
         DEF BrowserInv, SessionInv, InFlight, server
    <2>6. Untroubled'
      BY <1>1, <1>2, <1>3, <2>0, <2>1, <2>3, NoneAssumption
         DEF BrowserInv, Untroubled, server, receiveRefresh
    <2> QED
      BY <2>3, <2>4, <2>5, <2>6 DEF BrowserInv
  <1>4. CASE /\ renewal.answer = "renewed"
             /\ saveSession(tab, renewal.current, woken(tab, "resent", renewal.current))
    BY <1>1, <1>3, <1>4
  <1>5. CASE renewal.answer = "rejected" /\ saveSession(tab, None, woken(tab, "refused", None))
    BY <1>3, <1>5
  <1> QED
    BY <1>4, <1>5 DEF receiveRefresh

LEMMA EndServerSessionKeeps ==
    ASSUME BrowserInv, NEW sid \in Pairs, endServerSession(sid)
    PROVE  BrowserInv'
  BY DEF endServerSession, screen, BrowserInv, TypeOK, SessionInv, CacheInv, Untroubled, InFlight

(* A screen asks with the session that is stored, which is the one it shows.*)
LEMMA ApiKeeps ==
    ASSUME BrowserInv, NEW r \in Requests, NEW tab \in Tabs, api(r, tab)
    PROVE  BrowserInv'
  <1> DEFINE made == [stage |-> "sent", tab |-> tab, session |-> store,
                      wanted |-> KindOf[r] # "command"]
  <1>1. /\ request' = [request EXCEPT ![r] = made]
        /\ UNCHANGED <<server, store, screen, refreshing, gone>>
    BY DEF api
  <1>2. store # None /\ store.user = showing[tab] /\ store.pair <= issued
    BY DEF api, BrowserInv, CacheInv, SessionInv, UserOf
  <1>3. /\ made \in Request /\ made.stage = "sent" /\ made.session = store /\ made.tab = tab
    BY DEF BrowserInv, TypeOK, Request
  <1> HIDE DEF made
  <1>4. /\ request' \in [Requests -> Request] /\ request'[r] = made
        /\ \A q \in Requests \ {r} : request'[q] = request[q]
    BY <1>1, <1>3 DEF BrowserInv, TypeOK
  <1>5. TypeOK'
    BY <1>1, <1>4 DEF BrowserInv, TypeOK, server, screen
  <1>6. SessionInv'
    BY <1>1, <1>2, <1>3, <1>4 DEF BrowserInv, SessionInv, InFlight, server
  <1>7. CacheInv'
    BY <1>1, <1>2, <1>3, <1>4 DEF BrowserInv, CacheInv, InFlight, screen
  <1>8. Untroubled'
    BY <1>1, <1>3, <1>4 DEF BrowserInv, Untroubled, server
  <1> QED
    BY <1>5, <1>6, <1>7, <1>8 DEF BrowserInv

(* A request that settles asks nothing of anybody any more.                 *)
LEMMA SettledRequest ==
    ASSUME TypeOK, NEW r \in Requests
    PROVE  /\ Settle(r) \in [Requests -> Request]
           /\ Settle(r)[r] = Settled
           /\ \A q \in Requests \ {r} : Settle(r)[q] = request[q]
  BY BlankRequests DEF TypeOK, Settle

LEMMA SettlingKeeps ==
    ASSUME BrowserInv, NEW r \in Requests, request' = Settle(r),
           UNCHANGED <<server, store, screen, refreshing, gone>>
    PROVE  BrowserInv'
  <1> DEFINE reqs == Settle(r)
  <1>1. /\ reqs \in [Requests -> Request] /\ reqs[r] = Settled
        /\ \A q \in Requests \ {r} : reqs[q] = request[q]
    BY SettledRequest DEF BrowserInv
  <1>2. request' = reqs
    OBVIOUS
  <1> HIDE DEF reqs
  <1>3. TypeOK'
    BY <1>1, <1>2 DEF BrowserInv, TypeOK, server, screen
  <1>4. SessionInv' /\ Untroubled'
    BY <1>1, <1>2, BlankRequests DEF BrowserInv, SessionInv, Untroubled, InFlight, server
  <1>5. CacheInv'
    BY <1>1, <1>2, BlankRequests DEF BrowserInv, CacheInv, InFlight, screen
  <1> QED
    BY <1>3, <1>4, <1>5 DEF BrowserInv

(* A query's answer reaches a tab's cache only for the person it shows.     *)
LEMMA ReceiveAnswerKeeps ==
    ASSUME BrowserInv, NEW r \in Requests, receiveAnswer(r)
    PROVE  BrowserInv'
  <1> DEFINE reqs == Settle(r)
  <1>1. /\ InFlight(r) /\ request[r].session # None
        /\ cache' = IF request[r].wanted
                    THEN [cache EXCEPT ![request[r].tab] =
                             @ \cup {[of |-> request[r].session.user, by |-> KindOf[r]]}]
                    ELSE cache
        /\ request' = reqs
        /\ UNCHANGED <<server, store, showing, event, refreshing, gone>>
    BY DEF receiveAnswer
  <1>2. /\ reqs \in [Requests -> Request] /\ reqs[r] = Settled
        /\ \A q \in Requests \ {r} : reqs[q] = request[q]
    BY SettledRequest DEF BrowserInv
  <1> HIDE DEF reqs
  <1>3. /\ request[r].tab \in Tabs /\ request[r].session \in Session
        /\ request[r].wanted /\ ~runsOn(r) => request[r].session.user = showing[request[r].tab]
    BY <1>1 DEF BrowserInv, TypeOK, CacheInv, InFlight, Request
  <1>4. /\ cache' \in [Tabs -> SUBSET Entry]
        /\ \A b \in Tabs : OnlyOf(cache'[b], showing[b])
    <2>1. CASE ~request[r].wanted
      BY <1>1, <2>1 DEF BrowserInv, TypeOK, CacheInv
    <2>2. CASE request[r].wanted
      <3> DEFINE tab == request[r].tab
                 entry == [of |-> request[r].session.user, by |-> KindOf[r]]
      <3>1. /\ tab \in Tabs /\ entry \in Entry
            /\ entry.of = showing[tab] \/ entry.by = "resume"
        BY <1>3, <2>2, KindOfAssumption DEF Session, Entry, runsOn
      <3>2. cache' = [cache EXCEPT ![tab] = cache[tab] \cup {entry}]
        BY <1>1, <2>2
      <3> HIDE DEF tab, entry
      <3> QED
        BY <3>1, <3>2 DEF BrowserInv, TypeOK, CacheInv, OnlyOf
    <2> QED
      BY <2>1, <2>2
  <1>5. TypeOK'
    BY <1>1, <1>2, <1>4 DEF BrowserInv, TypeOK, server
  <1>6. SessionInv' /\ Untroubled'
    BY <1>1, <1>2, BlankRequests DEF BrowserInv, SessionInv, Untroubled, InFlight, server
  <1>7. CacheInv'
    BY <1>1, <1>2, <1>4, BlankRequests DEF BrowserInv, CacheInv, InFlight
  <1> QED
    BY <1>5, <1>6, <1>7 DEF BrowserInv

LEMMA LoseRequestKeeps ==
    ASSUME BrowserInv, NEW r \in Requests, loseRequest(r)
    PROVE  BrowserInv'
  BY SettlingKeeps DEF loseRequest

(* A request changes its stage and nothing else: to wait for a renewal, or  *)
(* to be refused, which happens only once the server has ended a session.   *)
LEMMA StageKeeps ==
    ASSUME BrowserInv, NEW r \in Requests, NEW stage \in {"waiting", "refused"}, InFlight(r),
           request' = [request EXCEPT ![r].stage = stage],
           stage = "refused" => ~(gone = {} /\ revoked = {}),
           UNCHANGED <<server, store, screen, gone>>,
           \A b \in Tabs :
              \/ refreshing'[b] = refreshing[b]
              \/ /\ store # None
                 /\ refreshing'[b] = [current |-> store, answer |-> "asked"],
           refreshing' \in [Tabs -> Renewal \cup {None}]
    PROVE  BrowserInv'
  <1>1. /\ request' \in [Requests -> Request]
        /\ request'[r].stage = stage /\ request'[r].tab = request[r].tab
        /\ \A q \in Requests \ {r} : request'[q] = request[q]
    BY DEF BrowserInv, TypeOK, Request
  <1>2. TypeOK'
    BY <1>1 DEF BrowserInv, TypeOK, server, screen
  <1>3. SessionInv'
    BY <1>1 DEF BrowserInv, SessionInv, InFlight, server
  <1>4. CacheInv'
    BY <1>1 DEF BrowserInv, CacheInv, InFlight, screen
  <1>5. Untroubled'
    BY <1>1 DEF BrowserInv, Untroubled, server
  <1> QED
    BY <1>2, <1>3, <1>4, <1>5 DEF BrowserInv

LEMMA Receive401Keeps ==
    ASSUME BrowserInv, NEW r \in Requests, receive401(r)
    PROVE  BrowserInv'
  <1> DEFINE tab == request[r].tab
  <1>1. /\ InFlight(r) /\ UNCHANGED <<server, store, screen, gone>>
        /\ refreshing \in [Tabs -> Renewal \cup {None}]
    BY DEF receive401, InFlight, BrowserInv, TypeOK
  <1>2. /\ tab \in Tabs /\ request[r].session \in Session /\ request[r].session # None
        /\ request[r].session.pair <= issued
    BY <1>1 DEF BrowserInv, TypeOK, CacheInv, SessionInv, InFlight, Request
  <1>3. CASE /\ request[r].session = None \/ store = None
             /\ request' = [request EXCEPT ![r].stage = "refused"] /\ refreshing' = refreshing
    <2>1. issued > 0
      BY <1>2, MaxPairsAssumption DEF Session, Pairs, BrowserInv, TypeOK
    <2>2. ~(gone = {} /\ revoked = {})
      BY <1>2, <1>3, <2>1 DEF BrowserInv, Untroubled
    <2> QED
      BY <1>1, <1>3, <2>2, StageKeeps
  <1>4. CASE /\ store # None /\ request' = [request EXCEPT ![r].stage = "waiting"]
             /\ refreshing' = IF refreshing[tab] # None THEN refreshing
                              ELSE [refreshing EXCEPT ![tab] =
                                      [current |-> store, answer |-> "asked"]]
    <2> DEFINE asked == [current |-> store, answer |-> "asked"]
    <2>1. asked \in Renewal
      BY <1>4 DEF BrowserInv, TypeOK, Renewal
    <2>2. /\ refreshing' \in [Tabs -> Renewal \cup {None}]
          /\ \A b \in Tabs : refreshing'[b] = refreshing[b] \/ refreshing'[b] = asked
      <3> HIDE DEF asked
      <3> QED
        BY <1>1, <1>2, <1>4, <2>1 DEF asked
    <2> QED
      BY <1>1, <1>4, <2>2, StageKeeps
  <1> QED
    BY <1>3, <1>4 DEF receive401

(* What a renewal brought has not expired by the time it is sent: a second  *)
(* 401 means that the account no longer holds.                              *)
LEMMA ReceiveSecond401Keeps ==
    ASSUME BrowserInv, NEW r \in Requests, receiveSecond401(r)
    PROVE  BrowserInv'
  <1>1. /\ InFlight(r) /\ request' = [request EXCEPT ![r].stage = "refused"]
        /\ UNCHANGED <<server, store, screen, refreshing, gone>>
        /\ refreshing \in [Tabs -> Renewal \cup {None}]
    BY DEF receiveSecond401, InFlight, BrowserInv, TypeOK
  <1>2. /\ request[r].session # None /\ request[r].session.pair > expired
        /\ request[r].session \in Session
    BY <1>1 DEF receiveSecond401, BrowserInv, TypeOK, SessionInv, InFlight, Request
  <1>3. revoked # {}
    BY <1>2, MaxPairsAssumption
       DEF receiveSecond401, Unauthenticated, BrowserInv, TypeOK, Session, Pairs
  <1> QED
    BY <1>1, <1>3, StageKeeps

LEMMA ThrowRefusedKeeps ==
    ASSUME BrowserInv, NEW r \in Requests, throwRefused(r)
    PROVE  BrowserInv'
  <1>1. CASE request' = Settle(r) /\ UNCHANGED <<store, screen>>
    BY <1>1, SettlingKeeps DEF throwRefused
  <1>2. CASE saveSession(request[r].tab, None, Settle(r))
    <2> DEFINE reqs == Settle(r)
               tab == request[r].tab
    <2>1. /\ reqs \in [Requests -> Request] /\ reqs[r] = Settled
          /\ \A q \in Requests \ {r} : reqs[q] = request[q]
      BY SettledRequest DEF BrowserInv
    <2>2. /\ saveSession(tab, None, reqs) /\ tab \in Tabs
          /\ request[r].stage = "refused" /\ UNCHANGED <<server, refreshing, gone>>
      BY <1>2 DEF throwRefused, BrowserInv, CacheInv
    <2> HIDE DEF reqs, tab
    <2>3. /\ QueriesFit(reqs, tab, None)
          /\ \A q \in Requests : reqs[q].stage \in {"sent", "resent"} => reqs[q].session # None
      BY <2>1, BlankRequests DEF BrowserInv, SessionInv, CacheInv, QueriesFit, InFlight
    <2>4. /\ store' = None
          /\ showing' \in [Tabs -> Persons \cup {None}]
          /\ cache' \in [Tabs -> SUBSET Entry]
          /\ event' \in [Tabs -> BOOLEAN]
          /\ request' \in [Requests -> Request]
          /\ \A q \in Requests : /\ request'[q].stage = reqs[q].stage
                                 /\ request'[q].session = reqs[q].session
          /\ CacheInv'
      BY <2>1, <2>2, <2>3, SessionSaved DEF BrowserInv
    <2>5. TypeOK'
      BY <2>2, <2>4 DEF BrowserInv, TypeOK, server
    <2>6. SessionInv'
      BY <2>1, <2>2, <2>4, BlankRequests DEF BrowserInv, SessionInv, InFlight, server
    <2>7. ~(gone = {} /\ revoked = {})
      BY <2>2 DEF BrowserInv, Untroubled
    <2>8. Untroubled'
      BY <2>2, <2>7 DEF Untroubled, server
    <2> QED
      BY <2>4, <2>5, <2>6, <2>8 DEF BrowserInv
  <1> QED
    BY <1>1, <1>2 DEF throwRefused

LEMMA ExpireKeeps ==
    ASSUME BrowserInv, expire
    PROVE  BrowserInv'
  <1>1. /\ expired' = expired + 1 /\ expired < issued /\ expired + 1 \notin InUse
        /\ UNCHANGED <<issued, over, revoked, store, screen, refreshing, request, gone>>
        /\ expired \in Nat /\ issued \in Nat
    BY MaxPairsAssumption DEF expire, BrowserInv, TypeOK
  <1>2. ASSUME NEW pair \in Pairs, pair \in InUse, pair > expired
        PROVE  pair > expired'
    BY <1>1, <1>2, MaxPairsAssumption DEF Pairs
  <1>3. TypeOK'
    BY <1>1 DEF BrowserInv, TypeOK, screen
  <1>4. ASSUME NEW b \in Tabs, refreshing[b] # None, refreshing[b].answer = "renewed"
        PROVE  refreshing[b].current.pair > expired'
    <2>1. refreshing[b].current.pair \in Pairs /\ refreshing[b].current.pair > expired
      BY <1>4 DEF BrowserInv, TypeOK, SessionInv, Renewal, Session
    <2>2. refreshing[b].current.pair \in InUse
      BY <1>4 DEF InUse
    <2> QED
      BY <1>2, <2>1, <2>2
  <1>5. ASSUME NEW r \in Requests, request[r].stage = "resent"
        PROVE  request[r].session.pair > expired'
    <2>1. /\ request[r].session # None /\ request[r].session \in Session
          /\ request[r].session.pair > expired
      BY <1>5 DEF BrowserInv, TypeOK, SessionInv, InFlight, Request
    <2>2. request[r].session.pair \in InUse /\ request[r].session.pair \in Pairs
      BY <1>5, <2>1 DEF InUse, Session
    <2> QED
      BY <1>2, <2>1, <2>2
  <1>6. SessionInv'
    BY <1>1, <1>4, <1>5 DEF BrowserInv, SessionInv, InFlight
  <1>7. CacheInv' /\ Untroubled'
    BY <1>1 DEF BrowserInv, CacheInv, Untroubled, InFlight, screen
  <1> QED
    BY <1>3, <1>6, <1>7 DEF BrowserInv

LEMMA RevokeKeeps ==
    ASSUME BrowserInv, NEW sid \in Pairs, revoke(sid)
    PROVE  BrowserInv'
  BY DEF revoke, screen, BrowserInv, TypeOK, SessionInv, CacheInv, Untroubled, InFlight

LEMMA BrowserStep == BrowserInv /\ [Next]_vars => BrowserInv'
  <1> SUFFICES ASSUME BrowserInv, [Next]_vars PROVE BrowserInv'
    OBVIOUS
  <1>1. CASE UNCHANGED vars
    BY <1>1 DEF vars, BrowserInv, TypeOK, SessionInv, CacheInv, Untroubled, InFlight
  <1>2. CASE Next
    BY <1>2, LoginKeeps, LogoutKeeps, OnStorageKeeps, AnswerRefreshKeeps, LoseRefreshKeeps,
       ReceiveRefreshKeeps, EndServerSessionKeeps, RevokeKeeps, ApiKeeps, ReceiveAnswerKeeps,
       LoseRequestKeeps, Receive401Keeps, ReceiveSecond401Keeps, ThrowRefusedKeeps, ExpireKeeps
       DEF Next, RefreshAnswers, Answers
  <1> QED
    BY <1>1, <1>2

LEMMA BrowserHolds == Spec => []BrowserInv
  BY BrowserInit, BrowserStep, PTL DEF Spec

(* Cached data never outlives the person it was fetched for: a tab that has *)
(* heard of the last change of session shows the person who is signed in    *)
(* and holds nothing a query or a file fetched for anybody else, however    *)
(* many tabs, people, requests and renewals cross each other (auth.tsx 8-14 *)
(* and 48-59). The answer to "resume work", which the job's page puts into  *)
(* the cache itself (JobDetailPage.tsx 120), is not promised.               *)
THEOREM CacheFollowsPerson == Spec => []CacheIsItsPersons
  <1>1. BrowserInv => CacheIsItsPersons
    BY DEF BrowserInv, CacheInv, CacheIsItsPersons, OnlyOf
  <1> QED
    BY <1>1, BrowserHolds, PTL

(* Whoever signed in stays signed in until they sign out or the server      *)
(* refuses their session: no expired token, lost renewal or failed request, *)
(* in whatever order they arrive, empties the stored session (RefreshOutcome*)
(* and refreshSession, api.ts 138-198).                                     *)
THEOREM SignedInSurvivesSignal == Spec => []BadSignalKeepsSession
  <1>1. BrowserInv => BadSignalKeepsSession
    BY DEF BrowserInv, Untroubled, BadSignalKeepsSession
  <1> QED
    BY <1>1, BrowserHolds, PTL

(* Sessions are numbered by pairs issued.                                   *)
SidInv ==
    /\ store # None => store.sid <= issued
    /\ \A b \in Tabs : refreshing[b] # None => refreshing[b].current.sid <= issued
    /\ \A sid \in gone : sid <= issued

(* The ways a session comes to be stored: it is new, or a renewal that was  *)
(* answered brought it; and a renewal is of the session that was stored     *)
(* when it began.                                                           *)
Arrives == \/ store' \in {store, None}
           \/ issued' = issued + 1 /\ store' # None /\ store'.sid = issued'
           \/ \E b \in Tabs : /\ refreshing[b] # None /\ refreshing[b].answer = "renewed"
                              /\ store' = refreshing[b].current

Renews(b) ==
    refreshing'[b] # None =>
        \/ refreshing'[b] = refreshing[b]
        \/ store # None /\ refreshing'[b].current = store /\ refreshing'[b].answer = "asked"
        \/ /\ refreshing[b] # None
           /\ refreshing'[b].current.sid = refreshing[b].current.sid
           /\ refreshing'[b].answer = "renewed" => refreshing'[b].current.sid \notin over

SessionsMove ==
    /\ issued' \in {issued, issued + 1}
    /\ Arrives
    /\ \A b \in Tabs : Renews(b)
    /\ \A sid \in gone' : sid \in gone \/ (store # None /\ sid = store.sid)

LEMMA AnswerMoves ==
    ASSUME BrowserInv, NEW tab \in Tabs, answerRefresh(tab)
    PROVE  SessionsMove
  <1> DEFINE renewal == refreshing[tab]
  <1>1. /\ refreshing \in [Tabs -> Renewal \cup {None}]
        /\ renewal \in Renewal /\ renewal.current \in Session /\ renewal # None
        /\ UNCHANGED <<store, gone>>
    BY DEF answerRefresh, BrowserInv, TypeOK, Renewal
  <1>2. CASE /\ refreshing' = [refreshing EXCEPT ![tab].answer = "rejected"]
             /\ issued' = issued
    <2>1. /\ refreshing'[tab].current = renewal.current /\ refreshing'[tab].answer = "rejected"
          /\ \A b \in Tabs \ {tab} : refreshing'[b] = refreshing[b]
      BY <1>1, <1>2 DEF Renewal
    <2> QED
      BY <1>1, <1>2, <2>1 DEF SessionsMove, Arrives, Renews
  <1>3. CASE /\ ~Refuses(renewal.current.sid) /\ issued' = issued + 1
             /\ refreshing' = [refreshing EXCEPT
                   ![tab] = [current |-> [renewal.current EXCEPT !.pair = issued + 1],
                             answer |-> "renewed"]]
    <2>1. /\ refreshing'[tab].current.sid = renewal.current.sid
          /\ \A b \in Tabs \ {tab} : refreshing'[b] = refreshing[b]
      BY <1>1, <1>3 DEF Session
    <2>2. renewal.current.sid \notin over
      BY <1>3 DEF Refuses
    <2> QED
      BY <1>1, <1>3, <2>1, <2>2 DEF SessionsMove, Arrives, Renews
  <1> QED
    BY <1>2, <1>3 DEF answerRefresh

LEMMA RenewalEnds ==
    ASSUME BrowserInv, NEW tab \in Tabs, loseRefresh(tab) \/ receiveRefresh(tab)
    PROVE  SessionsMove
  <1>1. /\ UNCHANGED <<issued, gone>>
        /\ refreshing' = [refreshing EXCEPT ![tab] = None]
        /\ refreshing \in [Tabs -> Renewal \cup {None}]
    BY DEF loseRefresh, receiveRefresh, server, BrowserInv, TypeOK
  <1>2. \A b \in Tabs : Renews(b)
    BY <1>1 DEF Renews
  <1>3. Arrives
    BY DEF loseRefresh, receiveRefresh, unavailable, saveSession, Arrives
  <1> QED
    BY <1>1, <1>2, <1>3 DEF SessionsMove

LEMMA Receive401Moves ==
    ASSUME BrowserInv, NEW r \in Requests, receive401(r)
    PROVE  SessionsMove
  <1>1. /\ UNCHANGED <<issued, gone, store>>
        /\ refreshing \in [Tabs -> Renewal \cup {None}]
        /\ request[r].tab \in Tabs
    BY DEF receive401, server, BrowserInv, TypeOK, CacheInv
  <1>2. \/ refreshing' = refreshing
        \/ /\ store # None
           /\ refreshing' = [refreshing EXCEPT ![request[r].tab] =
                                [current |-> store, answer |-> "asked"]]
    BY DEF receive401
  <1>3. \A b \in Tabs : Renews(b)
    BY <1>1, <1>2 DEF Renews
  <1> QED
    BY <1>1, <1>3 DEF SessionsMove, Arrives

LEMMA BrowserMoves ==
    ASSUME BrowserInv, [Next]_vars
    PROVE  SessionsMove
  <1>1. ASSUME NEW tab \in Tabs, NEW user \in Persons, login(tab, user)
        PROVE  SessionsMove
    <2>1. store' # None
      BY <1>1, NoneAssumption, MaxPairsAssumption
         DEF login, saveSession, Session, Pairs, BrowserInv, TypeOK
    <2> QED
      BY <1>1, <2>1 DEF login, saveSession, SessionsMove, Arrives, Renews
  <1>2. ASSUME NEW tab \in Tabs, logout(tab) \/ onStorage(tab)
        PROVE  SessionsMove
    BY <1>2 DEF logout, onStorage, saveSession, server, SessionsMove, Arrives, Renews
  <1>3. ASSUME NEW sid \in Pairs, endServerSession(sid) \/ revoke(sid)
        PROVE  SessionsMove
    BY <1>3 DEF endServerSession, revoke, SessionsMove, Arrives, Renews
  <1>4. ASSUME NEW r \in Requests, NEW tab \in Tabs, api(r, tab)
        PROVE  SessionsMove
    BY <1>4 DEF api, server, SessionsMove, Arrives, Renews
  <1>5. ASSUME NEW r \in Requests,
               receiveAnswer(r) \/ loseRequest(r) \/ receiveSecond401(r) \/ throwRefused(r)
        PROVE  SessionsMove
    BY <1>5 DEF receiveAnswer, loseRequest, receiveSecond401, throwRefused, saveSession,
                server, SessionsMove, Arrives, Renews
  <1>6. CASE expire \/ UNCHANGED vars
    BY <1>6 DEF expire, vars, SessionsMove, Arrives, Renews
  <1> QED
    BY <1>1, <1>2, <1>3, <1>4, <1>5, <1>6, AnswerMoves, RenewalEnds, Receive401Moves
       DEF Next, Answers, RefreshAnswers

LEMMA SidStep == BrowserInv /\ SidInv /\ [Next]_vars => SidInv'
  <1> SUFFICES ASSUME BrowserInv, SidInv, [Next]_vars PROVE SidInv'
    OBVIOUS
  <1>1. SessionsMove
    BY BrowserMoves
  <1>2. /\ issued \in Nat /\ issued' \in {issued, issued + 1}
        /\ store # None => store.sid \in Nat
        /\ \A b \in Tabs : refreshing[b] # None => refreshing[b].current.sid \in Nat
        /\ \A sid \in gone : sid \in Nat
    BY <1>1, MaxPairsAssumption
       DEF BrowserInv, TypeOK, Renewal, Session, Pairs, SessionsMove
  <1>3. store' # None => store'.sid <= issued'
    BY <1>1, <1>2 DEF SessionsMove, Arrives, SidInv
  <1>4. ASSUME NEW b \in Tabs, refreshing'[b] # None
        PROVE  refreshing'[b].current.sid <= issued'
    BY <1>1, <1>2, <1>4 DEF SessionsMove, Renews, SidInv
  <1>5. \A sid \in gone' : sid <= issued'
    BY <1>1, <1>2 DEF SessionsMove, SidInv
  <1> QED
    BY <1>3, <1>4, <1>5 DEF SidInv

(* A sign-out is final once the server has it: the session the server ended *)
(* is renewed no more, a new one has a new number, so what this browser has *)
(* let go of does not come back, with any number of tabs, renewals and      *)
(* people (auth.tsx 94-96; refreshSession, api.ts 169-204).                 *)
THEOREM SignOutsStand == Spec => SignOutsAreFinal
  <1>1. Init => SidInv
    BY DEF Init, SidInv
  <1>2. ASSUME BrowserInv, SidInv, [Next]_vars, NEW sid \in over, Off(sid)
        PROVE  Off(sid)'
    <2>1. SessionsMove
      BY <1>2, BrowserMoves
    <2>2. sid <= issued /\ issued \in Nat /\ sid \in Nat
      BY <1>2, MaxPairsAssumption DEF BrowserInv, TypeOK, SessionInv, SidInv, Pairs
    <2>3. store' # None => store'.sid # sid
      BY <1>2, <2>1, <2>2 DEF SessionsMove, Arrives, Off
    <2>4. ASSUME NEW b \in Tabs, refreshing'[b] # None, refreshing'[b].answer = "renewed"
          PROVE  refreshing'[b].current.sid # sid
      BY <1>2, <2>1, <2>4 DEF SessionsMove, Renews, Off
    <2> QED
      BY <2>3, <2>4 DEF Off
  <1>3. BrowserInv /\ SidInv /\ [Next]_vars => [\A sid \in over : Off(sid) => Off(sid)']_vars
    BY <1>2
  <1> QED
    BY <1>1, <1>3, BrowserHolds, SidStep, PTL DEF Spec, SignOutsAreFinal

-----------------------------------------------------------------------------
(* A file the adopted page needs is stored, or was given up as text; the    *)
(* page is stored once all of them were looked at, and the files that go    *)
(* are none of them.                                                        *)
Gathered(a) ==
    \A f \in a.needed : \/ f \in shell.files
                        \/ f \notin Named[a.page] /\ (f \in Built[a.page] => a.torn)

Adopted(a) ==
    a.step # "gathering" =>
        /\ shell.page = a.page /\ shell.torn = a.torn
        /\ Named[a.page] \cup Inner[a.page] \subseteq a.needed
        /\ a.step = "pruning" => a.doomed \cap a.needed = {}

ShellInv == /\ ShellTypeOK /\ ReleaseIsWhole
            /\ adoption # Nothing => Gathered(adoption) /\ Adopted(adoption)

LEMMA ShellStarts == ShellInit => ShellInv
  BY ShellBoundsAssumption, NothingAssumption
     DEF ShellInit, ShellInv, ShellTypeOK, ReleaseIsWhole, Shell, Adoption

(* What an open page or a gathered one brings is added to the cache.        *)
LEMMA FilesAdded ==
    ASSUME ShellInv, NEW f \in Files, shell' = [shell EXCEPT !.files = @ \cup {f}]
    PROVE  /\ shell' \in Shell /\ f \in shell'.files
           /\ shell'.page = shell.page /\ shell'.torn = shell.torn
           /\ shell.files \subseteq shell'.files
           /\ ReleaseIsWhole'
  <1>1. /\ shell' \in Shell /\ f \in shell'.files
        /\ shell'.page = shell.page /\ shell'.torn = shell.torn
        /\ shell.files \subseteq shell'.files
    BY DEF ShellInv, ShellTypeOK, Shell
  <1> QED
    BY <1>1 DEF ShellInv, ReleaseIsWhole

LEMMA RequestAssetKeeps ==
    ASSUME ShellInv, requestAsset
    PROVE  ShellInv'
  <1>1. PICK r \in open, f \in Built[live] \ shell.files :
              /\ f \in Named[r] \cup Inner[r]
              /\ shell' = [shell EXCEPT !.files = @ \cup {f}]
              /\ UNCHANGED <<live, deploys, loads, open, adopting, adoption>>
    BY DEF requestAsset
  <1>2. f \in Files
    BY <1>1, FilesAssumption DEF ShellInv, ShellTypeOK
  <1>3. ShellTypeOK' /\ ReleaseIsWhole'
    BY <1>1, <1>2, FilesAdded DEF ShellInv, ShellTypeOK
  <1>4. adoption' # Nothing => Gathered(adoption)' /\ Adopted(adoption)'
    BY <1>1, <1>2, FilesAdded DEF ShellInv, Gathered, Adopted
  <1> QED
    BY <1>3, <1>4 DEF ShellInv

LEMMA StoredKeeps ==
    ASSUME ShellInv, NEW f \in Files, stored(f)
    PROVE  ShellInv'
  <1>1. /\ adoption # Nothing /\ adoption.step = "gathering" /\ adoption \in Adoption
        /\ shell' = [shell EXCEPT !.files = @ \cup {f}]
        /\ adoption' = [adoption EXCEPT !.needed = @ \cup {f}]
        /\ UNCHANGED <<live, deploys, loads, open, adopting>>
    BY DEF stored, gathering, ShellInv, ShellTypeOK
  <1>2. /\ adoption' \in Adoption /\ adoption'.needed = adoption.needed \cup {f}
        /\ adoption'.page = adoption.page /\ adoption'.torn = adoption.torn
        /\ adoption'.step = "gathering"
    BY <1>1 DEF Adoption
  <1>3. ShellTypeOK' /\ ReleaseIsWhole'
    BY <1>1, <1>2, FilesAdded DEF ShellInv, ShellTypeOK
  <1>4. Gathered(adoption)' /\ Adopted(adoption)'
    BY <1>1, <1>2, FilesAdded DEF ShellInv, Gathered, Adopted
  <1> QED
    BY <1>3, <1>4 DEF ShellInv

(* A name the server does not know is text; if it was a file when the page  *)
(* was fetched, the page is torn.                                           *)
LEMMA NotAFileKeeps ==
    ASSUME ShellInv, NEW f \in Files, notAFile(f)
    PROVE  ShellInv'
  <1>1. /\ adoption # Nothing /\ adoption.step = "gathering" /\ adoption \in Adoption
        /\ f \notin Named[adoption.page]
        /\ adoption' = [adoption EXCEPT !.needed = @ \cup {f},
                                        !.torn = @ \/ f \in Built[adoption.page]]
        /\ UNCHANGED <<live, deploys, loads, open, shell, adopting>>
    BY DEF notAFile, gathering, ShellInv, ShellTypeOK
  <1>2. /\ adoption' \in Adoption /\ adoption'.needed = adoption.needed \cup {f}
        /\ adoption'.page = adoption.page /\ adoption'.step = "gathering"
    BY <1>1 DEF Adoption
  <1>3. adoption'.torn = (adoption.torn \/ f \in Built[adoption.page])
    BY <1>1 DEF Adoption
  <1>4. ShellTypeOK' /\ ReleaseIsWhole'
    BY <1>1, <1>2 DEF ShellInv, ShellTypeOK, ReleaseIsWhole
  <1>5. Gathered(adoption)' /\ Adopted(adoption)'
    BY <1>1, <1>2, <1>3 DEF ShellInv, Gathered, Adopted
  <1> QED
    BY <1>4, <1>5 DEF ShellInv

(* The page is stored when nothing it needs is left to look at.             *)
LEMMA StorePageKeeps ==
    ASSUME ShellInv, storePage
    PROVE  ShellInv'
  <1>1. /\ adoption # Nothing /\ adoption \in Adoption
        /\ shell' = [shell EXCEPT !.page = adoption.page, !.torn = adoption.torn]
        /\ adoption' = [adoption EXCEPT !.step = "listing"]
        /\ UNCHANGED <<live, deploys, loads, open, adopting>>
    BY DEF storePage, gathering, ShellInv, ShellTypeOK
  <1>2. Named[adoption.page] \cup Inner[adoption.page] \subseteq adoption.needed
    BY DEF storePage, queue, required, found
  <1>3. /\ shell' \in Shell /\ shell'.page = adoption.page /\ shell'.torn = adoption.torn
        /\ shell'.files = shell.files
    BY <1>1 DEF ShellInv, ShellTypeOK, Shell, Adoption
  <1>4. /\ adoption' \in Adoption /\ adoption'.needed = adoption.needed
        /\ adoption'.page = adoption.page /\ adoption'.torn = adoption.torn
        /\ adoption'.step = "listing"
    BY <1>1 DEF Adoption
  <1>5. ShellTypeOK'
    BY <1>1, <1>3, <1>4 DEF ShellInv, ShellTypeOK
  <1>6. Gathered(adoption)' /\ Adopted(adoption)'
    BY <1>1, <1>2, <1>3, <1>4 DEF ShellInv, Gathered, Adopted
  <1>7. ReleaseIsWhole'
    BY <1>1, <1>2, <1>3 DEF ShellInv, Gathered, ReleaseIsWhole
  <1> QED
    BY <1>5, <1>6, <1>7 DEF ShellInv

LEMMA ListKeeps ==
    ASSUME ShellInv, list
    PROVE  ShellInv'
  <1>1. /\ adoption # Nothing /\ adoption \in Adoption /\ adoption.step = "listing"
        /\ adoption' = [adoption EXCEPT !.step = "pruning",
                                        !.doomed = shell.files \ adoption.needed]
        /\ UNCHANGED <<live, deploys, loads, open, shell, adopting>>
    BY DEF list, ShellInv, ShellTypeOK
  <1>2. /\ adoption' \in Adoption /\ adoption'.needed = adoption.needed
        /\ adoption'.page = adoption.page /\ adoption'.torn = adoption.torn
        /\ adoption'.step = "pruning" /\ adoption'.doomed = shell.files \ adoption.needed
    BY <1>1 DEF Adoption, ShellInv, ShellTypeOK, Shell
  <1>3. ShellTypeOK' /\ ReleaseIsWhole'
    BY <1>1, <1>2 DEF ShellInv, ShellTypeOK, ReleaseIsWhole
  <1>4. Gathered(adoption)' /\ Adopted(adoption)'
    BY <1>1, <1>2 DEF ShellInv, Gathered, Adopted
  <1> QED
    BY <1>3, <1>4 DEF ShellInv

LEMMA PruneKeeps ==
    ASSUME ShellInv, prune
    PROVE  ShellInv'
  <1>1. /\ adoption # Nothing /\ adoption \in Adoption /\ adoption.step = "pruning"
        /\ UNCHANGED <<live, deploys, loads, open, adopting>>
    BY DEF prune, ShellInv, ShellTypeOK
  <1>2. CASE adoption' = Nothing /\ shell' = shell
    BY <1>1, <1>2 DEF ShellInv, ShellTypeOK, ReleaseIsWhole
  <1>3. ASSUME NEW f \in adoption.doomed,
               shell' = [shell EXCEPT !.files = @ \ {f}],
               adoption' = [adoption EXCEPT !.doomed = @ \ {f}]
        PROVE  ShellInv'
    <2>1. /\ shell' \in Shell /\ shell'.page = shell.page /\ shell'.torn = shell.torn
          /\ shell'.files = shell.files \ {f}
      BY <1>3 DEF ShellInv, ShellTypeOK, Shell
    <2>2. /\ adoption' \in Adoption /\ adoption'.needed = adoption.needed
          /\ adoption'.page = adoption.page /\ adoption'.torn = adoption.torn
          /\ adoption'.step = "pruning" /\ adoption'.doomed = adoption.doomed \ {f}
      BY <1>1, <1>3 DEF Adoption
    <2>3. f \notin adoption.needed
      BY <1>1, <1>3 DEF ShellInv, Adopted
    <2>4. ShellTypeOK'
      BY <1>1, <2>1, <2>2 DEF ShellInv, ShellTypeOK
    <2>5. Gathered(adoption)' /\ Adopted(adoption)'
      BY <1>1, <2>1, <2>2, <2>3 DEF ShellInv, Gathered, Adopted
    <2>6. ReleaseIsWhole'
      BY <1>1, <2>1, <2>3 DEF ShellInv, Adopted, ReleaseIsWhole
    <2> QED
      BY <2>4, <2>5, <2>6 DEF ShellInv
  <1> QED
    BY <1>2, <1>3 DEF prune

(* Another page is taken up, from nothing.                                  *)
LEMMA AdoptKeeps ==
    ASSUME ShellInv, adopt
    PROVE  ShellInv'
  <1> DEFINE page == Head(adopting)
  <1>1. /\ adopting \in Seq(Releases) /\ adopting # <<>>
        /\ adoption' = toAdopt(page) /\ adopting' = Tail(adopting)
        /\ UNCHANGED <<live, deploys, loads, open, shell>>
    BY DEF adopt, ShellInv, ShellTypeOK
  <1>2. page \in Releases /\ Tail(adopting) \in Seq(Releases)
    BY <1>1
  <1> HIDE DEF page
  <1>3. /\ adoption' \in Adoption /\ adoption'.needed = {} /\ adoption'.step = "gathering"
    BY <1>1, <1>2 DEF toAdopt, Adoption
  <1>4. ShellTypeOK' /\ ReleaseIsWhole'
    BY <1>1, <1>2, <1>3 DEF ShellInv, ShellTypeOK, ReleaseIsWhole
  <1>5. Gathered(adoption)' /\ Adopted(adoption)'
    BY <1>3 DEF Gathered, Adopted
  <1> QED
    BY <1>4, <1>5 DEF ShellInv

LEMMA ShellStep == ShellInv /\ [ShellNext]_shellVars => ShellInv'
  <1> SUFFICES ASSUME ShellInv, [ShellNext]_shellVars PROVE ShellInv'
    OBVIOUS
  <1>1. CASE UNCHANGED <<shell, adoption>> /\ ShellTypeOK'
    BY <1>1 DEF ShellInv, ReleaseIsWhole, Gathered, Adopted
  <1>2. CASE UNCHANGED shellVars
    BY <1>2 DEF shellVars, ShellInv, ShellTypeOK, ReleaseIsWhole, Gathered, Adopted
  <1>3. CASE deploy
    BY <1>1, <1>3, ShellBoundsAssumption DEF deploy, ShellInv, ShellTypeOK
  <1>4. CASE navigate
    <2>1. Append(adopting, live) \in Seq(Releases)
      BY DEF ShellInv, ShellTypeOK
    <2> QED
      BY <1>1, <1>4, <2>1, ShellBoundsAssumption DEF navigate, ShellInv, ShellTypeOK
  <1>5. CASE navigateOffline
    BY <1>1, <1>5 DEF navigateOffline, ShellInv, ShellTypeOK, Shell
  <1>6. CASE giveUp
    BY <1>6 DEF giveUp, ShellInv, ShellTypeOK, ReleaseIsWhole
  <1>7. CASE stop
    BY <1>7 DEF stop, ShellInv, ShellTypeOK, ReleaseIsWhole
  <1> QED
    BY <1>2, <1>3, <1>4, <1>5, <1>6, <1>7, RequestAssetKeeps, AdoptKeeps, StoredKeeps,
       NotAFileKeeps, StorePageKeeps, ListKeeps, PruneKeeps DEF ShellNext

(* A release is kept whole or not taken at all: the page that opens without *)
(* a connection has every file it can load beside it, whichever files and   *)
(* releases there are and wherever a download fails, the worker is stopped  *)
(* or the server moves on (public/sw.js, gather and adopt).                 *)
THEOREM OfflinePageIsWhole == ShellSpec => []ReleaseIsWhole
  <1>1. ShellInv => ReleaseIsWhole
    BY DEF ShellInv
  <1> QED
    BY <1>1, ShellStarts, ShellStep, PTL DEF ShellSpec

-----------------------------------------------------------------------------
(* The ranking of centres. Sorting needs no induction over sequences: of    *)
(* the finite sets that could not be sorted, none is smallest.              *)

(* A strict order, and a sequence of what is in V that keeps to it.         *)
OrderedBy(R, V) == /\ \A a \in V : <<a, a>> \notin R
                   /\ \A a, b, c \in V : <<a, b>> \in R /\ <<b, c>> \in R => <<a, c>> \in R

Sorts(s, R) == \A i, j \in DOMAIN s : i < j => <<s[j], s[i]>> \notin R

Sortable(V, R) == \E s \in SetToSeqs(V) : Sorts(s, R)

LEMMA SmallestSubset ==
    ASSUME NEW S, IsFiniteSet(S), NEW T \in SUBSET SUBSET S, T # {}
    PROVE  \E V \in T : \A W \in T : ~(W \subseteq V /\ W # V)
  <1>1. IsWellFoundedOn(StrictSubsetOrdering(S), SUBSET S)
    BY FS_StrictSubsetOrderingWellFounded, FS_FiniteSubsetsOfFinite
  <1>2. PICK V \in T : \A W \in T : <<W, V>> \notin StrictSubsetOrdering(S)
    BY <1>1, WFMin
  <1> QED
    BY <1>2 DEF StrictSubsetOrdering

(* Of what is in a finite set, something comes before nothing else in it.   *)
LEMMA LastExists ==
    ASSUME NEW V, IsFiniteSet(V), V # {}, NEW R, OrderedBy(R, V)
    PROVE  \E m \in V : \A y \in V : <<m, y>> \notin R
  <1> DEFINE After(x) == {y \in V : <<x, y>> \in R}
             T == {After(x) : x \in V}
  <1>1. PICK A \in T : \A W \in T : ~(W \subseteq A /\ W # A)
    <2>1. T \in SUBSET SUBSET V /\ T # {}
      OBVIOUS
    <2> HIDE DEF T
    <2> QED
      BY <2>1, SmallestSubset
  <1>2. PICK m \in V : A = After(m)
    BY <1>1
  <1>3. ASSUME NEW y \in V, <<m, y>> \in R PROVE FALSE
    <2>1. After(y) \subseteq After(m)
      BY <1>3 DEF OrderedBy
    <2>2. y \in After(m) /\ y \notin After(y)
      BY <1>3 DEF OrderedBy
    <2> QED
      BY <1>1, <1>2, <2>1, <2>2
  <1> QED
    BY <1>3

LEMMA SortedWithLast ==
    ASSUME NEW V, IsFiniteSet(V), NEW R, NEW m \in V, \A y \in V : <<m, y>> \notin R,
           Sortable(V \ {m}, R)
    PROVE  Sortable(V, R)
  <1> DEFINE W == V \ {m}
             n == Cardinality(V)
  <1>1. n \in Nat /\ n > 0 /\ Cardinality(W) = n - 1
    <2>1. IsFiniteSet(W) /\ Cardinality(W) = n - 1
      BY FS_RemoveElement
    <2>2. n \in Nat /\ Cardinality(W) \in Nat
      BY <2>1, FS_CardinalityType
    <2> QED
      BY <2>1, <2>2
  <1>2. PICK s \in SetToSeqs(W) : Sorts(s, R)
    BY DEF Sortable
  <1>3. s \in [1..(n - 1) -> W] /\ \A i, j \in 1..(n - 1) : i # j => s[i] # s[j]
    BY <1>1 DEF SetToSeqs
  <1> DEFINE t == [i \in 1..n |-> IF i = n THEN m ELSE s[i]]
  <1> HIDE DEF n
  <1>4. t \in [1..n -> V] /\ \A i, j \in 1..n : i # j => t[i] # t[j]
    BY <1>1, <1>3
  <1>5. t \in SetToSeqs(V)
    BY <1>4 DEF SetToSeqs, n
  <1>6. ASSUME NEW i \in 1..n, NEW j \in 1..n, i < j PROVE <<t[j], t[i]>> \notin R
    <2>1. CASE j = n
      BY <1>4, <2>1
    <2>2. CASE j # n
      <3>1. i \in 1..(n - 1) /\ j \in 1..(n - 1)
        BY <1>1, <1>6, <2>2
      <3> QED
        BY <1>1, <1>2, <1>3, <1>6, <3>1 DEF Sorts
    <2> QED
      BY <2>1, <2>2
  <1>7. Sorts(t, R)
    BY <1>4, <1>6 DEF Sorts
  <1> QED
    BY <1>5, <1>7 DEF Sortable

(* So any finite set can be put in order: the smallest one that could not   *)
(* be would still be in order without its last.                             *)
LEMMA SortingExists ==
    ASSUME NEW S, IsFiniteSet(S), NEW R, OrderedBy(R, S)
    PROVE  Sortable(S, R)
  <1> DEFINE T == {V \in SUBSET S : ~Sortable(V, R)}
  <1>1. SUFFICES ASSUME T # {} PROVE FALSE
    OBVIOUS
  <1>2. PICK V \in T : \A W \in T : ~(W \subseteq V /\ W # V)
    <2>1. T \in SUBSET SUBSET S
      OBVIOUS
    <2> HIDE DEF T
    <2> QED
      BY <1>1, <2>1, SmallestSubset
  <1>3. IsFiniteSet(V) /\ OrderedBy(R, V)
    BY FS_Subset DEF OrderedBy
  <1>4. V # {}
    <2>1. Cardinality({}) = 0
      BY FS_EmptySet
    <2>2. << >> \in SetToSeqs({})
      BY <2>1 DEF SetToSeqs
    <2>3. Sorts(<< >>, R)
      BY DEF Sorts
    <2> QED
      BY <2>2, <2>3 DEF Sortable
  <1>5. PICK m \in V : \A y \in V : <<m, y>> \notin R
    BY <1>3, <1>4, LastExists
  <1>6. Sortable(V \ {m}, R)
    BY <1>2, <1>5
  <1> QED
    BY <1>2, <1>3, <1>5, <1>6, SortedWithLast

LEMMA SortedInOrder ==
    ASSUME NEW S, IsFiniteSet(S), NEW R, OrderedBy(R, S)
    PROVE  sorted(S, R) \in SetToSeqs(S) /\ Sorts(sorted(S, R), R)
  <1>1. \E s \in SetToSeqs(S) : Sorts(s, R)
    BY SortingExists DEF Sortable
  <1> QED
    BY <1>1 DEF sorted, Sorts

(* A sequence of a set has each of its elements once.                       *)
LEMMA SequenceOfSet ==
    ASSUME NEW S, IsFiniteSet(S), NEW s \in SetToSeqs(S)
    PROVE  /\ Cardinality(S) \in Nat /\ s \in [1..Cardinality(S) -> S]
           /\ Len(s) = Cardinality(S) /\ s \in Seq(S)
           /\ {s[i] : i \in DOMAIN s} = S
  <1> DEFINE n == Cardinality(S)
  <1>1. n \in Nat
    BY FS_CardinalityType
  <1>2. s \in [1..n -> S] /\ \A i, j \in 1..n : i # j => s[i] # s[j]
    BY DEF SetToSeqs
  <1> HIDE DEF n
  <1>3. s \in Injection(1..n, S)
    BY <1>2 DEF Injection, IsInjective
  <1>4. IsFiniteSet(1..n) /\ Cardinality(1..n) = n
    BY <1>1, FS_Interval
  <1>5. s \in Surjection(1..n, S)
    BY <1>3, <1>4, FS_Injection DEF n
  <1>6. {s[i] : i \in DOMAIN s} = S
    BY <1>2, <1>5 DEF Surjection
  <1> QED
    BY <1>1, <1>2, <1>6 DEF n

Reasons == {"SERVES_PINCODE", "SERVES_CITY", "LOCATED_IN_CITY", "SAME_TERRITORY", "NO_MATCH"}

LEMMA ReasonGiven == \A z, query : classify(z, query) \in Reasons
  BY DEF classify, Reasons

LEMMA ScoreOfReason == \A r \in Reasons : SCORES[r] \in Int
  BY DEF SCORES, Reasons

(* What covers a place more closely has the higher score.                   *)
LEMMA CloserScores ==
    ASSUME NEW a, NEW b, NEW query, Closer(a, b, query),
           b.pincode # Missing, a.pincode # Missing
    PROVE  /\ SCORES[classify(a, query)] > SCORES[classify(b, query)]
           /\ classify(a, query) # "NO_MATCH"
  <1> DEFINE here(z) == query.pincode # Missing /\ query.pincode \in z.servedPincodes \cup {z.pincode}
             inTown(z) == query.city # Missing /\ query.city \in z.servedCities \cup {z.city}
  <1>1. ~here(b) /\ (here(a) \/ (inTown(a) /\ ~inTown(b)))
    BY DEF Closer
  <1>2. classify(b, query) # "SERVES_PINCODE"
    BY <1>1 DEF classify
  <1>3. CASE here(a)
    <2>1. classify(a, query) = "SERVES_PINCODE"
      BY <1>3 DEF classify
    <2>2. classify(b, query) \in Reasons \ {"SERVES_PINCODE"}
      BY <1>2, ReasonGiven
    <2> HIDE DEF here, inTown
    <2> QED
      BY <2>1, <2>2 DEF SCORES, Reasons
  <1>4. CASE inTown(a) /\ ~inTown(b)
    <2>1. classify(a, query) \in {"SERVES_PINCODE", "SERVES_CITY", "LOCATED_IN_CITY"}
      BY <1>4 DEF classify
    <2>2. classify(b, query) \in {"SAME_TERRITORY", "NO_MATCH"}
      BY <1>1, <1>4 DEF classify
    <2> HIDE DEF here, inTown
    <2> QED
      BY <2>1, <2>2 DEF SCORES
  <1> QED
    BY <1>1, <1>3, <1>4

(* The ranking keeps its promise for any centres and any query: every       *)
(* active centre is listed once and no other, none after one that covers    *)
(* the address less closely, and the ones at the address among those        *)
(* proposed (recommendServiceCenters, recommendation.service.ts 152-181).   *)
THEOREM RankingIsFair ==
    ASSUME NEW candidates, IsFiniteSet(candidates), NEW query,
           \A z \in candidates : z.name \in Int /\ z.pincode # Missing
    PROVE  RanksFairly(candidates, query)
  <1> DEFINE active == {x \in candidates : x.isActive}
             entry(z) == [center |-> z, reason |-> classify(z, query)]
             entries == {entry(z) : z \in active}
             byName == {p \in entries \X entries : p[1].center.name < p[2].center.name}
             better == {p \in entries \X entries :
                           \/ SCORES[p[1].reason] > SCORES[p[2].reason]
                           \/ SCORES[p[1].reason] = SCORES[p[2].reason] /\ p \in byName}
             matching == {e \in entries : e.reason # "NO_MATCH"}
             rest == entries \ matching
             first == sorted(matching, better)
             then == sorted(rest, byName)
             ranked == first \o then
             result == recommendServiceCenters(candidates, query)
  <1>1. result.recommended = first /\ result.others = then /\ listed(result) = ranked
    BY DEF recommendServiceCenters, listed
  <1>2. \A e \in entries : /\ e.center \in active /\ e.reason = classify(e.center, query)
                           /\ e.center.name \in Int /\ e.center.pincode # Missing
                           /\ SCORES[e.reason] \in Int
    BY ReasonGiven, ScoreOfReason
  <1>3. IsFiniteSet(entries) /\ Cardinality(entries) = Cardinality(active)
    <2>1. IsFiniteSet(active)
      BY FS_Subset
    <2> DEFINE f == [z \in active |-> entry(z)]
    <2>2. f \in Bijection(active, entries)
      BY DEF Bijection, Injection, Surjection, IsInjective
    <2> HIDE DEF f
    <2>3. ExistsBijection(active, entries)
      BY <2>2 DEF ExistsBijection
    <2> HIDE DEF active, entries
    <2> QED
      BY <2>1, <2>3, FS_Bijection
  <1>4. /\ IsFiniteSet(matching) /\ IsFiniteSet(rest)
        /\ Cardinality(matching) + Cardinality(rest) = Cardinality(active)
    <2>1. IsFiniteSet(matching) /\ IsFiniteSet(rest)
      <3> HIDE DEF entries
      <3> QED
        BY <1>3, FS_Subset
    <2>2. matching \cup rest = entries /\ matching \cap rest = {}
      OBVIOUS
    <2>3. Cardinality({}) = 0
      BY FS_EmptySet
    <2>4. Cardinality(matching) \in Nat /\ Cardinality(rest) \in Nat
      BY <2>1, FS_CardinalityType
    <2> HIDE DEF matching, rest, entries
    <2>5. Cardinality(entries) = Cardinality(matching) + Cardinality(rest) - Cardinality({})
      BY <2>1, <2>2, FS_Union
    <2> QED
      BY <1>3, <2>1, <2>3, <2>4, <2>5
  <1> HIDE DEF entries, active
  <1>5. first \in SetToSeqs(matching) /\ Sorts(first, better)
    <2>1. OrderedBy(better, matching)
      BY <1>2 DEF OrderedBy
    <2> HIDE DEF matching, better
    <2> QED
      BY <1>4, <2>1, SortedInOrder
  <1>6. then \in SetToSeqs(rest) /\ Sorts(then, byName)
    <2>1. OrderedBy(byName, rest)
      BY <1>2 DEF OrderedBy
    <2> HIDE DEF rest, byName
    <2> QED
      BY <1>4, <2>1, SortedInOrder
  <1> DEFINE m == Cardinality(matching)
             k == Cardinality(rest)
  <1> HIDE DEF first, then
  <1>7. /\ m \in Nat /\ first \in [1..m -> matching] /\ Len(first) = m /\ first \in Seq(matching)
        /\ {first[i] : i \in DOMAIN first} = matching
    <2> HIDE DEF matching
    <2> QED
      BY <1>4, <1>5, SequenceOfSet
  <1>8. /\ k \in Nat /\ then \in [1..k -> rest] /\ Len(then) = k /\ then \in Seq(rest)
        /\ {then[i] : i \in DOMAIN then} = rest
    <2> HIDE DEF rest
    <2> QED
      BY <1>4, <1>6, SequenceOfSet
  <1> HIDE DEF m, k
  <1>9. /\ DOMAIN ranked = 1..(m + k) /\ Len(ranked) = m + k
        /\ \A i \in 1..m : ranked[i] = first[i]
        /\ \A i \in (m + 1)..(m + k) : ranked[i] = then[i - m]
    <2>1. first \in Seq(entries) /\ then \in Seq(entries)
      BY <1>7, <1>8
    <2>2. /\ ranked \in Seq(entries) /\ Len(ranked) = Len(first) + Len(then)
          /\ \A i \in 1..(Len(first) + Len(then)) :
                ranked[i] = IF i <= Len(first) THEN first[i] ELSE then[i - Len(first)]
      BY <2>1, ConcatProperties
    <2>3. DOMAIN ranked = 1..Len(ranked)
      BY <2>2
    <2> HIDE DEF matching, rest, ranked
    <2>4. \A i \in 1..(m + k) : ranked[i] = IF i <= m THEN first[i] ELSE then[i - m]
      BY <1>7, <1>8, <2>2
    <2> QED
      BY <1>7, <1>8, <2>2, <2>3, <2>4
  <1>10. \A i \in 1..(m + k) : /\ i <= m => ranked[i] \in matching
                               /\ i > m => ranked[i] \in rest
    <2> HIDE DEF matching, rest, ranked
    <2> QED
      BY <1>7, <1>8, <1>9
  <1>11. {ranked[i] : i \in DOMAIN ranked} = entries
    <2>1. \A e \in matching : \E i \in 1..m : ranked[i] = e
      <3> HIDE DEF matching, ranked
      <3> QED
        BY <1>7, <1>9
    <2>2. \A e \in rest : \E i \in (m + 1)..(m + k) : ranked[i] = e
      <3> SUFFICES ASSUME NEW e \in rest PROVE \E i \in (m + 1)..(m + k) : ranked[i] = e
        OBVIOUS
      <3> HIDE DEF rest, ranked
      <3>1. PICK j \in 1..k : then[j] = e
        BY <1>8
      <3>2. m + j \in (m + 1)..(m + k) /\ (m + j) - m = j
        BY <1>7, <1>8, <3>1
      <3>3. ranked[m + j] = e
        BY <1>9, <3>1, <3>2
      <3> QED
        BY <3>2, <3>3
    <2>3. \A i \in 1..(m + k) : ranked[i] \in entries
      <3> HIDE DEF ranked
      <3> QED
        BY <1>7, <1>8, <1>10
    <2>4. 1..m \subseteq DOMAIN ranked /\ (m + 1)..(m + k) \subseteq DOMAIN ranked
      BY <1>7, <1>8, <1>9
    <2> HIDE DEF ranked
    <2> QED
      BY <1>9, <2>1, <2>2, <2>3, <2>4
  <1>12. Len(ranked) = Cardinality(active)
    BY <1>4, <1>9 DEF m, k
  <1> HIDE DEF ranked
  <1>13. {ranked[i].center : i \in DOMAIN ranked} = active
    <2>1. \A z \in active : entry(z) \in entries /\ entry(z).center = z
      BY DEF entries
    <2>2. {e.center : e \in entries} = active
      BY <1>2, <2>1
    <2> QED
      BY <1>11, <2>2
  <1>14. ASSUME NEW i \in DOMAIN ranked, NEW j \in DOMAIN ranked, i < j,
                Closer(ranked[j].center, ranked[i].center, query)
         PROVE  FALSE
    <2>1. ranked[i] \in entries /\ ranked[j] \in entries /\ i \in 1..(m + k) /\ j \in 1..(m + k)
      BY <1>9, <1>11
    <2>2. /\ SCORES[ranked[j].reason] > SCORES[ranked[i].reason]
          /\ ranked[j].reason # "NO_MATCH"
      BY <1>2, <1>14, <2>1, CloserScores
    <2>3. j <= m /\ i <= m
      BY <1>7, <1>8, <1>10, <1>14, <2>1, <2>2
    <2>4. <<first[j], first[i]>> \in better
      BY <1>7, <1>9, <2>1, <2>2, <2>3
    <2>5. i \in DOMAIN first /\ j \in DOMAIN first
      BY <1>7, <2>1, <2>3
    <2> HIDE DEF better
    <2> QED
      BY <1>5, <1>14, <2>4, <2>5 DEF Sorts
  <1>15. ASSUME NEW i \in DOMAIN ranked, ranked[i].center.pincode = query.pincode
         PROVE  i <= Len(first)
    <2>1. ranked[i] \in entries /\ i \in 1..(m + k)
      BY <1>9, <1>11
    <2>2. ranked[i].reason = "SERVES_PINCODE"
      BY <1>2, <1>15, <2>1 DEF classify
    <2> QED
      BY <1>7, <1>8, <1>10, <2>1, <2>2
  <1> QED
    BY <1>1, <1>12, <1>13, <1>14, <1>15 DEF RanksFairly, active

-----------------------------------------------------------------------------
(* A customer chosen or matched is one the server has, a model chosen is    *)
(* one of the product shown, and so is what was sent of them.               *)
ChoiceOK == /\ onFile \subseteq Customers /\ customer \in Customers \cup {Unset}
            /\ newCustomer \in [mobile : Customers \cup {Unset}, home : Addresses \cup {Unset}]

AddressOK == useDifferentAddress \in BOOLEAN /\ serviceAddress \in Addresses \cup {Unset}

ModelOK == productModelId # Unset => /\ productModelId \in Models
                                     /\ ProductOf[productModelId] = productId

SentOK == pending # Unset => pending.customer \in Customers

(* Centres the ranking can put in order: of finite number, each with a name *)
(* and an address.                                                          *)
Places(set) == IsFiniteSet(set) /\ \A z \in set : z.name \in Int /\ z.pincode # Missing

NamesOf(set) == {z.name : z \in set}

(* A list is of the server's centres and has every one that was active all  *)
(* along.                                                                   *)
Complete(centres) == \/ centres = Unset
                     \/ /\ NamesOf(centers) \ closed \subseteq centres
                        /\ centres \subseteq NamesOf(centers)

(* The centre chosen is one of the server's.                                *)
CentersOK == /\ Places(centers)
             /\ \A z \in centers : z.isActive \/ z.name \in closed
             /\ lists = [q \in Queries |-> lists[q]]
             /\ \A q \in Queries : Complete(lists[q])
             /\ serviceCenterId \in NamesOf(centers) \cup {Unset}

FormInv == ChoiceOK /\ AddressOK /\ ModelOK /\ SentOK /\ CentersOK /\ SentAsShown

(* What the ranking lists, from the promise it keeps.                       *)
LEMMA ListedAreActive ==
    ASSUME Places(centers)
    PROVE  options(recommendations) = NamesOf({z \in centers : z.isActive})
  <1> DEFINE query == [pincode |-> location.pincode,
                       city |-> IF cityNamed THEN location.city ELSE Missing,
                       territory |-> Missing]
             ranked == listed(recommendServiceCenters(centers, query))
  <1>1. RanksFairly(centers, query)
    BY RankingIsFair DEF Places
  <1>2. {ranked[i].center : i \in DOMAIN ranked} = {z \in centers : z.isActive}
    BY <1>1 DEF RanksFairly
  <1>3. options(recommendations) = {ranked[i].center.name : i \in DOMAIN ranked}
    BY DEF options, recommendations, named
  <1> HIDE DEF ranked
  <1>4. {ranked[i].center.name : i \in DOMAIN ranked} = NamesOf({ranked[i].center : i \in DOMAIN ranked})
    BY DEF NamesOf
  <1> QED
    BY <1>2, <1>3, <1>4

LEMMA OfferedIsComplete ==
    ASSUME FormInv
    PROVE  Complete(offered)
  <1>1. location \in Addresses \cup {Unset}
    BY FormAssumption DEF FormInv, ChoiceOK, AddressOK, location, defaultAddress, onRecord
  <1>2. cityNamed \in BOOLEAN
    BY DEF cityNamed, FormInv, AddressOK
  <1>3. CASE location = Unset
    BY <1>3 DEF offered, Complete
  <1>4. CASE location # Unset
    <2>1. <<location, cityNamed>> \in Queries
      BY <1>1, <1>2, <1>4 DEF Queries
    <2> QED
      BY <1>4, <2>1 DEF offered, FormInv, CentersOK
  <1> QED
    BY <1>3, <1>4

LEMMA BlankForm ==
    ASSUME createAnother, NEW known \in SUBSET Customers, onFile' = known,
           UNCHANGED <<centers, closed>>, CentersOK
    PROVE  FormInv'
  <1>1. ChoiceOK' /\ AddressOK' /\ ModelOK' /\ SentOK' /\ SentAsShown'
    BY DEF createAnother, ChoiceOK, AddressOK, ModelOK, SentOK, SentAsShown
  <1>2. CentersOK'
    BY DEF createAnother, CentersOK, Complete
  <1> QED
    BY <1>1, <1>2 DEF FormInv

(* The address part is hidden only beside a customer whose city is missing  *)
(* from the list: whoever else is complete has a default address.           *)
LEMMA SubmitKeeps ==
    ASSUME FormInv, send
    PROVE  FormInv'
  <1> DEFINE whom == IF onRecord THEN customer ELSE newCustomer.mobile
  <1>1. /\ UNCHANGED <<world, person, address, product, serviceCenterId, lists>>
        /\ customerComplete /\ productModelId # Unset /\ effectiveAddress # Unset
        /\ pending' = [customer |-> whom, new |-> ~onRecord, model |-> productModelId,
                       product |-> productId, address |-> effectiveAddress,
                       center |-> serviceCenterId, shown |-> shownAddress,
                       typed |-> useDifferentAddress,
                       unlisted |-> onRecord /\ defaultAddress \in Unlisted,
                       options |-> offered]
    BY DEF send, submit
  <1>2. whom \in Customers
    BY <1>1 DEF customerComplete, onRecord, FormInv, ChoiceOK
  <1>3. defaultAddress # Unset
    <2>1. CASE onRecord
      BY <2>1, FormAssumption DEF defaultAddress, onRecord, FormInv, ChoiceOK
    <2>2. CASE ~onRecord
      BY <1>1, <2>2 DEF defaultAddress, onRecord, customerComplete
    <2> QED
      BY <2>1, <2>2
  <1>4. \/ effectiveAddress = shownAddress
        \/ onRecord /\ defaultAddress \in Unlisted /\ useDifferentAddress
    BY <1>1, <1>3 DEF shownAddress, hasDefaultAddress, effectiveAddress
  <1>5. ChoiceOK' /\ AddressOK' /\ ModelOK' /\ CentersOK'
    BY <1>1 DEF FormInv, ChoiceOK, AddressOK, ModelOK, CentersOK, Complete, world, person,
                address, product
  <1>6. /\ pending'.customer = whom /\ pending'.model = productModelId
        /\ pending'.product = productId
        /\ pending'.address = effectiveAddress /\ pending'.shown = shownAddress
    BY <1>1
  <1>7. /\ pending'.unlisted = (onRecord /\ defaultAddress \in Unlisted)
        /\ pending'.typed = useDifferentAddress
        /\ pending'.center = serviceCenterId /\ pending'.options = offered
    BY <1>1
  <1>8. SentOK'
    BY <1>2, <1>6 DEF SentOK
  <1>9. SentAsShown'
    <2>1. pending'.address = pending'.shown \/ (pending'.unlisted /\ pending'.typed)
      BY <1>4, <1>6, <1>7, Zenon
    <2>2. ProductOf[pending'.model] = pending'.product
      BY <1>1, <1>6 DEF FormInv, ModelOK
    <2>3. \/ pending'.center = Unset \/ pending'.options = Unset
          \/ pending'.center \in pending'.options \cup closed
      BY <1>7, OfferedIsComplete DEF FormInv, CentersOK, Complete
    <2>4. closed' = closed
      BY <1>1 DEF world
    <2> QED
      BY <2>1, <2>2, <2>3, <2>4 DEF SentAsShown
  <1> QED
    BY <1>5, <1>8, <1>9 DEF FormInv

(* Whatever is entered, chosen or changed while nothing is under way.       *)
LEMMA EditKeeps ==
    ASSUME FormInv, edit
    PROVE  FormInv'
  <1>1. pending = Unset /\ UNCHANGED <<onFile, centers, closed, lists, pending>>
    BY DEF edit, world
  <1>2. SentOK' /\ SentAsShown'
    BY <1>1 DEF SentOK, SentAsShown
  <1>3. CentersOK'
    <2>1. serviceCenterId' \in NamesOf(centers) \cup {Unset}
      <3>1. CASE UNCHANGED serviceCenterId
        BY <3>1 DEF FormInv, CentersOK
      <3>2. CASE setServiceCenter
        BY <3>2, OfferedIsComplete DEF setServiceCenter, Complete
      <3> QED
        BY <3>1, <3>2 DEF edit
    <2> QED
      BY <1>1, <2>1 DEF FormInv, CentersOK, Complete
  <1>4. AddressOK'
    <2>1. CASE UNCHANGED address
      BY <2>1 DEF address, FormInv, AddressOK
    <2>2. CASE toggleDifferent
      <3>1. defaultAddress \in Addresses \cup {Unset}
        BY FormAssumption DEF FormInv, ChoiceOK, defaultAddress, onRecord
      <3> QED
        BY <2>2, <3>1 DEF toggleDifferent, FormInv, AddressOK
    <2>3. CASE setServiceAddress
      BY <2>3 DEF setServiceAddress, FormInv, AddressOK
    <2> QED
      BY <2>1, <2>2, <2>3 DEF edit
  <1>5. CASE UNCHANGED person
    <2>1. ChoiceOK'
      BY <1>1, <1>5 DEF FormInv, ChoiceOK, person
    <2>2. ModelOK'
      <3>1. CASE UNCHANGED product
        BY <3>1 DEF FormInv, ModelOK, product
      <3>2. CASE setProduct
        BY <3>2 DEF setProduct, ModelOK
      <3>3. CASE setModel
        BY <3>3 DEF setModel, ModelOK
      <3> QED
        BY <1>5, <3>1, <3>2, <3>3 DEF edit
    <2> QED
      BY <1>2, <1>3, <1>4, <2>1, <2>2 DEF FormInv
  <1>6. CASE (setCustomerMode \/ setCustomer \/ setNewCustomer \/ useDuplicate) /\ UNCHANGED product
    <2>1. ModelOK'
      BY <1>6 DEF FormInv, ModelOK, product
    <2>2. customer' \in Customers \cup {Unset}
      BY <1>6 DEF setCustomerMode, setCustomer, setNewCustomer, useDuplicate, FormInv, ChoiceOK
    <2>3. newCustomer' \in [mobile : Customers \cup {Unset}, home : Addresses \cup {Unset}]
      BY <1>6 DEF setCustomerMode, setCustomer, setNewCustomer, useDuplicate, FormInv, ChoiceOK
    <2> QED
      BY <1>1, <1>2, <1>3, <1>4, <2>1, <2>2, <2>3 DEF FormInv, ChoiceOK
  <1> QED
    BY <1>5, <1>6 DEF edit

(* An answer to one of the lookups.                                         *)
LEMMA AnswerKeeps ==
    ASSUME FormInv, answer
    PROVE  FormInv'
  <1>1. /\ UNCHANGED <<onFile, centers, closed, customer, newCustomer, address, product>>
        /\ UNCHANGED <<serviceCenterId, pending>>
    BY DEF answer, mobileMatch, world, person
  <1>2. ChoiceOK' /\ AddressOK' /\ ModelOK' /\ SentOK' /\ SentAsShown'
    BY <1>1 DEF FormInv, ChoiceOK, AddressOK, ModelOK, SentOK, SentAsShown, address, product
  <1>3. CentersOK'
    <2>1. CASE UNCHANGED lists
      BY <1>1, <2>1 DEF FormInv, CentersOK, Complete
    <2>2. CASE recommend
      <3> DEFINE gathered == options(recommendations)
                 query == <<location, cityNamed>>
      <3>1. Complete(gathered)
        <4>1. gathered = NamesOf({z \in centers : z.isActive})
          BY ListedAreActive DEF FormInv, CentersOK
        <4> HIDE DEF gathered
        <4> QED
          BY <4>1 DEF FormInv, CentersOK, Complete, NamesOf
      <3>2. lists' = [lists EXCEPT ![query] = gathered]
        BY <2>2 DEF recommend
      <3> HIDE DEF gathered, query
      <3>3. /\ lists' = [q \in Queries |-> lists'[q]]
            /\ \A q \in Queries : Complete(lists'[q])
        BY <3>1, <3>2 DEF FormInv, CentersOK
      <3> QED
        BY <1>1, <3>3 DEF FormInv, CentersOK, Complete
    <2> QED
      BY <2>1, <2>2 DEF answer
  <1> QED
    BY <1>2, <1>3 DEF FormInv

(* A centre that stops or starts being active keeps its name.               *)
LEMMA ElsewhereKeeps ==
    ASSUME FormInv, elsewhere
    PROVE  FormInv'
  <1>1. UNCHANGED <<person, address, product, serviceCenterId, lists, pending>>
    BY DEF elsewhere
  <1>2. onFile' \subseteq Customers
    BY DEF elsewhere, FormInv, ChoiceOK
  <1>3. ChoiceOK' /\ AddressOK' /\ ModelOK' /\ SentOK'
    BY <1>1, <1>2 DEF FormInv, ChoiceOK, AddressOK, ModelOK, SentOK, person, address, product
  <1>4. closed \subseteq closed'
    BY DEF elsewhere
  <1>5. SentAsShown'
    BY <1>1, <1>4 DEF FormInv, SentAsShown
  <1>6. CentersOK'
    <2>1. CASE UNCHANGED <<centers, closed>>
      BY <1>1, <2>1 DEF FormInv, CentersOK, Complete
    <2>2. ASSUME NEW z \in centers,
                 centers' = (centers \ {z}) \cup {[z EXCEPT !.isActive = ~@]},
                 closed' = closed \cup {z.name}
          PROVE  CentersOK'
      <3> DEFINE turned == [z EXCEPT !.isActive = ~@]
      <3>1. turned.name = z.name /\ turned.pincode = z.pincode
        OBVIOUS
      <3>2. centers' = (centers \ {z}) \cup {turned}
        BY <2>2
      <3> HIDE DEF turned
      <3>3. Places(centers')
        <4>1. IsFiniteSet(centers \ {z})
          BY FS_RemoveElement DEF FormInv, CentersOK, Places
        <4>2. IsFiniteSet(centers')
          BY <3>2, <4>1, FS_AddElement
        <4> QED
          BY <3>1, <3>2, <4>2 DEF FormInv, CentersOK, Places
      <3>4. NamesOf(centers') = NamesOf(centers)
        BY <3>1, <3>2 DEF NamesOf
      <3>5. \A x \in centers' : x.isActive \/ x.name \in closed'
        BY <2>2, <3>1, <3>2 DEF FormInv, CentersOK
      <3>6. \A q \in Queries : Complete(lists[q])'
        BY <1>1, <1>4, <3>4 DEF FormInv, CentersOK, Complete
      <3> QED
        BY <1>1, <3>3, <3>4, <3>5, <3>6 DEF FormInv, CentersOK
    <2> QED
      BY <2>1, <2>2 DEF elsewhere
  <1> QED
    BY <1>3, <1>5, <1>6 DEF FormInv

LEMMA FormStep ==
    FormInv /\ [FormNext]_formVars => FormInv'
  <1> SUFFICES ASSUME FormInv, [FormNext]_formVars PROVE FormInv'
    OBVIOUS
  <1>1. CASE UNCHANGED formVars
    BY <1>1 DEF formVars, FormInv, ChoiceOK, AddressOK, ModelOK, SentOK, CentersOK, Complete,
                SentAsShown
  <1>2. CASE raised
    <2>1. onFile' \in SUBSET Customers
      BY <1>2 DEF raised, FormInv, ChoiceOK, SentOK
    <2> QED
      BY <1>2, <2>1, BlankForm DEF raised, FormInv
  <1>3. CASE failed
    <2>1. onFile' \subseteq Customers
      BY <1>3 DEF failed, FormInv, ChoiceOK, SentOK
    <2> QED
      BY <1>3, <2>1 DEF failed, person, address, product, FormInv, ChoiceOK, AddressOK, ModelOK,
                        SentOK, CentersOK, Complete, SentAsShown
  <1> QED
    BY <1>1, <1>2, <1>3, EditKeeps, SubmitKeeps, AnswerKeeps, ElsewhereKeeps DEF FormNext

(* What is sent is what the page shows, through any order of choosing,      *)
(* changing one's mind and late answers, whichever customers, addresses,    *)
(* models and centres there are: the address, a model of the product, and a *)
(* centre of the list beside it - but for the three cases SentAsShown names,*)
(* an address hidden with an unlisted city, a list that has not come, and a *)
(* centre deactivated since (CreateComplaintPage.tsx, onSubmit). A list     *)
(* leaves nobody out by the ranking's own promise (RankingIsFair).          *)
THEOREM FormSendsWhatItShows ==
    ASSUME NEW known \in SUBSET Customers, NEW places, Places(places)
    PROVE  FormInit(known, places) /\ [][FormNext]_formVars => []SentAsShown
  <1>1. FormInit(known, places) => FormInv
    <2> SUFFICES ASSUME FormInit(known, places) PROVE FormInv
      OBVIOUS
    <2>1. ChoiceOK /\ AddressOK /\ ModelOK /\ SentOK /\ SentAsShown
      BY DEF FormInit, Blank, ChoiceOK, AddressOK, ModelOK, SentOK, SentAsShown
    <2>2. CentersOK
      BY DEF FormInit, Blank, CentersOK, Complete
    <2> QED
      BY <2>1, <2>2 DEF FormInv
  <1>2. FormInv => SentAsShown
    BY DEF FormInv
  <1> QED
    BY <1>1, <1>2, FormStep, PTL
=============================================================================
