---------------------------- MODULE SignIn_proofs ----------------------------
(* Theorems about SignIn, for any accounts, calls, sessions and limits.     *)
EXTENDS SignIn, FiniteSetTheorems, TLAPS

(* What a call needs to have in hand to go on: whose it is from the start,  *)
(* its copy of the account until it has used it, when it began to sign, and *)
(* for a renewal a session of that account.                                 *)
InHand(c) ==
    /\ ~At(c, "idle") => call[c].user \in Users
    /\ call[c].step \in {"counting", "accepted", "signing", "changing", "resetting"}
          => call[c].seen \in Copy
    /\ call[c].step \in {"signing", "renewing", "changing", "resetting"}
          => call[c].since \in Time
    /\ At(c, "renewing") => /\ call[c].sid \in Sids
                            /\ session[call[c].sid].state # "unused"
                            /\ session[call[c].sid].user = call[c].user

TypeInv == /\ TypeOK
           /\ \A s \in Sids : session[s].state # "unused" => session[s].user \in Users
           /\ \A t \in tokens : session[t.sid].state # "unused"
           /\ \A c \in Calls : InHand(c)

LEMMA Numbers ==
    /\ 0 \in Time /\ Time \subseteq Nat /\ None \notin Time
    /\ 0 \in 0..MaxChanges /\ 0 \in 0..(MaxAttempts - 1)
    /\ None \notin Users /\ None \notin Sids
  BY LimitsAssumption, NoneAssumption DEF Time

LEMMA IdleType == Idle \in Call /\ Idle.step = "idle"
  BY DEF Idle, Call, Steps, MaybeTime

LEMMA ReadType ==
    ASSUME NEW acc \in Account
    PROVE  read(acc) \in Copy /\ read(acc).changes = acc.changes
  BY DEF read, Account, Copy

LEMMA InitTypeInv == Init => TypeInv
  <1> SUFFICES ASSUME Init PROVE TypeInv
    OBVIOUS
  <1>1. account \in [Users -> Account]
    BY Numbers, RehashingAssumption DEF Init, Account, MaybeTime
  <1>2. session \in [Sids -> Session]
    BY Numbers DEF Init, Unused, Session, MaybeTime
  <1>3. call \in [Calls -> Call]
    BY IdleType DEF Init
  <1> QED
    BY <1>1, <1>2, <1>3, Numbers DEF Init, TypeInv, TypeOK, InHand, At, Idle, Unused

(* A step that leaves the sessions and tokens alone and gives its own call  *)
(* what it needs.                                                           *)
LEMMA CallTypes ==
    ASSUME TypeInv, NEW c \in Calls, NEW k \in Call,
           call' = [call EXCEPT ![c] = k],
           InHand(c)',
           account' \in [Users -> Account], misses' \in [Users -> Nat],
           UNCHANGED <<now, session, tokens, crossed, left>>
    PROVE  TypeInv'
  <1>1. call' \in [Calls -> Call]
    BY DEF TypeInv, TypeOK
  <1>2. ASSUME NEW d \in Calls PROVE InHand(d)'
    <2>1. CASE d = c
      BY <2>1
    <2>2. CASE d # c
      <3>1. call'[d] = call[d]
        BY <2>2 DEF TypeInv, TypeOK
      <3> QED
        BY <3>1 DEF TypeInv, InHand, At
    <2> QED
      BY <2>1, <2>2
  <1> QED
    BY <1>1, <1>2 DEF TypeInv, TypeOK

LEMMA LoginTypes ==
    ASSUME TypeInv, NEW c \in Calls, NEW u \in Users, login(c, u)
    PROVE  TypeInv'
  <1> DEFINE k == [Idle EXCEPT !.step = "counting", !.user = u, !.seen = read(account[u])]
  <1>1. read(account[u]) \in Copy
    BY ReadType DEF TypeInv, TypeOK
  <1>2. k \in Call
    BY <1>1, IdleType DEF Call, Steps
  <1>3. call' = [call EXCEPT ![c] = k]
    BY DEF login
  <1>4. call'[c] = k
    BY <1>3 DEF TypeInv, TypeOK
  <1>5. k.step = "counting" /\ k.user = u /\ k.seen = read(account[u])
    BY DEF Idle
  <1> HIDE DEF k
  <1>6. InHand(c)'
    BY <1>1, <1>4, <1>5 DEF InHand, At
  <1> QED
    BY <1>2, <1>3, <1>6, CallTypes DEF login, TypeInv, TypeOK

LEMMA CountedType ==
    ASSUME NEW acc \in Account, NEW seen
    PROVE  /\ countAttempt(acc, seen) \in Account
           /\ countAttempt(acc, seen).changes = acc.changes
           /\ countAttempt(acc, seen).changedAt = acc.changedAt
  <1>1. CASE acc.attempts + 1 >= MaxAttempts
    BY <1>1, Numbers DEF countAttempt, Account
  <1>2. CASE ~(acc.attempts + 1 >= MaxAttempts)
    <2>1. acc.attempts + 1 \in 0..(MaxAttempts - 1)
      BY <1>2, LimitsAssumption DEF Account
    <2> QED
      BY <1>2, <2>1 DEF countAttempt, Account
  <1> QED
    BY <1>1, <1>2

LEMMA ClaimTypes ==
    ASSUME TypeInv, NEW c \in Calls, NEW right \in BOOLEAN, claimAttempt(c, right)
    PROVE  TypeInv'
  <1> DEFINE u == call[c].user
             on == [call[c] EXCEPT !.step = "accepted"]
  <1>1. u \in Users /\ call[c] \in Call /\ call[c].step = "counting" /\ call[c].seen \in Copy
    BY DEF claimAttempt, TypeInv, TypeOK, InHand, At
  <1>2. /\ account' \in [Users -> Account]
        /\ misses' \in [Users -> Nat]
    BY <1>1, CountedType DEF claimAttempt, TypeInv, TypeOK
  <1>3. CASE Done(c)
    <2>1. InHand(c)'
      BY <1>3, IdleType DEF Done, InHand, At, TypeInv, TypeOK
    <2> QED
      BY <1>2, <1>3, <2>1, IdleType, CallTypes DEF claimAttempt, Done
  <1>4. CASE call' = [call EXCEPT ![c].step = "accepted"]
    <2>1. on \in Call /\ on.step = "accepted" /\ on.user = u /\ on.seen = call[c].seen
      BY <1>1 DEF Call, Steps
    <2>2. call' = [call EXCEPT ![c] = on] /\ call'[c] = on
      BY <1>4 DEF TypeInv, TypeOK
    <2> HIDE DEF on, u
    <2>3. InHand(c)'
      BY <1>1, <2>1, <2>2 DEF InHand, At
    <2> QED
      BY <1>2, <2>1, <2>2, <2>3, CallTypes DEF claimAttempt
  <1> QED
    BY <1>3, <1>4 DEF claimAttempt

LEMMA NoteSuccessTypes ==
    ASSUME TypeInv, NEW c \in Calls, noteSuccess(c)
    PROVE  TypeInv'
  <1> DEFINE u == call[c].user
             on == [call[c] EXCEPT !.step = "signing", !.since = now]
  <1>1. u \in Users /\ call[c] \in Call /\ call[c].seen \in Copy /\ now \in Time
    BY DEF noteSuccess, TypeInv, TypeOK, InHand, At
  <1>2. /\ account' \in [Users -> Account]
        /\ misses' \in [Users -> Nat]
    <2> DEFINE seen == call[c].seen
               password == IF seen.stale THEN seen.password ELSE account[u].password
               stale == IF seen.stale THEN FALSE ELSE account[u].stale
               acc == [account[u] EXCEPT !.attempts = 0, !.lock = "none",
                                         !.password = password, !.stale = stale]
    <2>1. password \in 0..MaxChanges /\ stale \in BOOLEAN
      BY <1>1 DEF TypeInv, TypeOK, Account, Copy
    <2>2. account' = [account EXCEPT ![u] = acc]
      BY <1>1 DEF noteSuccess, TypeInv, TypeOK
    <2> HIDE DEF password, stale
    <2>3. acc \in Account
      BY <1>1, <2>1, Numbers DEF TypeInv, TypeOK, Account
    <2> HIDE DEF acc
    <2> QED
      BY <1>1, <2>2, <2>3 DEF noteSuccess, TypeInv, TypeOK
  <1>3. on \in Call /\ on.step = "signing" /\ on.user = u /\ on.seen = call[c].seen
        /\ on.since = now
    BY <1>1 DEF Call, Steps, MaybeTime
  <1>4. call' = [call EXCEPT ![c] = on] /\ call'[c] = on
    BY DEF noteSuccess, TypeInv, TypeOK
  <1> HIDE DEF on, u
  <1>5. InHand(c)'
    BY <1>1, <1>3, <1>4 DEF InHand, At
  <1> QED
    BY <1>2, <1>3, <1>4, <1>5, CallTypes DEF noteSuccess

LEMMA CreateTypes ==
    ASSUME TypeInv, NEW c \in Calls, NEW s \in Sids, NEW ims \in Time,
           createSession(c, s, ims)
    PROVE  TypeInv'
  <1> DEFINE u == call[c].user
             on == [call[c] EXCEPT !.step = "trimming", !.sid = s]
             made == [state |-> "live", user |-> u, expiresAt |-> ims,
                      era |-> call[c].seen.changes]
  <1>1. /\ u \in Users /\ call[c] \in Call /\ call[c].seen \in Copy
        /\ session[s].state = "unused"
    BY DEF createSession, TypeInv, TypeOK, InHand, At
  <1>2. on \in Call /\ on.step = "trimming" /\ on.user = u
    BY <1>1 DEF Call, Steps
  <1>3. made \in Session
    BY <1>1 DEF Session, Copy, MaybeTime
  <1>4. /\ call' = [call EXCEPT ![c] = on]
        /\ session' = [session EXCEPT ![s] = made]
        /\ tokens' = tokens \cup {[sid |-> s, ims |-> ims]}
        /\ crossed' \subseteq crossed \cup {s}
        /\ UNCHANGED <<now, account, misses, left>>
    BY DEF createSession, Issue, TypeInv, TypeOK
  <1>5. made.state = "live" /\ made.user = u
    OBVIOUS
  <1> HIDE DEF on, made
  <1>6. TypeOK'
    BY <1>1, <1>2, <1>3, <1>4 DEF TypeInv, TypeOK, Token
  <1>7. \A r \in Sids : session'[r] = IF r = s THEN made ELSE session[r]
    BY <1>4 DEF TypeInv, TypeOK
  <1>8. ASSUME NEW d \in Calls PROVE InHand(d)'
    <2>1. CASE d = c
      <3>1. call'[d] = on
        BY <1>4, <2>1 DEF TypeInv, TypeOK
      <3> QED
        BY <1>1, <1>2, <3>1 DEF InHand, At
    <2>2. CASE d # c
      <3>1. call'[d] = call[d]
        BY <1>4, <2>2 DEF TypeInv, TypeOK
      <3>2. InHand(d) /\ (At(d, "renewing") => call[d].sid # s)
        BY <1>1 DEF TypeInv, InHand
      <3> QED
        BY <1>7, <3>1, <3>2 DEF InHand, At
    <2> QED
      BY <2>1, <2>2
  <1> QED
    BY <1>1, <1>4, <1>5, <1>6, <1>7, <1>8 DEF TypeInv, TypeOK, Token

(* Sessions may end or be extended: no call loses what it has in hand.      *)
LEMMA SessionTypes ==
    ASSUME TypeInv, session' \in [Sids -> Session],
           \A s \in Sids : /\ session'[s].user = session[s].user
                           /\ session'[s].state = "unused" <=> session[s].state = "unused",
           NEW c \in Calls, call' \in {call, [call EXCEPT ![c] = Idle]},
           tokens' \subseteq Token, crossed' \subseteq Sids,
           \A t \in tokens' : session[t.sid].state # "unused",
           UNCHANGED <<now, account, misses, left>>
    PROVE  TypeInv'
  <1>1. call' \in [Calls -> Call]
    BY IdleType DEF TypeInv, TypeOK
  <1>2. ASSUME NEW d \in Calls PROVE InHand(d)'
    <2>1. CASE call'[d] = Idle
      BY <2>1, IdleType DEF InHand, At
    <2>2. CASE call'[d] = call[d]
      BY <2>2 DEF TypeInv, InHand, At
    <2> QED
      BY <2>1, <2>2 DEF TypeInv, TypeOK
  <1> QED
    BY <1>1, <1>2 DEF TypeInv, TypeOK, Token

LEMMA EndType ==
    ASSUME TypeInv, NEW S, End(S)
    PROVE  /\ session' \in [Sids -> Session]
           /\ \A s \in Sids : /\ session'[s].user = session[s].user
                              /\ session'[s].era = session[s].era
                              /\ session'[s].state = "unused" <=> session[s].state = "unused"
                              /\ session'[s].state = "live"
                                    <=> session[s].state = "live" /\ s \notin S
  <1>1. \A s \in Sids : session'[s] = IF s \in S /\ session[s].state = "live"
                                       THEN [session[s] EXCEPT !.state = "ended"]
                                       ELSE session[s]
    BY DEF End
  <1>2. \A s \in Sids : session'[s] \in Session
    BY <1>1 DEF TypeInv, TypeOK, Session
  <1> QED
    BY <1>1, <1>2 DEF End, TypeInv, TypeOK, Session

LEMMA FindSurplusTypes ==
    ASSUME TypeInv, NEW c \in Calls, findSurplus(c)
    PROVE  TypeInv'
  <1>1. PICK S \in SUBSET Sids : IF S = {} THEN Done(c)
             ELSE call' = [call EXCEPT ![c].step = "ending", ![c].surplus = S]
    BY DEF findSurplus, Live
  <1>2. UNCHANGED <<now, account, session, tokens, misses, crossed, left>>
    BY DEF findSurplus
  <1>3. CASE Done(c)
    <2>1. InHand(c)'
      BY <1>3, IdleType DEF Done, InHand, At, TypeInv, TypeOK
    <2> QED
      BY <1>2, <1>3, <2>1, IdleType, CallTypes DEF Done, TypeInv, TypeOK
  <1>4. CASE call' = [call EXCEPT ![c].step = "ending", ![c].surplus = S]
    <2> DEFINE on == [call[c] EXCEPT !.step = "ending", !.surplus = S]
    <2>1. call[c] \in Call /\ call[c].user \in Users
      BY DEF findSurplus, TypeInv, TypeOK, InHand, At
    <2>2. on \in Call /\ on.step = "ending" /\ on.user = call[c].user
      BY <2>1 DEF Call, Steps
    <2>3. call' = [call EXCEPT ![c] = on] /\ call'[c] = on
      BY <1>4 DEF TypeInv, TypeOK
    <2> HIDE DEF on
    <2>4. InHand(c)'
      BY <2>1, <2>2, <2>3 DEF InHand, At
    <2> QED
      BY <1>2, <2>2, <2>3, <2>4, CallTypes DEF TypeInv, TypeOK
  <1> QED
    BY <1>1, <1>3, <1>4

LEMMA RefreshTypes ==
    ASSUME TypeInv, NEW c \in Calls, NEW t \in tokens, refresh(c, t)
    PROVE  TypeInv'
  <1> DEFINE k == [Idle EXCEPT !.step = "renewing", !.user = Holder(t),
                               !.sid = t.sid, !.since = now]
  <1>1. /\ Holder(t) \in Users /\ t.sid \in Sids /\ now \in Time
        /\ session[t.sid].state # "unused"
    BY DEF TypeInv, TypeOK, Token, Holder
  <1>2. k \in Call /\ k.step = "renewing" /\ k.user = Holder(t)
        /\ k.sid = t.sid /\ k.since = now
    BY <1>1, IdleType DEF Call, Steps, MaybeTime, Idle
  <1>3. call' = [call EXCEPT ![c] = k] /\ call'[c] = k
    BY DEF refresh, TypeInv, TypeOK
  <1> HIDE DEF k
  <1>4. InHand(c)'
    BY <1>1, <1>2, <1>3 DEF InHand, At, Holder, refresh
  <1> QED
    BY <1>2, <1>3, <1>4, CallTypes DEF refresh, TypeInv, TypeOK

LEMMA ExtendTypes ==
    ASSUME TypeInv, NEW c \in Calls, NEW ims \in Time, extendSession(c, ims)
    PROVE  TypeInv'
  <1> DEFINE s == call[c].sid
  <1>1. s \in Sids /\ session[s].state # "unused"
    BY DEF extendSession, TypeInv, InHand
  <1>2. /\ session' \in [Sids -> Session]
        /\ \A r \in Sids : /\ session'[r].user = session[r].user
                           /\ session'[r].state = "unused" <=> session[r].state = "unused"
    BY <1>1 DEF extendSession, extend, TypeInv, TypeOK, Session, MaybeTime
  <1>3. /\ tokens' \subseteq Token /\ crossed' \subseteq Sids
        /\ \A t \in tokens' : session[t.sid].state # "unused"
    <2>1. tokens' \subseteq tokens \cup {[sid |-> s, ims |-> ims]}
      BY DEF extendSession, extend, Issue
    <2>2. [sid |-> s, ims |-> ims] \in Token
      BY <1>1 DEF Token
    <2>3. crossed' \subseteq crossed \cup {s}
      BY DEF extendSession, extend, Issue
    <2> QED
      BY <1>1, <2>1, <2>2, <2>3 DEF TypeInv, TypeOK
  <1> QED
    BY <1>2, <1>3, SessionTypes DEF extendSession, Done

LEMMA StartChangeTypes ==
    ASSUME TypeInv, NEW c \in Calls, NEW u \in Users, NEW step \in {"changing", "resetting"},
           call' = [call EXCEPT ![c] = [Idle EXCEPT !.step = step, !.user = u,
                                          !.seen = read(account[u]), !.since = now]],
           UNCHANGED <<now, account, session, tokens, misses, crossed, left>>
    PROVE  TypeInv'
  <1> DEFINE k == [Idle EXCEPT !.step = step, !.user = u,
                               !.seen = read(account[u]), !.since = now]
  <1>1. read(account[u]) \in Copy /\ now \in Time
    BY ReadType DEF TypeInv, TypeOK
  <1>2. k \in Call /\ k.step = step /\ k.user = u
        /\ k.seen = read(account[u]) /\ k.since = now
    BY <1>1, IdleType DEF Call, Steps, MaybeTime, Idle
  <1>3. call' = [call EXCEPT ![c] = k] /\ call'[c] = k
    BY DEF TypeInv, TypeOK
  <1> HIDE DEF k
  <1>4. InHand(c)'
    BY <1>1, <1>2, <1>3 DEF InHand, At
  <1> QED
    BY <1>2, <1>3, <1>4, CallTypes DEF TypeInv, TypeOK

LEMMA SavedType ==
    ASSUME NEW acc \in Account, NEW seen \in Copy, NEW ims \in Time,
           acc.changes < MaxChanges
    PROVE  /\ savePassword(acc, seen, ims) \in Account
           /\ savePassword(acc, seen, ims).changes = acc.changes + 1
           /\ savePassword(acc, seen, ims).changedAt = ims
  <1> DEFINE attempts == IF seen.attempts > 0 THEN 0 ELSE acc.attempts
             lock == IF seen.lock # "none" THEN "none" ELSE acc.lock
  <1>1. /\ attempts \in 0..(MaxAttempts - 1)
        /\ lock \in {"none", "set", "lapsed"}
        /\ acc.changes + 1 \in 0..MaxChanges
    BY Numbers, LimitsAssumption DEF Account
  <1>2. savePassword(acc, seen, ims) =
           [acc EXCEPT !.password = acc.changes + 1, !.changes = acc.changes + 1,
                       !.stale = FALSE, !.changedAt = ims,
                       !.attempts = attempts, !.lock = lock]
    BY DEF savePassword, Account
  <1> HIDE DEF attempts, lock
  <1> QED
    BY <1>1, <1>2 DEF Account, MaybeTime

LEMMA SaveTypes ==
    ASSUME TypeInv, NEW c \in Calls, NEW ims \in Time, saveNewPassword(c, ims)
    PROVE  TypeInv'
  <1> DEFINE u == call[c].user
             seen == call[c].seen
             on(d) == IF d = c THEN IF At(c, "changing")
                                    THEN [Idle EXCEPT !.step = "revoking", !.user = u]
                                    ELSE Idle
                      ELSE IF Meets(d, u) THEN [call[d] EXCEPT !.met = TRUE]
                      ELSE call[d]
  <1>1. u \in Users /\ seen \in Copy /\ account[u] \in Account
    BY DEF saveNewPassword, TypeInv, TypeOK, InHand, At
  <1>2. account' \in [Users -> Account] /\ misses' \in [Users -> Nat]
    BY <1>1, SavedType DEF saveNewPassword, TypeInv, TypeOK
  <1>3. call' = [d \in Calls |-> on(d)]
    BY DEF saveNewPassword
  <1>4. ASSUME NEW d \in Calls
        PROVE  /\ on(d) \in Call
               /\ d # c => /\ on(d).step = call[d].step
                           /\ on(d).user = call[d].user
                           /\ on(d).seen = call[d].seen
                           /\ on(d).since = call[d].since
                           /\ on(d).sid = call[d].sid
               /\ d = c => on(d).step \in {"idle", "revoking"} /\ on(d).user \in {None, u}
               /\ on(d).step = "revoking" /\ d = c => on(d).user = u
    BY <1>1, IdleType DEF Call, Steps, Idle, TypeInv, TypeOK
  <1> HIDE DEF on
  <1>5. ASSUME NEW d \in Calls PROVE InHand(d)'
    <2>1. call'[d] = on(d)
      BY <1>3
    <2> QED
      BY <1>1, <1>4, <2>1 DEF saveNewPassword, InHand, At, TypeInv
  <1>6. call' \in [Calls -> Call] /\ crossed' \subseteq Sids
    BY <1>3, <1>4 DEF saveNewPassword, TypeInv, TypeOK
  <1> QED
    BY <1>2, <1>5, <1>6 DEF saveNewPassword, TypeInv, TypeOK

LEMMA CountsCalls ==
    ASSUME NEW S \in SUBSET Calls
    PROVE  IsFiniteSet(S) /\ Cardinality(S) \in Nat
  BY FiniteAssumption, FS_Subset, FS_CardinalityType

LEMMA RestartTypes == TypeInv /\ Restart => TypeInv'
  <1> SUFFICES ASSUME TypeInv, Restart PROVE TypeInv'
    OBVIOUS
  <1>1. call' \in [Calls -> Call] /\ \A c \in Calls : InHand(c)'
    BY IdleType DEF Restart, InHand, At
  <1>2. \A u \in Users : Cardinality(Untrimmed(u)) \in Nat
    BY CountsCalls DEF Untrimmed
  <1>3. left' \in [Users -> Nat]
    BY <1>2 DEF Restart, TypeInv, TypeOK
  <1> QED
    BY <1>1, <1>3 DEF Restart, TypeInv, TypeOK

(* A step that changes only the clock, an account or the miss count.        *)
LEMMA AsideTypes ==
    ASSUME TypeInv, now' \in Time, account' \in [Users -> Account],
           misses' \in [Users -> Nat],
           UNCHANGED <<session, tokens, call, crossed, left>>
    PROVE  TypeInv'
  BY DEF TypeInv, TypeOK, InHand, At

LEMMA NextTypes == TypeInv /\ [Next]_vars => TypeInv'
  <1> SUFFICES ASSUME TypeInv, [Next]_vars PROVE TypeInv'
    OBVIOUS
  <1>1. ASSUME NEW c \in Calls, endSurplus(c) \/ endSessions(c) PROVE TypeInv'
    BY <1>1, EndType, SessionTypes DEF endSurplus, endSessions, Done, TypeInv, TypeOK
  <1>2. CASE LoginSteps
    BY <1>1, <1>2, LoginTypes, ClaimTypes, NoteSuccessTypes, CreateTypes, FindSurplusTypes
       DEF LoginSteps
  <1>3. ASSUME NEW S, End(S), UNCHANGED <<now, account, tokens, call, misses, crossed, left>>
        PROVE  TypeInv'
    <2>1. CASE Calls = {}
      BY <1>3, <2>1, EndType DEF TypeInv, TypeOK, Token
    <2>2. CASE Calls # {}
      BY <1>3, <2>2, EndType, SessionTypes DEF TypeInv, TypeOK
    <2> QED
      BY <2>1, <2>2
  <1>4. CASE TokenSteps
    BY <1>3, <1>4, RefreshTypes, ExtendTypes DEF TokenSteps, logout, sessionExpires
  <1>5. CASE PasswordSteps
    <2>1. ASSUME NEW c \in Calls, NEW t \in tokens, changePassword(c, t) PROVE TypeInv'
      <3>1. Holder(t) \in Users
        BY DEF TypeInv, TypeOK, Token, Holder
      <3> QED
        BY <2>1, <3>1, StartChangeTypes DEF changePassword
    <2>2. ASSUME NEW c \in Calls, NEW u \in Users, resetPassword(c, u) PROVE TypeInv'
      BY <2>2, StartChangeTypes DEF resetPassword
    <2> QED
      BY <1>1, <1>5, <2>1, <2>2, SaveTypes DEF PasswordSteps
  <1>6. ASSUME NEW u \in Users, lockRunsOut(u) \/ setActive(u) PROVE TypeInv'
    <2>1. lockRunsOut(u) => account' \in [Users -> Account]
      BY DEF lockRunsOut, TypeInv, TypeOK, Account
    <2>2. ASSUME setActive(u) PROVE account' \in [Users -> Account]
      <3>1. account[u] \in Account
        BY DEF TypeInv, TypeOK
      <3>2. [account[u] EXCEPT !.active = ~@] \in Account
        BY <3>1, Zenon DEF Account
      <3> QED
        BY <2>2, <3>2, Zenon DEF setActive, TypeInv, TypeOK
    <2>3. account' \in [Users -> Account]
      BY <1>6, <2>1, <2>2
    <2> QED
      BY <1>6, <2>3, AsideTypes DEF lockRunsOut, setActive, TypeInv, TypeOK
  <1>7. CASE Tick
    <2>1. now' \in Time
      BY <1>7, LimitsAssumption DEF Tick, TypeInv, TypeOK, Time
    <2> QED
      BY <1>7, <2>1, AsideTypes DEF Tick, TypeInv, TypeOK
  <1>8. CASE UNCHANGED vars
    BY <1>8, AsideTypes DEF vars, TypeInv, TypeOK
  <1> QED
    BY <1>2, <1>4, <1>5, <1>6, <1>7, <1>8, RestartTypes DEF Next

(* Every document keeps its shape, whatever calls overlap and wherever the  *)
(* process stops; in particular the attempt count stays below its limit.    *)
THEOREM SignInTypes == Spec => []TypeOK
  <1>1. TypeInv => TypeOK
    BY DEF TypeInv
  <1> QED
    BY <1>1, InitTypeInv, NextTypes, PTL DEF Spec

-----------------------------------------------------------------------------
(* Lockout: the count on the document is never behind the wrong passwords   *)
(* tried, and while it is locked they are at most all of them.              *)
GuessInv ==
    \A u \in Users :
        misses[u] <= IF account[u].lock = "set" THEN MaxAttempts ELSE account[u].attempts

LEMMA GuessesAside ==
    ASSUME GuessInv, misses' = misses,
           \A u \in Users : /\ account'[u].attempts = account[u].attempts
                            /\ account'[u].lock = account[u].lock
    PROVE  GuessInv'
  BY DEF GuessInv

LEMMA ClaimGuesses ==
    ASSUME TypeInv, GuessInv, NEW c \in Calls, NEW right \in BOOLEAN, claimAttempt(c, right)
    PROVE  GuessInv'
  <1> DEFINE u == call[c].user
  <1>1. CASE account[u].lock = "set"
    BY <1>1 DEF claimAttempt, GuessInv
  <1>2. CASE account[u].lock # "set"
    <2> DEFINE acc == countAttempt(account[u], call[c].seen)
    <2>1. u \in Users /\ account[u] \in Account /\ misses[u] \in Nat
      BY DEF claimAttempt, TypeInv, TypeOK, InHand, At
    <2>2. \/ acc.lock = "set" /\ account[u].attempts + 1 <= MaxAttempts
          \/ acc.lock = "none" /\ acc.attempts = account[u].attempts + 1
      BY <2>1, LimitsAssumption DEF countAttempt, Account
    <2>3. /\ account' = [account EXCEPT ![u] = acc]
          /\ misses' \in {misses, [misses EXCEPT ![u] = @ + 1]}
      BY <1>2 DEF claimAttempt
    <2>4. misses[u] <= account[u].attempts
      BY <1>2, <2>1 DEF GuessInv
    <2> HIDE DEF acc, u
    <2>5. misses'[u] <= IF account'[u].lock = "set" THEN MaxAttempts ELSE account'[u].attempts
      <3>1. misses'[u] \in {misses[u], misses[u] + 1} /\ account'[u] = acc
        BY <2>1, <2>3 DEF TypeInv, TypeOK
      <3> QED
        BY <2>1, <2>2, <2>4, <3>1, LimitsAssumption DEF Account
    <2>6. \A w \in Users \ {u} : misses'[w] = misses[w] /\ account'[w] = account[w]
      BY <2>3 DEF TypeInv, TypeOK
    <2> QED
      BY <2>5, <2>6 DEF GuessInv
  <1> QED
    BY <1>1, <1>2

(* Clearing the count clears the history with it.                           *)
LEMMA ClearedGuesses ==
    ASSUME TypeInv, GuessInv, NEW u \in Users, account' \in [Users -> Account],
           misses' = [misses EXCEPT ![u] = 0],
           \A w \in Users \ {u} : account'[w] = account[w]
    PROVE  GuessInv'
  <1>1. \A w \in Users : account'[w].attempts \in Nat
    BY LimitsAssumption DEF Account
  <1> QED
    BY <1>1, LimitsAssumption DEF GuessInv, TypeInv, TypeOK

LEMMA SaveGuesses ==
    ASSUME TypeInv, TypeInv', GuessInv, NEW c \in Calls, NEW ims \in Time,
           saveNewPassword(c, ims)
    PROVE  GuessInv'
  <1> DEFINE u == call[c].user
             seen == call[c].seen
             acc == savePassword(account[u], seen, ims)
  <1>1. u \in Users /\ seen \in Copy /\ account[u] \in Account /\ misses[u] \in Nat
    BY DEF saveNewPassword, TypeInv, TypeOK, InHand, At
  <1>2. /\ account' = [account EXCEPT ![u] = acc]
        /\ \A w \in Users \ {u} : account'[w] = account[w]
    BY DEF saveNewPassword, TypeInv, TypeOK
  <1>3. CASE Forgives(account[u], seen)
    BY <1>1, <1>2, <1>3, ClearedGuesses DEF saveNewPassword, TypeInv, TypeOK
  <1>4. CASE ~Forgives(account[u], seen)
    <2>1. /\ acc.attempts = IF seen.attempts > 0 THEN 0 ELSE account[u].attempts
          /\ acc.lock = IF seen.lock # "none" THEN "none" ELSE account[u].lock
      BY <1>1 DEF savePassword, Account
    <2>2. /\ account[u].lock = "set" => acc.lock = "set"
          /\ account[u].lock # "set" => acc.lock # "set" /\ acc.attempts = account[u].attempts
      BY <1>1, <1>4, <2>1 DEF Forgives, Copy, Account
    <2>3. misses' = misses /\ account'[u] = acc
      BY <1>1, <1>2, <1>4 DEF saveNewPassword, TypeInv, TypeOK
    <2> QED
      BY <1>1, <1>2, <2>2, <2>3 DEF GuessInv
  <1> QED
    BY <1>3, <1>4

LEMMA NextGuesses == TypeInv /\ TypeInv' /\ GuessInv /\ [Next]_vars => GuessInv'
  <1> SUFFICES ASSUME TypeInv, TypeInv', GuessInv, [Next]_vars PROVE GuessInv'
    OBVIOUS
  <1>1. ASSUME UNCHANGED <<account, misses>> PROVE GuessInv'
    BY <1>1, GuessesAside
  <1>2. ASSUME NEW c \in Calls, noteSuccess(c) PROVE GuessInv'
    <2>1. call[c].user \in Users
      BY <1>2 DEF noteSuccess, TypeInv, InHand, At
    <2> QED
      BY <1>2, <2>1, ClearedGuesses DEF noteSuccess, TypeInv, TypeOK
  <1>3. ASSUME NEW u \in Users, lockRunsOut(u) PROVE GuessInv'
    BY <1>3, ClearedGuesses DEF lockRunsOut, TypeInv, TypeOK
  <1>4. ASSUME NEW u \in Users, setActive(u) PROVE GuessInv'
    BY <1>4, GuessesAside DEF setActive, TypeInv, TypeOK, Account
  <1>5. CASE LoginSteps
    BY <1>1, <1>2, <1>5, ClaimGuesses
       DEF LoginSteps, login, createSession, findSurplus, endSurplus
  <1>6. CASE TokenSteps
    BY <1>1, <1>6 DEF TokenSteps, refresh, extendSession, logout, sessionExpires
  <1>7. CASE PasswordSteps
    BY <1>1, <1>7, SaveGuesses DEF PasswordSteps, changePassword, resetPassword, endSessions
  <1> QED
    BY <1>1, <1>3, <1>4, <1>5, <1>6, <1>7 DEF Next, Tick, Restart, vars

(* No account takes more than MaxAttempts wrong passwords between two       *)
(* clearings of its count, and the last of them locks it (claimAttempt).    *)
THEOREM GuessesCapped == Spec => []GuessesAreCapped
  <1>1. Init => GuessInv
    BY DEF Init, GuessInv
  <1>2. TypeInv /\ GuessInv => GuessesAreCapped
    <2> SUFFICES ASSUME TypeInv, GuessInv, NEW u \in Users
                 PROVE  /\ misses[u] <= MaxAttempts
                        /\ misses[u] = MaxAttempts => account[u].lock = "set"
      BY DEF GuessesAreCapped
    <2>1. misses[u] \in Nat /\ account[u].attempts \in 0..(MaxAttempts - 1)
      BY DEF TypeInv, TypeOK, Account
    <2> QED
      BY <2>1, LimitsAssumption DEF GuessInv
  <1> QED
    BY <1>1, <1>2, InitTypeInv, NextTypes, NextGuesses, PTL DEF Spec

-----------------------------------------------------------------------------
(* Sessions.                                                                *)
EndedStay ==
    \A s \in Sids :
        session[s].state = "ended"
            => /\ session'[s].state = "ended"
               /\ \A t \in tokens' \ tokens : t.sid # s

LEMMA NextEnded == TypeInv /\ [Next]_vars => EndedStay
  <1> SUFFICES ASSUME TypeInv, [Next]_vars PROVE EndedStay
    OBVIOUS
  <1>1. ASSUME UNCHANGED <<session, tokens>> PROVE EndedStay
    BY <1>1 DEF EndedStay
  <1>2. ASSUME NEW S, End(S), UNCHANGED tokens PROVE EndedStay
    BY <1>2 DEF End, EndedStay
  <1>3. ASSUME NEW c \in Calls, NEW s \in Sids, NEW ims \in Time, createSession(c, s, ims)
        PROVE  EndedStay
    <2>1. /\ session[s].state = "unused"
          /\ \A r \in Sids \ {s} : session'[r] = session[r]
          /\ \A t \in tokens' \ tokens : t.sid = s
      BY <1>3 DEF createSession, Issue, TypeInv, TypeOK
    <2> QED
      BY <2>1 DEF EndedStay
  <1>4. ASSUME NEW c \in Calls, NEW ims \in Time, extendSession(c, ims) PROVE EndedStay
    <2> DEFINE s == call[c].sid
    <2>1. CASE session[s].state = "live"
      <3>1. /\ \A r \in Sids \ {s} : session'[r] = session[r]
            /\ \A t \in tokens' \ tokens : t.sid = s
        BY <1>4, <2>1 DEF extendSession, extend, Issue, TypeInv, TypeOK
      <3> QED
        BY <2>1, <3>1 DEF EndedStay
    <2>2. CASE session[s].state # "live"
      BY <1>1, <1>4, <2>2 DEF extendSession, extend
    <2> QED
      BY <2>1, <2>2
  <1>5. CASE LoginSteps
    BY <1>1, <1>2, <1>3, <1>5
       DEF LoginSteps, login, claimAttempt, noteSuccess, findSurplus, endSurplus
  <1>6. CASE TokenSteps
    BY <1>1, <1>2, <1>4, <1>6 DEF TokenSteps, refresh, logout, sessionExpires
  <1>7. CASE PasswordSteps
    BY <1>1, <1>2, <1>7
       DEF PasswordSteps, changePassword, resetPassword, saveNewPassword, endSessions
  <1> QED
    BY <1>1, <1>5, <1>6, <1>7 DEF Next, lockRunsOut, setActive, Tick, Restart, vars

(* A session that has ended stays ended, and no token is issued for it any  *)
(* more, also by a refresh that found everything in order before.           *)
THEOREM SessionsEndForGood == Spec => EndedSessionsStayEnded
  <1>1. TypeInv /\ [Next]_vars
           => [\A s \in Sids :
                  session[s].state = "ended"
                     => /\ session'[s].state = "ended"
                        /\ \A t \in tokens' \ tokens : t.sid # s]_vars
    BY NextEnded DEF EndedStay
  <1> QED
    BY <1>1, InitTypeInv, NextTypes, PTL DEF Spec, EndedSessionsStayEnded

-----------------------------------------------------------------------------
(* Password changes. A call that no change was saved under has seen the     *)
(* password the account has: in its copy until a session is made of it, and *)
(* in the session it renews, unless that one is past telling.               *)
UpToDate(c) ==
    ~call[c].met =>
        /\ call[c].step \in {"counting", "accepted", "signing"}
              => call[c].seen.changes = account[call[c].user].changes
        /\ At(c, "renewing") /\ call[c].sid \notin crossed
              => session[call[c].sid].era = account[call[c].user].changes

EraInv == ChangeEndsSessions /\ \A c \in Calls : UpToDate(c)

(* What both parts read of a token.                                         *)
Told(t) == t.sid \in crossed \/ ~notRevoked(t, account[Holder(t)])
              \/ session[t.sid].era = account[Holder(t)].changes

LEMMA ToldIsEra == ChangeEndsSessions <=> \A t \in tokens : Told(t)
  BY DEF ChangeEndsSessions, Told

(* Steps that leave what tokens and calls are judged by.                    *)
LEMMA TokensAside ==
    ASSUME TypeInv, EraInv,
           \A u \in Users : /\ account'[u].changes = account[u].changes
                            /\ account'[u].changedAt = account[u].changedAt,
           \A s \in Sids : /\ session'[s].user = session[s].user
                           /\ session'[s].era = session[s].era,
           tokens' = tokens, crossed' = crossed
    PROVE  ChangeEndsSessions'
  <1> SUFFICES ASSUME NEW t \in tokens PROVE Told(t)'
    BY ToldIsEra DEF ChangeEndsSessions, Told
  <1>1. Told(t) /\ t.sid \in Sids /\ Holder(t) \in Users
    BY ToldIsEra DEF EraInv, TypeInv, TypeOK, Token, Holder
  <1>2. Holder(t)' = Holder(t)
    BY <1>1 DEF Holder
  <1> QED
    BY <1>1, <1>2 DEF Told, notRevoked

LEMMA CallAside ==
    ASSUME TypeInv, EraInv, NEW d \in Calls,
           \A u \in Users : account'[u].changes = account[u].changes,
           \A s \in Sids : session[s].state # "unused" => session'[s].era = session[s].era,
           crossed \subseteq crossed',
           \/ call'[d] = call[d]
           \/ call'[d].step \notin {"counting", "accepted", "signing", "renewing"}
    PROVE  UpToDate(d)'
  <1>1. CASE call'[d] = call[d]
    BY <1>1 DEF EraInv, UpToDate, At, TypeInv, InHand
  <1>2. CASE call'[d].step \notin {"counting", "accepted", "signing", "renewing"}
    BY <1>2 DEF UpToDate, At
  <1> QED
    BY <1>1, <1>2

LEMMA LoginEra ==
    ASSUME TypeInv, EraInv, NEW c \in Calls, NEW u \in Users, login(c, u)
    PROVE  EraInv'
  <1>1. call'[c].step = "counting" /\ call'[c].user = u /\ call'[c].seen = read(account[u])
    BY DEF login, Idle, TypeInv, TypeOK
  <1>2. UpToDate(c)'
    BY <1>1, ReadType DEF UpToDate, At, login, TypeInv, TypeOK
  <1>3. \A d \in Calls \ {c} : call'[d] = call[d]
    BY DEF login, TypeInv, TypeOK
  <1> QED
    BY <1>2, <1>3, TokensAside, CallAside DEF login, EraInv

LEMMA ClaimEra ==
    ASSUME TypeInv, EraInv, NEW c \in Calls, NEW right \in BOOLEAN, claimAttempt(c, right)
    PROVE  EraInv'
  <1>1. \A u \in Users : /\ account'[u].changes = account[u].changes
                         /\ account'[u].changedAt = account[u].changedAt
    BY CountedType DEF claimAttempt, TypeInv, TypeOK
  <1>2. UpToDate(c)'
    <2>1. call[c].user \in Users /\ At(c, "counting") /\ UpToDate(c)
      BY DEF claimAttempt, TypeInv, InHand, At, EraInv
    <2>2. \/ call'[c] = Idle
          \/ /\ call'[c].step = "accepted" /\ call'[c].user = call[c].user
             /\ call'[c].seen = call[c].seen /\ call'[c].met = call[c].met
      BY DEF claimAttempt, Done, TypeInv, TypeOK, Call
    <2> QED
      BY <1>1, <2>1, <2>2, IdleType DEF UpToDate, At
  <1>3. \A d \in Calls \ {c} : call'[d] = call[d]
    BY DEF claimAttempt, Done, TypeInv, TypeOK
  <1> QED
    BY <1>1, <1>2, <1>3, TokensAside, CallAside DEF claimAttempt, EraInv

LEMMA NoteSuccessEra ==
    ASSUME TypeInv, EraInv, NEW c \in Calls, noteSuccess(c)
    PROVE  EraInv'
  <1>1. \A u \in Users : /\ account'[u].changes = account[u].changes
                         /\ account'[u].changedAt = account[u].changedAt
    BY DEF noteSuccess, TypeInv, TypeOK, Account
  <1>2. UpToDate(c)'
    <2>1. call[c].user \in Users /\ At(c, "accepted") /\ UpToDate(c)
      BY DEF noteSuccess, TypeInv, InHand, At, EraInv
    <2>2. /\ call'[c].step = "signing" /\ call'[c].user = call[c].user
          /\ call'[c].seen = call[c].seen /\ call'[c].met = call[c].met
      BY DEF noteSuccess, TypeInv, TypeOK, Call
    <2> QED
      BY <1>1, <2>1, <2>2 DEF UpToDate, At
  <1>3. \A d \in Calls \ {c} : call'[d] = call[d]
    BY DEF noteSuccess, TypeInv, TypeOK
  <1> QED
    BY <1>1, <1>2, <1>3, TokensAside, CallAside DEF noteSuccess, EraInv

LEMMA CreateEra ==
    ASSUME TypeInv, EraInv, NEW c \in Calls, NEW s \in Sids, NEW ims \in Time,
           createSession(c, s, ims)
    PROVE  EraInv'
  <1> DEFINE u == call[c].user
  <1>1. /\ session[s].state = "unused" /\ At(c, "signing") /\ u \in Users
        /\ session'[s].user = u /\ session'[s].era = call[c].seen.changes
        /\ \A r \in Sids \ {s} : session'[r] = session[r]
        /\ crossed' = IF call[c].met THEN crossed \cup {s} ELSE crossed
        /\ account' = account
    BY DEF createSession, Issue, TypeInv, TypeOK, InHand, At
  <1>2. UpToDate(c)
    BY DEF EraInv
  <1>3. ASSUME NEW t \in tokens' PROVE Told(t)'
    <2>1. CASE t \in tokens
      <3>1. /\ t.sid \in Sids \ {s} /\ Told(t)
        BY <1>1, <2>1, ToldIsEra DEF EraInv, TypeInv, TypeOK, Token
      <3> QED
        BY <1>1, <3>1 DEF Told, Holder, notRevoked
    <2>2. CASE t \notin tokens
      <3>1. t.sid = s
        BY <2>2 DEF createSession, Issue
      <3> QED
        BY <1>1, <1>2, <3>1 DEF Told, Holder, UpToDate, At
    <2> QED
      BY <2>1, <2>2
  <1>4. ChangeEndsSessions'
    BY <1>3 DEF ChangeEndsSessions, Told
  <1>5. /\ call'[c].step = "trimming"
        /\ \A d \in Calls \ {c} : call'[d] = call[d]
    BY DEF createSession, TypeInv, TypeOK, Call
  <1> QED
    BY <1>1, <1>4, <1>5, CallAside DEF EraInv

LEMMA RefreshEra ==
    ASSUME TypeInv, EraInv, NEW c \in Calls, NEW t \in tokens, refresh(c, t)
    PROVE  EraInv'
  <1>1. call'[c].step = "renewing" /\ call'[c].user = Holder(t) /\ call'[c].sid = t.sid
    BY DEF refresh, Idle, TypeInv, TypeOK
  <1>2. notRevoked(t, account[Holder(t)]) /\ Told(t)
    BY ToldIsEra DEF refresh, EraInv
  <1>3. UpToDate(c)'
    BY <1>1, <1>2 DEF UpToDate, At, Told, refresh
  <1>4. \A d \in Calls \ {c} : call'[d] = call[d]
    BY DEF refresh, TypeInv, TypeOK
  <1> QED
    BY <1>3, <1>4, TokensAside, CallAside DEF refresh, EraInv

LEMMA ExtendEra ==
    ASSUME TypeInv, EraInv, NEW c \in Calls, NEW ims \in Time, extendSession(c, ims)
    PROVE  EraInv'
  <1> DEFINE s == call[c].sid
  <1>1. /\ s \in Sids /\ At(c, "renewing") /\ UpToDate(c) /\ Holder([sid |-> s]) = call[c].user
        /\ account' = account
    BY DEF extendSession, TypeInv, InHand, EraInv, Holder
  <1>2. /\ \A r \in Sids : /\ session'[r].user = session[r].user
                           /\ session'[r].era = session[r].era
        /\ crossed \subseteq crossed'
        /\ \A t \in tokens' \ tokens : t.sid = s /\ (call[c].met => s \in crossed')
    BY DEF extendSession, extend, Issue, TypeInv, TypeOK, Session
  <1>3. ASSUME NEW t \in tokens' PROVE Told(t)'
    <2>1. CASE t \in tokens
      <3>1. Told(t) /\ t.sid \in Sids
        BY <2>1, ToldIsEra DEF EraInv, TypeInv, TypeOK, Token
      <3> QED
        BY <1>1, <1>2, <3>1 DEF Told, Holder, notRevoked
    <2>2. CASE t \notin tokens
      BY <1>1, <1>2, <2>2 DEF Told, Holder, UpToDate
    <2> QED
      BY <2>1, <2>2
  <1>4. ChangeEndsSessions'
    BY <1>3 DEF ChangeEndsSessions, Told
  <1>5. \A d \in Calls : call'[d] \in {call[d], Idle}
    BY DEF extendSession, Done, TypeInv, TypeOK
  <1> QED
    BY <1>1, <1>2, <1>4, <1>5, IdleType, CallAside DEF EraInv

(* The saved change refuses every token stamped before it; the rest belong  *)
(* to sessions it met.                                                      *)
LEMMA SaveEra ==
    ASSUME TypeInv, EraInv, NEW c \in Calls, NEW ims \in Time, saveNewPassword(c, ims)
    PROVE  EraInv'
  <1> DEFINE u == call[c].user
             seen == call[c].seen
  <1>1. u \in Users /\ seen \in Copy /\ account[u] \in Account /\ account[u].changes < MaxChanges
    BY DEF saveNewPassword, TypeInv, TypeOK, InHand, At
  <1>2. /\ account'[u].changedAt = ims
        /\ \A w \in Users \ {u} : account'[w] = account[w]
        /\ session' = session /\ tokens' = tokens
        /\ crossed' = crossed \cup
               {s \in Sids : session[s].user = u
                             /\ \E t \in tokens : t.sid = s /\ t.ims >= ims}
    BY <1>1, SavedType DEF saveNewPassword, TypeInv, TypeOK
  <1>3. ASSUME NEW t \in tokens PROVE Told(t)'
    <2>1. t.sid \in Sids /\ t.ims \in Time /\ Holder(t) \in Users /\ Told(t)
          /\ Holder(t)' = Holder(t)
      BY <1>2, ToldIsEra DEF EraInv, TypeInv, TypeOK, Token, Holder
    <2>2. CASE Holder(t) = u
      <3>1. CASE t.ims >= ims
        BY <1>2, <2>1, <2>2, <3>1 DEF Told, Holder
      <3>2. CASE ~(t.ims >= ims)
        BY <1>2, <2>1, <2>2, <3>2, Numbers DEF Told, notRevoked
      <3> QED
        BY <3>1, <3>2
    <2>3. CASE Holder(t) # u
      BY <1>2, <2>1, <2>3 DEF Told
    <2> QED
      BY <2>2, <2>3
  <1>4. ChangeEndsSessions'
    BY <1>2, <1>3 DEF ChangeEndsSessions, Told
  <1>5. ASSUME NEW d \in Calls PROVE UpToDate(d)'
    <2>1. CASE d = c
      <3>1. call'[d].step \in {"idle", "revoking"}
        BY <2>1, IdleType DEF saveNewPassword, Idle
      <3> QED
        BY <3>1 DEF UpToDate, At
    <2>2. CASE d # c /\ Meets(d, u)
      <3>1. call'[d].met
        BY <2>2 DEF saveNewPassword, TypeInv, TypeOK, Call
      <3> QED
        BY <3>1 DEF UpToDate
    <2>3. CASE d # c /\ ~Meets(d, u)
      <3>1. call'[d] = call[d]
        BY <2>3 DEF saveNewPassword
      <3>2. \/ call[d].step \notin {"counting", "accepted", "signing", "renewing"}
            \/ call[d].user # u /\ call[d].user \in Users
        BY <2>3 DEF Meets, TypeInv, InHand, At
      <3> QED
        BY <1>2, <3>1, <3>2 DEF UpToDate, EraInv, At
    <2> QED
      BY <2>1, <2>2, <2>3
  <1> QED
    BY <1>4, <1>5 DEF EraInv

LEMMA NextEra == TypeInv /\ EraInv /\ [Next]_vars => EraInv'
  <1> SUFFICES ASSUME TypeInv, EraInv, [Next]_vars PROVE EraInv'
    OBVIOUS
  <1>1. ASSUME \A d \in Calls : \/ call'[d] = call[d]
                                \/ call'[d].step \notin {"counting", "accepted", "signing",
                                                         "renewing"},
               \A u \in Users : /\ account'[u].changes = account[u].changes
                                /\ account'[u].changedAt = account[u].changedAt,
               UNCHANGED <<session, tokens, crossed>>
        PROVE  EraInv'
    BY <1>1, TokensAside, CallAside DEF EraInv
  <1>2. ASSUME NEW S, End(S),
               \A d \in Calls : call'[d] \in {call[d], Idle},
               UNCHANGED <<account, tokens, crossed>>
        PROVE  EraInv'
    BY <1>2, EndType, IdleType, TokensAside, CallAside DEF EraInv
  <1>3. ASSUME NEW c \in Calls, findSurplus(c) PROVE EraInv'
    <2>1. \A d \in Calls : call'[d] = call[d] \/ call'[d].step \in {"idle", "ending"}
      BY <1>3, IdleType DEF findSurplus, Done, TypeInv, TypeOK, Call
    <2> QED
      BY <1>1, <1>3, <2>1 DEF findSurplus
  <1>4. ASSUME NEW c \in Calls, NEW k \in {"changing", "resetting"}, NEW u, NEW seen,
               call' = [call EXCEPT ![c] = [Idle EXCEPT !.step = k, !.user = u,
                                              !.seen = seen, !.since = now]],
               UNCHANGED <<account, session, tokens, crossed>>
        PROVE  EraInv'
    <2>1. \A d \in Calls : call'[d] = call[d] \/ call'[d].step = k
      BY <1>4 DEF Idle, TypeInv, TypeOK
    <2> QED
      BY <1>1, <1>4, <2>1
  <1>5. CASE LoginSteps
    <2>1. ASSUME NEW c \in Calls, endSurplus(c) PROVE EraInv'
      <3>1. \A d \in Calls : call'[d] \in {call[d], Idle}
        BY <2>1 DEF endSurplus, Done, TypeInv, TypeOK
      <3> QED
        BY <1>2, <2>1, <3>1 DEF endSurplus
    <2> QED
      BY <1>3, <1>5, <2>1, LoginEra, ClaimEra, NoteSuccessEra, CreateEra DEF LoginSteps
  <1>6. CASE TokenSteps
    BY <1>2, <1>6, RefreshEra, ExtendEra DEF TokenSteps, logout, sessionExpires
  <1>7. CASE PasswordSteps
    <2>1. ASSUME NEW c \in Calls, endSessions(c) PROVE EraInv'
      <3>1. \A d \in Calls : call'[d] \in {call[d], Idle}
        BY <2>1 DEF endSessions, Done, TypeInv, TypeOK
      <3> QED
        BY <1>2, <2>1, <3>1 DEF endSessions
    <2> QED
      BY <1>4, <1>7, <2>1, SaveEra DEF PasswordSteps, changePassword, resetPassword
  <1>8. ASSUME NEW u \in Users, lockRunsOut(u) \/ setActive(u) PROVE EraInv'
    <2>1. \A w \in Users : /\ account'[w].changes = account[w].changes
                           /\ account'[w].changedAt = account[w].changedAt
      BY <1>8 DEF lockRunsOut, setActive, TypeInv, TypeOK, Account
    <2> QED
      BY <1>1, <1>8, <2>1 DEF lockRunsOut, setActive
  <1>9. CASE Restart
    BY <1>1, <1>9, IdleType DEF Restart
  <1>10. CASE Tick \/ UNCHANGED vars
    BY <1>1, <1>10 DEF Tick, vars
  <1> QED
    BY <1>5, <1>6, <1>7, <1>8, <1>9, <1>10 DEF Next

(* However sign-ins, refreshes, changes and resets overlap, a token the     *)
(* account still accepts comes of its present password, or of a session     *)
(* that was in the making when the password changed.                        *)
THEOREM ChangesEndSessions == Spec => []ChangeEndsSessions
  <1>1. Init => EraInv
    BY IdleType DEF Init, EraInv, ChangeEndsSessions, UpToDate, At
  <1>2. EraInv => ChangeEndsSessions
    BY DEF EraInv
  <1> QED
    BY <1>1, <1>2, InitTypeInv, NextTypes, NextEra, PTL DEF Spec

-----------------------------------------------------------------------------
(* The cap. Two sign-ins of one account may both have read which sessions   *)
(* are surplus and not yet deleted them, so the count of live sessions says *)
(* little by itself: what is capped is what remains of them once any of the *)
(* sign-ins about to delete have done so.                                   *)

Ending(u) == {c \in Calls : At(c, "ending") /\ call[c].user = u}
Rest(u, D) == Live(u) \ UNION {call[d].surplus : d \in D}

CapAt(u) == \A D \in SUBSET Ending(u) :
                Cardinality(Rest(u, D)) <= MaxSessions + Cardinality(Untrimmed(u) \ D) + left[u]

CapInv == \A u \in Users : CapAt(u)

LEMMA Counts ==
    /\ \A S \in SUBSET Sids : IsFiniteSet(S) /\ Cardinality(S) \in Nat
    /\ \A S \in SUBSET Sids : \A T : T \subseteq S => Cardinality(T) <= Cardinality(S)
    /\ \A C \in SUBSET Calls : IsFiniteSet(C) /\ Cardinality(C) \in Nat
  BY FiniteAssumption, FS_Subset, FS_CardinalityType

LEMMA LiveIds == \A u : /\ Live(u) \in SUBSET Sids /\ Live(u)' \in SUBSET Sids
                        /\ Untrimmed(u) \in SUBSET Calls /\ Untrimmed(u)' \in SUBSET Calls
                        /\ \A D : Rest(u, D) \in SUBSET Sids /\ Rest(u, D)' \in SUBSET Sids
  BY DEF Live, Untrimmed, Rest

(* A step that lets sessions of the account end and leaves the sign-ins     *)
(* that have yet to trim where they are.                                    *)
LEMMA Shrinks ==
    ASSUME TypeInv, NEW u \in Users, CapAt(u),
           Live(u)' \subseteq Live(u), left'[u] = left[u],
           Untrimmed(u)' = Untrimmed(u),
           \A d \in Ending(u)' : d \in Ending(u) /\ call'[d].surplus = call[d].surplus
    PROVE  CapAt(u)'
  <1> SUFFICES ASSUME NEW D \in SUBSET Ending(u)'
               PROVE  Cardinality(Rest(u, D)')
                         <= MaxSessions + Cardinality(Untrimmed(u)' \ D) + left'[u]
    BY DEF CapAt
  <1>1. D \in SUBSET Ending(u) /\ Rest(u, D)' \subseteq Rest(u, D)
    BY DEF Rest
  <1>2. Cardinality(Rest(u, D)') <= Cardinality(Rest(u, D))
    BY <1>1, Counts, LiveIds
  <1>3. Cardinality(Rest(u, D)) <= MaxSessions + Cardinality(Untrimmed(u) \ D) + left[u]
    BY <1>1 DEF CapAt
  <1>4. /\ Cardinality(Untrimmed(u) \ D) \in Nat /\ left[u] \in Nat
        /\ Cardinality(Rest(u, D)) \in Nat /\ Cardinality(Rest(u, D)') \in Nat
    BY Counts, LiveIds DEF TypeInv, TypeOK
  <1> QED
    BY <1>2, <1>3, <1>4, LimitsAssumption

LEMMA SameCalls ==
    ASSUME TypeInv, CapInv, left' = left,
           \A u \in Users : Live(u)' \subseteq Live(u),
           \A d \in Calls :
              \/ call'[d] = call[d]
              \/ /\ call[d].step \notin {"trimming", "ending"}
                 /\ call'[d].step \notin {"trimming", "ending"}
    PROVE  CapInv'
  <1> SUFFICES ASSUME NEW u \in Users PROVE CapAt(u)'
    BY DEF CapInv
  <1>1. Untrimmed(u)' = Untrimmed(u)
    BY DEF Untrimmed
  <1>2. \A d \in Ending(u)' : d \in Ending(u) /\ call'[d].surplus = call[d].surplus
    BY DEF Ending, At
  <1> QED
    BY <1>1, <1>2, Shrinks DEF CapInv

(* A new session is paid for by the sign-in that has yet to trim.           *)
LEMMA CreateCap ==
    ASSUME TypeInv, CapInv, NEW c \in Calls, NEW s \in Sids, NEW ims \in Time,
           createSession(c, s, ims)
    PROVE  CapInv'
  <1>1. /\ At(c, "signing") /\ call'[c].step = "trimming" /\ call'[c].user = call[c].user
        /\ \A d \in Calls \ {c} : call'[d] = call[d]
        /\ session'[s].user = call[c].user
        /\ \A r \in Sids \ {s} : session'[r] = session[r]
        /\ left' = left
    BY DEF createSession, TypeInv, TypeOK, Call
  <1> SUFFICES ASSUME NEW u \in Users PROVE CapAt(u)'
    BY DEF CapInv
  <1>2. CASE call[c].user # u
    <2>1. Live(u)' \subseteq Live(u)
      BY <1>1, <1>2 DEF Live
    <2>2. Untrimmed(u)' = Untrimmed(u)
      BY <1>1, <1>2 DEF Untrimmed
    <2>3. \A d \in Ending(u)' : d \in Ending(u) /\ call'[d].surplus = call[d].surplus
      BY <1>1, <1>2 DEF Ending, At
    <2> QED
      BY <1>1, <2>1, <2>2, <2>3, Shrinks DEF CapInv
  <1>3. CASE call[c].user = u
    <2> SUFFICES ASSUME NEW D \in SUBSET Ending(u)'
                 PROVE  Cardinality(Rest(u, D)')
                           <= MaxSessions + Cardinality(Untrimmed(u)' \ D) + left'[u]
      BY DEF CapAt
    <2>1. D \in SUBSET Ending(u) /\ c \notin D
      BY <1>1 DEF Ending, At
    <2>2. Rest(u, D)' \subseteq Rest(u, D) \cup {s}
      BY <1>1, <2>1 DEF Rest, Live, Ending
    <2>3. Untrimmed(u)' \ D = (Untrimmed(u) \ D) \cup {c} /\ c \notin Untrimmed(u)
      BY <1>1, <1>3, <2>1 DEF Untrimmed, At
    <2>4. Cardinality(Rest(u, D)') <= Cardinality(Rest(u, D)) + 1
      <3>1. Cardinality(Rest(u, D)') <= Cardinality(Rest(u, D) \cup {s})
        BY <2>2, Counts, LiveIds
      <3>2. Cardinality(Rest(u, D) \cup {s}) <= Cardinality(Rest(u, D)) + 1
        <4>1. /\ IsFiniteSet(Rest(u, D)) /\ Cardinality(Rest(u, D)) \in Nat
          BY Counts, LiveIds
        <4> HIDE DEF Rest
        <4>2. Cardinality(Rest(u, D) \cup {s})
                 \in {Cardinality(Rest(u, D)), Cardinality(Rest(u, D)) + 1}
          BY <4>1, FS_AddElement, Zenon
        <4> QED
          BY <4>1, <4>2
      <3>3. Cardinality(Rest(u, D) \cup {s}) \in Nat
        BY Counts, LiveIds
      <3> QED
        BY <3>1, <3>2, <3>3, Counts, LiveIds
    <2>5. Cardinality(Untrimmed(u)' \ D) = Cardinality(Untrimmed(u) \ D) + 1
      BY <2>3, Counts, LiveIds, FS_AddElement
    <2>6. Cardinality(Rest(u, D)) <= MaxSessions + Cardinality(Untrimmed(u) \ D) + left[u]
      BY <2>1 DEF CapInv, CapAt
    <2>7. /\ Cardinality(Untrimmed(u) \ D) \in Nat /\ left[u] \in Nat
          /\ Cardinality(Rest(u, D)) \in Nat /\ Cardinality(Rest(u, D)') \in Nat
      BY Counts, LiveIds DEF TypeInv, TypeOK
    <2> QED
      BY <1>1, <2>4, <2>5, <2>6, <2>7, LimitsAssumption
  <1> QED
    BY <1>2, <1>3

(* Reading the surplus leaves at most MaxSessions outside it.               *)
LEMMA FindCap ==
    ASSUME TypeInv, CapInv, NEW c \in Calls, findSurplus(c)
    PROVE  CapInv'
  <1> DEFINE w == call[c].user
  <1>1. PICK S \in SUBSET Live(w) :
             /\ IsSurplus(Live(w), S)
             /\ IF S = {} THEN Done(c)
                ELSE call' = [call EXCEPT ![c].step = "ending", ![c].surplus = S]
    BY DEF findSurplus
  <1>2. At(c, "trimming") /\ session' = session /\ left' = left /\ w \in Users
    BY DEF findSurplus, TypeInv, InHand, At
  <1>3. Cardinality(Live(w) \ S) <= MaxSessions
    BY <1>1, Counts, LiveIds, LimitsAssumption DEF IsSurplus
  <1>4. /\ \A d \in Calls \ {c} : call'[d] = call[d]
        /\ \/ S = {} /\ call'[c] = Idle
           \/ /\ call'[c].step = "ending" /\ call'[c].user = w
              /\ call'[c].surplus = S
    BY <1>1 DEF Done, TypeInv, TypeOK, Call
  <1>5. \A u \in Users : Live(u)' = Live(u)
    BY <1>2 DEF Live
  <1> SUFFICES ASSUME NEW u \in Users PROVE CapAt(u)'
    BY DEF CapInv
  <1>6. CASE u # w
    <2>1. Untrimmed(u)' = Untrimmed(u)
      BY <1>4, <1>6, IdleType DEF Untrimmed
    <2>2. \A d \in Ending(u)' : d \in Ending(u) /\ call'[d].surplus = call[d].surplus
      BY <1>4, <1>6, IdleType DEF Ending, At
    <2> QED
      BY <1>2, <1>5, <2>1, <2>2, Shrinks DEF CapInv
  <1>7. CASE u = w
    <2> SUFFICES ASSUME NEW D \in SUBSET Ending(u)'
                 PROVE  Cardinality(Rest(u, D)')
                           <= MaxSessions + Cardinality(Untrimmed(u)' \ D) + left'[u]
      BY DEF CapAt
    <2>1. /\ Cardinality(Untrimmed(u)' \ D) \in Nat /\ left[u] \in Nat
          /\ Cardinality(Untrimmed(u) \ D) \in Nat
          /\ Cardinality(Live(w) \ S) \in Nat
          /\ Cardinality(Rest(u, D)) \in Nat /\ Cardinality(Rest(u, D)') \in Nat
      BY Counts, LiveIds DEF TypeInv, TypeOK
    <2>2. CASE S = {} \/ c \in D
      <3>1. Rest(u, D)' \subseteq Live(w) \ S
        <4>1. CASE S = {}
          BY <1>5, <1>7, <4>1 DEF Rest
        <4>2. CASE c \in D /\ S # {}
          BY <1>4, <1>5, <1>7, <4>2 DEF Rest
        <4> QED
          BY <2>2, <4>1, <4>2
      <3>2. Cardinality(Rest(u, D)') <= Cardinality(Live(w) \ S)
        BY <3>1, Counts, LiveIds
      <3> QED
        BY <1>2, <1>3, <2>1, <3>2, LimitsAssumption
    <2>3. CASE S # {} /\ c \notin D
      <3>1. D \in SUBSET Ending(u) /\ Rest(u, D)' = Rest(u, D)
        BY <1>4, <1>5, <2>3 DEF Ending, At, Rest
      <3>2. Untrimmed(u)' = Untrimmed(u)
        BY <1>2, <1>4, <1>7, <2>3 DEF Untrimmed, At
      <3>3. Cardinality(Rest(u, D)) <= MaxSessions + Cardinality(Untrimmed(u) \ D) + left[u]
        BY <3>1 DEF CapInv, CapAt
      <3> QED
        BY <1>2, <3>1, <3>2, <3>3
    <2> QED
      BY <2>2, <2>3
  <1> QED
    BY <1>6, <1>7

LEMMA EndSurplusCap ==
    ASSUME TypeInv, CapInv, NEW c \in Calls, endSurplus(c)
    PROVE  CapInv'
  <1> SUFFICES ASSUME NEW u \in Users PROVE CapAt(u)'
    BY DEF CapInv
  <1>1. /\ \A s \in Sids : /\ session'[s].user = session[s].user
                           /\ session'[s].state = "live"
                                 <=> session[s].state = "live" /\ s \notin call[c].surplus
    BY EndType DEF endSurplus
  <1>2. /\ At(c, "ending") /\ call'[c].step = "idle" /\ left' = left
        /\ \A d \in Calls \ {c} : call'[d] = call[d]
    BY IdleType DEF endSurplus, Done, TypeInv, TypeOK
  <1>3. Live(u)' = Live(u) \ call[c].surplus
    BY <1>1 DEF Live
  <1>4. CASE call[c].user # u
    <2>1. Untrimmed(u)' = Untrimmed(u)
      BY <1>2, <1>4 DEF Untrimmed
    <2>2. \A d \in Ending(u)' : d \in Ending(u) /\ call'[d].surplus = call[d].surplus
      BY <1>2 DEF Ending, At
    <2> QED
      BY <1>2, <1>3, <2>1, <2>2, Shrinks DEF CapInv
  <1>5. CASE call[c].user = u
    <2> SUFFICES ASSUME NEW D \in SUBSET Ending(u)'
                 PROVE  Cardinality(Rest(u, D)')
                           <= MaxSessions + Cardinality(Untrimmed(u)' \ D) + left'[u]
      BY DEF CapAt
    <2> DEFINE E == D \cup {c}
    <2>1. E \in SUBSET Ending(u) /\ c \notin D
      BY <1>2, <1>5 DEF Ending, At
    <2>2. Rest(u, D)' = Rest(u, E)
      <3>1. \A d \in D : call'[d].surplus = call[d].surplus
        BY <1>2, <2>1 DEF Ending
      <3>2. UNION {call'[d].surplus : d \in D} = UNION {call[d].surplus : d \in D}
        BY <3>1
      <3>3. UNION {call[d].surplus : d \in E}
               = (UNION {call[d].surplus : d \in D}) \cup call[c].surplus
        OBVIOUS
      <3> QED
        BY <1>3, <3>2, <3>3 DEF Rest
    <2>3. Untrimmed(u)' \ D = Untrimmed(u) \ E
      BY <1>2, <1>5 DEF Untrimmed
    <2>4. Cardinality(Rest(u, E)) <= MaxSessions + Cardinality(Untrimmed(u) \ E) + left[u]
      BY <2>1 DEF CapInv, CapAt
    <2> QED
      BY <1>2, <2>2, <2>3, <2>4
  <1> QED
    BY <1>4, <1>5

(* A restart forgets who had yet to trim, and is charged for them.          *)
LEMMA RestartCap == ASSUME TypeInv, CapInv, Restart PROVE CapInv'
  <1> SUFFICES ASSUME NEW u \in Users PROVE CapAt(u)'
    BY DEF CapInv
  <1>1. /\ \A c \in Calls : call'[c] = Idle
        /\ left'[u] = left[u] + Cardinality(Untrimmed(u))
        /\ Live(u)' = Live(u)
    BY DEF Restart, Live, TypeInv, TypeOK
  <1>2. Ending(u)' = {} /\ Untrimmed(u)' = {}
    BY <1>1, IdleType DEF Ending, Untrimmed, At
  <1>3. Cardinality(Rest(u, {})) <= MaxSessions + Cardinality(Untrimmed(u) \ {}) + left[u]
    BY DEF CapInv, CapAt
  <1>4. Rest(u, {}) = Live(u) /\ Rest(u, {})' = Live(u) /\ Untrimmed(u) \ {} = Untrimmed(u)
    BY <1>1 DEF Rest
  <1>5. Cardinality(Untrimmed(u)) \in Nat /\ left[u] \in Nat /\ Cardinality(Live(u)) \in Nat
    BY Counts, LiveIds DEF TypeInv, TypeOK
  <1>6. Cardinality(Rest(u, {})')
           <= MaxSessions + Cardinality(Untrimmed(u)' \ {}) + left'[u]
    BY <1>1, <1>2, <1>3, <1>4, <1>5, FS_EmptySet, LimitsAssumption
  <1> QED
    BY <1>2, <1>6 DEF CapAt

LEMMA NextCap == TypeInv /\ CapInv /\ [Next]_vars => CapInv'
  <1> SUFFICES ASSUME TypeInv, CapInv, [Next]_vars PROVE CapInv'
    OBVIOUS
  <1>1. ASSUME session' = session, left' = left,
               \A d \in Calls :
                  \/ call'[d] = call[d]
                  \/ /\ call[d].step \notin {"trimming", "ending"}
                     /\ call'[d].step \notin {"trimming", "ending"}
        PROVE  CapInv'
    BY <1>1, SameCalls DEF Live
  <1>2. ASSUME NEW S, End(S), left' = left,
               \A d \in Calls :
                  \/ call'[d] = call[d]
                  \/ /\ call[d].step \notin {"trimming", "ending"}
                     /\ call'[d].step \notin {"trimming", "ending"}
        PROVE  CapInv'
    <2>1. \A u \in Users : Live(u)' \subseteq Live(u)
      BY <1>2, EndType DEF Live
    <2> QED
      BY <1>2, <2>1, SameCalls
  <1>3. CASE LoginSteps
    <2>1. ASSUME NEW c \in Calls, NEW u \in Users, login(c, u) PROVE CapInv'
      BY <1>1, <2>1, IdleType DEF login, At, Idle, TypeInv, TypeOK
    <2>2. ASSUME NEW c \in Calls, NEW right \in BOOLEAN, claimAttempt(c, right) PROVE CapInv'
      <3>1. call'[c].step \in {"idle", "accepted"} /\ \A d \in Calls \ {c} : call'[d] = call[d]
        BY <2>2, IdleType DEF claimAttempt, Done, TypeInv, TypeOK, Call
      <3> QED
        BY <1>1, <2>2, <3>1 DEF claimAttempt, At
    <2>3. ASSUME NEW c \in Calls, noteSuccess(c) PROVE CapInv'
      <3>1. call'[c].step = "signing" /\ \A d \in Calls \ {c} : call'[d] = call[d]
        BY <2>3 DEF noteSuccess, TypeInv, TypeOK, Call
      <3> QED
        BY <1>1, <2>3, <3>1 DEF noteSuccess, At
    <2> QED
      BY <1>3, <2>1, <2>2, <2>3, CreateCap, FindCap, EndSurplusCap DEF LoginSteps
  <1>4. CASE TokenSteps
    <2>1. ASSUME NEW c \in Calls, NEW t \in tokens, refresh(c, t) PROVE CapInv'
      BY <1>1, <2>1 DEF refresh, At, Idle, TypeInv, TypeOK
    <2>2. ASSUME NEW c \in Calls, NEW ims \in Time, extendSession(c, ims) PROVE CapInv'
      <3>1. \A u \in Users : Live(u)' \subseteq Live(u)
        BY <2>2 DEF extendSession, extend, Live, TypeInv, TypeOK, Session
      <3>2. \A d \in Calls : (d = c /\ call'[d] = Idle) \/ call'[d] = call[d]
        BY <2>2 DEF extendSession, Done, TypeInv, TypeOK
      <3> QED
        BY <2>2, <3>1, <3>2, IdleType, SameCalls DEF extendSession, At
    <2> QED
      BY <1>2, <1>4, <2>1, <2>2 DEF TokenSteps, logout, sessionExpires
  <1>5. CASE PasswordSteps
    <2>1. ASSUME NEW c \in Calls, NEW k \in {"changing", "resetting"}, NEW u, NEW seen,
                 At(c, "idle"),
                 call' = [call EXCEPT ![c] = [Idle EXCEPT !.step = k, !.user = u,
                                                !.seen = seen, !.since = now]],
                 UNCHANGED <<session, left>>
          PROVE  CapInv'
      <3>1. call'[c].step = k /\ \A d \in Calls \ {c} : call'[d] = call[d]
        BY <2>1 DEF Idle, TypeInv, TypeOK
      <3> QED
        BY <1>1, <2>1, <3>1 DEF At
    <2>2. ASSUME NEW c \in Calls, NEW ims \in Time, saveNewPassword(c, ims) PROVE CapInv'
      <3>1. ASSUME NEW d \in Calls
            PROVE  \/ call'[d] = call[d]
                   \/ /\ call[d].step \notin {"trimming", "ending"}
                      /\ call'[d].step \notin {"trimming", "ending"}
        <4>1. CASE d = c
          <5>1. call'[d].step \in {"idle", "revoking"}
            BY <2>2, <4>1, IdleType DEF saveNewPassword, Idle
          <5> QED
            BY <2>2, <4>1, <5>1 DEF saveNewPassword
        <4>2. CASE d # c /\ Meets(d, call[c].user)
          <5>1. call'[d].step = call[d].step
            BY <2>2, <4>2 DEF saveNewPassword, TypeInv, TypeOK, Call
          <5> QED
            BY <4>2, <5>1 DEF Meets
        <4>3. CASE d # c /\ ~Meets(d, call[c].user)
          BY <2>2, <4>3 DEF saveNewPassword
        <4> QED
          BY <4>1, <4>2, <4>3
      <3> QED
        BY <1>1, <2>2, <3>1 DEF saveNewPassword
    <2>3. ASSUME NEW c \in Calls, endSessions(c) PROVE CapInv'
      <3>1. \A d \in Calls : (d = c /\ call'[d] = Idle) \/ call'[d] = call[d]
        BY <2>3 DEF endSessions, Done, TypeInv, TypeOK
      <3> QED
        BY <1>2, <2>3, <3>1, IdleType DEF endSessions, At
    <2> QED
      BY <1>5, <2>1, <2>2, <2>3 DEF PasswordSteps, changePassword, resetPassword
  <1>6. ASSUME NEW u \in Users, lockRunsOut(u) \/ setActive(u) PROVE CapInv'
    BY <1>1, <1>6 DEF lockRunsOut, setActive
  <1>7. CASE Tick \/ UNCHANGED vars
    BY <1>1, <1>7 DEF Tick, vars
  <1> QED
    BY <1>3, <1>4, <1>5, <1>6, <1>7, RestartCap DEF Next

(* However many sign-ins of an account overlap, and wherever a restart cuts *)
(* them off, it keeps no more than MaxSessions sessions beyond those whose  *)
(* sign-in has yet to trim or was kept from it.                             *)
THEOREM CapHolds == Spec => []SessionsAreCapped
  <1>1. Init => CapInv
    <2> SUFFICES ASSUME Init, NEW u \in Users PROVE CapAt(u)
      BY DEF CapInv
    <2>1. Live(u) = {} /\ Ending(u) = {} /\ Untrimmed(u) = {} /\ left[u] = 0
      BY IdleType DEF Init, Live, Ending, Untrimmed, At, Unused
    <2>2. Cardinality(Rest(u, {})) = 0 /\ Cardinality(Untrimmed(u) \ {}) = 0
      BY <2>1, FS_EmptySet DEF Rest
    <2> QED
      BY <2>1, <2>2, LimitsAssumption DEF CapAt
  <1>2. CapInv => SessionsAreCapped
    <2>1. ASSUME NEW u \in Users, CapAt(u)
          PROVE  Cardinality(Live(u)) <= MaxSessions + Cardinality(Untrimmed(u)) + left[u]
      <3>1. Rest(u, {}) = Live(u) /\ Untrimmed(u) \ {} = Untrimmed(u)
        BY DEF Rest
      <3> QED
        BY <2>1, <3>1 DEF CapAt
    <2> QED
      BY <2>1 DEF CapInv, SessionsAreCapped
  <1> QED
    BY <1>1, <1>2, InitTypeInv, NextTypes, NextCap, PTL DEF Spec

-----------------------------------------------------------------------------
(* Passwords: as long as no hash is of the old parameters, nobody has a     *)
(* copy of the account from which an old password would be stored again.    *)
Plain(acc) == acc.stale = FALSE /\ acc.password = acc.changes

ReadPlain(c) == call[c].step \in {"counting", "accepted"} => call[c].seen.stale = FALSE

PlainInv == /\ \A u \in Users : Plain(account[u])
            /\ \A c \in Calls : ReadPlain(c)

LEMMA PlainAside ==
    ASSUME PlainInv,
           \A u \in Users : /\ account'[u].stale = account[u].stale
                            /\ account'[u].password = account[u].password
                            /\ account'[u].changes = account[u].changes,
           \A d \in Calls : \/ call'[d].step = call[d].step /\ call'[d].seen = call[d].seen
                            \/ call'[d].step \notin {"counting", "accepted"}
    PROVE  PlainInv'
  BY DEF PlainInv, Plain, ReadPlain

LEMMA PlainLogin ==
    ASSUME TypeInv, PlainInv, NEW c \in Calls,
           \/ \E u \in Users : login(c, u)
           \/ \E right \in BOOLEAN : claimAttempt(c, right)
    PROVE  PlainInv'
  <1>1. ASSUME NEW u \in Users, login(c, u) PROVE PlainInv'
    <2> DEFINE copy == read(account[u])
    <2>1. copy.stale = account[u].stale
      BY DEF read
    <2>2. /\ call' = [call EXCEPT ![c] = [Idle EXCEPT !.step = "counting", !.user = u,
                                                      !.seen = copy]]
          /\ account' = account
      BY <1>1 DEF login, read, At
    <2> HIDE DEF copy
    <2>3. call'[c].seen = copy /\ \A d \in Calls \ {c} : call'[d] = call[d]
      BY <2>2 DEF Idle, TypeInv, TypeOK
    <2> QED
      BY <2>1, <2>2, <2>3 DEF PlainInv, Plain, ReadPlain
  <1>2. ASSUME NEW right \in BOOLEAN, claimAttempt(c, right) PROVE PlainInv'
    <2>1. ASSUME NEW u \in Users
          PROVE  /\ account'[u].stale = account[u].stale
                 /\ account'[u].password = account[u].password
                 /\ account'[u].changes = account[u].changes
      <3>1. account[u] \in Account
        BY DEF TypeInv, TypeOK
      <3>2. /\ countAttempt(account[u], call[c].seen).stale = account[u].stale
            /\ countAttempt(account[u], call[c].seen).password = account[u].password
            /\ countAttempt(account[u], call[c].seen).changes = account[u].changes
        BY <3>1 DEF countAttempt, Account
      <3> QED
        BY <1>2, <3>2 DEF claimAttempt, TypeInv, TypeOK
    <2>2. \/ call'[c] = Idle
          \/ /\ call[c].step = "counting" /\ call'[c].step = "accepted"
             /\ call'[c].seen = call[c].seen
      BY <1>2 DEF claimAttempt, Done, At, TypeInv, TypeOK, Call
    <2>3. ReadPlain(c)'
      BY <2>2, IdleType DEF PlainInv, ReadPlain
    <2>4. \A d \in Calls \ {c} : call'[d] = call[d]
      BY <1>2 DEF claimAttempt, Done, TypeInv, TypeOK
    <2> QED
      BY <2>1, <2>3, <2>4 DEF PlainInv, Plain, ReadPlain
  <1> QED
    BY <1>1, <1>2

LEMMA PlainSuccess ==
    ASSUME TypeInv, PlainInv, NEW c \in Calls, noteSuccess(c)
    PROVE  PlainInv'
  <1> DEFINE u == call[c].user
             password == IF call[c].seen.stale THEN call[c].seen.password ELSE account[u].password
             stale == IF call[c].seen.stale THEN FALSE ELSE account[u].stale
  <1>1. call[c].seen.stale = FALSE /\ u \in Users
    BY DEF noteSuccess, At, PlainInv, ReadPlain, TypeInv, InHand
  <1>2. account' = [account EXCEPT ![u] = [account[u] EXCEPT !.attempts = 0, !.lock = "none",
                                              !.password = password, !.stale = stale]]
    BY <1>1 DEF noteSuccess, TypeInv, TypeOK
  <1>3. password = account[u].password /\ stale = account[u].stale
    BY <1>1
  <1> HIDE DEF password, stale
  <1>4. ASSUME NEW v \in Users
        PROVE  /\ account'[v].stale = account[v].stale
               /\ account'[v].password = account[v].password
               /\ account'[v].changes = account[v].changes
    BY <1>1, <1>2, <1>3 DEF TypeInv, TypeOK, Account
  <1>5. call'[c].step = "signing" /\ \A d \in Calls \ {c} : call'[d] = call[d]
    BY DEF noteSuccess, TypeInv, TypeOK, Call
  <1> QED
    BY <1>4, <1>5, PlainAside

LEMMA PlainSave ==
    ASSUME TypeInv, PlainInv, NEW c \in Calls, NEW ims \in Time, saveNewPassword(c, ims)
    PROVE  PlainInv'
  <1> DEFINE u == call[c].user
             saved == savePassword(account[u], call[c].seen, ims)
  <1>1. u \in Users /\ account[u] \in Account
    BY DEF saveNewPassword, TypeInv, TypeOK, InHand, At
  <1>2. saved.stale = FALSE /\ saved.password = account[u].changes + 1
        /\ saved.changes = account[u].changes + 1
    BY <1>1 DEF savePassword, Account
  <1>3. account' = [account EXCEPT ![u] = saved]
    BY DEF saveNewPassword, TypeInv, TypeOK
  <1> HIDE DEF saved
  <1>4. ASSUME NEW v \in Users PROVE Plain(account[v])'
    BY <1>1, <1>2, <1>3 DEF Plain, PlainInv, TypeInv, TypeOK
  <1>5. ASSUME NEW d \in Calls
        PROVE  \/ call'[d].step = call[d].step /\ call'[d].seen = call[d].seen
               \/ call'[d].step \notin {"counting", "accepted"}
    <2>1. call[d] \in Call
      BY DEF TypeInv, TypeOK
    <2>2. CASE d = c
      BY <2>2, IdleType DEF saveNewPassword, Idle
    <2>3. CASE d # c /\ Meets(d, u)
      BY <2>1, <2>3 DEF saveNewPassword, Call
    <2>4. CASE d # c /\ ~Meets(d, u)
      BY <2>4 DEF saveNewPassword
    <2> QED
      BY <2>2, <2>3, <2>4
  <1> QED
    BY <1>4, <1>5 DEF PlainInv, ReadPlain

LEMMA NextPlain == TypeInv /\ PlainInv /\ [Next]_vars => PlainInv'
  <1> SUFFICES ASSUME TypeInv, PlainInv, [Next]_vars PROVE PlainInv'
    OBVIOUS
  <1>1. ASSUME NEW c \in Calls, NEW s \in Sids, NEW ims \in Time, createSession(c, s, ims)
        PROVE  PlainInv'
    <2>1. call'[c].step = "trimming" /\ \A d \in Calls \ {c} : call'[d] = call[d]
      BY <1>1 DEF createSession, TypeInv, TypeOK, Call
    <2> QED
      BY <1>1, <2>1, PlainAside DEF createSession
  <1>2. ASSUME NEW c \in Calls,
               \/ findSurplus(c) \/ endSurplus(c) \/ endSessions(c)
               \/ \E ims \in Time : extendSession(c, ims)
        PROVE  PlainInv'
    <2>1. /\ call'[c].step \in {"idle", "ending"}
          /\ \A d \in Calls \ {c} : call'[d] = call[d]
          /\ account' = account
      BY <1>2, IdleType
         DEF findSurplus, endSurplus, endSessions, extendSession, Done, TypeInv, TypeOK, Call
    <2> QED
      BY <2>1, PlainAside
  <1>3. ASSUME NEW c \in Calls,
               \/ \E t \in tokens : refresh(c, t) \/ changePassword(c, t)
               \/ \E u \in Users : resetPassword(c, u)
        PROVE  PlainInv'
    <2>1. /\ call'[c].step \in {"renewing", "changing", "resetting"}
          /\ \A d \in Calls \ {c} : call'[d] = call[d]
          /\ account' = account
      <3>1. ASSUME NEW k \in {"renewing", "changing", "resetting"}, NEW next,
                   call' = [call EXCEPT ![c] = next], next.step = k
            PROVE  /\ call'[c].step \in {"renewing", "changing", "resetting"}
                   /\ \A d \in Calls \ {c} : call'[d] = call[d]
        BY <3>1 DEF TypeInv, TypeOK
      <3> QED
        BY <1>3, <3>1
           DEF refresh, changePassword, resetPassword, Idle, read, At, notRevoked, Holder
    <2> QED
      BY <2>1, PlainAside
  <1>4. ASSUME NEW u \in Users, lockRunsOut(u) \/ setActive(u)
        PROVE  PlainInv'
    <2>1. account[u] \in Account
      BY DEF TypeInv, TypeOK
    <2>2. ASSUME NEW v \in Users
          PROVE  /\ account'[v].stale = account[v].stale
                 /\ account'[v].password = account[v].password
                 /\ account'[v].changes = account[v].changes
      BY <1>4, <2>1 DEF lockRunsOut, setActive, TypeInv, TypeOK, Account
    <2>3. call' = call
      BY <1>4 DEF lockRunsOut, setActive
    <2> QED
      BY <2>2, <2>3, PlainAside
  <1>5. CASE Restart
    <2>1. account' = account /\ \A d \in Calls : call'[d] = Idle
      BY <1>5 DEF Restart
    <2> QED
      BY <2>1, IdleType, PlainAside
  <1>6. ASSUME account' = account, call' = call
        PROVE  PlainInv'
    BY <1>6, PlainAside
  <1>7. CASE Tick \/ UNCHANGED vars \/ \E t \in tokens : logout(t)
    BY <1>6, <1>7 DEF Tick, vars, logout
  <1>8. CASE \E s \in Sids : sessionExpires(s)
    BY <1>6, <1>8 DEF sessionExpires
  <1> QED
    BY <1>1, <1>2, <1>3, <1>4, <1>5, <1>7, <1>8, PlainLogin, PlainSuccess, PlainSave
       DEF Next, LoginSteps, TokenSteps, PasswordSteps

(* The password set last is the one the account has, however many sign-ins, *)
(* changes and resets overlap, as long as the hashes were made with the     *)
(* scrypt parameters in use: making an old one again is all that ever takes *)
(* a new password back (noteSuccess, auth.service.ts 306-320).              *)
THEOREM OnlyRehashingTakesBack == Spec => [](~Rehashing => LatestPasswordStands)
  <1>1. ~Rehashing /\ Init => PlainInv
    BY RehashingAssumption, IdleType DEF Init, PlainInv, Plain, ReadPlain
  <1>2. PlainInv => LatestPasswordStands
    BY DEF PlainInv, Plain, LatestPasswordStands
  <1>3. CASE Rehashing
    <2>1. ~Rehashing => LatestPasswordStands
      BY <1>3
    <2> QED
      BY <2>1, PTL
  <1>4. CASE ~Rehashing
    <2>1. Init => PlainInv
      BY <1>1, <1>4
    <2> QED
      BY <1>2, <2>1, InitTypeInv, NextTypes, NextPlain, PTL DEF Spec
  <1> QED
    BY <1>3, <1>4
=============================================================================
