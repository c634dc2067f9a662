------------------------------- MODULE SignIn -------------------------------
(* Signing in and staying signed in: accounts, the lockout count, sessions  *)
(* and the tokens issued for them (auth.service.ts, authenticate.ts,        *)
(* users.service.ts). A call is one HTTP request; every await of it that    *)
(* other requests may slip into is a step boundary. A token is never taken  *)
(* back: it is accepted or refused by what the account says when it is used. *)
EXTENDS Integers, FiniteSets

CONSTANTS Users,        \* accounts
          Calls,        \* requests served at one time
          Sids,         \* session ids newSessionId may draw, each at most once
          None,         \* an absent value
          MaxSessions,  \* MAX_SESSIONS_PER_USER
          MaxAttempts,  \* config.LOGIN_MAX_ATTEMPTS
          MaxChanges,   \* bound: password changes of an account
          MaxTime,      \* bound: milliseconds the behaviour lasts
          Rehashing     \* the scrypt parameters were raised since the hashes were made

ASSUME NoneAssumption == None \notin Users \cup Sids \cup Nat
ASSUME LimitsAssumption == /\ MaxSessions \in Nat \ {0}
                           /\ MaxAttempts \in Nat \ {0}
                           /\ MaxChanges \in Nat
                           /\ MaxTime \in Nat
ASSUME RehashingAssumption == Rehashing \in BOOLEAN
ASSUME FiniteAssumption == IsFiniteSet(Calls) /\ IsFiniteSet(Sids)

VARIABLES now,       \* the server's clock
          account,   \* user documents
          session,   \* AuthSession documents, by id
          tokens,    \* tokens issued so far
          call,      \* requests under way
          misses,    \* history: wrong passwords tried since the count was last cleared
          crossed,   \* history: sessions a password change met in the making
          left       \* history: sign-ins a restart cut off before they trimmed
vars == <<now, account, session, tokens, call, misses, crossed, left>>

Time == 0..MaxTime
MaybeTime == Time \cup {None}

(* A password is known by how many were set before it. A lock that ran out  *)
(* stays on the document until the next attempt.                            *)
Account == [password : 0..MaxChanges, stale : BOOLEAN, changes : 0..MaxChanges,
            changedAt : MaybeTime, attempts : 0..(MaxAttempts - 1),
            lock : {"none", "set", "lapsed"}, active : BOOLEAN]

(* What a call keeps of the copy of the account it has read.                *)
Copy == [password : 0..MaxChanges, stale : BOOLEAN, changes : 0..MaxChanges,
         attempts : 0..(MaxAttempts - 1), lock : {"none", "set", "lapsed"}]

read(acc) == [password |-> acc.password, stale |-> acc.stale, changes |-> acc.changes,
              attempts |-> acc.attempts, lock |-> acc.lock]

(* An AuthSession that exists is live. Kept with it: the number of password *)
(* changes the sign-in that made it had seen.                               *)
Session == [state : {"unused", "live", "ended"}, user : Users \cup {None},
            expiresAt : MaybeTime, era : 0..MaxChanges]

Token == [sid : Sids, ims : Time]

Steps == {"idle", "counting", "accepted", "signing", "trimming", "ending",
          "renewing", "changing", "revoking", "resetting"}

Call == [step : Steps, user : Users \cup {None}, seen : Copy \cup {None},
         sid : Sids \cup {None}, since : MaybeTime, surplus : SUBSET Sids,
         met : BOOLEAN]      \* history: a password change was saved under it

Idle == [step |-> "idle", user |-> None, seen |-> None, sid |-> None,
         since |-> None, surplus |-> {}, met |-> FALSE]

Unused == [state |-> "unused", user |-> None, expiresAt |-> None, era |-> 0]

Init == /\ now = 0
        /\ account = [u \in Users |->
                        [password |-> 0, stale |-> Rehashing, changes |-> 0,
                         changedAt |-> None, attempts |-> 0, lock |-> "none",
                         active |-> TRUE]]
        /\ session = [s \in Sids |-> Unused]
        /\ tokens = {}
        /\ call = [c \in Calls |-> Idle]
        /\ misses = [u \in Users |-> 0]
        /\ crossed = {}
        /\ left = [u \in Users |-> 0]

At(c, step) == call[c].step = step
Done(c) == call' = [call EXCEPT ![c] = Idle]
Live(u) == {s \in Sids : session[s].state = "live" /\ session[s].user = u}

-----------------------------------------------------------------------------
(* Lockout.                                                                 *)

(* Mutant: the count the attempt's own read of the account implies.         *)
countFromTheCopy(acc, seen) ==
    IF seen.attempts + 1 >= MaxAttempts
    THEN [acc EXCEPT !.attempts = 0, !.lock = "set"]
    ELSE [acc EXCEPT !.attempts = seen.attempts + 1, !.lock = "none"]

(* One update counts the attempt and locks the account at the limit.        *)
countAttempt(acc, seen) ==
    IF acc.attempts + 1 >= MaxAttempts
    THEN [acc EXCEPT !.attempts = 0, !.lock = "set"]
    ELSE [acc EXCEPT !.attempts = @ + 1, !.lock = "none"]

(* LOGIN_LOCKOUT_MINUTES have passed.                                       *)
lockRunsOut(u) ==
    /\ account[u].lock = "set"
    /\ account' = [account EXCEPT ![u].lock = "lapsed"]
    /\ misses' = [misses EXCEPT ![u] = 0]
    /\ UNCHANGED <<now, session, tokens, call, crossed, left>>

-----------------------------------------------------------------------------
(* login                                                                    *)

(* The account is read; deactivated, or of a deactivated centre, it goes no *)
(* further.                                                                 *)
login(c, u) ==
    /\ At(c, "idle") /\ account[u].active
    /\ call' = [call EXCEPT ![c] = [Idle EXCEPT !.step = "counting", !.user = u,
                                                !.seen = read(account[u])]]
    /\ UNCHANGED <<now, account, session, tokens, misses, crossed, left>>

(* The attempt is counted unless the account is locked, and only then the   *)
(* password is checked, against the hash the call has read.                 *)
claimAttempt(c, right) ==
    LET u == call[c].user
    IN  /\ At(c, "counting")
        /\ IF account[u].lock = "set"
           THEN Done(c) /\ UNCHANGED <<account, misses>>
           ELSE /\ account' = [account EXCEPT ![u] = countAttempt(@, call[c].seen)]
                /\ IF right
                   THEN /\ call' = [call EXCEPT ![c].step = "accepted"]
                        /\ UNCHANGED misses
                   ELSE /\ Done(c)
                        /\ misses' = [misses EXCEPT ![u] = @ + 1]
        /\ UNCHANGED <<now, session, tokens, crossed, left>>

(* The failure state is cleared; a hash made with the old cost parameters   *)
(* is made again, from the password the call was given.                     *)
noteSuccess(c) ==
    LET u == call[c].user
        seen == call[c].seen
    IN  /\ At(c, "accepted")
        /\ account' = [account EXCEPT
                          ![u].attempts = 0, ![u].lock = "none",
                          ![u].password = IF seen.stale THEN seen.password ELSE @,
                          ![u].stale = IF seen.stale THEN FALSE ELSE @]
        /\ misses' = [misses EXCEPT ![u] = 0]
        /\ call' = [call EXCEPT ![c].step = "signing", ![c].since = now]
        /\ UNCHANGED <<now, session, tokens, crossed, left>>

Issue(c, s, ims) ==
    /\ tokens' = tokens \cup {[sid |-> s, ims |-> ims]}
    /\ crossed' = IF call[c].met THEN crossed \cup {s} ELSE crossed

(* startSession: the tokens are stamped, then their session is stored.      *)
createSession(c, s, ims) ==
    LET u == call[c].user
    IN  /\ At(c, "signing")
        /\ session[s].state = "unused"
        /\ call[c].since <= ims /\ ims <= now
        /\ session' = [session EXCEPT ![s] = [state |-> "live", user |-> u, expiresAt |-> ims,
                                              era |-> call[c].seen.changes]]
        /\ Issue(c, s, ims)
        /\ call' = [call EXCEPT ![c].step = "trimming", ![c].sid = s]
        /\ UNCHANGED <<now, account, misses, left>>

(* Mutant: one session more than the limit is kept.                         *)
oneTooManyKept(live, S) ==
    /\ IF Cardinality(live) > MaxSessions + 1
       THEN Cardinality(live \ S) = MaxSessions + 1 ELSE S = {}
    /\ \A gone \in S, kept \in live \ S :
          session[gone].expiresAt <= session[kept].expiresAt

(* `sort({ expiresAt: -1 }).skip(MAX_SESSIONS_PER_USER)`; sessions that     *)
(* expire together come in any order.                                       *)
IsSurplus(live, S) ==
    /\ IF Cardinality(live) > MaxSessions
       THEN Cardinality(live \ S) = MaxSessions ELSE S = {}
    /\ \A gone \in S, kept \in live \ S :
          session[gone].expiresAt <= session[kept].expiresAt

findSurplus(c) ==
    /\ At(c, "trimming")
    /\ \E S \in SUBSET Live(call[c].user) :
          /\ IsSurplus(Live(call[c].user), S)
          /\ IF S = {} THEN Done(c)
             ELSE call' = [call EXCEPT ![c].step = "ending", ![c].surplus = S]
    /\ UNCHANGED <<now, account, session, tokens, misses, crossed, left>>

End(S) == session' = [s \in Sids |-> IF s \in S /\ session[s].state = "live"
                                     THEN [session[s] EXCEPT !.state = "ended"]
                                     ELSE session[s]]

endSurplus(c) ==
    /\ At(c, "ending")
    /\ End(call[c].surplus)
    /\ Done(c)
    /\ UNCHANGED <<now, account, tokens, misses, crossed, left>>

-----------------------------------------------------------------------------
(* Using a token.                                                           *)

(* Mutant: a stamp is never too old.                                        *)
anyStamp(t, acc) == TRUE

(* The stamp check of authenticate and refresh.                             *)
notRevoked(t, acc) == acc.changedAt # None => t.ims >= acc.changedAt

Holder(t) == session[t.sid].user

(* refresh reads the account first; a password change saved before that     *)
(* read refuses the token.                                                  *)
refresh(c, t) ==
    /\ At(c, "idle")
    /\ account[Holder(t)].active
    /\ notRevoked(t, account[Holder(t)])
    /\ call' = [call EXCEPT ![c] = [Idle EXCEPT !.step = "renewing", !.user = Holder(t),
                                                !.sid = t.sid, !.since = now]]
    /\ UNCHANGED <<now, account, session, tokens, misses, crossed, left>>

(* Mutant: the session is stored again, not updated where it is found.      *)
upsertSession(c, ims) ==
    LET s == call[c].sid
    IN  /\ session' = [session EXCEPT ![s].state = "live", ![s].expiresAt = ims]
        /\ Issue(c, s, ims)

(* The session is extended only where it still exists.                      *)
extend(c, ims) ==
    LET s == call[c].sid
    IN  IF session[s].state = "live"
        THEN /\ session' = [session EXCEPT ![s].expiresAt = ims]
             /\ Issue(c, s, ims)
        ELSE UNCHANGED <<session, tokens, crossed>>

extendSession(c, ims) ==
    /\ At(c, "renewing")
    /\ call[c].since <= ims /\ ims <= now
    /\ extend(c, ims)
    /\ Done(c)
    /\ UNCHANGED <<now, account, misses, left>>

(* logout deletes the session its token names.                              *)
logout(t) ==
    /\ session[t.sid].state = "live"
    /\ End({t.sid})
    /\ UNCHANGED <<now, account, tokens, call, misses, crossed, left>>

(* The TTL index, or a read that filters on expiresAt, comes to it first.   *)
sessionExpires(s) ==
    /\ session[s].state = "live"
    /\ End({s})
    /\ UNCHANGED <<now, account, tokens, call, misses, crossed, left>>

-----------------------------------------------------------------------------
(* Changing and resetting a password.                                       *)

(* The caller's token is checked, the account read, and the current         *)
(* password verified against that copy.                                     *)
changePassword(c, t) ==
    /\ At(c, "idle")
    /\ account[Holder(t)].active
    /\ notRevoked(t, account[Holder(t)])
    /\ call' = [call EXCEPT ![c] = [Idle EXCEPT !.step = "changing", !.user = Holder(t),
                                                !.seen = read(account[Holder(t)]), !.since = now]]
    /\ UNCHANGED <<now, account, session, tokens, misses, crossed, left>>

(* Admin, or a technician's Owner, sets a temporary password.               *)
resetPassword(c, u) ==
    /\ At(c, "idle")
    /\ call' = [call EXCEPT ![c] = [Idle EXCEPT !.step = "resetting", !.user = u,
                                                !.seen = read(account[u]), !.since = now]]
    /\ UNCHANGED <<now, account, session, tokens, misses, crossed, left>>

(* Mutant: the moment of the change is not kept.                            *)
saveUnstamped(acc, seen, ims) ==
    [acc EXCEPT !.password = acc.changes + 1, !.changes = @ + 1, !.stale = FALSE]

(* `user.save()` writes the fields it changed: the count and the lock only  *)
(* where the copy it loaded carried one.                                    *)
savePassword(acc, seen, ims) ==
    [acc EXCEPT !.password = acc.changes + 1, !.changes = @ + 1, !.stale = FALSE,
                !.changedAt = ims,
                !.attempts = IF seen.attempts > 0 THEN 0 ELSE @,
                !.lock = IF seen.lock # "none" THEN "none" ELSE @]

(* Whether that save gives the account its guesses back.                    *)
Forgives(acc, seen) == \/ acc.lock = "set" /\ seen.lock # "none"
                       \/ acc.lock # "set" /\ seen.attempts > 0

(* History: calls between their check of the account and the session they   *)
(* store or extend, and tokens stamped between the change's stamp and now.  *)
Meets(d, u) == /\ call[d].user = u
               /\ call[d].step \in {"counting", "accepted", "signing", "renewing"}

saveNewPassword(c, ims) ==
    LET u == call[c].user
        seen == call[c].seen
    IN  /\ call[c].step \in {"changing", "resetting"}
        /\ account[u].changes < MaxChanges                       \* bound
        /\ call[c].since <= ims /\ ims <= now
        /\ account' = [account EXCEPT ![u] = savePassword(@, seen, ims)]
        /\ misses' = IF Forgives(account[u], seen) THEN [misses EXCEPT ![u] = 0] ELSE misses
        /\ call' = [d \in Calls |->
                      IF d = c THEN IF At(c, "changing")
                                    THEN [Idle EXCEPT !.step = "revoking", !.user = u]
                                    ELSE Idle
                      ELSE IF Meets(d, u) THEN [call[d] EXCEPT !.met = TRUE]
                      ELSE call[d]]
        /\ crossed' = crossed \cup
               {s \in Sids : session[s].user = u
                             /\ \E t \in tokens : t.sid = s /\ t.ims >= ims}
        /\ UNCHANGED <<now, session, tokens, left>>

(* changePassword ends every session; resetPassword leaves them to the      *)
(* stamp check.                                                             *)
endSessions(c) ==
    /\ At(c, "revoking")
    /\ End(Live(call[c].user))
    /\ Done(c)
    /\ UNCHANGED <<now, account, tokens, misses, crossed, left>>

(* updateUser, or the centre of the account, deactivated and reactivated.   *)
setActive(u) ==
    /\ account' = [account EXCEPT ![u].active = ~@]
    /\ UNCHANGED <<now, session, tokens, call, misses, crossed, left>>

-----------------------------------------------------------------------------
Tick == /\ now < MaxTime                                         \* bound
        /\ now' = now + 1
        /\ UNCHANGED <<account, session, tokens, call, misses, crossed, left>>

Untrimmed(u) == {c \in Calls : call[c].user = u /\ call[c].step \in {"trimming", "ending"}}

(* The process stops: every call under way is cut off where it is.          *)
Restart ==
    /\ \E c \in Calls : call[c] # Idle
    /\ call' = [c \in Calls |-> Idle]
    /\ left' = [u \in Users |-> left[u] + Cardinality(Untrimmed(u))]
    /\ UNCHANGED <<now, account, session, tokens, misses, crossed>>

LoginSteps == \E c \in Calls :
    \/ \E u \in Users : login(c, u)
    \/ \E right \in BOOLEAN : claimAttempt(c, right)
    \/ noteSuccess(c)
    \/ \E s \in Sids, ims \in Time : createSession(c, s, ims)
    \/ findSurplus(c)
    \/ endSurplus(c)

TokenSteps ==
    \/ \E c \in Calls, t \in tokens : refresh(c, t)
    \/ \E c \in Calls, ims \in Time : extendSession(c, ims)
    \/ \E t \in tokens : logout(t)
    \/ \E s \in Sids : sessionExpires(s)

PasswordSteps ==
    \/ \E c \in Calls, t \in tokens : changePassword(c, t)
    \/ \E c \in Calls, u \in Users : resetPassword(c, u)
    \/ \E c \in Calls, ims \in Time : saveNewPassword(c, ims)
    \/ \E c \in Calls : endSessions(c)

Next == \/ LoginSteps
        \/ TokenSteps
        \/ PasswordSteps
        \/ \E u \in Users : lockRunsOut(u) \/ setActive(u)
        \/ Tick
        \/ Restart

Spec == Init /\ [][Next]_vars

-----------------------------------------------------------------------------
(* Every document keeps its shape, through every interleaving of calls.     *)
TypeOK == /\ now \in Time
          /\ account \in [Users -> Account]
          /\ session \in [Sids -> Session]
          /\ tokens \subseteq Token
          /\ call \in [Calls -> Call]
          /\ misses \in [Users -> Nat]
          /\ crossed \subseteq Sids
          /\ left \in [Users -> Nat]

(* Between two clearings of the count no account takes more than            *)
(* MaxAttempts wrong passwords, however many arrive at once, and a limit    *)
(* reached is a lock (claimAttempt 100-120).                                *)
GuessesAreCapped ==
    \A u \in Users : /\ misses[u] <= MaxAttempts
                     /\ misses[u] = MaxAttempts => account[u].lock = "set"

(* A session once ended - signed out, trimmed, expired or revoked - stays   *)
(* ended and no token is issued for it any more, even by a refresh that     *)
(* found the account in order before (refresh 383-389).                     *)
EndedSessionsStayEnded ==
    [][\A s \in Sids :
          session[s].state = "ended"
              => /\ session'[s].state = "ended"
                 /\ \A t \in tokens' \ tokens : t.sid # s]_vars

(* A token an account still accepts comes from a sign-in with the password  *)
(* that account has now, whatever session it belongs to: a changed or reset *)
(* password leaves no older session usable, except one that a sign-in or a  *)
(* refresh under way at the change was storing (changePassword 453-462,     *)
(* resetPassword 404-411).                                                  *)
ChangeEndsSessions ==
    \A t \in tokens :
        notRevoked(t, account[Holder(t)]) /\ t.sid \notin crossed
            => session[t.sid].era = account[Holder(t)].changes

(* An account has no more than MaxSessions sessions, beyond those of the    *)
(* sign-ins that have yet to trim and of those a restart kept from it       *)
(* (startSession 170-175).                                                  *)
SessionsAreCapped ==
    \A u \in Users :
        Cardinality(Live(u)) <= MaxSessions + Cardinality(Untrimmed(u)) + left[u]

(* The password set last is the one the account has: what a person chose,   *)
(* or was given to get in with, is not taken back (resetPassword,           *)
(* users.service.ts 405-410). It needs that no hash is of old parameters: a *)
(* sign-in that has read one makes it again from its own password, whatever *)
(* was set since (auth.service.ts 306-318).                                 *)
LatestPasswordStands == \A u \in Users : account[u].password = account[u].changes
=============================================================================
