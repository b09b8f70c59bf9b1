---------------------------- MODULE AuthSessions ----------------------------
(***************************************************************************)
(* Sessions: auth/service.go, the login, logout and actor handlers of      *)
(* httpapi/router.go, the check ws/hub.go makes for a socket, and the      *)
(* cookie of each browser, which its tabs share.                           *)
(*                                                                         *)
(* A token is signed, so it is known by the session it was made for, and   *)
(* users never change: comparing it with the user's row can fail only with *)
(* the query. A socket is a call that runs until its reads end.            *)
(*                                                                         *)
(* last_seen_at, which nothing reads, wrong passwords, forged tokens and   *)
(* the tokens without a session that only tests make are left out.         *)
(***************************************************************************)
EXTENDS Integers

CONSTANTS
  Browsers,
  Calls,           \* handlers at work at a time
  Sessions,        \* the ids newSessionID can return; bound: logins
  NoSession,
  TicksPerSecond,  \* ticks of the server's clock
  TTL,             \* of a session, in ticks
  MaxNow           \* bound: the clock

ASSUME SessionAssumption ==
  /\ NoSession \notin Sessions
  /\ TicksPerSecond \in Nat \ {0}
  /\ TTL \in Nat \ {0}
  /\ MaxNow \in Nat

VARIABLES
  now,       \* the server's clock
  session,   \* the sessions table
  jar,       \* the session whose cookie each browser holds
  call,      \* the handlers at work
  asked,     \* sessions a logout was asked for
  answered   \* when a logout of a session was first answered with success

history == <<asked, answered>>
vars == <<now, session, jar, call, history>>

Never == -1
Time == 0..MaxNow

NoRow == [expiresAt |-> Never]
Row == [expiresAt : Nat, revokedAt : Time \cup {Never}]

Idle == [step |-> "idle"]

(* A login or a logout: its next step, the browser, the session (of the    *)
(* cookie, a logout's) and, until it has written, the time it writes.      *)
Entry ==
  [step : {"create", "revoke"}, browser : Browsers,
   session : Sessions \cup {NoSession}, at : Time]
Answer ==
  [step : {"welcome", "goodbye"}, browser : Browsers,
   session : Sessions]

(* Any other call; good: whether its session was good when it arrived.     *)
Guarded ==
  [step : {"token", "session", "touch", "run", "refused"},
   session : Sessions, good : BOOLEAN]

TypeOK ==
  /\ now \in Time
  /\ session \in [Sessions -> Row \cup {NoRow}]
  /\ jar \in [Browsers -> Sessions \cup {NoSession}]
  /\ call \in [Calls -> Entry \cup Answer \cup Guarded \cup {Idle}]
  /\ asked \subseteq Sessions
  /\ answered \in [Sessions -> Time \cup {Never}]

Init ==
  /\ now = 0
  /\ session = [s \in Sessions |-> NoRow]
  /\ jar = [b \in Browsers |-> NoSession]
  /\ call = [c \in Calls |-> Idle]
  /\ asked = {}
  /\ answered = [s \in Sessions |-> Never]

-----------------------------------------------------------------------------
At(c, step) == call[c].step = step

Goto(c, step) == call' = [call EXCEPT ![c].step = step]

End(c) == call' = [call EXCEPT ![c] = Idle]

(* Slip: the row is not looked at for a revocation.                        *)
Unexpired(s) == now < session[s].expiresAt

(* What validateSession makes of the row.                                  *)
Good(s) == session[s].revokedAt = Never /\ now < session[s].expiresAt

(* Exp, in whole seconds: the fraction of the session's end is cut off.    *)
TokenExp(s) ==
  (session[s].expiresAt \div TicksPerSecond) * TicksPerSecond

Enter(c, b, step, s) ==
  /\ call[c] = Idle
  /\ call' = [call EXCEPT ![c] =
       [step |-> step, browser |-> b, session |-> s, at |-> now]]

(* The statement has been acknowledged, and the answer sets the cookie; or *)
(* the acknowledgement is lost.                                            *)
Acknowledge(c, step, s) ==
  \/ call' = [call EXCEPT ![c] =
       [step |-> step, browser |-> call[c].browser, session |-> s]]
  \/ End(c)

-----------------------------------------------------------------------------
(* Login, from the moment the password has been found right.               *)

StartLogin(c, b) ==
  /\ Enter(c, b, "create", NoSession)
  /\ UNCHANGED <<now, session, jar, history>>

(* The INSERT.                                                             *)
CreateSession(c) ==
  /\ At(c, "create")
  /\ \E s \in Sessions :
       /\ session[s] = NoRow
       /\ session' = [session EXCEPT ![s] =
            [expiresAt |-> call[c].at + TTL, revokedAt |-> Never]]
       /\ Acknowledge(c, "welcome", s)
  /\ UNCHANGED <<now, jar, history>>

(* The answer sets the cookie of the browser.                              *)
Welcome(c) ==
  /\ At(c, "welcome")
  /\ jar' = [jar EXCEPT ![call[c].browser] = call[c].session]
  /\ End(c)
  /\ UNCHANGED <<now, session, history>>

-----------------------------------------------------------------------------
(* Every other call: actor, ActorFromToken and validateSession. One that   *)
(* has no cookie is turned away at once and left out.                      *)

StartCall(c, b) ==
  /\ call[c] = Idle
  /\ jar[b] # NoSession
  /\ call' = [call EXCEPT ![c] =
       [step |-> "token", session |-> jar[b], good |-> Good(jar[b])]]
  /\ UNCHANGED <<now, session, jar, history>>

(* The token's time, and the query of the user's row.                      *)
CheckToken(c) ==
  /\ At(c, "token")
  /\ Goto(c, IF now < TokenExp(call[c].session) THEN "session" ELSE "refused")
  /\ UNCHANGED <<now, session, jar, history>>

(* Slip: see Unexpired.                                                    *)
ValidateExpiry(c) ==
  /\ At(c, "session")
  /\ Goto(c, IF Unexpired(call[c].session) THEN "touch" ELSE "refused")
  /\ UNCHANGED <<now, session, jar, history>>

ValidateSession(c) ==
  /\ At(c, "session")
  /\ Goto(c, IF Good(call[c].session) THEN "touch" ELSE "refused")
  /\ UNCHANGED <<now, session, jar, history>>

(* The UPDATE of last_seen_at, and the call is let in.                     *)
Touch(c) ==
  /\ At(c, "touch")
  /\ Goto(c, "run")
  /\ UNCHANGED <<now, session, jar, history>>

(* The call is answered, or the reads of its socket come to their end.     *)
Finish(c) ==
  /\ call[c].step \in {"run", "refused"}
  /\ End(c)
  /\ UNCHANGED <<now, session, jar, history>>

-----------------------------------------------------------------------------
(* Logout. The token's expiry is not looked at. Without a cookie it only   *)
(* clears that cookie, which Forget may do as well.                        *)

StartLogout(c, b) ==
  /\ jar[b] # NoSession
  /\ Enter(c, b, "revoke", jar[b])
  /\ asked' = asked \cup {jar[b]}
  /\ UNCHANGED <<now, session, jar, answered>>

(* Slip: no id = ?, so all the sessions of the user end.                   *)
RevokeAll(s, at) ==
  [x \in Sessions |-> IF session[x] # NoRow /\ session[x].revokedAt = Never
                      THEN [session[x] EXCEPT !.revokedAt = at] ELSE session[x]]

Revoked(s, at) ==
  [session EXCEPT ![s].revokedAt = IF @ = Never THEN at ELSE @]

(* Slip: a failed UPDATE does not keep the cookie from being cleared.      *)
RevokeIgnoringErrors(c) ==
  /\ At(c, "revoke")
  /\ session' \in {session, Revoked(call[c].session, call[c].at)}
  /\ Acknowledge(c, "goodbye", call[c].session)
  /\ UNCHANGED <<now, jar, history>>

(* The UPDATE.                                                             *)
Revoke(c) ==
  /\ At(c, "revoke")
  /\ session' = Revoked(call[c].session, call[c].at)
  /\ Acknowledge(c, "goodbye", call[c].session)
  /\ UNCHANGED <<now, jar, history>>

(* The answer clears the cookie, whichever the browser holds by now.       *)
Goodbye(c) ==
  LET s == call[c].session IN
  /\ At(c, "goodbye")
  /\ jar' = [jar EXCEPT ![call[c].browser] = NoSession]
  /\ answered' = [x \in Sessions |->
       IF x = s /\ answered[x] = Never THEN now ELSE answered[x]]
  /\ End(c)
  /\ UNCHANGED <<now, session, asked>>

-----------------------------------------------------------------------------
(* A statement fails before it has an effect (to actor that is one more    *)
(* reason to answer "unauthorized"), the answer does not reach the         *)
(* browser, or the server dies, which ends all calls one by one.           *)
Lost(c) ==
  /\ call[c] # Idle
  /\ End(c)
  /\ UNCHANGED <<now, session, jar, history>>

(* MaxAge has passed, or the user clears the browser's cookies.            *)
Forget(b) ==
  /\ jar[b] # NoSession
  /\ jar' = [jar EXCEPT ![b] = NoSession]
  /\ UNCHANGED <<now, session, call, history>>

Tick ==
  /\ now < MaxNow
  /\ now' = now + 1
  /\ UNCHANGED <<session, jar, call, history>>

-----------------------------------------------------------------------------
Login(c) == CreateSession(c) \/ Welcome(c)

ActorFromToken(c) ==
  CheckToken(c) \/ ValidateSession(c) \/ Touch(c)

Logout(c) == Revoke(c) \/ Goodbye(c)

Next ==
  \/ \E c \in Calls :
       \/ \E b \in Browsers : StartLogin(c, b) \/ StartCall(c, b) \/ StartLogout(c, b)
       \/ Login(c) \/ ActorFromToken(c) \/ Logout(c) \/ Finish(c) \/ Lost(c)
  \/ \E b \in Browsers : Forget(b)
  \/ Tick

Spec == Init /\ [][Next]_vars

(* Calls that were let in come to their end, a socket by its read deadline *)
(* at the latest: the server sends no pings, so no pong puts it off.       *)
FairSpec == Spec /\ \A c \in Calls : WF_vars(Finish(c))
=============================================================================
