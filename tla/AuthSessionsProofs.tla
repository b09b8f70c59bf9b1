------------------------- MODULE AuthSessionsProofs -------------------------
(***************************************************************************)
(* Proofs about AuthSessions, for any browsers, calls, number of logins,   *)
(* length of a session and resolution of the clock.                        *)
(***************************************************************************)
EXTENDS AuthSessionsProperties, TLAPS

EntrySteps == {"create", "revoke"}
AnswerSteps == {"welcome", "goodbye"}
GuardedSteps == {"token", "session", "touch", "run", "refused"}

(* The step of a call tells what kind of call it is.                       *)
LEMMA CallShapes ==
  ASSUME NEW k \in Entry \cup Answer \cup Guarded \cup {Idle}
  PROVE  /\ k.step \in EntrySteps <=> k \in Entry
         /\ k.step \in AnswerSteps <=> k \in Answer
         /\ k.step \in GuardedSteps <=> k \in Guarded
         /\ k.step = "idle" <=> k = Idle
  BY DEF Entry, Answer, Guarded, Idle, EntrySteps, AnswerSteps, GuardedSteps

(* The cut of the token's expiry takes less than a second.                 *)
LEMMA CutIsShort ==
  ASSUME NEW e \in Nat, NEW t \in Nat \ {0}
  PROVE  /\ (e \div t) * t \in Nat
         /\ (e \div t) * t <= e
         /\ (e \div t) * t > e - t
  OBVIOUS

-----------------------------------------------------------------------------
(* The inductive invariant.                                                *)

Exists(s) == s \in Sessions /\ session[s] # NoRow

RowOK(s) ==
  session[s] # NoRow =>
    \/ session[s].revokedAt = Never
    \/ session[s].revokedAt \in 0..now /\ s \in asked

AnsweredOK(s) ==
  answered[s] # Never =>
    Exists(s) /\ session[s].revokedAt \in 0..answered[s] /\ answered[s] <= now

Due(s) == s \in asked \/ now > session[s].expiresAt - TicksPerSecond

CallOK(c) ==
  LET k == call[c] IN
  /\ k.step \in EntrySteps => k.at <= now
  /\ k.step \notin {"idle", "create"} => Exists(k.session)
  /\ k.step \in {"revoke", "goodbye"} => k.session \in asked
  /\ k.step = "goodbye" => session[k.session].revokedAt # Never
  /\ k.step \in {"token", "session"} => (Good(k.session) => k.good)
  /\ k.step \in {"touch", "run"} => k.good
  /\ k.step = "refused" => Due(k.session)

JarOK(b) == jar[b] # NoSession => Exists(jar[b])

IInv ==
  /\ TypeOK
  /\ \A s \in Sessions : RowOK(s) /\ AnsweredOK(s)
  /\ \A c \in Calls : CallOK(c)
  /\ \A b \in Browsers : JarOK(b)

(* What no step takes back.                                                *)
Aging ==
  /\ now <= now' /\ asked \subseteq asked'
  /\ \A s \in Sessions : session[s] # NoRow =>
       /\ session'[s] # NoRow
       /\ session'[s].expiresAt = session[s].expiresAt
       /\ session[s].revokedAt # Never
          => session'[s].revokedAt = session[s].revokedAt

(* What is so of a call stays so while others take their steps.            *)
LEMMA CallStays ==
  ASSUME TypeOK, TypeOK', Aging, NEW c \in Calls, CallOK(c), call'[c] = call[c]
  PROVE  CallOK(c)'
  <1>1. Exists(call[c].session) => Exists(call[c].session)' /\
          (Good(call[c].session)' => Good(call[c].session))
    BY SessionAssumption DEF Exists, Aging, Good, TypeOK, Row, NoRow, Time, Never
  <1>2. Exists(call[c].session) /\ Due(call[c].session) => Due(call[c].session)'
    BY SessionAssumption DEF Exists, Aging, Due, TypeOK, Row, NoRow, Time
  <1>3. call[c].step \in EntrySteps => call[c].at \in Nat
    BY CallShapes DEF TypeOK, Entry, Time
  <1>4. QED
    BY <1>1, <1>2, <1>3 DEF CallOK, Aging, TypeOK, Time, Exists, EntrySteps

-----------------------------------------------------------------------------
(* Types, and what steps take back.                                        *)

Rows == <<now, session, jar, asked, answered>>

(* The steps of a handler that change nothing but where it is.             *)
LEMMA QuietSteps ==
  ASSUME TypeOK, NEW c \in Calls,
         \/ \E b \in Browsers : StartLogin(c, b) \/ StartCall(c, b)
         \/ ActorFromToken(c) \/ Finish(c) \/ Lost(c)
  PROVE  TypeOK' /\ UNCHANGED Rows
  <1>1. CASE \E b \in Browsers : StartLogin(c, b)
    <2>1. PICK b \in Browsers : StartLogin(c, b)
      BY <1>1
    <2>2. call' \in [Calls -> Entry \cup Answer \cup Guarded \cup {Idle}]
      BY <2>1 DEF StartLogin, Enter, TypeOK, Entry
    <2>3. QED
      BY <2>1, <2>2 DEF StartLogin, TypeOK, Rows, history
  <1>2. CASE \E b \in Browsers : StartCall(c, b)
    <2>1. PICK b \in Browsers : StartCall(c, b)
      BY <1>2
    <2>2. Good(jar[b]) \in BOOLEAN
      BY DEF Good
    <2>3. call' \in [Calls -> Entry \cup Answer \cup Guarded \cup {Idle}]
      BY <2>1, <2>2 DEF StartCall, TypeOK, Guarded
    <2>4. QED
      BY <2>1, <2>3 DEF StartCall, TypeOK, Rows, history
  <1>3. CASE ActorFromToken(c)
    <2>1. call[c] \in Guarded
      BY <1>3, CallShapes
      DEF ActorFromToken, CheckToken, ValidateSession, Touch, At, GuardedSteps, TypeOK
    <2>2. ASSUME NEW step \in GuardedSteps, Goto(c, step)
          PROVE  call' \in [Calls -> Entry \cup Answer \cup Guarded \cup {Idle}]
      BY <2>1, <2>2 DEF Goto, GuardedSteps, Guarded, TypeOK
    <2>3. call' \in [Calls -> Entry \cup Answer \cup Guarded \cup {Idle}]
      BY <1>3, <2>2
      DEF ActorFromToken, CheckToken, ValidateSession, Touch, GuardedSteps
    <2>4. QED
      BY <1>3, <2>3
      DEF ActorFromToken, CheckToken, ValidateSession, Touch, TypeOK, Rows, history
  <1>4. CASE Finish(c) \/ Lost(c)
    BY <1>4 DEF Finish, Lost, End, TypeOK, Rows, history
  <1>5. QED
    BY <1>1, <1>2, <1>3, <1>4

LEMMA AcknowledgeType ==
  ASSUME TypeOK, NEW c \in Calls, call[c] \in Entry, NEW s \in Sessions,
         NEW step \in AnswerSteps, Acknowledge(c, step, s)
  PROVE  call' \in [Calls -> Entry \cup Answer \cup Guarded \cup {Idle}]
  BY DEF Acknowledge, End, TypeOK, Entry, Answer, AnswerSteps

LEMMA TypeAndAging ==
  ASSUME IInv, [Next]_vars
  PROVE  TypeOK' /\ Aging
  <1> USE SessionAssumption
  <1>0. TypeOK
    BY DEF IInv
  <1>1. ASSUME TypeOK', UNCHANGED Rows PROVE Aging
    BY <1>0, <1>1 DEF Aging, Rows, TypeOK, Time
  <1>2. ASSUME NEW c \in Calls, CreateSession(c) PROVE TypeOK' /\ Aging
    <2>1. PICK s \in Sessions :
            /\ session[s] = NoRow
            /\ session' = [session EXCEPT ![s] =
                 [expiresAt |-> call[c].at + TTL, revokedAt |-> Never]]
            /\ Acknowledge(c, "welcome", s)
      BY <1>2 DEF CreateSession
    <2>2. call[c] \in Entry
      BY <1>0, <1>2, CallShapes DEF CreateSession, At, EntrySteps, TypeOK
    <2>3. call[c].at + TTL \in Nat
      BY <2>2 DEF Entry, Time
    <2>4. call' \in [Calls -> Entry \cup Answer \cup Guarded \cup {Idle}]
      BY <1>0, <2>1, <2>2, AcknowledgeType DEF AnswerSteps
    <2>5. session' \in [Sessions -> Row \cup {NoRow}]
      BY <1>0, <2>1, <2>3 DEF TypeOK, Row
    <2>6. QED
      BY <1>0, <1>2, <2>1, <2>4, <2>5 DEF CreateSession, TypeOK, Aging, history, Time
  <1>3. ASSUME NEW c \in Calls, Welcome(c) PROVE TypeOK' /\ Aging
    <2>1. call[c] \in Answer
      BY <1>0, <1>3, CallShapes DEF Welcome, At, AnswerSteps, TypeOK
    <2>2. QED
      BY <1>0, <1>3, <2>1 DEF Welcome, End, TypeOK, Answer, Aging, history, Time
  <1>4. ASSUME NEW c \in Calls, NEW b \in Browsers, StartLogout(c, b)
        PROVE  TypeOK' /\ Aging
    BY <1>0, <1>4 DEF StartLogout, Enter, TypeOK, Entry, Aging, Time
  <1>5. ASSUME NEW c \in Calls, Revoke(c) PROVE TypeOK' /\ Aging
    <2>1. call[c] \in Entry /\ Exists(call[c].session)
      BY <1>0, <1>5, CallShapes DEF Revoke, At, EntrySteps, TypeOK, IInv, CallOK
    <2>2. call' \in [Calls -> Entry \cup Answer \cup Guarded \cup {Idle}]
      BY <1>0, <1>5, <2>1, AcknowledgeType DEF Revoke, AnswerSteps, Exists
    <2>3. session[call[c].session] \in Row
      BY <1>0, <2>1 DEF TypeOK, Exists
    <2>4. session' \in [Sessions -> Row \cup {NoRow}]
      BY <1>0, <1>5, <2>1, <2>3 DEF Revoke, Revoked, TypeOK, Row, Entry
    <2>5. QED
      BY <1>0, <1>5, <2>2, <2>3, <2>4
      DEF Revoke, Revoked, TypeOK, Aging, history, Time, Row, NoRow
  <1>6. ASSUME NEW c \in Calls, Goodbye(c) PROVE TypeOK' /\ Aging
    <2>1. call[c] \in Answer
      BY <1>0, <1>6, CallShapes DEF Goodbye, At, AnswerSteps, TypeOK
    <2>2. jar' \in [Browsers -> Sessions \cup {NoSession}]
      BY <1>0, <1>6, <2>1 DEF Goodbye, TypeOK, Answer
    <2>3. answered' \in [Sessions -> Time \cup {Never}]
      BY <1>0, <1>6 DEF Goodbye, TypeOK
    <2>4. call' \in [Calls -> Entry \cup Answer \cup Guarded \cup {Idle}]
      BY <1>0, <1>6 DEF Goodbye, End, TypeOK
    <2>5. UNCHANGED <<now, session, asked>>
      BY <1>6 DEF Goodbye
    <2>6. QED
      BY <1>0, <2>2, <2>3, <2>4, <2>5 DEF TypeOK, Aging, Time
  <1>7. ASSUME NEW b \in Browsers, Forget(b) PROVE TypeOK' /\ Aging
    BY <1>0, <1>7 DEF Forget, TypeOK, Aging, history, Time
  <1>8. CASE Tick
    BY <1>0, <1>8 DEF Tick, TypeOK, Aging, history, Time
  <1>9. CASE UNCHANGED vars
    BY <1>0, <1>9 DEF vars, TypeOK, Aging, history, Time
  <1>10. QED
    BY <1>0, <1>1, <1>2, <1>3, <1>4, <1>5, <1>6, <1>7, <1>8, <1>9, QuietSteps
    DEF Next, Login, Logout

-----------------------------------------------------------------------------
(* The invariant is kept.                                                  *)

(* What the acting call may rely on when its step is over.                 *)
LEMMA StepKeepsCall ==
  ASSUME IInv, TypeOK', Aging, NEW c \in Calls,
         \/ \E b \in Browsers : StartLogin(c, b) \/ StartCall(c, b) \/ StartLogout(c, b)
         \/ Login(c) \/ ActorFromToken(c) \/ Logout(c) \/ Finish(c) \/ Lost(c)
  PROVE  CallOK(c)' /\ \A o \in Calls \ {c} : call'[o] = call[o]
  <1> USE SessionAssumption
  <1>0. TypeOK /\ CallOK(c)
    BY DEF IInv
  <1>1. CASE call'[c] = Idle /\ \A o \in Calls \ {c} : call'[o] = call[o]
    BY <1>1 DEF CallOK, Idle, EntrySteps
  <1>2. CASE \E b \in Browsers : StartLogin(c, b)
    BY <1>0, <1>2 DEF StartLogin, Enter, CallOK, EntrySteps, TypeOK, Time
  <1>3. ASSUME NEW b \in Browsers, StartCall(c, b)
        PROVE  CallOK(c)' /\ \A o \in Calls \ {c} : call'[o] = call[o]
    <2>1. Exists(jar[b])
      BY <1>3 DEF StartCall, IInv, JarOK
    <2>2. UNCHANGED <<now, session, asked>>
      BY <1>3 DEF StartCall, history
    <2>3. call'[c] = [step |-> "token", session |-> jar[b], good |-> Good(jar[b])]
      BY <1>0, <1>3 DEF StartCall, TypeOK
    <2>4. CallOK(c)'
      <3>1. /\ call'[c].step = "token" /\ call'[c].session = jar[b]
            /\ call'[c].good = Good(jar[b])
        BY <2>3
      <3>2. Good(call[c].session)' => call'[c].good
        <4>1. CASE Good(jar[b])
          BY <3>1, <4>1
        <4>2. CASE ~Good(jar[b])
          BY <2>2, <3>1, <4>2 DEF Good
        <4>3. QED
          BY <4>1, <4>2
      <3>3. Exists(call[c].session)'
        BY <2>1, <2>2, <3>1 DEF Exists
      <3>4. QED
        BY <3>1, <3>2, <3>3 DEF CallOK, EntrySteps
    <2>5. QED
      BY <1>0, <1>3, <2>4 DEF StartCall, TypeOK
  <1>4. ASSUME NEW b \in Browsers, StartLogout(c, b)
        PROVE  CallOK(c)' /\ \A o \in Calls \ {c} : call'[o] = call[o]
    <2>1. Exists(jar[b])'
      BY <1>4 DEF StartLogout, IInv, JarOK, Exists
    <2>2. QED
      BY <1>0, <1>4, <2>1
      DEF StartLogout, Enter, CallOK, EntrySteps, TypeOK, Exists, Time
  <1>5. CASE CreateSession(c)
    <2>1. PICK s \in Sessions :
            /\ session[s] = NoRow
            /\ session' = [session EXCEPT ![s] =
                 [expiresAt |-> call[c].at + TTL, revokedAt |-> Never]]
            /\ Acknowledge(c, "welcome", s)
      BY <1>5 DEF CreateSession
    <2>2. Exists(s)'
      BY <1>0, <2>1 DEF Exists, TypeOK, NoRow
    <2>3. QED
      BY <1>0, <1>1, <2>1, <2>2 DEF Acknowledge, End, CallOK, EntrySteps, TypeOK, Exists
  <1>6. CASE Revoke(c)
    <2>1. call[c] \in Entry /\ Exists(call[c].session) /\ call[c].session \in asked
      BY <1>0, <1>6, CallShapes DEF Revoke, At, EntrySteps, TypeOK, CallOK
    <2>2. session'[call[c].session].revokedAt # Never
      <3>1. session[call[c].session] \in Row
        BY <1>0, <2>1 DEF TypeOK, Exists
      <3>2. call[c].at # Never
        BY <2>1 DEF Entry, Time, Never
      <3>3. session'[call[c].session] =
              [session[call[c].session] EXCEPT !.revokedAt =
                 IF @ = Never THEN call[c].at ELSE @]
        BY <1>0, <1>6, <2>1 DEF Revoke, Revoked, Exists, TypeOK
      <3>4. QED
        BY <3>1, <3>2, <3>3 DEF Row
    <2>3. session'[call[c].session] # NoRow
      BY <2>1 DEF Exists, Aging
    <2>4. call[c].session \in asked'
      BY <2>1 DEF Aging
    <2>5. CASE call' = [call EXCEPT ![c] =
                 [step |-> "goodbye", browser |-> call[c].browser,
                  session |-> call[c].session]]
      <3>1. call'[c] = [step |-> "goodbye", browser |-> call[c].browser,
                        session |-> call[c].session]
        BY <1>0, <2>5 DEF TypeOK
      <3>2. CallOK(c)'
        BY <2>1, <2>2, <2>3, <2>4, <3>1 DEF CallOK, EntrySteps, Exists
      <3>3. QED
        BY <1>0, <2>5, <3>2 DEF TypeOK
    <2>6. CASE End(c)
      BY <1>0, <1>1, <2>6 DEF End, TypeOK
    <2>7. QED
      BY <1>6, <2>5, <2>6 DEF Revoke, Acknowledge
  <1>7. CASE ActorFromToken(c)
    <2>1. /\ call[c] \in Guarded /\ Exists(call[c].session)
          /\ UNCHANGED <<now, session, asked>>
      BY <1>0, <1>7, CallShapes
      DEF ActorFromToken, CheckToken, ValidateSession, Touch, At, GuardedSteps, TypeOK,
          CallOK, history
    <2>2. session[call[c].session] \in Row
      BY <1>0, <2>1 DEF TypeOK, Exists
    <2>3. /\ TokenExp(call[c].session) \in Nat
          /\ TokenExp(call[c].session) > session[call[c].session].expiresAt - TicksPerSecond
      BY <2>2, CutIsShort DEF TokenExp, Row
    <2>4. CASE CheckToken(c)
      <3>1. now >= TokenExp(call[c].session) => Due(call[c].session)
        BY <1>0, <2>2, <2>3 DEF Due, TypeOK, Time, Row
      <3>2. CASE now < TokenExp(call[c].session)
        <4>1. call' = [call EXCEPT ![c].step = "session"]
          BY <2>4, <3>2 DEF CheckToken, Goto
        <4>2. call[c].step = "token"
          BY <2>4 DEF CheckToken, At
        <4>3. QED
          BY <1>0, <2>1, <4>1, <4>2
          DEF CallOK, EntrySteps, TypeOK, Exists, Good, Guarded
      <3>3. CASE ~(now < TokenExp(call[c].session))
        <4>1. Due(call[c].session)
          BY <1>0, <2>3, <3>1, <3>3 DEF TypeOK, Time
        <4>2. call' = [call EXCEPT ![c].step = "refused"]
          BY <2>4, <3>3 DEF CheckToken, Goto
        <4>3. QED
          BY <1>0, <2>1, <4>1, <4>2 DEF CallOK, EntrySteps, TypeOK, Exists, Due, Guarded
      <3>4. QED
        BY <3>2, <3>3
    <2>5. CASE ValidateSession(c)
      <3>1. ~Good(call[c].session) => Due(call[c].session)
        <4>1. RowOK(call[c].session)
          BY <2>1 DEF IInv, Exists
        <4>2. now \in Nat /\ session[call[c].session].expiresAt \in Nat
          BY <1>0, <2>2 DEF TypeOK, Time, Row
        <4>3. QED
          BY <2>1, <4>1, <4>2 DEF Due, Good, RowOK, Exists
      <3>2. QED
        BY <1>0, <2>1, <2>5, <3>1
        DEF ValidateSession, At, Goto, CallOK, EntrySteps, TypeOK, Exists, Good, Due, Guarded
    <2>6. CASE Touch(c)
      BY <1>0, <2>1, <2>6 DEF Touch, At, Goto, CallOK, EntrySteps, TypeOK, Exists, Guarded
    <2>7. QED
      BY <1>7, <2>4, <2>5, <2>6 DEF ActorFromToken
  <1>8. CASE Welcome(c) \/ Goodbye(c) \/ Finish(c) \/ Lost(c)
    BY <1>0, <1>1, <1>8 DEF Welcome, Goodbye, Finish, Lost, End, TypeOK
  <1>9. QED
    BY <1>2, <1>3, <1>4, <1>5, <1>6, <1>7, <1>8 DEF Login, Logout

LEMMA CallsKept ==
  ASSUME IInv, [Next]_vars, TypeOK', Aging
  PROVE  \A c \in Calls : CallOK(c)'
  <1> USE DEF IInv
  <1>1. ASSUME NEW a \in Calls,
               \/ \E b \in Browsers :
                    StartLogin(a, b) \/ StartCall(a, b) \/ StartLogout(a, b)
               \/ Login(a) \/ ActorFromToken(a) \/ Logout(a) \/ Finish(a) \/ Lost(a)
        PROVE  \A c \in Calls : CallOK(c)'
    BY <1>1, StepKeepsCall, CallStays
  <1>2. CASE UNCHANGED call
    BY <1>2, CallStays
  <1>3. QED
    BY <1>1, <1>2 DEF Next, Forget, Tick, vars

LEMMA RowsKept ==
  ASSUME IInv, [Next]_vars, TypeOK', Aging
  PROVE  \A s \in Sessions : RowOK(s)'
  <1> USE SessionAssumption
  <1>0. TypeOK
    BY DEF IInv
  <1>1. ASSUME NEW s \in Sessions, session'[s] = session[s]
        PROVE  RowOK(s)'
    BY <1>0, <1>1 DEF IInv, RowOK, Aging, TypeOK, Time
  <1>2. ASSUME NEW c \in Calls, CreateSession(c), NEW s \in Sessions
        PROVE  RowOK(s)'
    <2>1. session'[s] = session[s] \/ session'[s].revokedAt = Never
      BY <1>0, <1>2 DEF CreateSession, TypeOK
    <2>2. QED
      BY <1>1, <2>1 DEF RowOK
  <1>3. ASSUME NEW c \in Calls, Revoke(c), NEW s \in Sessions
        PROVE  RowOK(s)'
    <2>1. call[c] \in Entry /\ CallOK(c)
      BY <1>0, <1>3, CallShapes DEF Revoke, At, EntrySteps, TypeOK, IInv
    <2>2. /\ Exists(call[c].session) /\ call[c].session \in asked
          /\ call[c].at \in 0..now /\ UNCHANGED <<now, asked>>
      BY <1>0, <1>3, <2>1
      DEF CallOK, Revoke, At, EntrySteps, Entry, TypeOK, Time, history
    <2>3. CASE s = call[c].session /\ session[s].revokedAt = Never
      <3>1. session[s] \in Row
        BY <1>0, <2>2, <2>3 DEF TypeOK, Exists
      <3>2. session'[s].revokedAt = call[c].at
        BY <1>0, <1>3, <2>3, <3>1 DEF Revoke, Revoked, TypeOK, Row
      <3>3. QED
        BY <2>2, <2>3, <3>2 DEF RowOK
    <2>4. CASE ~(s = call[c].session /\ session[s].revokedAt = Never)
      <3>1. CASE s # call[c].session
        BY <1>0, <1>1, <1>3, <3>1 DEF Revoke, Revoked, TypeOK
      <3>2. CASE s = call[c].session /\ session[s].revokedAt # Never
        <4>1. session'[s] # NoRow /\ session'[s].revokedAt = session[s].revokedAt
          BY <2>2, <3>2 DEF Aging, Exists
        <4>2. RowOK(s) /\ session[s] # NoRow
          BY <2>2, <3>2 DEF IInv, Exists
        <4>3. QED
          BY <2>2, <4>1, <4>2 DEF RowOK
      <3>3. QED
        BY <2>4, <3>1, <3>2
    <2>5. QED
      BY <2>3, <2>4
  <1>4. CASE UNCHANGED session
    BY <1>1, <1>4
  <1>5. QED
    BY <1>2, <1>3, <1>4, <1>0, QuietSteps
    DEF Next, Login, Logout, Welcome, Goodbye, StartLogout, Forget, Tick, vars, Rows

LEMMA AnswersKept ==
  ASSUME IInv, [Next]_vars, TypeOK', Aging
  PROVE  \A s \in Sessions : AnsweredOK(s)'
  <1> USE SessionAssumption
  <1>0. TypeOK
    BY DEF IInv
  <1>1. ASSUME NEW s \in Sessions, answered'[s] = answered[s]
        PROVE  AnsweredOK(s)'
    <2>1. AnsweredOK(s) /\ now \in Nat /\ now' \in Nat /\ now <= now'
      BY <1>0 DEF IInv, Aging, TypeOK, Time
    <2>2. CASE answered[s] = Never
      BY <1>1, <2>2 DEF AnsweredOK
    <2>3. CASE answered[s] # Never
      <3>1. /\ session[s] # NoRow /\ session[s].revokedAt \in 0..answered[s]
            /\ answered[s] <= now
        BY <2>1, <2>3 DEF AnsweredOK, Exists
      <3>2. session[s].revokedAt # Never
        BY <3>1 DEF Never
      <3>3. session'[s] # NoRow /\ session'[s].revokedAt = session[s].revokedAt
        BY <3>1, <3>2 DEF Aging
      <3>4. answered[s] \in Time
        BY <1>0, <2>3 DEF TypeOK
      <3>5. QED
        BY <1>1, <2>1, <3>1, <3>3, <3>4 DEF AnsweredOK, Exists, Time
    <2>4. QED
      BY <2>2, <2>3
  <1>2. ASSUME NEW c \in Calls, Goodbye(c), NEW s \in Sessions
        PROVE  AnsweredOK(s)'
    <2>1. CASE s = call[c].session /\ answered[s] = Never
      <3>1. /\ Exists(s) /\ session[s].revokedAt # Never
            /\ UNCHANGED <<now, session>>
        BY <1>2, <2>1 DEF Goodbye, At, IInv, CallOK
      <3>2. session[s].revokedAt \in 0..now
        BY <3>1 DEF IInv, RowOK, Exists
      <3>3. answered'[s] = now
        BY <1>2, <2>1 DEF Goodbye
      <3>4. now \in Nat
        BY <1>0 DEF TypeOK, Time
      <3>5. QED
        BY <3>1, <3>2, <3>3, <3>4 DEF AnsweredOK, Exists
    <2>2. CASE ~(s = call[c].session /\ answered[s] = Never)
      BY <1>1, <1>2, <2>2 DEF Goodbye
    <2>3. QED
      BY <2>1, <2>2
  <1>3. CASE UNCHANGED answered
    BY <1>1, <1>3
  <1>4. QED
    BY <1>2, <1>3, <1>0, QuietSteps
    DEF Next, Login, Logout, CreateSession, Welcome, Revoke, StartLogout, Forget, Tick,
        vars, Rows, history

LEMMA JarsKept ==
  ASSUME IInv, [Next]_vars, TypeOK', Aging
  PROVE  \A b \in Browsers : JarOK(b)'
  <1>0. TypeOK
    BY DEF IInv
  <1>1. ASSUME NEW b \in Browsers, jar'[b] \in {jar[b], NoSession}
        PROVE  JarOK(b)'
    BY <1>1 DEF IInv, JarOK, Exists, Aging
  <1>2. ASSUME NEW c \in Calls, Welcome(c), NEW b \in Browsers
        PROVE  JarOK(b)'
    <2>1. session' = session /\ Exists(call[c].session)
      BY <1>2 DEF Welcome, At, IInv, CallOK
    <2>2. CASE jar'[b] = call[c].session
      BY <2>1, <2>2 DEF JarOK, Exists
    <2>3. CASE jar'[b] = jar[b]
      BY <1>1, <2>3
    <2>4. QED
      BY <1>0, <1>2, <2>2, <2>3 DEF Welcome, TypeOK
  <1>3. ASSUME NEW c \in Calls, Goodbye(c), NEW b \in Browsers
        PROVE  JarOK(b)'
    BY <1>0, <1>1, <1>3 DEF Goodbye, TypeOK
  <1>4. ASSUME NEW x \in Browsers, Forget(x), NEW b \in Browsers
        PROVE  JarOK(b)'
    BY <1>0, <1>1, <1>4 DEF Forget, TypeOK
  <1>5. CASE UNCHANGED jar
    BY <1>1, <1>5
  <1>6. QED
    BY <1>0, <1>2, <1>3, <1>4, <1>5, QuietSteps
    DEF Next, Login, Logout, CreateSession, Revoke, StartLogout, Tick, vars, Rows

LEMMA InvariantStep ==
  ASSUME IInv, [Next]_vars PROVE IInv'
  BY TypeAndAging, CallsKept, RowsKept, AnswersKept, JarsKept DEF IInv

LEMMA InvariantHolds == Spec => []IInv
  <1>1. Init => IInv
    BY SessionAssumption
    DEF Init, IInv, TypeOK, RowOK, AnsweredOK, CallOK, JarOK, Idle, EntrySteps, Time
  <1>2. QED
    BY <1>1, InvariantStep, PTL DEF Spec

-----------------------------------------------------------------------------
(* What the code promises.                                                 *)

(* The clock, the sessions table, the cookies and the handlers keep their  *)
(* types (auth/service.go, httpapi/router.go:107-153, 354-366).            *)
THEOREM SessionsTypeCorrect == Spec => []TypeOK
  BY InvariantHolds, PTL DEF IInv

(* A call is let in only if its session was good when it arrived, however  *)
(* many revocations, expiries and other calls fall between the queries of  *)
(* its check (auth/service.go:88-112, 187-205): what they see later can    *)
(* only be worse, as no step clears revoked_at or moves expires_at.        *)
THEOREM AdmittedCallsWereGood == Spec => []AdmittedWereGood
  <1>1. IInv => AdmittedWereGood
    BY DEF IInv, CallOK, AdmittedWereGood, At
  <1>2. QED
    BY <1>1, InvariantHolds, PTL

(* A refusal that no failed query explains is due to a logout of that very *)
(* session or to its end, which the token's whole seconds bring forward by *)
(* less than one (auth/service.go:83, 93, 122-126, 200).                   *)
THEOREM RefusalsAreJustified == Spec => []RefusalsAreDue
  <1>1. IInv => RefusalsAreDue
    BY DEF IInv, CallOK, Due, RefusalsAreDue, At
  <1>2. QED
    BY <1>1, InvariantHolds, PTL

(* A logout answered with success has revoked its session, for good and no *)
(* later than that answer (auth/service.go:114-128, router.go:132-153).    *)
THEOREM LogoutsRevoke == Spec => []LogoutRevokes
  <1>1. IInv => LogoutRevokes
    BY DEF IInv, AnsweredOK, LogoutRevokes
  <1>2. QED
    BY <1>1, InvariantHolds, PTL
=============================================================================
