--------------------------- MODULE LivePageProofs ---------------------------
(***************************************************************************)
(* Proofs about LivePage, for any lists, commands, numbers of requests and *)
(* calls and any capacity.                                                 *)
(***************************************************************************)
EXTENDS LivePageProperties, TLAPS

-----------------------------------------------------------------------------
(* Types.                                                                  *)

LEMMA Refetched ==
  ASSUME NEW c \in Commands
  PROVE  /\ Changes[c] \subseteq Refetches[c]
         /\ Refetches[c] \subseteq Lists
         /\ Signals[c] \subseteq Changes[c]
  BY PageAssumption
  DEF PageAssumption, Changes, Refetches, Signals, ManagerLists

LEMMA TypeInit == Init => TypeOK
  <1> SUFFICES ASSUME Init PROVE TypeOK
    OBVIOUS
  <1>1. 0 \in Version /\ 1 \in Version /\ Unread \in [Lists -> Version]
    BY PageAssumption DEF PageAssumption, Version, Unread, NotRead
  <1>2. request \in [Requests -> Request]
    BY <1>1 DEF Init, Request, NoRequest
  <1>3. call \in [Calls -> Call \cup {NoCall}]
    BY DEF Init
  <1>4. wire \in Seq(Lists) /\ Len(wire) <= Capacity
    BY PageAssumption DEF Init, PageAssumption
  <1>5. QED
    BY <1>1, <1>2, <1>3, <1>4 DEF Init, TypeOK

LEMMA TypeAsking ==
  ASSUME TypeOK, NEW r \in Requests, NEW cause \in {"focus", "list"},
         NEW lists \in SUBSET Lists, Asking(r, cause, lists)
  PROVE  request' \in [Requests -> Request]
  <1>1. Unread \in [Lists -> Version]
    BY PageAssumption DEF PageAssumption, Version, Unread, NotRead
  <1>2. [cause |-> cause, lists |-> lists, got |-> Unread] \in Request
    BY <1>1 DEF Request
  <1>3. QED
    BY <1>2 DEF TypeOK, Asking

LEMMA TypeLosing ==
  ASSUME TypeOK, NEW lists, NEW reason \in {"missed", "failed"}
  PROVE  /\ Losing(lists, reason) \in [Lists -> SUBSET {"missed", "failed", "overtaken"}]
         /\ Missing(lists) \in [Lists -> SUBSET {"missed", "failed", "overtaken"}]
  BY DEF TypeOK, Losing, Missing

LEMMA TypeClosing ==
  ASSUME TypeOK, Closing
  PROVE  /\ socket' \in {"connecting", "live", "broken", "retry", "off"}
         /\ wire' \in Seq(Lists) /\ Len(wire') <= Capacity
         /\ open' \in BOOLEAN
         /\ request' \in [Requests -> Request]
         /\ call' \in [Calls -> Call \cup {NoCall}]
  <1>1. NoRequest \in Request
    BY PageAssumption
    DEF PageAssumption, Version, Unread, NotRead, NoRequest, Request
  <1>2. wire' \in Seq(Lists) /\ Len(wire') <= Capacity
    BY PageAssumption DEF PageAssumption, Closing, Dropping
  <1>3. QED
    BY <1>1, <1>2 DEF Closing, Dropping

LEMMA TypeServe ==
  ASSUME TypeOK, NEW r \in Requests, Serve(r) \/ Focus(r)
  PROVE  TypeOK'
  <1> USE DEF TypeOK, server, link, history
  <1>1. CASE Focus(r)
    BY <1>1, TypeAsking DEF Focus
  <1>2. CASE Reads(r)
    <2>1. PICK l \in request[r].lists :
            /\ request' = [request EXCEPT ![r].got[l] = version[l]]
            /\ UNCHANGED <<server, link, open, call, shown, history>>
      BY <1>2 DEF Reads
    <2>2. request' \in [Requests -> Request]
      BY <2>1 DEF Request
    <2>3. QED
      BY <2>1, <2>2
  <1>3. CASE Answers(r)
    <2>1. NoRequest \in Request /\ request[r] \in Request
      BY PageAssumption
      DEF PageAssumption, Version, Unread, NotRead, NoRequest, Request
    <2>2. request[r].got \in [Lists -> Version]
      BY <2>1 DEF Request
    <2>3. QED
      BY <1>3, <2>1, <2>2 DEF Answers
  <1>4. CASE Fails(r)
    <2>1. NoRequest \in Request
      BY PageAssumption
      DEF PageAssumption, Version, Unread, NotRead, NoRequest, Request
    <2>2. lost' \in [Lists -> SUBSET {"missed", "failed", "overtaken"}]
      BY <1>4, TypeLosing DEF Fails
    <2>3. CASE request[r].cause = "mount"
      BY <1>4, <2>2, <2>3, TypeClosing DEF Fails
    <2>4. CASE request[r].cause # "mount"
      BY <1>4, <2>1, <2>2, <2>4 DEF Fails
    <2>5. QED
      BY <2>3, <2>4
  <1>5. QED
    BY <1>1, <1>2, <1>3, <1>4 DEF Serve

LEMMA TypeCommitting ==
  ASSUME TypeOK, NEW changed \in SUBSET Lists, NEW told \in SUBSET changed,
         Committing(changed, told)
  PROVE  version' \in [Lists -> Version] /\ signals' \subseteq Signal
  <1>1. \A l \in changed : version[l] + 1 \in Version
    BY PageAssumption DEF PageAssumption, TypeOK, Version, Committing
  <1>2. version' \in [Lists -> Version]
    BY <1>1, PageAssumption DEF PageAssumption, TypeOK, Version, Committing
  <1>3. {[list |-> l, version |-> version[l] + 1] : l \in told} \subseteq Signal
    BY <1>1 DEF Signal
  <1>4. QED
    BY <1>2, <1>3 DEF TypeOK, Committing

LEMMA TypeCall ==
  ASSUME TypeOK, NEW k \in Calls, call[k] # NoCall
  PROVE  call[k] \in Call
  BY DEF TypeOK

LEMMA TypeCommand ==
  ASSUME TypeOK, NEW k \in Calls,
         \/ Post(k) \/ Refuse(k) \/ CallCommits(k) \/ CallUnacknowledged(k)
         \/ Finish(k) \/ \E r \in Requests : Refetch(k, r)
  PROVE  TypeOK'
  <1> USE DEF server, link, history
  <1>1. Unread \in [Lists -> Version] /\ 0 \in Version
    BY PageAssumption DEF PageAssumption, Version, Unread, NotRead
  <1>2. CASE Post(k)
    <2>1. \A c \in Commands :
            [step |-> "posted", command |-> c, at |-> Unread, todo |-> {}] \in Call
      BY <1>1 DEF Call
    <2>2. call' \in [Calls -> Call \cup {NoCall}]
      BY <1>2, <2>1 DEF Post, TypeOK
    <2>3. QED
      BY <1>2, <2>2 DEF Post, TypeOK
  <1>3. CASE Refuse(k)
    BY <1>3 DEF Refuse, TypeOK
  <1>4. CASE CallCommits(k)
    <2>1. call[k] \in Call
      BY <1>4, TypeCall DEF CallCommits, NoCall
    <2>2. call[k].command \in Commands
      BY <2>1 DEF Call
    <2>3. version' \in [Lists -> Version] /\ signals' \subseteq Signal
      BY <1>4, <2>2, TypeCommitting, Refetched DEF CallCommits
    <2>4. [l \in Lists |-> IF l \in Changes[call[k].command] THEN version'[l] ELSE 0]
            \in [Lists -> Version]
      BY <1>1, <2>3
    <2>5. call' \in [Calls -> Call \cup {NoCall}]
      BY <1>4, <2>1, <2>4 DEF CallCommits, TypeOK, Call
    <2>6. QED
      BY <1>4, <2>3, <2>5 DEF CallCommits, TypeOK
  <1>5. CASE CallUnacknowledged(k)
    <2>1. call[k] \in Call
      BY <1>5, TypeCall DEF CallUnacknowledged, NoCall
    <2>2. call[k].command \in Commands
      BY <2>1 DEF Call
    <2>3. version' \in [Lists -> Version] /\ signals' \subseteq Signal
      BY <1>5, <2>2, TypeCommitting, Refetched DEF CallUnacknowledged
    <2>4. QED
      BY <1>5, <2>3, TypeLosing DEF CallUnacknowledged, TypeOK
  <1>6. CASE Respond(k)
    <2>1. call[k] \in Call
      BY <1>6, TypeCall DEF Respond, Responding, NoCall
    <2>2. call[k].command \in Commands /\ call[k].at \in [Lists -> Version]
      BY <2>1 DEF Call
    <2>3. Refetches[call[k].command] \in SUBSET Lists
      BY <2>2, Refetched
    <2>4. call' \in [Calls -> Call \cup {NoCall}]
      BY <1>6, <2>1, <2>3 DEF Respond, TypeOK, Call
    <2>5. own' \in [Lists -> Version]
      BY <1>6, <2>2 DEF Respond, Responding, TypeOK
    <2>6. QED
      BY <1>6, <2>4, <2>5 DEF Respond, Responding, TypeOK
  <1>7. CASE RespondFails(k)
    BY <1>7, TypeLosing DEF RespondFails, TypeOK
  <1>8. ASSUME NEW r \in Requests, Refetch(k, r)
        PROVE  TypeOK'
    <2>1. call[k] \in Call
      BY <1>8, TypeCall DEF Refetch, NoCall
    <2>2. PICK l \in call[k].todo :
            /\ Asking(r, "list", {l})
            /\ call' = [call EXCEPT ![k] =
                 IF call[k].todo = {l} THEN NoCall
                 ELSE [call[k] EXCEPT !.todo = @ \ {l}]]
      BY <1>8 DEF Refetch
    <2>3. l \in Lists /\ [call[k] EXCEPT !.todo = @ \ {l}] \in Call
      BY <2>1, <2>2 DEF Call
    <2>4. request' \in [Requests -> Request]
      BY <2>2, <2>3, TypeAsking
    <2>5. call' \in [Calls -> Call \cup {NoCall}]
      BY <2>2, <2>3 DEF TypeOK
    <2>6. QED
      BY <1>8, <2>4, <2>5 DEF Refetch, TypeOK
  <1>9. QED
    BY <1>2, <1>3, <1>4, <1>5, <1>6, <1>7, <1>8 DEF Finish

LEMMA TypeNews ==
  ASSUME TypeOK,
         \/ Commit \/ Publish \/ Breaks \/ Reconnect \/ Leave
         \/ \E r \in Requests : OnEvent(r)
  PROVE  TypeOK'
  <1> USE DEF server, link, history
  <1>1. CASE Commit
    <2>1. PICK changed \in SUBSET Lists, told \in SUBSET Lists :
            /\ told \subseteq changed
            /\ Committing(changed, told)
            /\ lost' = Missing(changed \ told)
            /\ UNCHANGED <<link, open, request, call, shown, recovered, own>>
      BY <1>1 DEF Commit
    <2>2. QED
      BY <2>1, TypeCommitting, TypeLosing DEF TypeOK
  <1>2. CASE Publish
    <2>1. PICK e \in signals :
            /\ signals' = signals \ {e}
            /\ IF socket = "live" /\ Len(wire) < Capacity
               THEN wire' = Append(wire, e.list) /\ UNCHANGED lost
               ELSE lost' = Losing({e.list}, "missed") /\ UNCHANGED wire
            /\ UNCHANGED <<version, socket, open, request, call, shown, recovered, own>>
      BY <1>2 DEF Publish
    <2>2. e.list \in Lists /\ signals' \subseteq Signal
      BY <2>1 DEF TypeOK, Signal
    <2>3. Len(wire) < Capacity =>
            /\ Append(wire, e.list) \in Seq(Lists)
            /\ Len(Append(wire, e.list)) <= Capacity
      BY <2>2, PageAssumption DEF TypeOK, PageAssumption
    <2>4. QED
      BY <2>1, <2>2, <2>3, TypeLosing DEF TypeOK
  <1>3. CASE Breaks
    <2>1. <<>> \in Seq(Lists) /\ Len(<<>>) <= Capacity
      BY PageAssumption DEF PageAssumption
    <2>2. QED
      BY <1>3, <2>1, TypeLosing DEF Breaks, TypeOK
  <1>4. CASE Reconnect
    BY <1>4 DEF Reconnect, Register, OnClose, Retry, TypeOK
  <1>5. CASE Leave
    BY <1>5, TypeClosing DEF Leave, TypeOK
  <1>6. ASSUME NEW r \in Requests, OnEvent(r)
        PROVE  TypeOK'
    <2>1. Head(wire) \in Lists /\ Tail(wire) \in Seq(Lists) /\ Len(Tail(wire)) <= Capacity
      BY <1>6, PageAssumption DEF OnEvent, TypeOK, PageAssumption
    <2>2. request' \in [Requests -> Request]
      BY <1>6, <2>1, TypeAsking DEF OnEvent
    <2>3. QED
      BY <1>6, <2>1, <2>2 DEF OnEvent, TypeOK
  <1>7. QED
    BY <1>1, <1>2, <1>3, <1>4, <1>5, <1>6

LEMMA TypeStep == TypeOK /\ [Next]_vars => TypeOK'
  <1> SUFFICES ASSUME TypeOK, [Next]_vars PROVE TypeOK'
    OBVIOUS
  <1>1. CASE Next
    BY <1>1, TypeServe, TypeCommand, TypeNews DEF Next, Ask
  <1>2. CASE UNCHANGED vars
    BY <1>2 DEF TypeOK, vars, server, link, history
  <1>3. QED
    BY <1>1, <1>2

(* Every reachable state of a page is well typed; in particular no more    *)
(* events wait for it than the hub's buffer holds (hub.go:144-151).        *)
THEOREM PageTypeCorrect == Spec => []TypeOK
  BY TypeInit, TypeStep, PTL DEF Spec

-----------------------------------------------------------------------------
(* Nothing of a list is newer than the list, and a command has made        *)
(* versions of the lists it changes only.                                  *)
CurrentCall(k) ==
  call[k].step = "done" =>
    \A l \in Lists : /\ call[k].at[l] <= version[l]
                     /\ l \notin Changes[call[k].command] => call[k].at[l] = 0

Current ==
  /\ \A r \in Requests, l \in Lists : request[r].got[l] <= version[l]
  /\ \A l \in Lists : own[l] <= version[l]
  /\ \A k \in Calls : CurrentCall(k)

LEMMA CommitGrows ==
  ASSUME TypeOK, NEW changed, NEW told, Committing(changed, told)
  PROVE  \A l \in Lists : version[l] <= version'[l]
  BY DEF TypeOK, Version, Committing

(* Older than what has grown.                                              *)
LEMMA CurrentGrows ==
  ASSUME TypeOK, TypeOK', Current,
         \A l \in Lists : version[l] <= version'[l], UNCHANGED <<own, request>>
  PROVE  /\ \A r \in Requests, l \in Lists : request'[r].got[l] <= version'[l]
         /\ \A l \in Lists : own'[l] <= version'[l]
         /\ \A k \in Calls : call'[k] = call[k] => CurrentCall(k)'
  <1>1. \A l \in Lists : version[l] \in Nat /\ version'[l] \in Nat
    BY DEF TypeOK, Version
  <1>2. ASSUME NEW r \in Requests, NEW l \in Lists
        PROVE  request'[r].got[l] <= version'[l]
    <2>1. request[r].got[l] \in Nat /\ request'[r] = request[r]
      BY DEF TypeOK, Request, Version
    <2>2. QED
      BY <1>1, <2>1 DEF Current
  <1>3. ASSUME NEW l \in Lists PROVE own'[l] <= version'[l]
    <2>1. own[l] \in Nat
      BY DEF TypeOK, Version
    <2>2. QED
      BY <1>1, <2>1 DEF Current
  <1>4. ASSUME NEW k \in Calls, call'[k] = call[k], call[k].step = "done",
               NEW l \in Lists
        PROVE  /\ call[k].at[l] <= version'[l]
               /\ l \notin Changes[call[k].command] => call[k].at[l] = 0
    <2>1. call[k] \in Call
      BY <1>4, TypeCall DEF NoCall
    <2>2. call[k].at[l] \in Nat
      BY <2>1 DEF Call, Version
    <2>3. QED
      BY <1>1, <1>4, <2>2 DEF Current, CurrentCall
  <1>5. QED
    BY <1>2, <1>3, <1>4 DEF CurrentCall

LEMMA CurrentInit == Init => Current
  BY PageAssumption
  DEF Init, Current, CurrentCall, Unread, NotRead, NoRequest, NoCall, PageAssumption

LEMMA CurrentStep ==
  TypeOK /\ TypeOK' /\ Current /\ [Next]_vars => Current'
  <1> SUFFICES ASSUME TypeOK, TypeOK', Current, [Next]_vars
               PROVE  Current'
    OBVIOUS
  <1> USE DEF server, link, history
  <1>1. \A l \in Lists : NoRequest.got[l] <= version[l]
    BY DEF TypeOK, Version, NoRequest, Unread, NotRead
  <1>2. NoCall.step # "done"
    BY DEF NoCall
  <1>3. ASSUME NEW r \in Requests, Reads(r) PROVE Current'
    BY <1>3 DEF Reads, Current, CurrentCall, TypeOK, Request, Version
  <1>4. ASSUME NEW r \in Requests, Answers(r) PROVE Current'
    BY <1>1, <1>4 DEF Answers, Current, CurrentCall, TypeOK
  <1>5. ASSUME Closing, version' = version, own' = own PROVE Current'
    BY <1>1, <1>2, <1>5 DEF Closing, Dropping, Current, CurrentCall
  <1>6. ASSUME NEW r \in Requests, Fails(r) PROVE Current'
    BY <1>1, <1>5, <1>6 DEF Fails, Current, CurrentCall, TypeOK
  <1>7. ASSUME NEW r \in Requests, NEW cause, NEW lists, Asking(r, cause, lists),
               UNCHANGED <<version, own, call>>
        PROVE  Current'
    BY <1>1, <1>7 DEF Asking, Current, CurrentCall, TypeOK, NoRequest
  <1>8. ASSUME NEW changed \in SUBSET Lists, NEW told, Committing(changed, told),
               UNCHANGED <<own, request, call>>
        PROVE  Current'
    <2>1. \A l \in Lists : version[l] <= version'[l]
      BY <1>8, CommitGrows
    <2>2. QED
      BY <1>8, <2>1, CurrentGrows DEF Current
  <1>9. ASSUME NEW r \in Requests, Ask(r) PROVE Current'
    BY <1>7, <1>9 DEF Ask, Focus, OnEvent
  <1>10. CASE Commit
    BY <1>8, <1>10 DEF Commit
  <1>11. ASSUME NEW k \in Calls,
                \/ Post(k) \/ Refuse(k) \/ CallUnacknowledged(k)
                \/ RespondFails(k) \/ \E r \in Requests : Refetch(k, r)
         PROVE  Current'
    <2>1. CASE Post(k) \/ Refuse(k) \/ RespondFails(k)
      <3>1. /\ \A j \in Calls : j # k => call'[j] = call[j]
            /\ call'[k].step # "done"
        BY <1>2, <2>1 DEF Post, Refuse, RespondFails, TypeOK
      <3>2. UNCHANGED <<version, own, request>>
        BY <2>1 DEF Post, Refuse, RespondFails
      <3>3. QED
        BY <3>1, <3>2 DEF Current, CurrentCall
    <2>2. CASE CallUnacknowledged(k)
      <3>1. call' = [call EXCEPT ![k] = NoCall] /\ UNCHANGED <<own, request>>
        BY <2>2 DEF CallUnacknowledged
      <3>2. \A l \in Lists : version[l] <= version'[l]
        BY <2>2, CommitGrows DEF CallUnacknowledged
      <3>3. /\ \A j \in Calls : j # k => call'[j] = call[j]
            /\ call'[k].step # "done"
        BY <1>2, <3>1 DEF TypeOK
      <3>4. QED
        BY <3>1, <3>2, <3>3, CurrentGrows DEF Current, CurrentCall
    <2>3. ASSUME NEW r \in Requests, Refetch(k, r) PROVE Current'
      <3>1. call[k].step = "answered" /\ UNCHANGED <<version, own>>
        BY <2>3 DEF Refetch
      <3>2. PICK l \in call[k].todo : Asking(r, "list", {l})
        BY <2>3 DEF Refetch
      <3>3. \A q \in Requests, i \in Lists : request'[q].got[i] <= version[i]
        BY <1>1, <3>2 DEF Asking, Current, TypeOK, NoRequest
      <3>4. /\ \A j \in Calls : j # k => call'[j] = call[j]
            /\ call'[k].step # "done"
        BY <1>2, <2>3, <3>1 DEF Refetch, TypeOK
      <3>5. QED
        BY <3>1, <3>3, <3>4 DEF Current, CurrentCall
    <2>4. QED
      BY <1>11, <2>1, <2>2, <2>3
  <1>12. ASSUME NEW k \in Calls, CallCommits(k) PROVE Current'
    <2> DEFINE c == call[k].command
               at == [l \in Lists |-> IF l \in Changes[c] THEN version'[l] ELSE 0]
    <2>1. call[k] \in Call
      BY <1>12, TypeCall DEF CallCommits, NoCall
    <2>2. /\ call' = [call EXCEPT ![k].step = "done", ![k].at = at]
          /\ UNCHANGED <<own, request>>
      BY <1>12 DEF CallCommits
    <2>3. \A l \in Lists : version[l] <= version'[l] /\ 0 <= version'[l]
      BY <1>12, CommitGrows DEF CallCommits, TypeOK, Version
    <2>4. /\ call'[k].at = at /\ call'[k].command = c
          /\ \A j \in Calls : j # k => call'[j] = call[j]
      BY <2>1, <2>2 DEF TypeOK, Call
    <2>5. \A l \in Lists : at[l] <= version'[l] /\ (l \notin Changes[c] => at[l] = 0)
      BY <2>3 DEF TypeOK, Version
    <2>6. CurrentCall(k)'
      BY <2>4, <2>5 DEF CurrentCall
    <2>7. QED
      BY <2>2, <2>3, <2>4, <2>6, CurrentGrows DEF Current
  <1>13. ASSUME NEW k \in Calls, Respond(k) PROVE Current'
    <2>1. /\ call[k].step = "done" /\ UNCHANGED <<version, request>>
          /\ own' = [l \in Lists |->
               IF call[k].at[l] > own[l] THEN call[k].at[l] ELSE own[l]]
      BY <1>13 DEF Respond, Responding
    <2>2. \A l \in Lists : own'[l] <= version[l]
      BY <2>1 DEF Current, CurrentCall
    <2>3. /\ \A j \in Calls : j # k => call'[j] = call[j]
          /\ call'[k].step # "done"
      BY <1>13 DEF Respond, TypeOK
    <2>4. QED
      BY <2>1, <2>2, <2>3 DEF Current, CurrentCall
  <1>14. CASE Publish \/ Breaks \/ Reconnect
    BY <1>14 DEF Publish, Breaks, Reconnect, Register, OnClose, Retry, Current, CurrentCall
  <1>15. CASE Leave
    BY <1>5, <1>15 DEF Leave
  <1>16. CASE UNCHANGED vars
    BY <1>16 DEF Current, CurrentCall, vars
  <1>17. QED
    BY <1>3, <1>4, <1>6, <1>9, <1>10, <1>11, <1>12, <1>13, <1>14, <1>15, <1>16
    DEF Next, Serve, Finish

-----------------------------------------------------------------------------
(* News of a list, cause by cause.                                         *)
Told(l) == \E e \in signals : e.list = l

Waiting(l) == \E i \in DOMAIN wire : wire[i] = l

Accounted(l) == shown[l] = version[l] \/ lost[l] # {} \/ NewsUnderway(l)

(* A request asked in this step reads what will be committed.              *)
LEMMA AskedNow ==
  ASSUME TypeOK, NEW r \in Requests, NEW cause, NEW lists \in SUBSET Lists,
         Asking(r, cause, lists), UNCHANGED version
  PROVE  /\ \A l \in lists : Asked(l)'
         /\ \A l \in Lists : Asked(l) => Asked(l)'
  <1>1. request'[r] = [cause |-> cause, lists |-> lists, got |-> Unread]
    BY DEF Asking, TypeOK
  <1>2. \A q \in Requests : q # r => request'[q] = request[q]
    BY DEF Asking, TypeOK
  <1>3. request[r].lists = {}
    BY DEF Asking, NoRequest
  <1>4. QED
    BY <1>1, <1>2, <1>3 DEF Asked, Unread

(* The reads, answers and failures of requests.                            *)
LEMMA AccountedServe ==
  ASSUME TypeOK, Current, open, open', NEW l \in Lists, Accounted(l),
         NEW r \in Requests, Serve(r)
  PROVE  Accounted(l)'
  <1> USE DEF server, link, history
  <1>1. /\ request[r].got \in [Lists -> Version]
        /\ \A q \in Requests : request[q].got[l] <= version[l]
        /\ version[l] \in Nat /\ shown[l] \in Nat
    BY DEF TypeOK, Request, Version, Current
  <1>2. request[r].got[l] \in Nat
    BY <1>1 DEF Version
  <1>3. CASE Reads(r)
    <2>1. UNCHANGED <<server, link, open, call, shown, history>>
      BY <1>3 DEF Reads
    <2>2. Asked(l) => Asked(l)'
      BY <1>1, <1>3 DEF Reads, Asked, TypeOK, Request
    <2>3. QED
      BY <2>1, <2>2 DEF Accounted, NewsUnderway, Refetching
  <1>4. CASE Answers(r)
    <2>1. UNCHANGED <<server, link, open, call>>
      BY <1>4 DEF Answers
    <2>2. \A q \in Requests : q # r => request'[q] = request[q]
      BY <1>4 DEF Answers, TypeOK
    <2>3. CASE l \notin request[r].lists
      <3>1. shown'[l] = shown[l] /\ lost'[l] = lost[l] 
        BY <1>4, <2>3 DEF Answers
      <3>2. Asked(l) => Asked(l)'
        BY <2>1, <2>2, <2>3 DEF Asked
      <3>3. QED
        BY <2>1, <3>1, <3>2 DEF Accounted, NewsUnderway, Refetching
    <2>4. CASE l \in request[r].lists /\ request[r].got[l] = version[l]
      BY <1>4, <2>1, <2>4 DEF Answers, Accounted
    <2>5. CASE l \in request[r].lists /\ request[r].got[l] # version[l]
      <3>1. request[r].got[l] < version[l]
        BY <1>1, <1>2, <2>5
      <3>2. CASE lost[l] # {} \/ shown[l] = version[l]
        BY <1>1, <1>2, <1>4, <2>5, <3>1, <3>2 DEF Answers, Accounted
      <3>3. CASE NewsUnderway(l)
        <4>1. request[r].got[l] # NotRead
          BY <1>4, <2>5 DEF Answers
        <4>2. Asked(l) => Asked(l)'
          BY <2>1, <2>2, <2>5, <4>1 DEF Asked
        <4>3. QED
          BY <2>1, <3>3, <4>2 DEF Accounted, NewsUnderway, Refetching
      <3>4. QED
        BY <3>2, <3>3 DEF Accounted
    <2>6. QED
      BY <2>3, <2>4, <2>5
  <1>5. CASE Fails(r)
    <2>1. /\ request' = [request EXCEPT ![r] = NoRequest]
          /\ lost' = Losing(request[r].lists, "failed")
          /\ UNCHANGED <<server, link, open, call, shown>>
      BY <1>5 DEF Fails, Closing, Dropping
    <2>2. CASE l \in request[r].lists
      BY <2>1, <2>2 DEF Losing, Accounted
    <2>3. CASE l \notin request[r].lists
      <3>1. lost'[l] = lost[l]
        BY <2>1, <2>3 DEF Losing
      <3>2. Asked(l) => Asked(l)'
        BY <2>1, <2>3 DEF Asked, TypeOK
      <3>3. QED
        BY <2>1, <3>1, <3>2 DEF Accounted, NewsUnderway, Refetching
    <2>4. QED
      BY <2>2, <2>3
  <1>6. QED
    BY <1>3, <1>4, <1>5 DEF Serve

(* Commits: the event is there, or the command will refetch the list, or   *)
(* the news is lost.                                                       *)
LEMMA CommittingTells ==
  ASSUME TypeOK, NEW changed \in SUBSET Lists, NEW told \in SUBSET Lists,
         told \subseteq changed, Committing(changed, told), NEW l \in Lists
  PROVE  /\ Told(l) => Told(l)'
         /\ l \in told => Told(l)'
         /\ l \notin changed => version'[l] = version[l]
  <1>1. signals' = signals \cup {[list |-> i, version |-> version[i] + 1] : i \in told}
    BY DEF Committing
  <1>2. Told(l) => Told(l)'
    BY <1>1 DEF Told
  <1>3. ASSUME l \in told PROVE Told(l)'
    <2>1. [list |-> l, version |-> version[l] + 1] \in signals'
      BY <1>1, <1>3
    <2>2. [list |-> l, version |-> version[l] + 1].list = l
      OBVIOUS
    <2>3. QED
      BY <2>1, <2>2 DEF Told
  <1>4. version[l] \in Nat
    BY DEF TypeOK, Version
  <1>5. QED
    BY <1>2, <1>3, <1>4 DEF Committing

LEMMA AccountedCommit ==
  ASSUME TypeOK, NEW l \in Lists, Accounted(l), Commit
  PROVE  Accounted(l)'
  <1> USE DEF server, link, history
  <1>1. PICK changed \in SUBSET Lists, told \in SUBSET Lists :
          /\ told \subseteq changed
          /\ Committing(changed, told)
          /\ lost' = Missing(changed \ told)
          /\ UNCHANGED <<link, open, request, call, shown, recovered, own>>
    BY DEF Commit
  <1>2. CASE l \in changed \ told
    BY <1>1, <1>2 DEF Missing, Accounted
  <1>3. CASE l \in told
    BY <1>1, <1>3, CommittingTells DEF Accounted, NewsUnderway, Told
  <1>4. CASE l \notin changed
    <2>1. version'[l] = version[l] /\ (Told(l) => Told(l)') /\ lost'[l] = lost[l]
      BY <1>1, <1>4, CommittingTells DEF Missing, TypeOK
    <2>2. Asked(l) => Asked(l)'
      BY <1>1, <2>1 DEF Asked
    <2>3. QED
      BY <1>1, <2>1, <2>2 DEF Accounted, NewsUnderway, Refetching, Told
  <1>5. QED
    BY <1>2, <1>3, <1>4

(* A command of the page that is not waiting to refetch the list can be    *)
(* forgotten.                                                              *)
RefetchingBy(k, l) ==
  \/ /\ call[k].step = "done"
     /\ l \in Changes[call[k].command] \ Signals[call[k].command]
  \/ call[k].step = "answered" /\ l \in call[k].todo

LEMMA RefetchingKept ==
  ASSUME NEW l \in Lists, NEW k \in Calls,
         \A j \in Calls : j # k => call'[j] = call[j],
         RefetchingBy(k, l) => RefetchingBy(k, l)'
  PROVE  Refetching(l) => Refetching(l)'
  BY DEF Refetching, RefetchingBy

LEMMA AccountedCommand ==
  ASSUME TypeOK, NEW l \in Lists, Accounted(l), NEW k \in Calls,
         \/ Post(k) \/ Refuse(k) \/ CallCommits(k) \/ CallUnacknowledged(k)
         \/ Finish(k) \/ \E r \in Requests : Refetch(k, r)
  PROVE  Accounted(l)'
  <1> USE DEF server, link, history
  <1>1. \A j \in Calls : j # k => call'[j] = call[j]
    BY DEF Post, Refuse, CallCommits, CallUnacknowledged, Finish, Respond,
           RespondFails, Refetch, TypeOK
  <1>2. CASE Post(k) \/ Refuse(k)
    <2>1. ~RefetchingBy(k, l)
      BY <1>2 DEF Post, Refuse, RefetchingBy, NoCall
    <2>2. Refetching(l) => Refetching(l)'
      BY <1>1, <2>1, RefetchingKept
    <2>3. UNCHANGED <<server, link, open, request, shown, history>>
      BY <1>2 DEF Post, Refuse
    <2>4. QED
      BY <2>2, <2>3 DEF Accounted, NewsUnderway, Asked
  <1>3. CASE CallCommits(k) \/ CallUnacknowledged(k)
    <2> DEFINE c == call[k].command
               told == IF CallCommits(k) THEN Signals[c] ELSE {}
    <2>1. call[k].step = "posted" /\ call[k] \in Call /\ c \in Commands
      BY <1>3, TypeCall DEF CallCommits, CallUnacknowledged, NoCall, Call
    <2>2. /\ Changes[c] \in SUBSET Lists /\ Signals[c] \subseteq Changes[c]
          /\ UNCHANGED <<link, open, request, shown>>
      BY <1>3, <2>1, Refetched DEF CallCommits, CallUnacknowledged
    <2>3. ~RefetchingBy(k, l)
      BY <2>1 DEF RefetchingBy
    <2>4. Refetching(l) => Refetching(l)'
      BY <1>1, <2>3, RefetchingKept
    <2>5. Committing(Changes[c], Signals[c]) \/ Committing(Changes[c], {})
      BY <1>3 DEF CallCommits, CallUnacknowledged
    <2>6. CASE l \notin Changes[c]
      <3>1. version'[l] = version[l] /\ (Told(l) => Told(l)')
        BY <2>2, <2>5, <2>6, CommittingTells
      <3>2. lost'[l] = lost[l]
        <4>1. lost' = lost \/ lost' = Missing(Changes[c])
          BY <1>3 DEF CallCommits, CallUnacknowledged
        <4>2. QED
          BY <2>6, <4>1 DEF Missing
      <3>3. Asked(l) => Asked(l)'
        BY <2>2, <3>1 DEF Asked
      <3>4. QED
        BY <2>2, <2>4, <3>1, <3>2, <3>3 DEF Accounted, NewsUnderway, Told
    <2>7. CASE l \in Changes[c] /\ CallUnacknowledged(k)
      BY <2>7 DEF CallUnacknowledged, Missing, Accounted
    <2>8. CASE l \in Signals[c] /\ CallCommits(k)
      <3>1. Told(l)'
        BY <2>2, <2>8, CommittingTells DEF CallCommits
      <3>2. QED
        BY <3>1 DEF Accounted, NewsUnderway, Told
    <2>9. CASE l \in Changes[c] \ Signals[c] /\ CallCommits(k)
      <3>1. call'[k].step = "done" /\ call'[k].command = c
        BY <2>1, <2>9 DEF CallCommits, TypeOK, Call
      <3>2. QED
        BY <2>9, <3>1 DEF Accounted, NewsUnderway, Refetching
    <2>10. QED
      BY <1>3, <2>6, <2>7, <2>8, <2>9
  <1>4. CASE Respond(k)
    <2>1. call[k].step = "done" /\ call[k] \in Call /\ call[k].command \in Commands
      BY <1>4, TypeCall DEF Respond, Responding, NoCall, Call
    <2>2. call'[k].step = "answered" /\ call'[k].todo = Refetches[call[k].command]
      BY <1>4, <2>1 DEF Respond, TypeOK, Call
    <2>3. Refetching(l) => Refetching(l)'
      BY <1>1, <2>1, <2>2, RefetchingKept, Refetched DEF RefetchingBy
    <2>4. UNCHANGED <<server, link, open, request, shown, lost>>
      BY <1>4 DEF Respond, Responding
    <2>5. QED
      BY <2>3, <2>4 DEF Accounted, NewsUnderway, Asked
  <1>5. CASE RespondFails(k)
    <2> DEFINE unsaid == Changes[call[k].command] \ Signals[call[k].command]
    <2>1. call[k].step = "done" /\ lost' = Losing(unsaid, "failed")
          /\ UNCHANGED <<server, link, open, request, shown>>
      BY <1>5 DEF RespondFails
    <2>2. CASE l \in unsaid
      BY <2>1, <2>2 DEF Losing, Accounted
    <2>3. CASE l \notin unsaid
      <3>1. Refetching(l) => Refetching(l)'
        BY <1>1, <2>1, <2>3, RefetchingKept DEF RefetchingBy
      <3>2. lost'[l] = lost[l]
        BY <2>1, <2>3 DEF Losing
      <3>3. QED
        BY <2>1, <3>1, <3>2 DEF Accounted, NewsUnderway, Asked
    <2>4. QED
      BY <2>2, <2>3
  <1>6. ASSUME NEW r \in Requests, Refetch(k, r) PROVE Accounted(l)'
    <2>1. PICK i \in call[k].todo :
            /\ Asking(r, "list", {i})
            /\ call' = [call EXCEPT ![k] =
                 IF call[k].todo = {i} THEN NoCall
                 ELSE [call[k] EXCEPT !.todo = @ \ {i}]]
      BY <1>6 DEF Refetch
    <2>2. call[k].step = "answered" /\ call[k] \in Call /\ i \in Lists
      BY <1>6, <2>1, TypeCall DEF Refetch, NoCall, Call
    <2>3. UNCHANGED <<server, link, open, shown, history>>
      BY <1>6 DEF Refetch
    <2>4. Asked(i)' /\ (Asked(l) => Asked(l)')
      BY <2>1, <2>2, <2>3, AskedNow
    <2>5. CASE l = i
      BY <2>4, <2>5 DEF Accounted, NewsUnderway
    <2>6. CASE l # i
      <3>1. RefetchingBy(k, l) => RefetchingBy(k, l)'
        BY <2>1, <2>2, <2>6 DEF RefetchingBy, TypeOK, Call
      <3>2. Refetching(l) => Refetching(l)'
        BY <1>1, <3>1, RefetchingKept
      <3>3. QED
        BY <2>3, <2>4, <3>2 DEF Accounted, NewsUnderway
    <2>7. QED
      BY <2>5, <2>6
  <1>7. QED
    BY <1>2, <1>3, <1>4, <1>5, <1>6 DEF Finish

(* Events: published, waiting, asked about, or lost.                       *)
LEMMA AccountedPublish ==
  ASSUME TypeOK, NEW l \in Lists, Accounted(l), Publish
  PROVE  Accounted(l)'
  <1>1. PICK e \in signals :
          /\ signals' = signals \ {e}
          /\ IF socket = "live" /\ Len(wire) < Capacity
             THEN wire' = Append(wire, e.list) /\ UNCHANGED lost
             ELSE lost' = Losing({e.list}, "missed") /\ UNCHANGED wire
          /\ UNCHANGED <<version, socket, open, request, call, shown, recovered, own>>
    BY DEF Publish
  <1>2. e.list \in Lists
    BY DEF TypeOK, Signal
  <1>3. (Asked(l) => Asked(l)') /\ (Refetching(l) => Refetching(l)')
    BY <1>1 DEF Asked, Refetching
  <1>4. CASE wire' = Append(wire, e.list) /\ UNCHANGED lost
    <2>1. /\ \A i \in DOMAIN wire : i \in DOMAIN wire' /\ wire'[i] = wire[i]
          /\ Len(wire) + 1 \in DOMAIN wire' /\ wire'[Len(wire) + 1] = e.list
      BY <1>2, <1>4 DEF TypeOK
    <2>2. (Waiting(l) => Waiting(l)') /\ (l = e.list => Waiting(l)')
      BY <2>1 DEF Waiting
    <2>3. Told(l) => Told(l)' \/ Waiting(l)'
      BY <1>1, <2>2 DEF Told
    <2>4. QED
      BY <1>1, <1>3, <1>4, <2>2, <2>3
      DEF Accounted, NewsUnderway, Told, Waiting
  <1>5. CASE lost' = Losing({e.list}, "missed") /\ UNCHANGED wire
    <2>1. CASE l = e.list
      BY <1>1, <1>5, <2>1 DEF Losing, Accounted
    <2>2. CASE l # e.list
      <3>1. lost'[l] = lost[l]
        BY <1>5, <2>2 DEF Losing
      <3>2. Told(l) => Told(l)'
        BY <1>1, <2>2 DEF Told
      <3>3. QED
        BY <1>1, <1>3, <1>5, <3>1, <3>2 DEF Accounted, NewsUnderway, Told
    <2>3. QED
      BY <2>1, <2>2
  <1>6. QED
    BY <1>1, <1>4, <1>5

LEMMA AccountedSocket ==
  ASSUME TypeOK, NEW l \in Lists, Accounted(l),
         Breaks \/ Reconnect \/ \E r \in Requests : Ask(r)
  PROVE  Accounted(l)'
  <1> USE DEF server, link, history
  <1>1. CASE Breaks
    <2>1. /\ wire' = <<>>
          /\ lost' = Losing({wire[i] : i \in DOMAIN wire}, "missed")
          /\ UNCHANGED <<server, open, request, call, shown, recovered, own>>
      BY <1>1 DEF Breaks
    <2>2. CASE Waiting(l)
      BY <2>1, <2>2 DEF Losing, Accounted, Waiting
    <2>3. CASE ~Waiting(l)
      <3>1. lost'[l] = lost[l]
        BY <2>1, <2>3 DEF Losing, Waiting
      <3>2. QED
        BY <2>1, <2>3, <3>1
        DEF Accounted, NewsUnderway, Asked, Refetching, Waiting
    <2>4. QED
      BY <2>2, <2>3
  <1>2. CASE Reconnect
    BY <1>2 DEF Reconnect, Register, OnClose, Retry, Accounted, NewsUnderway,
                Asked, Refetching
  <1>3. ASSUME NEW r \in Requests, Focus(r) PROVE Accounted(l)'
    <2>1. Asking(r, "focus", Lists)
          /\ UNCHANGED <<server, link, open, call, shown, history>>
      BY <1>3 DEF Focus
    <2>2. Asked(l)'
      BY <2>1, AskedNow
    <2>3. QED
      BY <2>2 DEF Accounted, NewsUnderway
  <1>4. ASSUME NEW r \in Requests, OnEvent(r) PROVE Accounted(l)'
    <2>1. /\ wire # <<>> /\ wire' = Tail(wire)
          /\ Asking(r, "list", {Head(wire)})
          /\ UNCHANGED <<server, socket, open, call, shown, history>>
      BY <1>4 DEF OnEvent
    <2>2. PICK named \in Lists : named = Head(wire)
      BY <2>1 DEF TypeOK
    <2>3. Asked(named)' /\ (Asked(l) => Asked(l)')
      BY <2>1, <2>2, AskedNow
    <2>4. CASE l = named
      BY <2>3, <2>4 DEF Accounted, NewsUnderway
    <2>5. CASE l # named
      <3>1. \A i \in DOMAIN wire :
              i # 1 => i - 1 \in DOMAIN wire' /\ wire'[i - 1] = wire[i]
        BY <2>1 DEF TypeOK
      <3>2. Waiting(l) => Waiting(l)'
        <4>1. ASSUME NEW i \in DOMAIN wire, wire[i] = l PROVE Waiting(l)'
          <5>1. i # 1
            BY <2>1, <2>2, <2>5, <4>1 DEF TypeOK
          <5>2. QED
            BY <3>1, <4>1, <5>1 DEF Waiting
        <4>2. QED
          BY <4>1 DEF Waiting
      <3>3. QED
        BY <2>1, <2>3, <3>2 DEF Accounted, NewsUnderway, Refetching, Waiting
    <2>6. QED
      BY <2>4, <2>5
  <1>5. QED
    BY <1>1, <1>2, <1>3, <1>4 DEF Ask

AllAccounted == open => \A l \in Lists : Accounted(l)

LEMMA AccountedInit == Init => AllAccounted
  <1> SUFFICES ASSUME Init, NEW l \in Lists PROVE Accounted(l)
    BY DEF AllAccounted
  <1>1. PICK r \in Requests :
          request = [q \in Requests |->
            IF q = r THEN [cause |-> "mount", lists |-> Lists, got |-> Unread]
            ELSE NoRequest]
    BY DEF Init
  <1>2. Asked(l)
    BY <1>1 DEF Asked, Unread
  <1>3. QED
    BY <1>2 DEF Accounted, NewsUnderway

LEMMA OnlyClosing == [Next]_vars => open' = FALSE \/ open' = open
  BY DEF Next, Ask, Serve, Focus, OnEvent, Reads, Answers, Fails, Closing,
         Dropping, Post, Refuse, CallCommits, CallUnacknowledged, Finish,
         Respond, Responding, RespondFails, Refetch, Commit, Publish, Breaks,
         Reconnect, Register, OnClose, Retry, Leave, vars

LEMMA AccountedStep ==
  TypeOK /\ Current /\ AllAccounted /\ [Next]_vars => AllAccounted'
  <1> SUFFICES ASSUME TypeOK, Current, AllAccounted, [Next]_vars, open',
                      NEW l \in Lists
               PROVE  Accounted(l)'
    BY DEF AllAccounted
  <1>1. open /\ Accounted(l)
    BY OnlyClosing DEF AllAccounted, TypeOK
  <1>2. CASE UNCHANGED vars
    BY <1>1, <1>2
    DEF vars, server, link, history, Accounted, NewsUnderway, Asked, Refetching
  <1>3. ~Leave
    BY DEF Leave, Closing, Dropping
  <1>4. QED
    BY <1>1, <1>2, <1>3, AccountedServe, AccountedCommit, AccountedCommand,
       AccountedPublish, AccountedSocket DEF Next

LEMMA Invariants == Spec => [](Current /\ AllAccounted)
  <1>1. Init => Current /\ AllAccounted
    BY CurrentInit, AccountedInit
  <1>2. QED
    BY <1>1, CurrentStep, AccountedStep, PageTypeCorrect, PTL DEF Spec

(* A page that shows an old list has lost the news in one of the ways      *)
(* named, or the news is still under way (ManagerWorkspace.tsx:103-154,    *)
(* technician/page.tsx:50-86).                                             *)
THEOREM PageIsNotStaleUnawares == Spec => []StaleIsAccountedFor
  <1>1. AllAccounted => StaleIsAccountedFor
    BY DEF AllAccounted, Accounted, StaleIsAccountedFor
  <1>2. QED
    BY <1>1, Invariants, PTL

-----------------------------------------------------------------------------
(* The page's own commands.                                                *)
Awaited(l) ==
  \E r \in Requests :
    /\ l \in request[r].lists
    /\ \/ request[r].got[l] = NotRead
       \/ request[r].got[l] >= own[l]

ToRefetch(l) ==
  \E k \in Calls : call[k].step = "answered" /\ l \in call[k].todo

OwnShown(l) ==
  \/ shown[l] >= own[l]
  \/ lost[l] \cap {"failed", "overtaken"} # {}
  \/ ToRefetch(l)
  \/ Awaited(l)

AllOwnShown == open => \A l \in Lists : OwnShown(l)

(* Versions as numbers, and that no request or answer is ahead.            *)
LEMMA OwnNumbers ==
  ASSUME TypeOK, Current, NEW l \in Lists
  PROVE  /\ own[l] \in Nat /\ version[l] \in Nat /\ shown[l] \in Nat
         /\ own[l] <= version[l]
         /\ \A r \in Requests : request[r].got[l] \in Nat
  BY DEF TypeOK, Version, Request, Current

LEMMA OwnServe ==
  ASSUME TypeOK, Current, open', NEW l \in Lists, OwnShown(l),
         NEW r \in Requests, Serve(r)
  PROVE  OwnShown(l)'
  <1> USE DEF server, link, history
  <1>1. \A q \in Requests : q # r => request'[q] = request[q]
    BY DEF Serve, Reads, Answers, Fails, Closing, Dropping, TypeOK
  <1>2. CASE Reads(r)
    <2>1. PICK i \in request[r].lists :
            /\ request[r].got[i] = NotRead
            /\ request' = [request EXCEPT ![r].got[i] = version[i]]
            /\ UNCHANGED <<server, link, open, call, shown, history>>
      BY <1>2 DEF Reads
    <2>2. /\ request'[r].lists = request[r].lists
          /\ request'[r].got = [request[r].got EXCEPT ![i] = version[i]]
      BY <2>1 DEF TypeOK, Request
    <2>3. request'[r].got[l] = request[r].got[l] \/ request'[r].got[l] = version[l]
      BY <2>2 DEF TypeOK, Request
    <2>4. Awaited(l) => Awaited(l)'
      BY <1>1, <2>1, <2>2, <2>3, OwnNumbers DEF Awaited
    <2>5. QED
      BY <2>1, <2>4 DEF OwnShown, ToRefetch
  <1>3. CASE Answers(r)
    <2>1. UNCHANGED <<server, call, own>>
      BY <1>3 DEF Answers
    <2>2. CASE l \notin request[r].lists
      <3>1. shown'[l] = shown[l] /\ lost'[l] = lost[l]
        BY <1>3, <2>2 DEF Answers
      <3>2. Awaited(l) => Awaited(l)'
        BY <1>1, <2>1, <2>2 DEF Awaited
      <3>3. QED
        BY <2>1, <3>1, <3>2 DEF OwnShown, ToRefetch
    <2>3. CASE l \in request[r].lists
      <3>1. shown'[l] = request[r].got[l] /\ request[r].got[l] # NotRead
        BY <1>3, <2>3 DEF Answers
      <3>2. CASE request[r].got[l] >= own[l]
        BY <2>1, <3>1, <3>2 DEF OwnShown
      <3>3. CASE request[r].got[l] < own[l]
        <4>1. /\ lost[l] \subseteq lost'[l]
              /\ request[r].got[l] < shown[l] => "overtaken" \in lost'[l]
          BY <1>3, <2>3, <3>3, OwnNumbers DEF Answers
        <4>2. CASE shown[l] >= own[l]
          BY <3>3, <4>1, <4>2, OwnNumbers DEF OwnShown
        <4>3. Awaited(l) => Awaited(l)'
          BY <1>1, <2>1, <3>1, <3>3, OwnNumbers DEF Awaited
        <4>4. QED
          BY <2>1, <4>1, <4>2, <4>3 DEF OwnShown, ToRefetch
      <3>4. QED
        BY <3>2, <3>3, OwnNumbers
    <2>4. QED
      BY <2>2, <2>3
  <1>4. CASE Fails(r)
    <2>1. /\ lost' = Losing(request[r].lists, "failed")
          /\ UNCHANGED <<server, call, shown, own>>
      BY <1>4 DEF Fails, Closing, Dropping
    <2>2. lost[l] \subseteq lost'[l]
      BY <2>1 DEF Losing
    <2>3. CASE l \in request[r].lists
      <3>1. shown[l] # version[l] => "failed" \in lost'[l]
        BY <2>1, <2>3 DEF Losing
      <3>2. shown[l] = version[l] => shown'[l] >= own'[l]
        BY <2>1, OwnNumbers
      <3>3. QED
        BY <3>1, <3>2 DEF OwnShown
    <2>4. CASE l \notin request[r].lists
      <3>1. Awaited(l) => Awaited(l)'
        BY <1>1, <2>1, <2>4 DEF Awaited
      <3>2. QED
        BY <2>1, <2>2, <3>1 DEF OwnShown, ToRefetch
    <2>5. QED
      BY <2>3, <2>4
  <1>5. QED
    BY <1>2, <1>3, <1>4 DEF Serve

(* A request asked in this step is awaited.                                *)
LEMMA AwaitedNow ==
  ASSUME TypeOK, NEW r \in Requests, NEW cause, NEW lists \in SUBSET Lists,
         Asking(r, cause, lists), UNCHANGED own
  PROVE  /\ \A l \in lists : Awaited(l)'
         /\ \A l \in Lists : Awaited(l) => Awaited(l)'
  <1>1. request'[r] = [cause |-> cause, lists |-> lists, got |-> Unread]
    BY DEF Asking, TypeOK
  <1>2. \A q \in Requests : q # r => request'[q] = request[q]
    BY DEF Asking, TypeOK
  <1>3. request[r].lists = {}
    BY DEF Asking, NoRequest
  <1>4. QED
    BY <1>1, <1>2, <1>3 DEF Awaited, Unread

(* Commands of the page: an answer makes it refetch what it has changed.   *)
LEMMA OwnCommand ==
  ASSUME TypeOK, Current, NEW l \in Lists, OwnShown(l), NEW k \in Calls,
         \/ Post(k) \/ Refuse(k) \/ CallCommits(k) \/ CallUnacknowledged(k)
         \/ Finish(k) \/ \E r \in Requests : Refetch(k, r)
  PROVE  OwnShown(l)'
  <1> USE DEF server, link, history
  <1>1. \A j \in Calls : j # k => call'[j] = call[j]
    BY DEF Post, Refuse, CallCommits, CallUnacknowledged, Finish, Respond,
           RespondFails, Refetch, TypeOK
  <1>2. CASE \/ Post(k) \/ Refuse(k) \/ CallCommits(k) \/ CallUnacknowledged(k)
             \/ RespondFails(k)
    <2>1. call[k].step # "answered"
      BY <1>2 DEF Post, Refuse, CallCommits, CallUnacknowledged, RespondFails,
                  NoCall
    <2>2. ToRefetch(l) => ToRefetch(l)'
      BY <1>1, <2>1 DEF ToRefetch
    <2>3. UNCHANGED <<request, shown, own>> /\ lost[l] \subseteq lost'[l]
      BY <1>2 DEF Post, Refuse, CallCommits, CallUnacknowledged, RespondFails,
                  Missing, Losing
    <2>4. QED
      BY <2>2, <2>3 DEF OwnShown, Awaited
  <1>3. CASE Respond(k)
    <2>1. call[k].step = "done" /\ call[k] \in Call /\ call[k].command \in Commands
      BY <1>3, TypeCall DEF Respond, Responding, NoCall, Call
    <2>2. call'[k].step = "answered" /\ call'[k].todo = Refetches[call[k].command]
      BY <1>3, <2>1 DEF Respond, TypeOK, Call
    <2>3. CASE l \in Changes[call[k].command]
      BY <2>1, <2>2, <2>3, Refetched DEF OwnShown, ToRefetch
    <2>4. CASE l \notin Changes[call[k].command]
      <3>1. call[k].at[l] = 0
        BY <2>1, <2>4 DEF Current, CurrentCall
      <3>2. own'[l] = own[l] /\ UNCHANGED <<request, shown, lost>>
        BY <1>3, <3>1, OwnNumbers DEF Respond, Responding
      <3>3. ToRefetch(l) => ToRefetch(l)'
        BY <1>1, <2>1 DEF ToRefetch
      <3>4. QED
        BY <3>2, <3>3 DEF OwnShown, Awaited
    <2>5. QED
      BY <2>3, <2>4
  <1>4. ASSUME NEW r \in Requests, Refetch(k, r) PROVE OwnShown(l)'
    <2>1. PICK i \in call[k].todo :
            /\ Asking(r, "list", {i})
            /\ call' = [call EXCEPT ![k] =
                 IF call[k].todo = {i} THEN NoCall
                 ELSE [call[k] EXCEPT !.todo = @ \ {i}]]
      BY <1>4 DEF Refetch
    <2>2. call[k].step = "answered" /\ call[k] \in Call /\ i \in Lists
      BY <1>4, <2>1, TypeCall DEF Refetch, NoCall, Call
    <2>3. UNCHANGED <<shown, lost, own>>
      BY <1>4 DEF Refetch
    <2>4. Awaited(i)' /\ (Awaited(l) => Awaited(l)')
      BY <2>1, <2>2, <2>3, AwaitedNow
    <2>5. CASE l = i
      BY <2>4, <2>5 DEF OwnShown
    <2>6. CASE l # i
      <3>1. l \in call[k].todo => call'[k].step = "answered" /\ l \in call'[k].todo
        BY <2>1, <2>2, <2>6 DEF TypeOK, Call
      <3>2. ToRefetch(l) => ToRefetch(l)'
        BY <1>1, <3>1 DEF ToRefetch
      <3>3. QED
        BY <2>3, <2>4, <3>2 DEF OwnShown
    <2>7. QED
      BY <2>5, <2>6
  <1>5. QED
    BY <1>2, <1>3, <1>4 DEF Finish

LEMMA OwnNews ==
  ASSUME TypeOK, NEW l \in Lists, OwnShown(l),
         \/ Commit \/ Publish \/ Breaks \/ Reconnect
         \/ \E r \in Requests : Ask(r)
  PROVE  OwnShown(l)'
  <1> USE DEF server, link, history
  <1>1. CASE Commit \/ Publish \/ Breaks \/ Reconnect
    <2>1. UNCHANGED <<request, call, shown, own>> /\ lost[l] \subseteq lost'[l]
      BY <1>1 DEF Commit, Publish, Breaks, Reconnect, Register, OnClose, Retry,
                  Missing, Losing
    <2>2. QED
      BY <2>1 DEF OwnShown, ToRefetch, Awaited
  <1>2. ASSUME NEW r \in Requests, Focus(r) PROVE OwnShown(l)'
    <2>1. Asking(r, "focus", Lists) /\ UNCHANGED own
      BY <1>2 DEF Focus
    <2>2. QED
      BY <2>1, AwaitedNow DEF OwnShown
  <1>3. ASSUME NEW r \in Requests, OnEvent(r) PROVE OwnShown(l)'
    <2>1. Asking(r, "list", {Head(wire)}) /\ wire # <<>>
          /\ UNCHANGED <<call, shown, lost, own>>
      BY <1>3 DEF OnEvent
    <2>2. {Head(wire)} \in SUBSET Lists
      BY <2>1 DEF TypeOK
    <2>3. Awaited(l) => Awaited(l)'
      BY <2>1, <2>2, AwaitedNow
    <2>4. QED
      BY <2>1, <2>3 DEF OwnShown, ToRefetch
  <1>4. QED
    BY <1>1, <1>2, <1>3 DEF Ask

LEMMA OwnStep ==
  TypeOK /\ Current /\ AllOwnShown /\ [Next]_vars => AllOwnShown'
  <1> SUFFICES ASSUME TypeOK, Current, AllOwnShown, [Next]_vars, open',
                      NEW l \in Lists
               PROVE  OwnShown(l)'
    BY DEF AllOwnShown
  <1>1. OwnShown(l)
    BY OnlyClosing DEF AllOwnShown, TypeOK
  <1>2. CASE UNCHANGED vars
    BY <1>1, <1>2 DEF vars, history, OwnShown, ToRefetch, Awaited
  <1>3. ~Leave
    BY DEF Leave, Closing, Dropping
  <1>4. QED
    BY <1>1, <1>2, <1>3, OwnServe, OwnCommand, OwnNews DEF Next

(* What a command of the page has been answered with is shown once its     *)
(* refetches are back, unless a request has failed or an older answer came *)
(* late (ManagerWorkspace.tsx:156-209, technician/page.tsx:88-101).        *)
THEOREM PageShowsItsChanges == Spec => []OwnChangesAreShown
  <1>1. Init => AllOwnShown
    BY DEF Init, AllOwnShown, OwnShown
  <1>2. AllOwnShown => OwnChangesAreShown
    BY DEF AllOwnShown, OwnShown, ToRefetch, Awaited, OwnChangesAreShown
  <1>3. QED
    BY <1>1, <1>2, OwnStep, Invariants, PageTypeCorrect, PTL DEF Spec
=============================================================================
