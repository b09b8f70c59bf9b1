------------------------------ MODULE LivePage ------------------------------
(***************************************************************************)
(* A page that shows lists of the database and keeps them fresh: the       *)
(* manager's (ManagerWorkspace.tsx), the technician's (technician/page.tsx)*)
(* and the event socket of lib/api.ts, from the moment the page is mounted *)
(* until it is left.                                                       *)
(*                                                                         *)
(* A list is known by its version, the number of commits that have changed *)
(* what this user sees of it. A request for lists is served version by     *)
(* version and answered later; answers come in any order. The hub appears  *)
(* as what EventStreams promises of it: an event comes to the socket that  *)
(* is registered when it is published, unless the buffer is full.          *)
(*                                                                         *)
(* The user's name, the technicians (nothing ever changes them), forms and *)
(* popups are left out.                                                    *)
(***************************************************************************)
EXTENDS Integers, Sequences, FiniteSets

CONSTANTS
  Lists,        \* of the page: jobs, notifications and, a manager's, quotes
  Commands,     \* what the user of the page can send
  Requests,     \* bound: requests for lists under way at a time
  Calls,        \* bound: commands under way at a time
  MaxVersion,   \* bound: versions of a list
  Capacity      \* events that can wait for the page

ManagerLists == {"quotes", "jobs", "notifications"}
TechnicianLists == {"jobs", "notifications"}

ManagerCommands ==
  {"assignJob", "createQuote", "rescheduleJob", "markNotificationRead"}
TechnicianCommands == {"completeJob", "markNotificationRead"}

(* What the page refetches when a command has been answered.               *)
Refetches ==
  [assignJob |-> ManagerLists,
   createQuote |-> {"quotes"},
   rescheduleJob |-> {"jobs", "notifications"},
   completeJob |-> {"jobs", "notifications"},
   markNotificationRead |-> {"notifications"}]

(* The lists of the caller a command changes, and those of which an event  *)
(* is published to the caller.                                             *)
Changes ==
  [assignJob |-> {"quotes", "jobs"},
   createQuote |-> {"quotes"},
   rescheduleJob |-> {"jobs"},
   completeJob |-> {"jobs"},
   markNotificationRead |-> {"notifications"}]

Signals == [Changes EXCEPT !.markNotificationRead = {}]

ASSUME PageAssumption ==
  /\ Lists \subseteq ManagerLists
  /\ Commands \subseteq DOMAIN Refetches
  /\ \A c \in Commands : Refetches[c] \subseteq Lists
  /\ MaxVersion \in Nat \ {0}
  /\ Capacity \in Nat \ {0}

VARIABLES
  version,    \* the committed version of each list
  signals,    \* events of commits not yet published
  socket,     \* the event socket
  wire,       \* the lists whose events wait for the page, oldest first
  open,       \* whether the page is there
  request,    \* the requests for lists under way
  call,       \* the commands under way
  shown,      \* the version of each list the page shows
  lost,       \* how the page has lost a version it does not show
  recovered,  \* the version the last refresh on focus has shown
  own         \* the newest version a command of the page was answered for

server == <<version, signals>>
link == <<socket, wire>>
history == <<lost, recovered, own>>
vars == <<server, link, open, request, call, shown, history>>

Version == 0..MaxVersion

NotRead == 0       \* versions in the database start at 1

Unread == [l \in Lists |-> NotRead]

NoRequest == [cause |-> "none", lists |-> {}, got |-> Unread]

(* What is asked for together, and what the server has read of it.         *)
Request ==
  [cause : {"none", "mount", "focus", "list"}, lists : SUBSET Lists,
   got : [Lists -> Version]]

Signal == [list : Lists, version : Version]

NoCall == [step |-> "none"]

(* at: the versions its commit made, 0 for the others; todo: the refetches *)
(* still to start.                                                         *)
Call ==
  [step : {"posted", "done", "answered"}, command : Commands,
   at : [Lists -> Version], todo : SUBSET Lists]

TypeOK ==
  /\ version \in [Lists -> Version]
  /\ signals \subseteq Signal
  /\ socket \in {"connecting", "live", "broken", "retry", "off"}
  /\ wire \in Seq(Lists) /\ Len(wire) <= Capacity
  /\ open \in BOOLEAN
  /\ request \in [Requests -> Request]
  /\ call \in [Calls -> Call \cup {NoCall}]
  /\ shown \in [Lists -> Version]
  /\ lost \in [Lists -> SUBSET {"missed", "failed", "overtaken"}]
  /\ recovered \in [Lists -> Version]
  /\ own \in [Lists -> Version]

(* A list the page does not show as committed has lost a version this way. *)
Losing(lists, reason) ==
  [l \in Lists |-> IF l \in lists /\ shown[l] # version[l]
                   THEN lost[l] \cup {reason} ELSE lost[l]]

-----------------------------------------------------------------------------
(* Requests for lists.                                                     *)

Asking(r, cause, lists) ==
  /\ request[r] = NoRequest
  /\ request' = [request EXCEPT ![r] =
       [cause |-> cause, lists |-> lists, got |-> Unread]]

(* The page is mounted: everything is requested, the socket is opened.     *)
Init ==
  /\ version = [l \in Lists |-> 1]
  /\ signals = {}
  /\ socket = "connecting"
  /\ wire = <<>>
  /\ open = TRUE
  /\ \E r \in Requests :
       request = [q \in Requests |->
         IF q = r THEN [cause |-> "mount", lists |-> Lists, got |-> Unread]
         ELSE NoRequest]
  /\ call = [k \in Calls |-> NoCall]
  /\ shown = [l \in Lists |-> 0]
  /\ lost = [l \in Lists |-> {}]
  /\ recovered = [l \in Lists |-> 0]
  /\ own = [l \in Lists |-> 0]

(* The window gets the focus: refreshAll.                                  *)
Focus(r) ==
  /\ open
  /\ Asking(r, "focus", Lists)
  /\ UNCHANGED <<server, link, open, call, shown, history>>

(* The server reads a list.                                                *)
Reads(r) ==
  \E l \in request[r].lists :
    /\ request[r].got[l] = NotRead
    /\ request' = [request EXCEPT ![r].got[l] = version[l]]
    /\ UNCHANGED <<server, link, open, call, shown, history>>

(* All the lists asked for at once are set at once, when the last answer   *)
(* has come; those of other requests may have come meanwhile.              *)
Answers(r) ==
  LET got == request[r].got
      lists == request[r].lists
      over(old) == [l \in Lists |-> IF l \in lists THEN got[l] ELSE old[l]] IN
  /\ request[r] # NoRequest
  /\ \A l \in lists : got[l] # NotRead
  /\ request' = [request EXCEPT ![r] = NoRequest]
  /\ shown' = over(shown)
  /\ lost' = [l \in Lists |->
       IF l \in lists /\ got[l] = version[l] THEN {}
       ELSE lost[l] \cup IF l \in lists /\ got[l] < shown[l] THEN {"overtaken"} ELSE {}]
  /\ recovered' = IF request[r].cause = "focus" THEN over(recovered) ELSE recovered
  /\ UNCHANGED <<server, link, open, call, own>>

(* What is under way when the page is left changes nothing of it; what the *)
(* server still commits is somebody's Commit.                              *)
Dropping ==
  /\ open' = FALSE
  /\ wire' = <<>>
  /\ request' = [r \in Requests |-> NoRequest]
  /\ call' = [k \in Calls |-> NoCall]

(* Slip: the clean-up leaves the timer running.                            *)
ClosingSocketOnly ==
  /\ Dropping
  /\ socket' = IF socket = "retry" THEN "retry" ELSE "broken"

(* The page is unmounted, or the browser goes to /login. The clean-up of   *)
(* openEventSocket closes the socket and clears the timer.                 *)
Closing ==
  /\ Dropping
  /\ socket' = IF socket = "retry" THEN "off" ELSE "broken"

Leave ==
  /\ open
  /\ Closing
  /\ UNCHANGED <<server, shown, history>>

(* An answer is an error or does not come: nothing is set, and the refresh *)
(* of the mount sends the user to /login.                                  *)
Fails(r) ==
  /\ request[r] # NoRequest
  /\ IF request[r].cause = "mount" THEN Closing
     ELSE /\ request' = [request EXCEPT ![r] = NoRequest]
          /\ UNCHANGED <<link, open, call>>
  /\ lost' = Losing(request[r].lists, "failed")
  /\ UNCHANGED <<server, shown, recovered, own>>

-----------------------------------------------------------------------------
(* Commands and commits.                                                   *)

(* A command is sent; it is refused or does not arrive; or it commits.     *)
Post(k) ==
  /\ open
  /\ call[k] = NoCall
  /\ \E c \in Commands :
       call' = [call EXCEPT ![k] =
         [step |-> "posted", command |-> c, at |-> Unread, todo |-> {}]]
  /\ UNCHANGED <<server, link, open, request, shown, history>>

Refuse(k) ==
  /\ call[k].step = "posted"
  /\ call' = [call EXCEPT ![k] = NoCall]
  /\ UNCHANGED <<server, link, open, request, shown, history>>

(* A commit changes lists; events for those it tells of are published,     *)
(* unless its acknowledgement is lost or the server dies first.            *)
Committing(changed, told) ==
  /\ \A l \in changed : version[l] < MaxVersion
  /\ version' = [l \in Lists |-> version[l] + IF l \in changed THEN 1 ELSE 0]
  /\ signals' = signals \cup {[list |-> l, version |-> version[l] + 1] : l \in told}

Missing(lists) == [l \in Lists |-> lost[l] \cup IF l \in lists THEN {"missed"} ELSE {}]

(* Somebody else's command, or this user's in another tab.                 *)
Commit ==
  \E changed \in SUBSET Lists \ {{}} : \E told \in SUBSET changed :
    /\ Committing(changed, told)
    /\ lost' = Missing(changed \ told)
    /\ UNCHANGED <<link, open, request, call, shown, recovered, own>>

CallCommits(k) ==
  /\ call[k].step = "posted"
  /\ LET c == call[k].command IN
     /\ Committing(Changes[c], Signals[c])
     /\ call' = [call EXCEPT ![k].step = "done", ![k].at =
          [l \in Lists |-> IF l \in Changes[c] THEN version'[l] ELSE 0]]
  /\ UNCHANGED <<link, open, request, shown, history>>

CallUnacknowledged(k) ==
  /\ call[k].step = "posted"
  /\ Committing(Changes[call[k].command], {})
  /\ lost' = Missing(Changes[call[k].command])
  /\ call' = [call EXCEPT ![k] = NoCall]
  /\ UNCHANGED <<link, open, request, shown, recovered, own>>

(* The handler has published before it answers.                            *)
Responding(k) ==
  /\ call[k].step = "done"
  /\ \A e \in signals : e.version # call[k].at[e.list]
  /\ own' = [l \in Lists |-> IF call[k].at[l] > own[l] THEN call[k].at[l] ELSE own[l]]
  /\ UNCHANGED <<server, link, open, request, shown, lost, recovered>>

(* Slip: the page relies on the event of its own command.                  *)
RespondOnly(k) ==
  /\ Responding(k)
  /\ call' = [call EXCEPT ![k] = NoCall]

Respond(k) ==
  /\ Responding(k)
  /\ call' = [call EXCEPT ![k].step = "answered", ![k].todo = Refetches[call[k].command]]

(* The answer does not come: the page tells of an error, refetches nothing.*)
RespondFails(k) ==
  /\ call[k].step = "done"
  /\ call' = [call EXCEPT ![k] = NoCall]
  /\ lost' = Losing(Changes[call[k].command] \ Signals[call[k].command], "failed")
  /\ UNCHANGED <<server, link, open, request, shown, recovered, own>>

Refetch(k, r) ==
  /\ call[k].step = "answered"
  /\ \E l \in call[k].todo :
       /\ Asking(r, "list", {l})
       /\ call' = [call EXCEPT ![k] =
            IF call[k].todo = {l} THEN NoCall
            ELSE [call[k] EXCEPT !.todo = @ \ {l}]]
  /\ UNCHANGED <<server, link, open, shown, history>>

-----------------------------------------------------------------------------
(* Events and the socket.                                                  *)

(* Handlers publish in no order. Without a registered socket, or with a    *)
(* full buffer, the event is lost.                                         *)
Publish ==
  \E e \in signals :
    /\ signals' = signals \ {e}
    /\ IF socket = "live" /\ Len(wire) < Capacity
       THEN wire' = Append(wire, e.list) /\ UNCHANGED lost
       ELSE lost' = Losing({e.list}, "missed") /\ UNCHANGED wire
    /\ UNCHANGED <<version, socket, open, request, call, shown, recovered, own>>

(* Slip: no refetch while one of the same list is under way.               *)
OnEventUnlessAsked(r) ==
  /\ open /\ socket = "live" /\ wire # <<>>
  /\ \/ /\ \A q \in Requests : Head(wire) \notin request[q].lists
        /\ Asking(r, "list", {Head(wire)})
     \/ /\ \E q \in Requests : Head(wire) \in request[q].lists
        /\ UNCHANGED request
  /\ wire' = Tail(wire)
  /\ UNCHANGED <<server, socket, open, call, shown, history>>

(* onmessage: the list the event names is requested.                       *)
OnEvent(r) ==
  /\ open /\ socket = "live" /\ wire # <<>>
  /\ Asking(r, "list", {Head(wire)})
  /\ wire' = Tail(wire)
  /\ UNCHANGED <<server, socket, open, call, shown, history>>

(* The hub registers the connection, and the upgrade succeeds.             *)
Register ==
  /\ socket = "connecting"
  /\ socket' = "live"
  /\ UNCHANGED <<server, wire, open, request, call, shown, history>>

(* The upgrade fails, or the connection ends: the network, the server, the *)
(* read deadline of hub.go. What is on its way is lost.                    *)
Breaks ==
  /\ socket \in {"connecting", "live"}
  /\ socket' = "broken"
  /\ wire' = <<>>
  /\ lost' = Losing({wire[i] : i \in DOMAIN wire}, "missed")
  /\ UNCHANGED <<server, open, request, call, shown, recovered, own>>

(* onclose.                                                                *)
OnClose ==
  /\ socket = "broken"
  /\ socket' = IF open THEN "retry" ELSE "off"
  /\ UNCHANGED <<server, wire, open, request, call, shown, history>>

(* The timer set by onclose.                                               *)
Retry ==
  /\ socket = "retry"
  /\ socket' = "connecting"
  /\ UNCHANGED <<server, wire, open, request, call, shown, history>>

-----------------------------------------------------------------------------
Ask(r) == Focus(r) \/ OnEvent(r)

Serve(r) == Reads(r) \/ Answers(r) \/ Fails(r)

Finish(k) == Respond(k) \/ RespondFails(k)

Reconnect == Register \/ OnClose \/ Retry

Next ==
  \/ \E r \in Requests : Ask(r) \/ Serve(r)
  \/ \E k \in Calls :
       \/ Post(k) \/ Refuse(k) \/ CallCommits(k) \/ CallUnacknowledged(k)
       \/ Finish(k) \/ \E r \in Requests : Refetch(k, r)
  \/ Commit \/ Publish \/ Breaks \/ Reconnect \/ Leave

Spec == Init /\ [][Next]_vars

(* Requests that are served are answered or fail, a handler that has       *)
(* committed publishes and answers, the browser runs its callbacks, also   *)
(* when others come between, and its timers. Nobody needs to do anything.  *)
FairSpec ==
  /\ Spec
  /\ \A r \in Requests : WF_vars(Serve(r))
  /\ \A k \in Calls :
       WF_vars(Finish(k)) /\ SF_vars(\E r \in Requests : Refetch(k, r))
  /\ SF_vars(\E r \in Requests : OnEvent(r))
  /\ WF_vars(Publish) /\ WF_vars(Reconnect)
=============================================================================
