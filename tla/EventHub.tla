------------------------------ MODULE EventHub ------------------------------
(***************************************************************************)
(* The in-process hub of backend/internal/ws/hub.go: HTTP handlers publish *)
(* the events of a committed transaction, each connection has a bounded    *)
(* buffer, a goroutine that writes the buffer to the socket and a handler  *)
(* that reads the socket until it ends.                                    *)
(*                                                                         *)
(* A connection is one WebSocket; a browser that reconnects is another     *)
(* one. Its handler's life:                                                *)
(*                                                                         *)
(*   away -> registered -> open -> left -> closing -> gone                 *)
(*               `---> (upgrade fails) -> failed -> gone                   *)
(*                                                                         *)
(* The requests ServeHTTP turns away before register change no state and   *)
(* are left out.                                                           *)
(***************************************************************************)
EXTENDS Domain, FiniteSets

CONSTANTS
  Connections,       \* WebSocket connections, of the whole behaviour
  UserOf,            \* the user whose session cookie a connection carries
  Publishers,        \* the handler goroutines that call Publish
  Publications,      \* the event lists the services return
  MaxPublications,   \* bound: how many lists are published in a behaviour
  Capacity           \* of a subscriber's channel; 16 in the code

ASSUME HubAssumption ==
  /\ UserOf \in [Connections -> Users]
  /\ Publications \subseteq Seq(Event)
  /\ MaxPublications \in Nat
  /\ Capacity \in Nat \ {0}

VARIABLES
  phase,       \* where the handler of a connection is in ServeHTTP
  subscribed,  \* the subscribers in the maps of the hub
  ch,          \* the buffered channel of each subscriber
  done,        \* how often its done channel has been closed
  writer,      \* the writer goroutine of each connection
  inHand,      \* the event it is writing, in a sequence of at most one
  received,    \* what the browser has been sent, oldest first
  peer,        \* whether the other end reads
  queue,       \* the events a publisher has still to route
  outbox,      \* the recipients it has still to send the current event
  published    \* lists published so far

hub == <<phase, subscribed, done>>
flow == <<ch, inHand, received>>
callers == <<queue, outbox, published>>
vars == <<hub, flow, writer, peer, callers>>

(* A ServerEvent. The ids it carries tell it from every other one; here    *)
(* these are the publication it is part of and its place in that.          *)
Message == [event : Event, publication : Nat, place : Nat]

Delivery == [to : Connections, message : Message]

TypeOK ==
  /\ phase \in [Connections -> {"away", "registered", "failed", "open", "left",
                                "closing", "gone"}]
  /\ subscribed \subseteq Connections
  /\ ch \in [Connections -> Seq(Message)]
  /\ done \in [Connections -> 0..1]
  /\ writer \in [Connections -> {"none", "waiting", "writing", "ended"}]
  /\ inHand \in [Connections -> Seq(Message)]
  /\ received \in [Connections -> Seq(Message)]
  /\ peer \in [Connections -> {"reading", "stalled", "lost"}]
  /\ queue \in [Publishers -> Seq(Message)]
  /\ outbox \in [Publishers -> SUBSET Delivery]
  /\ published \in 0..MaxPublications

Init ==
  /\ phase = [c \in Connections |-> "away"]
  /\ subscribed = {}
  /\ ch = [c \in Connections |-> <<>>]
  /\ done = [c \in Connections |-> 0]
  /\ writer = [c \in Connections |-> "none"]
  /\ inHand = [c \in Connections |-> <<>>]
  /\ received = [c \in Connections |-> <<>>]
  /\ peer = [c \in Connections |-> "reading"]
  /\ queue = [p \in Publishers |-> <<>>]
  /\ outbox = [p \in Publishers |-> {}]
  /\ published = 0

-----------------------------------------------------------------------------
(* ServeHTTP.                                                              *)

Enter(c, next) == phase' = [phase EXCEPT ![c] = next]

(* The session is good: the subscriber is in the maps before the upgrade.  *)
Register(c) ==
  /\ phase[c] = "away"
  /\ Enter(c, "registered")
  /\ subscribed' = subscribed \cup {c}
  /\ UNCHANGED <<flow, done, writer, peer, callers>>

Upgrade(c) ==
  /\ phase[c] = "registered"
  /\ Enter(c, "open")
  /\ writer' = [writer EXCEPT ![c] = "waiting"]
  /\ UNCHANGED <<flow, subscribed, done, peer, callers>>

(* Slip: unregister leaves the maps of the hub as they are.                *)
StayMapped(c) == UNCHANGED subscribed

(* The first half of unregister, under the lock of the hub.                *)
Unmap(c) == subscribed' = subscribed \ {c}

UpgradeFails(c) ==
  /\ phase[c] = "registered"
  /\ Enter(c, "failed")
  /\ Unmap(c)
  /\ UNCHANGED <<flow, done, writer, peer, callers>>

(* ReadMessage fails: the browser closed or was lost, sent too much, or    *)
(* the 60 seconds of the read deadline are over.                           *)
ReadEnds(c) ==
  /\ phase[c] = "open"
  /\ Enter(c, "left")
  /\ Unmap(c)
  /\ UNCHANGED <<flow, done, writer, peer, callers>>

(* Slip: the second half of unregister without the select.                 *)
CloseDoneAgain(c) == done' = [done EXCEPT ![c] = @ + 1]

(* The second half of unregister, after the lock: done is closed if it is  *)
(* not.                                                                    *)
CloseDone(c) == done' = [done EXCEPT ![c] = IF @ = 0 THEN 1 ELSE @]

FinishUnregister(c) ==
  /\ phase[c] \in {"failed", "left"}
  /\ Enter(c, IF phase[c] = "failed" THEN "gone" ELSE "closing")
  /\ CloseDone(c)
  /\ UNCHANGED <<flow, subscribed, writer, peer, callers>>

(* <-writeDone, then the deferred unregister and Close.                    *)
Return(c) ==
  /\ phase[c] = "closing"
  /\ writer[c] = "ended"
  /\ Enter(c, "gone")
  /\ Unmap(c)
  /\ CloseDone(c)
  /\ UNCHANGED <<flow, writer, peer, callers>>

-----------------------------------------------------------------------------
(* writeSocketEvents: a select over the buffer and done, either of them    *)
(* when both are ready.                                                    *)

TakeEvent(c) ==
  /\ writer[c] = "waiting"
  /\ ch[c] # <<>>
  /\ inHand' = [inHand EXCEPT ![c] = <<Head(ch[c])>>]
  /\ ch' = [ch EXCEPT ![c] = Tail(@)]
  /\ writer' = [writer EXCEPT ![c] = "writing"]
  /\ UNCHANGED <<hub, received, peer, callers>>

(* WriteJSON has no deadline: a peer that stops reading holds it.          *)
WriteEvent(c) ==
  /\ writer[c] = "writing"
  /\ peer[c] = "reading"
  /\ received' = [received EXCEPT ![c] = @ \o inHand[c]]
  /\ inHand' = [inHand EXCEPT ![c] = <<>>]
  /\ writer' = [writer EXCEPT ![c] = "waiting"]
  /\ UNCHANGED <<hub, ch, peer, callers>>

WriteFails(c) ==
  /\ writer[c] = "writing"
  /\ peer[c] = "lost"
  /\ inHand' = [inHand EXCEPT ![c] = <<>>]
  /\ writer' = [writer EXCEPT ![c] = "ended"]
  /\ UNCHANGED <<hub, ch, received, peer, callers>>

(* Slip: done is looked at only with an event in the buffer.               *)
SeeDoneWithEvent(c) ==
  /\ writer[c] = "waiting"
  /\ done[c] > 0 /\ ch[c] # <<>>
  /\ writer' = [writer EXCEPT ![c] = "ended"]
  /\ UNCHANGED <<hub, flow, peer, callers>>

SeeDone(c) ==
  /\ writer[c] = "waiting"
  /\ done[c] > 0
  /\ writer' = [writer EXCEPT ![c] = "ended"]
  /\ UNCHANGED <<hub, flow, peer, callers>>

(* The other end stops reading for a while or for ever, or is lost.        *)
PeerChanges(c) ==
  /\ phase[c] \notin {"away", "gone"}
  /\ \/ peer[c] = "reading" /\ peer' = [peer EXCEPT ![c] = "stalled"]
     \/ peer[c] = "stalled" /\ peer' = [peer EXCEPT ![c] = "reading"]
     \/ peer[c] # "lost" /\ peer' = [peer EXCEPT ![c] = "lost"]
  /\ UNCHANGED <<hub, flow, writer, callers>>

-----------------------------------------------------------------------------
(* Publish: events one after the other, each to the subscribers there are  *)
(* when the lock is held, sent to after it is released.                    *)

Publish(p) ==
  /\ queue[p] = <<>> /\ outbox[p] = {}
  /\ published < MaxPublications
  /\ published' = published + 1
  /\ \E list \in Publications :
       queue' = [queue EXCEPT ![p] =
         [i \in 1..Len(list) |->
            [event |-> list[i], publication |-> published', place |-> i]]]
  /\ UNCHANGED <<hub, flow, writer, peer, outbox>>

(* Slip: the organization of a broadcast is not compared.                  *)
AddressedToRole(c, event) ==
  IF event.to \in Users THEN UserOf[c] = event.to ELSE UserOf[c] \in Managers

(* SendToUser, or BroadcastToRole to the managers of an organization.      *)
Addressed(c, event) ==
  IF event.to \in Users THEN UserOf[c] = event.to
  ELSE UserOf[c] \in Managers /\ OrgOf[UserOf[c]] = event.to

Recipients(message) ==
  {d \in [to : subscribed, message : {message}] :
     Addressed(d.to, message.event)}

(* Slip: the next event is routed while the one before is being sent.      *)
RouteAhead(p) ==
  /\ queue[p] # <<>>
  /\ outbox' = [outbox EXCEPT ![p] = @ \cup Recipients(Head(queue[p]))]
  /\ queue' = [queue EXCEPT ![p] = Tail(@)]
  /\ UNCHANGED <<hub, flow, writer, peer, published>>

Route(p) ==
  /\ queue[p] # <<>>
  /\ outbox[p] = {}
  /\ outbox' = [outbox EXCEPT ![p] = Recipients(Head(queue[p]))]
  /\ queue' = [queue EXCEPT ![p] = Tail(@)]
  /\ UNCHANGED <<hub, flow, writer, peer, published>>

(* Slip: sendAll waits for room in the buffer.                             *)
SendWaiting(p) ==
  \E d \in outbox[p] :
    /\ Len(ch[d.to]) < Capacity
    /\ ch' = [ch EXCEPT ![d.to] = Append(@, d.message)]
    /\ outbox' = [outbox EXCEPT ![p] = @ \ {d}]
    /\ UNCHANGED <<hub, inHand, received, writer, peer, queue, published>>

(* Slip: sendAll returns at the first full buffer.                         *)
SendUnlessFull(p) ==
  \E d \in outbox[p] :
    /\ \/ /\ Len(ch[d.to]) < Capacity
          /\ ch' = [ch EXCEPT ![d.to] = Append(@, d.message)]
          /\ outbox' = [outbox EXCEPT ![p] = @ \ {d}]
       \/ /\ Len(ch[d.to]) >= Capacity
          /\ outbox' = [outbox EXCEPT ![p] = {}]
          /\ UNCHANGED ch
    /\ UNCHANGED <<hub, inHand, received, writer, peer, queue, published>>

(* sendAll: recipients in no order; an event for a full buffer is dropped. *)
Send(p) ==
  \E d \in outbox[p] :
    /\ outbox' = [outbox EXCEPT ![p] = @ \ {d}]
    /\ \/ /\ Len(ch[d.to]) < Capacity
          /\ ch' = [ch EXCEPT ![d.to] = Append(@, d.message)]
       \/ /\ Len(ch[d.to]) >= Capacity
          /\ UNCHANGED ch
    /\ UNCHANGED <<hub, inHand, received, writer, peer, queue, published>>

-----------------------------------------------------------------------------
(* Nothing more is published and every connection has come and gone.       *)
Quiescent ==
  /\ published = MaxPublications
  /\ \A c \in Connections : phase[c] = "gone"
  /\ UNCHANGED vars

Handle(c) ==
  Upgrade(c) \/ UpgradeFails(c) \/ FinishUnregister(c) \/ Return(c)

Write(c) == TakeEvent(c) \/ WriteEvent(c) \/ WriteFails(c)

Deliver(p) == Route(p) \/ Send(p)

Next ==
  \/ \E c \in Connections :
       \/ Register(c) \/ ReadEnds(c) \/ Handle(c)
       \/ Write(c) \/ SeeDone(c) \/ PeerChanges(c)
  \/ \E p \in Publishers : Publish(p) \/ Deliver(p)
  \/ Quiescent

Spec == Init /\ [][Next]_vars

(* Goroutines that can go on do. No peer needs to read, no browser needs   *)
(* to connect or leave, nothing needs to be published. A peer that reads   *)
(* again and again makes room for a write that is waiting.                 *)
FairSpec ==
  /\ Spec
  /\ \A c \in Connections :
       WF_vars(Handle(c)) /\ SF_vars(Write(c)) /\ WF_vars(SeeDone(c))
  /\ \A p \in Publishers : WF_vars(Deliver(p))
=============================================================================
