------------------------- MODULE EventHubProperties -------------------------
(***************************************************************************)
(* What browsers and HTTP handlers may rely on in the hub.                 *)
(***************************************************************************)
EXTENDS EventHub

(* What has been sent to a connection and not been dropped, oldest first.  *)
Sent(c) == received[c] \o inHand[c] \o ch[c]

(* A connection gets the events of one publication in the order of the     *)
(* list the service returned, none twice, whatever other publications,     *)
(* drops and slow writers come between (hub.go:78-99, 144-151, 243-254).   *)
OrderKept ==
  \A c \in Connections : \A i, j \in DOMAIN Sent(c) :
    i < j /\ Sent(c)[i].publication = Sent(c)[j].publication
    => Sent(c)[i].place < Sent(c)[j].place

(* A connection carries the events of its own user and, a manager's, the   *)
(* broadcasts of his organization; no other organization's activity can be *)
(* seen on it (hub.go:51-76).                                              *)
OnlyAddressees ==
  \A c \in Connections : \A i \in DOMAIN Sent(c) :
    LET user == UserOf[c]
        to == Sent(c)[i].event.to IN
    \/ to = user
    \/ user \in Managers /\ to = OrgOf[user]

(* When a handler returns, nothing of its connection is left in the hub    *)
(* and its writer has ended; until it starts to leave, the hub knows the   *)
(* connection (hub.go:122-142, 204-227: unregister runs once after a       *)
(* failed upgrade and twice otherwise).                                    *)
TornDown ==
  \A c \in Connections :
    /\ phase[c] = "gone" =>
         c \notin subscribed /\ done[c] = 1 /\ writer[c] \in {"none", "ended"}
    /\ phase[c] \in {"registered", "open"} <=> c \in subscribed

-----------------------------------------------------------------------------
Waiting == [c \in Connections |-> inHand[c] \o ch[c]]

Sendable ==
  UNION {{[event |-> list[i], publication |-> n, place |-> i] :
            i \in DOMAIN list, n \in 1..MaxPublications} : list \in Publications}

Audience ==
  [m \in Sendable |-> {c \in Connections : Addressed(c, m.event)}]

Owed == UNION {outbox[p] : p \in Publishers}

Promised ==
  INSTANCE EventStreams WITH
    Messages <- Sendable, Addressees <- Audience, there <- subscribed,
    owed <- Owed, stream <- Waiting, arrived <- received

(* The hub implements the streams of events LivePage relies on: whatever   *)
(* handlers, writers and publishers do at once, an event reaches all its   *)
(* addressees who are registered when it is routed, and is dropped for one *)
(* of them only if as many as the capacity wait for that one               *)
(* (hub.go:51-99, 144-151, 243-254).                                       *)
ImplementsStreams == Promised!Spec

-----------------------------------------------------------------------------
Owes(p, c, n, i) ==
  \E d \in outbox[p] :
    d.to = c /\ d.message.publication = n /\ d.message.place = i

Has(s, n, i) == \E k \in DOMAIN s : s[k].publication = n /\ s[k].place = i

Missed(c, n, i) == Len(ch[c]) >= Capacity /\ ~Has(Sent(c), n, i)

(* An event routed to a connection that lives on and whose browser keeps   *)
(* reading, perhaps after a pause, arrives unless its own buffer was full: *)
(* neither another connection's full buffer nor its end can lose it        *)
(* (hub.go:144-151, 243-254).                                              *)
EventsArrive ==
  \A c \in Connections :
    (/\ <>[](phase[c] \in {"registered", "open"})
     /\ <>[](peer[c] = "reading"))
    => \A p \in Publishers, n \in 1..MaxPublications :
         \A i \in UNION {DOMAIN list : list \in Publications} :
           Owes(p, c, n, i) ~> (Has(received[c], n, i) \/ Missed(c, n, i))

(* Publish comes to its end whatever the browsers do: a handler that has   *)
(* committed answers its request though no connection is read              *)
(* (hub.go:144-151, router.go:254-263).                                    *)
PublishersAreNotBlocked ==
  \A p \in Publishers :
    queue[p] # <<>> ~> queue[p] = <<>> /\ outbox[p] = {}

(* Every handler whose reads come to an end (hub.go:211: the read deadline *)
(* is put off by pongs only, and nothing ever sends a ping) ends and gives *)
(* its connection back, also when its writer is waiting for events or has  *)
(* died on an error, except while the browser neither reads nor goes       *)
(* (hub.go:211-226: writes have no deadline).                              *)
HandlersReturn ==
  \A c \in Connections :
    WF_vars(ReadEnds(c)) =>
      \/ <>[](peer[c] = "stalled")
      \/ phase[c] \in {"registered", "open"} ~> phase[c] = "gone"
=============================================================================
