--------------------------- MODULE EventHubProofs ---------------------------
(***************************************************************************)
(* Proofs about EventHub, for any number of connections, users and         *)
(* publishers, any lists of events and any capacity of the channels.       *)
(***************************************************************************)
EXTENDS EventHubProperties, TLAPS

-----------------------------------------------------------------------------
(* Types.                                                                  *)

LEMMA TypeInit == Init => TypeOK
  BY HubAssumption DEF Init, TypeOK

(* What the handler of a connection does.                                  *)
LEMMA TypeHandler ==
  ASSUME TypeOK, NEW c \in Connections,
         Register(c) \/ ReadEnds(c) \/ Handle(c) \/ PeerChanges(c)
  PROVE  TypeOK'
  <1> USE DEF TypeOK, Enter, Unmap, CloseDone, hub, flow, callers
  <1>1. CASE Register(c)
    BY <1>1 DEF Register
  <1>2. CASE ReadEnds(c)
    BY <1>2 DEF ReadEnds
  <1>3. CASE Upgrade(c)
    BY <1>3 DEF Upgrade
  <1>4. CASE UpgradeFails(c)
    BY <1>4 DEF UpgradeFails
  <1>5. CASE FinishUnregister(c)
    BY <1>5 DEF FinishUnregister
  <1>6. CASE Return(c)
    BY <1>6 DEF Return
  <1>7. CASE PeerChanges(c)
    BY <1>7 DEF PeerChanges
  <1>8. QED
    BY <1>1, <1>2, <1>3, <1>4, <1>5, <1>6, <1>7 DEF Handle

LEMMA TypeWriter ==
  ASSUME TypeOK, NEW c \in Connections, Write(c) \/ SeeDone(c)
  PROVE  TypeOK'
  <1> USE DEF TypeOK, hub, flow, callers
  <1>1. CASE TakeEvent(c)
    <2>1. Head(ch[c]) \in Message /\ Tail(ch[c]) \in Seq(Message)
      BY <1>1 DEF TakeEvent
    <2>2. <<Head(ch[c])>> \in Seq(Message)
      BY <2>1
    <2>3. QED
      BY <1>1, <2>1, <2>2 DEF TakeEvent
  <1>2. CASE WriteEvent(c)
    <2>1. received[c] \o inHand[c] \in Seq(Message) /\ <<>> \in Seq(Message)
      OBVIOUS
    <2>2. QED
      BY <1>2, <2>1 DEF WriteEvent
  <1>3. CASE WriteFails(c)
    BY <1>3 DEF WriteFails
  <1>4. CASE SeeDone(c)
    BY <1>4 DEF SeeDone
  <1>5. QED
    BY <1>1, <1>2, <1>3, <1>4 DEF Write

LEMMA TypePublisher ==
  ASSUME TypeOK, NEW p \in Publishers, Publish(p) \/ Deliver(p)
  PROVE  TypeOK'
  <1> USE DEF TypeOK, hub, flow, callers
  <1>1. CASE Publish(p)
    <2>1. PICK list \in Publications :
            queue' = [queue EXCEPT ![p] =
              [i \in 1..Len(list) |->
                 [event |-> list[i], publication |-> published', place |-> i]]]
      BY <1>1 DEF Publish
    <2>2. list \in Seq(Event) /\ published' \in Nat
      BY <1>1, HubAssumption DEF Publish
    <2>3. [i \in 1..Len(list) |->
             [event |-> list[i], publication |-> published', place |-> i]]
            \in Seq(Message)
      BY <2>2 DEF Message
    <2>4. QED
      BY <1>1, <2>1, <2>3, HubAssumption DEF Publish
  <1>2. CASE Route(p)
    <2>1. Head(queue[p]) \in Message /\ Tail(queue[p]) \in Seq(Message)
      BY <1>2 DEF Route
    <2>2. Recipients(Head(queue[p])) \subseteq Delivery
      BY <2>1 DEF Recipients, Delivery
    <2>3. QED
      BY <1>2, <2>1, <2>2 DEF Route
  <1>3. CASE Send(p)
    <2>1. PICK d \in outbox[p] :
            /\ outbox' = [outbox EXCEPT ![p] = @ \ {d}]
            /\ \/ ch' = [ch EXCEPT ![d.to] = Append(@, d.message)]
               \/ ch' = ch
            /\ UNCHANGED <<hub, inHand, received, writer, peer, queue, published>>
      BY <1>3 DEF Send
    <2>2. d.to \in Connections /\ d.message \in Message
      BY DEF Delivery
    <2>3. Append(ch[d.to], d.message) \in Seq(Message)
      BY <2>2
    <2>4. ch' \in [Connections -> Seq(Message)]
      BY <2>1, <2>3
    <2>5. QED
      BY <2>1, <2>4
  <1>4. QED
    BY <1>1, <1>2, <1>3 DEF Deliver

LEMMA TypeStep == TypeOK /\ [Next]_vars => TypeOK'
  <1> SUFFICES ASSUME TypeOK, [Next]_vars PROVE TypeOK'
    OBVIOUS
  <1>1. CASE Next
    <2>1. CASE UNCHANGED vars
      BY <2>1 DEF TypeOK, vars, hub, flow, callers
    <2>2. QED
      BY <1>1, <2>1, TypeHandler, TypeWriter, TypePublisher DEF Next, Quiescent
  <1>2. CASE UNCHANGED vars
    BY <1>2 DEF TypeOK, vars, hub, flow, callers
  <1>3. QED
    BY <1>1, <1>2

(* Every reachable state of the hub is well typed; in particular a done    *)
(* channel is closed at most once, so that unregister cannot panic though  *)
(* it runs twice (hub.go:137-141).                                         *)
THEOREM HubTypeCorrect == Spec => []TypeOK
  BY TypeInit, TypeStep, PTL DEF Spec

-----------------------------------------------------------------------------
(* The life of a connection.                                               *)
Life(c) ==
  /\ c \in subscribed <=> phase[c] \in {"registered", "open"}
  /\ phase[c] \in {"closing", "gone"} <=> done[c] = 1
  /\ phase[c] \in {"away", "registered", "failed"} => writer[c] = "none"
  /\ phase[c] = "gone" => writer[c] \in {"none", "ended"}

Lives == \A c \in Connections : Life(c)

(* A step changes the life of one connection at most.                      *)
LEMMA LifeStep == TypeOK /\ Lives /\ [Next]_vars => Lives'
  <1> SUFFICES ASSUME TypeOK, Lives, [Next]_vars, NEW c \in Connections
               PROVE  Life(c)'
    BY DEF Lives
  <1> USE DEF TypeOK, Life, Enter, Unmap, CloseDone, hub, flow, callers
  <1>1. Life(c)
    BY DEF Lives
  <1>2. ASSUME NEW o \in Connections,
               Register(o) \/ ReadEnds(o) \/ Upgrade(o) \/ UpgradeFails(o)
        PROVE  Life(c)'
    BY <1>1, <1>2 DEF Register, ReadEnds, Upgrade, UpgradeFails
  <1>3. ASSUME NEW o \in Connections, FinishUnregister(o)
        PROVE  Life(c)'
    BY <1>1, <1>3 DEF FinishUnregister
  <1>4. ASSUME NEW o \in Connections, Return(o)
        PROVE  Life(c)'
    BY <1>1, <1>4 DEF Return
  <1>5. ASSUME NEW o \in Connections, Write(o) \/ SeeDone(o)
        PROVE  Life(c)'
    BY <1>1, <1>5 DEF Write, TakeEvent, WriteEvent, WriteFails, SeeDone
  <1>6. CASE UNCHANGED <<hub, writer>>
    BY <1>1, <1>6
  <1>7. QED
    BY <1>2, <1>3, <1>4, <1>5, <1>6
    DEF Next, Handle, Deliver, Publish, Route, Send, PeerChanges, Quiescent, vars

LEMMA ConnectionsLive == Spec => []Lives
  <1>1. Init => Lives
    BY DEF Init, Lives, Life
  <1>2. QED
    BY <1>1, HubTypeCorrect, LifeStep, PTL DEF Spec

(* Nothing of a connection stays in the hub when its handler returns, and  *)
(* nothing is taken out before (hub.go:122-142, 204-227).                  *)
THEOREM HubTearsDown == Spec => []TornDown
  <1>1. TypeOK /\ Lives => TornDown
    BY DEF TypeOK, Lives, Life, TornDown
  <1>2. QED
    BY <1>1, HubTypeCorrect, ConnectionsLive, PTL

-----------------------------------------------------------------------------
(* Sequences of messages as sets, and in order.                            *)
Elems(s) == {s[i] : i \in DOMAIN s}

Precedes(m, n) == m.publication = n.publication => m.place < n.place

Before(S, T) == \A m \in S, n \in T : Precedes(m, n)

Increasing(s) == \A i, j \in DOMAIN s : i < j => Precedes(s[i], s[j])

LEMMA AppendElems ==
  ASSUME NEW s \in Seq(Message), NEW m \in Message
  PROVE  /\ Elems(Append(s, m)) = Elems(s) \cup {m}
         /\ Increasing(s) /\ Before(Elems(s), {m}) => Increasing(Append(s, m))
  <1>1. /\ DOMAIN Append(s, m) = 1..Len(s) + 1
        /\ \A i \in 1..Len(s) : Append(s, m)[i] = s[i]
        /\ Append(s, m)[Len(s) + 1] = m
        /\ DOMAIN s = 1..Len(s) /\ Len(s) \in Nat
    OBVIOUS
  <1>2. Elems(Append(s, m)) = Elems(s) \cup {m}
    BY <1>1 DEF Elems
  <1>3. ASSUME Increasing(s), Before(Elems(s), {m})
        PROVE  Increasing(Append(s, m))
    BY <1>1, <1>3 DEF Increasing, Before, Elems
  <1>4. QED
    BY <1>2, <1>3

LEMMA TailElems ==
  ASSUME NEW s \in Seq(Message), s # <<>>
  PROVE  /\ Elems(s) = {Head(s)} \cup Elems(Tail(s))
         /\ Increasing(s) =>
              Increasing(Tail(s)) /\ Before({Head(s)}, Elems(Tail(s)))
  <1>1. /\ DOMAIN s = 1..Len(s) /\ Len(s) \in Nat \ {0}
        /\ DOMAIN Tail(s) = 1..Len(s) - 1
        /\ \A i \in 1..Len(s) - 1 : Tail(s)[i] = s[i + 1]
        /\ Head(s) = s[1]
    OBVIOUS
  <1>2. Elems(s) = {Head(s)} \cup Elems(Tail(s))
    <2>1. ASSUME NEW i \in DOMAIN s, i # 1
          PROVE  i - 1 \in DOMAIN Tail(s) /\ s[i] = Tail(s)[i - 1]
      BY <1>1, <2>1
    <2>2. ASSUME NEW i \in DOMAIN Tail(s)
          PROVE  i + 1 \in DOMAIN s /\ s[i + 1] = Tail(s)[i]
      BY <1>1, <2>2
    <2>3. 1 \in DOMAIN s
      BY <1>1
    <2>4. ASSUME NEW m \in Elems(s) PROVE m \in {Head(s)} \cup Elems(Tail(s))
      <3>1. PICK i \in DOMAIN s : m = s[i]
        BY DEF Elems
      <3>2. CASE i = 1
        BY <1>1, <3>1, <3>2
      <3>3. CASE i # 1
        <4>1. i - 1 \in DOMAIN Tail(s) /\ m = Tail(s)[i - 1]
          BY <2>1, <3>1, <3>3
        <4>2. QED
          BY <4>1 DEF Elems
      <3>4. QED
        BY <3>2, <3>3
    <2>5. ASSUME NEW m \in Elems(Tail(s)) PROVE m \in Elems(s)
      <3>1. PICK i \in DOMAIN Tail(s) : m = Tail(s)[i]
        BY DEF Elems
      <3>2. i + 1 \in DOMAIN s /\ s[i + 1] = m
        BY <2>2, <3>1
      <3>3. QED
        BY <3>2 DEF Elems
    <2>6. Head(s) \in Elems(s)
      BY <1>1, <2>3 DEF Elems
    <2>7. QED
      BY <2>4, <2>5, <2>6
  <1>3. ASSUME Increasing(s)
        PROVE  Increasing(Tail(s)) /\ Before({Head(s)}, Elems(Tail(s)))
    BY <1>1, <1>3 DEF Increasing, Before, Elems
  <1>4. QED
    BY <1>2, <1>3

LEMMA ConcatElems ==
  ASSUME NEW s \in Seq(Message), NEW t \in Seq(Message)
  PROVE  /\ Elems(s \o t) = Elems(s) \cup Elems(t)
         /\ Increasing(s) /\ Increasing(t) /\ Before(Elems(s), Elems(t))
            => Increasing(s \o t)
  <1>1. /\ DOMAIN (s \o t) = 1..Len(s) + Len(t)
        /\ \A i \in 1..Len(s) : (s \o t)[i] = s[i]
        /\ \A i \in Len(s) + 1..Len(s) + Len(t) : (s \o t)[i] = t[i - Len(s)]
        /\ DOMAIN s = 1..Len(s) /\ DOMAIN t = 1..Len(t)
        /\ Len(s) \in Nat /\ Len(t) \in Nat
    OBVIOUS
  <1>2. Elems(s \o t) = Elems(s) \cup Elems(t)
    <2>1. ASSUME NEW i \in DOMAIN t
          PROVE  i + Len(s) \in DOMAIN (s \o t) /\ (s \o t)[i + Len(s)] = t[i]
      BY <1>1
    <2>2. ASSUME NEW i \in DOMAIN s
          PROVE  i \in DOMAIN (s \o t) /\ (s \o t)[i] = s[i]
      BY <1>1
    <2>3. ASSUME NEW i \in DOMAIN (s \o t)
          PROVE  (s \o t)[i] \in Elems(s) \cup Elems(t)
      <3>1. CASE i \in DOMAIN s
        BY <2>2, <3>1 DEF Elems
      <3>2. CASE i \notin DOMAIN s
        <4>1. i - Len(s) \in DOMAIN t /\ (s \o t)[i] = t[i - Len(s)]
          BY <1>1, <3>2
        <4>2. QED
          BY <4>1 DEF Elems
      <3>3. QED
        BY <3>1, <3>2
    <2>4. Elems(s \o t) \subseteq Elems(s) \cup Elems(t)
      BY <2>3 DEF Elems
    <2>5. Elems(s) \subseteq Elems(s \o t) /\ Elems(t) \subseteq Elems(s \o t)
      BY <2>1, <2>2 DEF Elems
    <2>6. QED
      BY <2>4, <2>5
  <1>3. ASSUME Increasing(s), Increasing(t), Before(Elems(s), Elems(t))
        PROVE  Increasing(s \o t)
    <2> SUFFICES ASSUME NEW i \in DOMAIN (s \o t), NEW j \in DOMAIN (s \o t), i < j
                 PROVE  Precedes((s \o t)[i], (s \o t)[j])
      BY DEF Increasing
    <2>1. CASE j \in 1..Len(s)
      BY <1>1, <1>3, <2>1 DEF Increasing
    <2>2. CASE i \in 1..Len(s) /\ j \notin 1..Len(s)
      BY <1>1, <1>3, <2>2 DEF Before, Elems
    <2>3. CASE i \notin 1..Len(s)
      <3>1. i - Len(s) \in DOMAIN t /\ j - Len(s) \in DOMAIN t /\ i - Len(s) < j - Len(s)
        BY <1>1, <2>3
      <3>2. (s \o t)[i] = t[i - Len(s)] /\ (s \o t)[j] = t[j - Len(s)]
        BY <1>1, <2>3
      <3>3. QED
        BY <1>3, <3>1, <3>2 DEF Increasing
    <2>4. QED
      BY <1>1, <2>1, <2>2, <2>3
  <1>4. QED
    BY <1>2, <1>3

LEMMA ShortElems ==
  ASSUME NEW m \in Message
  PROVE  /\ Elems(<<>>) = {} /\ Increasing(<<>>)
         /\ Elems(<<m>>) = {m} /\ Increasing(<<m>>)
  BY DEF Elems, Increasing

LEMMA ElemsType ==
  ASSUME NEW s \in Seq(Message)
  PROVE  Elems(s) \subseteq Message
  BY DEF Elems

(* The messages of Sent(c), as a set.                                      *)
SentSet(c) == Elems(received[c]) \cup Elems(inHand[c]) \cup Elems(ch[c])

-----------------------------------------------------------------------------
(* Whom a connection hears from.                                           *)
Mine(c, m) ==
  \/ m.event.to = UserOf[c]
  \/ UserOf[c] \in Managers /\ m.event.to = OrgOf[UserOf[c]]

Addresses ==
  /\ \A c \in Connections : \A m \in SentSet(c) : Mine(c, m)
  /\ \A p \in Publishers : \A d \in outbox[p] : Mine(d.to, d.message)

(* What a step of a connection leaves of the messages on their way.        *)
LEMMA WriterKeepsSent ==
  ASSUME TypeOK, NEW o \in Connections, Write(o), NEW c \in Connections
  PROVE  SentSet(c)' \subseteq SentSet(c)
  <1> USE DEF TypeOK, SentSet
  <1>1. CASE c # o
    BY <1>1 DEF Write, TakeEvent, WriteEvent, WriteFails, hub, flow, callers
  <1>2. CASE c = o /\ TakeEvent(o)
    <2>1. Elems(ch[c]) = {Head(ch[c])} \cup Elems(Tail(ch[c]))
      BY <1>2, TailElems DEF TakeEvent
    <2>2. Head(ch[c]) \in Message
      BY <1>2 DEF TakeEvent
    <2>3. Elems(<<Head(ch[c])>>) = {Head(ch[c])}
      BY <2>2, ShortElems
    <2>4. /\ received' = received
          /\ inHand'[c] = <<Head(ch[c])>>
          /\ ch'[c] = Tail(ch[c])
      BY <1>2 DEF TakeEvent
    <2>5. QED
      BY <2>1, <2>3, <2>4
  <1>3. CASE c = o /\ WriteEvent(o)
    <2>1. Elems(received[c] \o inHand[c]) = Elems(received[c]) \cup Elems(inHand[c])
      BY ConcatElems
    <2>2. Elems(<<>>) = {}
      BY DEF Elems
    <2>3. QED
      BY <1>3, <2>1, <2>2 DEF WriteEvent
  <1>4. CASE c = o /\ WriteFails(o)
    <2>1. Elems(<<>>) = {}
      BY DEF Elems
    <2>2. QED
      BY <1>4, <2>1 DEF WriteFails, hub, callers
  <1>5. QED
    BY <1>1, <1>2, <1>3, <1>4 DEF Write

LEMMA SendAdds ==
  ASSUME TypeOK, NEW p \in Publishers, Send(p)
  PROVE  \E d \in outbox[p] :
           /\ outbox' = [outbox EXCEPT ![p] = @ \ {d}]
           /\ UNCHANGED <<received, inHand, queue, published, writer>>
           /\ ch' = ch \/ ch' = [ch EXCEPT ![d.to] = Append(@, d.message)]
           /\ \A c \in Connections :
                SentSet(c)' \subseteq
                  SentSet(c) \cup (IF c = d.to THEN {d.message} ELSE {})
  <1>1. PICK d \in outbox[p] :
          /\ outbox' = [outbox EXCEPT ![p] = @ \ {d}]
          /\ \/ ch' = [ch EXCEPT ![d.to] = Append(@, d.message)]
             \/ ch' = ch
          /\ UNCHANGED <<inHand, received, writer, queue, published>>
    BY DEF Send
  <1>2. d.to \in Connections /\ d.message \in Message
    BY DEF TypeOK, Delivery
  <1>3. ASSUME NEW c \in Connections
        PROVE  SentSet(c)' \subseteq
                 SentSet(c) \cup (IF c = d.to THEN {d.message} ELSE {})
    <2>1. Elems(Append(ch[d.to], d.message)) = Elems(ch[d.to]) \cup {d.message}
      BY <1>2, AppendElems DEF TypeOK
    <2>2. QED
      BY <1>1, <1>2, <2>1 DEF SentSet, TypeOK
  <1>4. QED
    BY <1>1, <1>3

LEMMA RoutesHead ==
  ASSUME TypeOK, NEW p \in Publishers, Route(p)
  PROVE  /\ Head(queue[p]) \in Elems(queue[p]) /\ Head(queue[p]) \in Message
         /\ Elems(queue'[p]) \subseteq Elems(queue[p])
         /\ \A d \in outbox'[p] : d.message = Head(queue[p])
         /\ \A d \in outbox'[p] : Mine(d.to, d.message)
         /\ \A o \in Publishers \ {p} :
              outbox'[o] = outbox[o] /\ queue'[o] = queue[o]
         /\ UNCHANGED <<flow, writer, published>>
  <1>1. queue[p] \in Seq(Message) /\ queue[p] # <<>>
    BY DEF TypeOK, Route
  <1>2. Elems(queue[p]) = {Head(queue[p])} \cup Elems(Tail(queue[p]))
    BY <1>1, TailElems
  <1>3. outbox'[p] = Recipients(Head(queue[p])) /\ queue'[p] = Tail(queue[p])
    BY DEF Route, TypeOK
  <1>4. \A d \in outbox'[p] : d.message = Head(queue[p]) /\ Mine(d.to, d.message)
    BY <1>3 DEF Recipients, Addressed, Mine
  <1>5. QED
    BY <1>1, <1>2, <1>3, <1>4 DEF Route, hub, TypeOK

LEMMA AddressesStep == TypeOK /\ Addresses /\ [Next]_vars => Addresses'
  <1> SUFFICES ASSUME TypeOK, Addresses, [Next]_vars PROVE Addresses'
    OBVIOUS
  <1>1. ASSUME NEW o \in Connections, Write(o) PROVE Addresses'
    <2>1. UNCHANGED outbox
      BY <1>1 DEF Write, TakeEvent, WriteEvent, WriteFails, callers
    <2>2. \A c \in Connections : SentSet(c)' \subseteq SentSet(c)
      BY <1>1, WriterKeepsSent
    <2>3. QED
      BY <2>1, <2>2 DEF Addresses, Mine
  <1>2. ASSUME NEW p \in Publishers, Route(p) PROVE Addresses'
    BY <1>2, RoutesHead DEF Addresses, Mine, SentSet, flow
  <1>3. ASSUME NEW p \in Publishers, Send(p) PROVE Addresses'
    <2>1. PICK d \in outbox[p] :
            /\ outbox' = [outbox EXCEPT ![p] = @ \ {d}]
            /\ \A c \in Connections :
                 SentSet(c)' \subseteq
                   SentSet(c) \cup (IF c = d.to THEN {d.message} ELSE {})
      BY <1>3, SendAdds
    <2>2. Mine(d.to, d.message)
      BY DEF Addresses
    <2>3. \A q \in Publishers : outbox'[q] \subseteq outbox[q]
      BY <2>1 DEF TypeOK
    <2>4. QED
      BY <2>1, <2>2, <2>3 DEF Addresses, Mine
  <1>4. CASE UNCHANGED <<flow, outbox>>
    BY <1>4 DEF Addresses, Mine, SentSet, flow
  <1>5. QED
    BY <1>1, <1>2, <1>3, <1>4
    DEF Next, Register, ReadEnds, Handle, Upgrade, UpgradeFails, FinishUnregister,
        Return, SeeDone, PeerChanges, Publish, Deliver, Quiescent, vars, callers, hub

(* No connection carries another user's events, or the broadcasts of an    *)
(* organization its user does not belong to (hub.go:51-76).                *)
THEOREM HubKeepsAddresses == Spec => []OnlyAddressees
  <1>1. Init => Addresses
    BY DEF Init, Addresses, SentSet, Elems
  <1>2. ASSUME TypeOK, Addresses PROVE OnlyAddressees
    <2> SUFFICES ASSUME NEW c \in Connections, NEW i \in DOMAIN Sent(c)
                 PROVE  Mine(c, Sent(c)[i])
      BY DEF OnlyAddressees, Mine
    <2>1. /\ received[c] \in Seq(Message) /\ inHand[c] \in Seq(Message)
          /\ ch[c] \in Seq(Message) /\ received[c] \o inHand[c] \in Seq(Message)
      BY <1>2 DEF TypeOK
    <2>2. Elems(Sent(c)) = SentSet(c)
      BY <2>1, ConcatElems DEF Sent, SentSet
    <2>3. Sent(c)[i] \in Elems(Sent(c))
      BY DEF Elems
    <2>4. QED
      BY <1>2, <2>2, <2>3 DEF Addresses
  <1>3. QED
    BY <1>1, <1>2, HubTypeCorrect, AddressesStep, PTL DEF Spec

-----------------------------------------------------------------------------
(* The order of the events of one publication. OrderKept alone says        *)
(* nothing of what is still to be sent; the invariant adds that it comes   *)
(* after all that has been, and from one publisher.                        *)
Pending(p) == Elems(queue[p]) \cup {d.message : d \in outbox[p]}

InOrder(c) ==
  /\ Increasing(received[c]) /\ Increasing(inHand[c]) /\ Increasing(ch[c])
  /\ Before(Elems(received[c]), Elems(inHand[c]))
  /\ Before(Elems(received[c]), Elems(ch[c]))
  /\ Before(Elems(inHand[c]), Elems(ch[c]))
  /\ writer[c] # "writing" => inHand[c] = <<>>

(* One message at a time is being sent, ahead of those in the queue.       *)
OneAtATime(p) ==
  /\ Increasing(queue[p])
  /\ \A d, e \in outbox[p] : d.message = e.message
  /\ \A d \in outbox[p] : Before({d.message}, Elems(queue[p]))

(* What is to be sent comes after what has been.                           *)
StillToCome(c, p) ==
  /\ Before(SentSet(c), Elems(queue[p]))
  /\ \A d \in outbox[p] : d.to = c => Before(SentSet(c), {d.message})

(* Publications are numbered apart.                                        *)
Numbered ==
  /\ \A c \in Connections : \A m \in SentSet(c) : m.publication <= published
  /\ \A p \in Publishers : \A m \in Pending(p) : m.publication <= published
  /\ \A p, q \in Publishers : p # q =>
       \A m \in Pending(p), n \in Pending(q) : m.publication # n.publication

InLine ==
  /\ \A c \in Connections : InOrder(c)
  /\ \A p \in Publishers : OneAtATime(p)
  /\ \A c \in Connections, p \in Publishers : StillToCome(c, p)
  /\ Numbered

LEMMA WriteInOrder ==
  ASSUME TypeOK, NEW c \in Connections, InOrder(c), Write(c)
  PROVE  InOrder(c)'
  <1>1. /\ ch[c] \in Seq(Message) /\ inHand[c] \in Seq(Message)
        /\ received[c] \in Seq(Message)
    BY DEF TypeOK
  <1>2. Elems(<<>>) = {} /\ Increasing(<<>>)
    BY DEF Elems, Increasing
  <1>3. CASE TakeEvent(c)
    <2>1. /\ ch[c] # <<>> /\ inHand'[c] = <<Head(ch[c])>> /\ ch'[c] = Tail(ch[c])
          /\ received' = received /\ writer'[c] = "writing"
      BY <1>3 DEF TakeEvent, TypeOK
    <2>2. /\ Elems(ch[c]) = {Head(ch[c])} \cup Elems(Tail(ch[c]))
          /\ Increasing(Tail(ch[c]))
          /\ Before({Head(ch[c])}, Elems(Tail(ch[c])))
      BY <1>1, <2>1, TailElems DEF InOrder
    <2>3. Head(ch[c]) \in Message
      BY <1>1, <2>1
    <2>4. Elems(inHand'[c]) = {Head(ch[c])} /\ Increasing(inHand'[c])
      BY <2>1, <2>3, ShortElems
    <2>5. /\ Before(Elems(received[c]), {Head(ch[c])})
          /\ Before(Elems(received[c]), Elems(Tail(ch[c])))
      BY <2>2 DEF InOrder, Before
    <2>6. QED
      BY <2>1, <2>2, <2>4, <2>5 DEF InOrder
  <1>4. CASE WriteEvent(c)
    <2>1. /\ inHand'[c] = <<>> /\ ch'[c] = ch[c]
          /\ received'[c] = received[c] \o inHand[c]
      BY <1>4 DEF WriteEvent, TypeOK
    <2>2. /\ Elems(received[c] \o inHand[c]) = Elems(received[c]) \cup Elems(inHand[c])
          /\ Increasing(received[c] \o inHand[c])
      BY <1>1, ConcatElems DEF InOrder
    <2>3. Before(Elems(received'[c]), Elems(ch[c]))
      BY <2>1, <2>2 DEF InOrder, Before
    <2>4. QED
      BY <1>2, <2>1, <2>2, <2>3 DEF InOrder, Before
  <1>5. CASE WriteFails(c)
    <2>1. inHand'[c] = <<>> /\ ch' = ch /\ received' = received
      BY <1>5 DEF WriteFails, TypeOK, hub, callers
    <2>2. QED
      BY <1>2, <2>1 DEF InOrder, Before
  <1>6. QED
    BY <1>3, <1>4, <1>5 DEF Write

LEMMA WriteInLine ==
  ASSUME TypeOK, InLine, NEW o \in Connections, Write(o)
  PROVE  InLine'
  <1>1. UNCHANGED <<queue, outbox, published>>
    BY DEF Write, TakeEvent, WriteEvent, WriteFails, callers
  <1>2. \A c \in Connections : SentSet(c)' \subseteq SentSet(c)
    BY WriterKeepsSent
  <1>3. ASSUME NEW c \in Connections PROVE InOrder(c)'
    <2>1. CASE c = o
      BY <2>1, WriteInOrder DEF InLine
    <2>2. CASE c # o
      BY <2>2 DEF InLine, InOrder, TypeOK, Write, TakeEvent, WriteEvent, WriteFails, hub, callers
    <2>3. QED
      BY <2>1, <2>2
  <1>4. ASSUME NEW p \in Publishers PROVE OneAtATime(p)'
    BY <1>1 DEF InLine, OneAtATime
  <1>5. ASSUME NEW c \in Connections, NEW p \in Publishers PROVE StillToCome(c, p)'
    BY <1>1, <1>2 DEF InLine, StillToCome, Before
  <1>6. Numbered'
    BY <1>1, <1>2 DEF InLine, Numbered, Pending
  <1>7. QED
    BY <1>3, <1>4, <1>5, <1>6 DEF InLine

LEMMA RouteInLine ==
  ASSUME TypeOK, InLine, NEW p \in Publishers, Route(p)
  PROVE  InLine'
  <1> DEFINE head == Head(queue[p])
  <1>1. UNCHANGED <<flow, writer, published>>
    BY RoutesHead
  <1>2. \A q \in Publishers \ {p} : outbox'[q] = outbox[q] /\ queue'[q] = queue[q]
    BY RoutesHead
  <1>3. queue[p] \in Seq(Message) /\ queue[p] # <<>> /\ queue'[p] = Tail(queue[p])
    BY DEF TypeOK, Route
  <1>4. /\ Elems(queue[p]) = {head} \cup Elems(queue'[p])
        /\ Increasing(queue'[p]) /\ Before({head}, Elems(queue'[p]))
    BY <1>3, TailElems DEF InLine, OneAtATime
  <1>5. \A d \in outbox'[p] : d.message = head
    BY RoutesHead
  <1>6. \A c \in Connections : SentSet(c)' = SentSet(c) /\ InOrder(c)'
    BY <1>1 DEF SentSet, InLine, InOrder, flow
  <1>7. ASSUME NEW q \in Publishers PROVE OneAtATime(q)'
    <2>1. CASE q = p
      BY <1>4, <1>5, <2>1 DEF OneAtATime
    <2>2. CASE q # p
      BY <1>2, <2>2 DEF InLine, OneAtATime
    <2>3. QED
      BY <2>1, <2>2
  <1>8. ASSUME NEW c \in Connections, NEW q \in Publishers PROVE StillToCome(c, q)'
    <2>1. CASE q = p
      BY <1>4, <1>5, <1>6, <2>1 DEF InLine, StillToCome, Before
    <2>2. CASE q # p
      BY <1>2, <1>6, <2>2 DEF InLine, StillToCome
    <2>3. QED
      BY <2>1, <2>2
  <1>9. Numbered'
    <2>1. \A q \in Publishers : Pending(q)' \subseteq Pending(q)
      BY <1>2, <1>4, <1>5 DEF Pending
    <2>2. QED
      BY <1>1, <1>6, <2>1 DEF InLine, Numbered
  <1>10. QED
    BY <1>6, <1>7, <1>8, <1>9 DEF InLine

LEMMA SendInLine ==
  ASSUME TypeOK, InLine, NEW p \in Publishers, Send(p)
  PROVE  InLine'
  <1>1. PICK d \in outbox[p] :
          /\ outbox' = [outbox EXCEPT ![p] = @ \ {d}]
          /\ UNCHANGED <<received, inHand, queue, published, writer>>
          /\ ch' = ch \/ ch' = [ch EXCEPT ![d.to] = Append(@, d.message)]
          /\ \A c \in Connections :
               SentSet(c)' \subseteq
                 SentSet(c) \cup (IF c = d.to THEN {d.message} ELSE {})
    BY SendAdds
  <1>2. d.to \in Connections /\ d.message \in Message /\ d \in Delivery
    BY DEF TypeOK, Delivery
  <1>3. \A q \in Publishers : outbox'[q] \subseteq outbox[q] /\ d \notin outbox'[p]
    BY <1>1 DEF TypeOK
  <1>4. Before(SentSet(d.to), {d.message})
    BY <1>2 DEF InLine, StillToCome
  <1>5. ASSUME NEW c \in Connections PROVE InOrder(c)'
    <2>1. CASE ch'[c] = ch[c]
      BY <1>1, <2>1 DEF InLine, InOrder
    <2>2. CASE c = d.to /\ ch'[c] = Append(ch[c], d.message)
      <3>1. Before(Elems(received[c]), {d.message})
            /\ Before(Elems(inHand[c]), {d.message})
            /\ Before(Elems(ch[c]), {d.message})
        BY <1>4, <2>2 DEF SentSet, Before
      <3>2. /\ Elems(ch'[c]) = Elems(ch[c]) \cup {d.message}
            /\ Increasing(ch'[c])
        BY <1>2, <2>2, <3>1, AppendElems DEF TypeOK, InLine, InOrder
      <3>3. Before(Elems(received[c]), Elems(ch'[c]))
            /\ Before(Elems(inHand[c]), Elems(ch'[c]))
        BY <3>1, <3>2 DEF InLine, InOrder, Before
      <3>4. QED
        BY <1>1, <3>2, <3>3 DEF InLine, InOrder
    <2>3. QED
      BY <1>1, <2>1, <2>2 DEF TypeOK
  <1>6. ASSUME NEW q \in Publishers PROVE OneAtATime(q)'
    <2>1. outbox'[q] \subseteq outbox[q] /\ queue' = queue
      BY <1>1, <1>3
    <2>2. QED
      BY <2>1 DEF InLine, OneAtATime
  <1>7. ASSUME NEW q \in Publishers, q # p, NEW n \in Pending(q)
        PROVE  Precedes(d.message, n)
    <2>1. d.message \in Pending(p)
      BY DEF Pending
    <2>2. QED
      BY <1>7, <2>1 DEF InLine, Numbered, Precedes
  <1>8. ASSUME NEW c \in Connections, NEW q \in Publishers PROVE StillToCome(c, q)'
    <2>1. Before({d.message}, Elems(queue[q]))
      <3>1. CASE q = p
        BY <3>1 DEF InLine, OneAtATime
      <3>2. CASE q # p
        BY <1>7, <3>2 DEF Pending, Before
      <3>3. QED
        BY <3>1, <3>2
    <2>2. ASSUME NEW e \in outbox'[q], e.to = c
          PROVE  Before(SentSet(c)', {e.message})
      <3>1. e \in outbox[q] /\ Before(SentSet(c), {e.message})
        BY <1>3, <2>2 DEF InLine, StillToCome
      <3>2. CASE c # d.to
        BY <1>1, <3>1, <3>2 DEF Before
      <3>3. CASE c = d.to /\ q # p
        <4>1. Precedes(d.message, e.message)
          BY <1>7, <3>1, <3>3 DEF Pending
        <4>2. QED
          BY <1>1, <3>1, <4>1 DEF Before
      <3>4. CASE c = d.to /\ q = p
        <4>1. e.message = d.message
          BY <3>1, <3>4 DEF InLine, OneAtATime
        <4>2. e \in Delivery
          BY <3>1 DEF TypeOK
        <4>3. e = d
          BY <1>2, <2>2, <3>4, <4>1, <4>2 DEF Delivery
        <4>4. QED
          BY <1>3, <2>2, <3>4, <4>3
      <3>5. QED
        BY <3>2, <3>3, <3>4
    <2>3. Before(SentSet(c)', Elems(queue'[q]))
      BY <1>1, <2>1 DEF InLine, StillToCome, Before
    <2>4. QED
      BY <2>2, <2>3 DEF StillToCome
  <1>9. Numbered'
    <2>1. \A q \in Publishers : Pending(q)' \subseteq Pending(q)
      BY <1>1, <1>3 DEF Pending
    <2>2. d.message.publication <= published
      BY DEF InLine, Numbered, Pending
    <2>3. QED
      BY <1>1, <2>1, <2>2 DEF InLine, Numbered
  <1>10. QED
    BY <1>5, <1>6, <1>8, <1>9 DEF InLine

LEMMA PublishInLine ==
  ASSUME TypeOK, InLine, NEW p \in Publishers, Publish(p)
  PROVE  InLine'
  <1>1. PICK list \in Publications :
          queue' = [queue EXCEPT ![p] =
            [i \in 1..Len(list) |->
               [event |-> list[i], publication |-> published', place |-> i]]]
    BY DEF Publish
  <1>2. published' = published + 1 /\ published \in Nat /\ published' \in Nat
    BY HubAssumption DEF Publish, TypeOK
  <1>3. UNCHANGED <<flow, writer, outbox>> /\ outbox[p] = {} /\ queue[p] = <<>>
    BY DEF Publish
  <1>4. queue'[p] = [i \in 1..Len(list) |->
               [event |-> list[i], publication |-> published', place |-> i]]
    BY <1>1 DEF TypeOK
  <1>5. Len(list) \in Nat
    BY HubAssumption
  <1>6. Increasing(queue'[p])
    BY <1>4, <1>5 DEF Increasing, Precedes
  <1>7. \A m \in Elems(queue'[p]) : m.publication = published + 1
    BY <1>2, <1>4 DEF Elems
  <1>8. \A q \in Publishers \ {p} : queue'[q] = queue[q]
    BY <1>1 DEF TypeOK
  <1>9. \A c \in Connections : SentSet(c)' = SentSet(c) /\ InOrder(c)'
    BY <1>3 DEF SentSet, InLine, InOrder, flow
  <1>10. \A q \in Publishers : OneAtATime(q)'
    BY <1>3, <1>6, <1>8 DEF InLine, OneAtATime
  <1>11. \A c \in Connections : \A m \in SentSet(c) :
           m.publication <= published /\ m.publication \in Nat
    <2>1. ASSUME NEW c \in Connections PROVE SentSet(c) \subseteq Message
      BY ElemsType DEF SentSet, TypeOK
    <2>2. QED
      BY <2>1 DEF InLine, Numbered, Message
  <1>12. ASSUME NEW c \in Connections, NEW q \in Publishers PROVE StillToCome(c, q)'
    <2>1. CASE q = p
      BY <1>2, <1>3, <1>7, <1>9, <1>11, <2>1 DEF StillToCome, Before, Precedes
    <2>2. CASE q # p
      BY <1>3, <1>8, <1>9, <2>2 DEF InLine, StillToCome
    <2>3. QED
      BY <2>1, <2>2
  <1>13. \A q \in Publishers : \A m \in Pending(q) :
           m.publication <= published /\ m.publication \in Nat
    <2>1. ASSUME NEW q \in Publishers PROVE Pending(q) \subseteq Message
      BY ElemsType DEF Pending, TypeOK, Delivery
    <2>2. QED
      BY <2>1 DEF InLine, Numbered, Message
  <1>14. \A q \in Publishers \ {p} : Pending(q)' = Pending(q)
    BY <1>3, <1>8 DEF Pending
  <1>15. \A m \in Pending(p)' : m.publication = published + 1
    BY <1>3, <1>7 DEF Pending
  <1>16. Numbered'
    <2>1. ASSUME NEW c \in Connections, NEW m \in SentSet(c)'
          PROVE  m.publication <= published'
      BY <1>2, <1>9, <1>11
    <2>2. ASSUME NEW q \in Publishers, NEW m \in Pending(q)'
          PROVE  m.publication <= published'
      BY <1>2, <1>13, <1>14, <1>15
    <2>3. ASSUME NEW q \in Publishers, NEW o \in Publishers, q # o,
                 NEW m \in Pending(q)', NEW n \in Pending(o)'
          PROVE  m.publication # n.publication
      BY <1>2, <1>13, <1>14, <1>15, <2>3 DEF InLine, Numbered
    <2>4. QED
      BY <2>1, <2>2, <2>3 DEF Numbered
  <1>17. QED
    BY <1>9, <1>10, <1>12, <1>16 DEF InLine

LEMMA StaysInLine ==
  ASSUME TypeOK, InLine, UNCHANGED <<flow, callers>>,
         \A c \in Connections : writer'[c] # "writing" => inHand[c] = <<>>
  PROVE  InLine'
  <1>1. /\ received' = received /\ inHand' = inHand /\ ch' = ch
        /\ queue' = queue /\ outbox' = outbox /\ published' = published
    BY DEF flow, callers
  <1>2. \A c \in Connections : SentSet(c)' = SentSet(c)
    BY <1>1 DEF SentSet
  <1>3. \A p \in Publishers : Pending(p)' = Pending(p)
    BY <1>1 DEF Pending
  <1>4. \A c \in Connections : InOrder(c)'
    BY <1>1 DEF InLine, InOrder
  <1>5. \A p \in Publishers : OneAtATime(p)'
    BY <1>1 DEF InLine, OneAtATime
  <1>6. \A c \in Connections, p \in Publishers : StillToCome(c, p)'
    BY <1>1, <1>2 DEF InLine, StillToCome
  <1>7. Numbered'
    BY <1>1, <1>2, <1>3 DEF InLine, Numbered
  <1>8. QED
    BY <1>4, <1>5, <1>6, <1>7 DEF InLine

LEMMA InLineStep == TypeOK /\ Lives /\ InLine /\ [Next]_vars => InLine'
  <1> SUFFICES ASSUME TypeOK, Lives, InLine, [Next]_vars PROVE InLine'
    OBVIOUS
  <1>1. \A c \in Connections : writer[c] # "writing" => inHand[c] = <<>>
    BY DEF InLine, InOrder
  <1>2. ASSUME NEW c \in Connections,
               Register(c) \/ ReadEnds(c) \/ UpgradeFails(c) \/ FinishUnregister(c)
               \/ Return(c) \/ PeerChanges(c)
        PROVE  InLine'
    <2>1. UNCHANGED <<flow, callers, writer>>
      BY <1>2 DEF Register, ReadEnds, UpgradeFails, FinishUnregister, Return, PeerChanges
    <2>2. QED
      BY <1>1, <2>1, StaysInLine
  <1>3. ASSUME NEW c \in Connections, Upgrade(c)
        PROVE  InLine'
    <2> USE <1>3 DEF Upgrade
    <2>1. UNCHANGED <<flow, callers>>
      OBVIOUS
    <2>2. writer[c] = "none" /\ inHand[c] = <<>>
      BY <1>1 DEF Lives, Life
    <2>3. QED
      BY <1>1, <2>1, <2>2, StaysInLine DEF TypeOK
  <1>4. ASSUME NEW c \in Connections, SeeDone(c)
        PROVE  InLine'
    <2>1. UNCHANGED <<flow, callers>>
      BY <1>4 DEF SeeDone
    <2>2. \A o \in Connections : writer'[o] # "writing" => writer[o] # "writing"
      BY <1>4 DEF SeeDone, TypeOK
    <2>3. QED
      BY <1>1, <2>1, <2>2, StaysInLine
  <1>5. CASE UNCHANGED vars
    <2>1. UNCHANGED <<flow, callers, writer>>
      BY <1>5 DEF vars
    <2>2. QED
      BY <1>1, <2>1, StaysInLine
  <1>6. QED
    BY <1>2, <1>3, <1>4, <1>5, WriteInLine, RouteInLine, SendInLine, PublishInLine
    DEF Next, Handle, Deliver, Quiescent

LEMMA HubInLine == Spec => []InLine
  <1>1. Init => InLine
    BY DEF Init, InLine, InOrder, OneAtATime, StillToCome, Numbered, SentSet, Pending,
           Elems, Increasing, Before
  <1>2. QED
    BY <1>1, HubTypeCorrect, ConnectionsLive, InLineStep, PTL DEF Spec

(* A connection gets the events of a publication in order and none twice,  *)
(* for any number of publishers and connections, any capacity of the       *)
(* buffers, and whatever is dropped (hub.go:78-99, 144-151, 243-254).      *)
THEOREM HubKeepsOrder == Spec => []OrderKept
  <1>1. ASSUME TypeOK, InLine PROVE OrderKept
    <2> SUFFICES ASSUME NEW c \in Connections PROVE Increasing(Sent(c))
      BY DEF OrderKept, Increasing, Precedes
    <2>1. /\ received[c] \in Seq(Message) /\ inHand[c] \in Seq(Message)
          /\ ch[c] \in Seq(Message) /\ received[c] \o inHand[c] \in Seq(Message)
      BY <1>1 DEF TypeOK
    <2>2. /\ Elems(received[c] \o inHand[c]) = Elems(received[c]) \cup Elems(inHand[c])
          /\ Increasing(received[c] \o inHand[c])
      BY <1>1, <2>1, ConcatElems DEF InLine, InOrder
    <2>3. Before(Elems(received[c] \o inHand[c]), Elems(ch[c]))
      BY <1>1, <2>2 DEF InLine, InOrder, Before
    <2>4. QED
      BY <1>1, <2>1, <2>2, <2>3, ConcatElems DEF Sent, InLine, InOrder
  <1>2. QED
    BY <1>1, HubTypeCorrect, HubInLine, PTL
-----------------------------------------------------------------------------
(* The streams of EventStreams.                                            *)

(* A writer has one event in its hand or none, and whatever is to be       *)
(* routed comes from a list that has been published.                       *)
Streams ==
  /\ \A c \in Connections :
       IF writer[c] = "writing" THEN \E m \in Message : inHand[c] = <<m>>
       ELSE inHand[c] = <<>>
  /\ \A p \in Publishers : Elems(queue[p]) \subseteq Sendable

LEMMA WriteStreams ==
  ASSUME TypeOK, Streams, NEW c \in Connections, Write(c) \/ SeeDone(c)
  PROVE  Streams'
  <1> USE DEF TypeOK, Streams, hub, flow, callers
  <1>1. CASE TakeEvent(c)
    <2>1. Head(ch[c]) \in Message
      BY <1>1 DEF TakeEvent
    <2>2. QED
      BY <1>1, <2>1 DEF TakeEvent
  <1>2. CASE WriteEvent(c)
    BY <1>2 DEF WriteEvent
  <1>3. CASE WriteFails(c)
    BY <1>3 DEF WriteFails
  <1>4. CASE SeeDone(c)
    BY <1>4 DEF SeeDone
  <1>5. QED
    BY <1>1, <1>2, <1>3, <1>4 DEF Write

LEMMA PublishStreams ==
  ASSUME TypeOK, Streams, NEW p \in Publishers, Publish(p)
  PROVE  Streams'
  <1>1. PICK list \in Publications :
          queue' = [queue EXCEPT ![p] =
            [i \in 1..Len(list) |->
               [event |-> list[i], publication |-> published', place |-> i]]]
    BY DEF Publish
  <1>2. published' \in 1..MaxPublications
    BY HubAssumption DEF Publish, TypeOK
  <1>3. DOMAIN list = 1..Len(list)
    BY HubAssumption
  <1>4. ASSUME NEW i \in 1..Len(list)
        PROVE  [event |-> list[i], publication |-> published', place |-> i] \in Sendable
    BY <1>2, <1>3 DEF Sendable
  <1>5. Elems(queue'[p]) \subseteq Sendable
    BY <1>1, <1>4 DEF Elems, TypeOK
  <1>6. \A q \in Publishers : Elems(queue'[q]) \subseteq Sendable
    BY <1>1, <1>5 DEF Streams, TypeOK
  <1>7. QED
    BY <1>6 DEF Publish, Streams, flow

LEMMA StreamsStep == TypeOK /\ Lives /\ Streams /\ [Next]_vars => Streams'
  <1> SUFFICES ASSUME TypeOK, Lives, Streams, [Next]_vars PROVE Streams'
    OBVIOUS
  <1>1. ASSUME UNCHANGED <<queue, inHand, writer>> PROVE Streams'
    BY <1>1 DEF Streams
  <1>2. ASSUME NEW c \in Connections,
               Register(c) \/ ReadEnds(c) \/ UpgradeFails(c) \/ FinishUnregister(c)
               \/ Return(c) \/ PeerChanges(c)
        PROVE  Streams'
    BY <1>1, <1>2 DEF Register, ReadEnds, UpgradeFails, FinishUnregister, Return,
                      PeerChanges, flow, callers
  <1>3. ASSUME NEW c \in Connections, Upgrade(c) PROVE Streams'
    BY <1>3 DEF Upgrade, Streams, Lives, Life, TypeOK, flow, callers
  <1>4. ASSUME NEW p \in Publishers, Route(p) PROVE Streams'
    <2>1. \A q \in Publishers : Elems(queue'[q]) \subseteq Elems(queue[q])
      BY <1>4, RoutesHead
    <2>2. QED
      BY <1>4, <2>1 DEF Route, Streams, flow
  <1>5. ASSUME NEW p \in Publishers, Send(p) PROVE Streams'
    BY <1>1, <1>5 DEF Send
  <1>6. CASE UNCHANGED vars
    BY <1>1, <1>6 DEF vars, flow, callers
  <1>7. QED
    BY <1>2, <1>3, <1>4, <1>5, <1>6, WriteStreams, PublishStreams
    DEF Next, Handle, Deliver, Quiescent

LEMMA HubStreams == Spec => []Streams
  <1>1. Init => Streams
    BY DEF Init, Streams, Elems
  <1>2. QED
    BY <1>1, HubTypeCorrect, ConnectionsLive, StreamsStep, PTL DEF Spec

(* What waits for a connection, as its writer goes on.                     *)
LEMMA TakenWaits ==
  ASSUME NEW s \in Seq(Message), s # <<>>
  PROVE  <<Head(s)>> \o Tail(s) = <<>> \o s
  OBVIOUS

LEMMA FirstInHand ==
  ASSUME NEW m \in Message, NEW s \in Seq(Message)
  PROVE  /\ <<m>> \o s # <<>>
         /\ Head(<<m>> \o s) = m
         /\ Tail(<<m>> \o s) = <<>> \o s
  OBVIOUS

LEMMA LastSent ==
  ASSUME NEW s \in Seq(Message), NEW t \in Seq(Message), NEW m \in Message
  PROVE  /\ s \o Append(t, m) = Append(s \o t, m)
         /\ Len(s \o t) = Len(s) + Len(t)
  OBVIOUS
(* What is owed, after a step of one publisher. A delivery is in the       *)
(* outbox of the publisher that makes it and in no other.                  *)
LEMMA OwedOnce ==
  ASSUME TypeOK, InLine, NEW p \in Publishers, NEW d \in outbox[p],
         outbox' = [outbox EXCEPT ![p] = @ \ {d}]
  PROVE  Owed' = Owed \ {d}
  <1>1. ASSUME NEW q \in Publishers, q # p PROVE d \notin outbox[q]
    BY <1>1 DEF InLine, Numbered, Pending
  <1>2. /\ outbox'[p] = outbox[p] \ {d}
        /\ \A q \in Publishers \ {p} : outbox'[q] = outbox[q]
    BY DEF TypeOK
  <1>3. QED
    BY <1>1, <1>2 DEF Owed

LEMMA RoutesOwed ==
  ASSUME TypeOK, Streams, NEW p \in Publishers, Route(p)
  PROVE  \E m \in Sendable : Promised!Address(m)
  <1> DEFINE m == Head(queue[p])
  <1>1. m \in Sendable /\ m \in Message
    BY RoutesHead DEF Streams
  <1>2. UNCHANGED <<flow, subscribed>>
    BY DEF Route, hub
  <1>3. Audience[m] = {c \in Connections : Addressed(c, m.event)}
    BY <1>1 DEF Audience
  <1>4. Recipients(m) = [to : subscribed \cap Audience[m], message : {m}]
    BY <1>3 DEF Recipients, TypeOK
  <1>5. /\ outbox[p] = {} /\ outbox'[p] = Recipients(m)
        /\ \A q \in Publishers \ {p} : outbox'[q] = outbox[q]
    BY DEF Route, TypeOK
  <1>6. Owed' = Owed \cup Recipients(m)
    BY <1>5 DEF Owed
  <1>7. Waiting' = Waiting /\ received' = received
    BY <1>2 DEF Waiting, flow
  <1>8. QED
    BY <1>1, <1>2, <1>4, <1>6, <1>7 DEF Promised!Address

LEMMA SentWaits ==
  ASSUME TypeOK, Streams, NEW c \in Connections, NEW m \in Message
  PROVE  /\ Waiting[c] = inHand[c] \o ch[c]
         /\ inHand[c] \o Append(ch[c], m) = Append(Waiting[c], m)
         /\ Len(ch[c]) < Capacity => Len(Waiting[c]) <= Capacity
         /\ Len(ch[c]) >= Capacity => Len(Waiting[c]) >= Capacity
  <1>1. /\ ch[c] \in Seq(Message) /\ inHand[c] \in Seq(Message)
        /\ Waiting[c] = inHand[c] \o ch[c]
    BY DEF TypeOK, Waiting
  <1>2. /\ inHand[c] \o Append(ch[c], m) = Append(Waiting[c], m)
        /\ Len(Waiting[c]) = Len(inHand[c]) + Len(ch[c])
    BY <1>1, LastSent
  <1>3. inHand[c] = <<>> \/ \E n \in Message : inHand[c] = <<n>>
    BY DEF Streams
  <1>4. Len(inHand[c]) = 0 \/ Len(inHand[c]) = 1
    <2>1. CASE inHand[c] = <<>>
      BY <2>1
    <2>2. CASE \E n \in Message : inHand[c] = <<n>>
      <3>1. PICK n \in Message : inHand[c] = <<n>>
        BY <2>2
      <3>2. QED
        BY <3>1
    <2>3. QED
      BY <1>3, <2>1, <2>2
  <1>5. Len(ch[c]) \in Nat /\ Capacity \in Nat
    BY <1>1, HubAssumption
  <1> DEFINE hand == Len(inHand[c])
             buffered == Len(ch[c])
             waiting == Len(Waiting[c])
  <1>6. waiting = hand + buffered /\ (hand = 0 \/ hand = 1) /\ buffered \in Nat
    BY <1>2, <1>4, <1>5
  <1> HIDE DEF hand, buffered, waiting
  <1>7. /\ buffered < Capacity => waiting <= Capacity
        /\ buffered >= Capacity => waiting >= Capacity
    BY <1>5, <1>6
  <1>8. QED
    BY <1>1, <1>2, <1>7 DEF buffered, waiting

LEMMA SendsOwed ==
  ASSUME TypeOK, InLine, Streams, NEW p \in Publishers, Send(p)
  PROVE  \E d \in Owed : Promised!Put(d)
  <1>1. PICK d \in outbox[p] :
          /\ outbox' = [outbox EXCEPT ![p] = @ \ {d}]
          /\ \/ /\ Len(ch[d.to]) < Capacity
                /\ ch' = [ch EXCEPT ![d.to] = Append(@, d.message)]
             \/ /\ Len(ch[d.to]) >= Capacity
                /\ UNCHANGED ch
          /\ UNCHANGED <<subscribed, inHand, received>>
    BY DEF Send, hub
  <1>2. d \in Owed /\ Owed' = Owed \ {d}
    BY <1>1, OwedOnce DEF Owed
  <1> DEFINE c == d.to
  <1>3. c \in Connections /\ d.message \in Message
    BY DEF TypeOK, Delivery
  <1>4. /\ Waiting[c] = inHand[c] \o ch[c]
        /\ inHand[c] \o Append(ch[c], d.message) = Append(Waiting[c], d.message)
        /\ Len(ch[c]) < Capacity => Len(Waiting[c]) <= Capacity
        /\ Len(ch[c]) >= Capacity => Len(Waiting[c]) >= Capacity
    BY <1>3, SentWaits
  <1>5. CASE Len(ch[c]) < Capacity /\ ch' = [ch EXCEPT ![c] = Append(@, d.message)]
    <2>1. Waiting' = [Waiting EXCEPT ![c] = Append(@, d.message)]
      BY <1>1, <1>3, <1>4, <1>5 DEF Waiting, TypeOK
    <2>2. QED
      BY <1>1, <1>2, <1>4, <1>5, <2>1 DEF Promised!Put
  <1>6. CASE Len(ch[c]) >= Capacity /\ UNCHANGED ch
    <2>1. Waiting' = Waiting
      BY <1>1, <1>6 DEF Waiting
    <2>2. QED
      BY <1>1, <1>2, <1>4, <1>6, <2>1 DEF Promised!Put
  <1>7. QED
    BY <1>1, <1>5, <1>6

LEMMA WritesWaiting ==
  ASSUME TypeOK, Streams, NEW c \in Connections, Write(c)
  PROVE  Promised!Give(c) \/ Promised!Lose(c) \/ UNCHANGED Promised!vars
  <1>1. UNCHANGED <<subscribed, Owed>>
    <2>1. UNCHANGED <<subscribed, outbox>>
      BY DEF Write, TakeEvent, WriteEvent, WriteFails, hub, callers
    <2>2. QED
      BY <2>1 DEF Owed
  <1>2. ch[c] \in Seq(Message) /\ Waiting[c] = inHand[c] \o ch[c]
    BY DEF TypeOK, Waiting
  <1>3. ASSUME NEW o \in Connections, o # c
        PROVE  inHand'[o] = inHand[o] /\ ch'[o] = ch[o]
    BY <1>3 DEF Write, TakeEvent, WriteEvent, WriteFails, TypeOK
  <1>4. CASE TakeEvent(c)
    <2>1. /\ inHand[c] = <<>> /\ ch[c] # <<>> /\ received' = received
          /\ inHand'[c] = <<Head(ch[c])>> /\ ch'[c] = Tail(ch[c])
      BY <1>4 DEF TakeEvent, Streams, TypeOK
    <2>2. inHand'[c] \o ch'[c] = inHand[c] \o ch[c]
      BY <1>2, <2>1, TakenWaits
    <2>3. Waiting' = Waiting
      BY <1>3, <2>2 DEF Waiting
    <2>4. QED
      BY <1>1, <2>1, <2>3 DEF Promised!vars
  <1>5. CASE WriteEvent(c) \/ WriteFails(c)
    <2>1. PICK m \in Message : inHand[c] = <<m>>
      BY <1>5 DEF WriteEvent, WriteFails, Streams
    <2>2. inHand'[c] = <<>> /\ ch'[c] = ch[c]
      BY <1>5 DEF WriteEvent, WriteFails, TypeOK
    <2>3. /\ Waiting[c] # <<>> /\ Head(Waiting[c]) = m
          /\ inHand'[c] \o ch'[c] = Tail(Waiting[c])
      BY <1>2, <2>1, <2>2, FirstInHand
    <2>4. Waiting' = [Waiting EXCEPT ![c] = Tail(@)]
      BY <1>3, <2>3 DEF Waiting
    <2>5. CASE WriteEvent(c)
      <3>1. received[c] \o inHand[c] = Append(received[c], m)
        BY <2>1 DEF TypeOK
      <3>2. received' = [received EXCEPT ![c] = Append(@, Head(Waiting[c]))]
        BY <2>3, <2>5, <3>1 DEF WriteEvent
      <3>3. QED
        BY <1>1, <2>3, <2>4, <3>2 DEF Promised!Give
    <2>6. CASE WriteFails(c)
      BY <1>1, <2>3, <2>4, <2>6 DEF WriteFails, Promised!Lose
    <2>7. QED
      BY <1>5, <2>5, <2>6
  <1>6. QED
    BY <1>4, <1>5 DEF Write

LEMMA HubStep ==
  TypeOK /\ InLine /\ Streams /\ [Next]_vars => [Promised!Next]_Promised!vars
  <1> SUFFICES ASSUME TypeOK, InLine, Streams, [Next]_vars
               PROVE  Promised!Next \/ UNCHANGED Promised!vars
    OBVIOUS
  <1>1. ASSUME UNCHANGED <<flow, outbox>> PROVE UNCHANGED <<Waiting, received, Owed>>
    BY <1>1 DEF Waiting, Owed, flow
  <1>2. ASSUME NEW c \in Connections,
               Register(c) \/ ReadEnds(c) \/ UpgradeFails(c) \/ Return(c)
        PROVE  Promised!ComeOrGo(c)
    <2>1. UNCHANGED <<flow, outbox>>
      BY <1>2 DEF Register, ReadEnds, UpgradeFails, Return, callers
    <2>2. subscribed' \in {subscribed \cup {c}, subscribed \ {c}}
      BY <1>2 DEF Register, ReadEnds, UpgradeFails, Return, Unmap
    <2>3. QED
      BY <1>1, <2>1, <2>2 DEF Promised!ComeOrGo
  <1>3. ASSUME NEW c \in Connections,
               Upgrade(c) \/ FinishUnregister(c) \/ SeeDone(c) \/ PeerChanges(c)
        PROVE  UNCHANGED Promised!vars
    BY <1>1, <1>3 DEF Upgrade, FinishUnregister, SeeDone, PeerChanges, hub, callers,
                      Promised!vars
  <1>4. ASSUME NEW p \in Publishers, Publish(p) PROVE UNCHANGED Promised!vars
    BY <1>1, <1>4 DEF Publish, hub, Promised!vars
  <1>5. CASE UNCHANGED vars
    BY <1>1, <1>5 DEF vars, hub, callers, Promised!vars
  <1>6. ASSUME NEW p \in Publishers, Deliver(p) PROVE Promised!Next
    BY <1>6, RoutesOwed, SendsOwed DEF Deliver, Promised!Next
  <1>7. ASSUME NEW c \in Connections, Write(c)
        PROVE  Promised!Next \/ UNCHANGED Promised!vars
    BY <1>7, WritesWaiting DEF Promised!Next
  <1>8. ASSUME NEW c \in Connections, Promised!ComeOrGo(c) PROVE Promised!Next
    BY <1>8 DEF Promised!Next
  <1>9. QED
    BY <1>2, <1>3, <1>4, <1>5, <1>6, <1>7, <1>8 DEF Next, Handle, Quiescent

(* The hub implements the streams LivePage relies on, for any number of    *)
(* connections and publishers, any events and any capacity: what is routed *)
(* is routed to all addressees at once, reaches each in that order, and is *)
(* lost only to a full buffer, or to a socket that is                      *)
(* (hub.go:51-99, 144-151, 243-254).                                       *)
THEOREM HubImplementsStreams == Spec => ImplementsStreams
  <1>1. Init => Promised!Init
    BY DEF Init, Promised!Init, Owed, Waiting
  <1>2. QED
    BY <1>1, HubStep, HubTypeCorrect, HubInLine, HubStreams, PTL
    DEF Spec, ImplementsStreams, Promised!Spec
=============================================================================
