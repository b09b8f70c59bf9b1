---------------------------- MODULE EventStreams ----------------------------
(***************************************************************************)
(* What the hub promises each connection, and what LivePage takes for      *)
(* granted: an event goes to every addressee who is there at that moment,  *)
(* is put at the end of his stream or, only if that is full, dropped, and  *)
(* the stream comes out as it was put in, up to the point where the        *)
(* browser is lost. There are no locks, maps, goroutines or channels here; *)
(* EventHub is shown to implement this module.                             *)
(***************************************************************************)
EXTENDS Integers, Sequences

CONSTANTS
  Connections,
  Messages,
  Addressees,   \* of each message: the connections it is meant for
  Capacity

VARIABLES
  there,      \* the connections that take events
  owed,       \* what has been addressed and not yet put or dropped
  stream,     \* what waits for each connection, oldest first
  arrived     \* what each has been given

vars == <<there, owed, stream, arrived>>

Init ==
  /\ there = {}
  /\ owed = {}
  /\ stream = [c \in Connections |-> <<>>]
  /\ arrived = [c \in Connections |-> <<>>]

ComeOrGo(c) ==
  /\ there' \in {there \cup {c}, there \ {c}}
  /\ UNCHANGED <<owed, stream, arrived>>

(* To all there are at once.                                               *)
Address(m) ==
  /\ owed' = owed \cup [to : there \cap Addressees[m], message : {m}]
  /\ UNCHANGED <<there, stream, arrived>>

(* One that is being written still counts as waiting or counts no more.    *)
Put(d) ==
  /\ owed' = owed \ {d}
  /\ \/ /\ Len(stream[d.to]) <= Capacity
        /\ stream' = [stream EXCEPT ![d.to] = Append(@, d.message)]
     \/ /\ Len(stream[d.to]) >= Capacity
        /\ UNCHANGED stream
  /\ UNCHANGED <<there, arrived>>

Give(c) ==
  /\ stream[c] # <<>>
  /\ stream' = [stream EXCEPT ![c] = Tail(@)]
  /\ arrived' = [arrived EXCEPT ![c] = Append(@, Head(stream[c]))]
  /\ UNCHANGED <<there, owed>>

(* Writing fails: the event is lost.                                       *)
Lose(c) ==
  /\ stream[c] # <<>>
  /\ stream' = [stream EXCEPT ![c] = Tail(@)]
  /\ UNCHANGED <<there, owed, arrived>>

Next ==
  \/ \E c \in Connections : ComeOrGo(c) \/ Give(c) \/ Lose(c)
  \/ \E m \in Messages : Address(m)
  \/ \E d \in owed : Put(d)

Spec == Init /\ [][Next]_vars
=============================================================================
