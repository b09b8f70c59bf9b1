------------------------------- MODULE Inbox --------------------------------
(***************************************************************************)
(* What the notifications service promises: a notification is read once,   *)
(* by a call of its recipient, at a time that never changes, and every     *)
(* answer gives that time as the database keeps it, to him alone. A call   *)
(* may end unanswered at any time, having been carried out or not. There   *)
(* are no transactions and locks here; NotificationService is shown to     *)
(* implement this module.                                                  *)
(***************************************************************************)
EXTENDS Integers

CONSTANTS
  Users, Notes, NoUser,
  Clock,        \* the readings of the clock
  Resolution    \* of the times the database keeps

VARIABLES
  inbox,      \* the notifications: for whom, and when read
  told,       \* the answers given: to whom, of which, and what time
  asked       \* who has a call under way to mark which notification

vars == <<inbox, told, asked>>

Unread == -1

NoNote == [to |-> NoUser, readAt |-> Unread]

(* The nearest multiple of the database's resolution.                      *)
Kept(t) == ((2 * t + Resolution) \div (2 * Resolution)) * Resolution

Init ==
  /\ inbox = [n \in Notes |-> NoNote]
  /\ told = {}
  /\ asked = {}

Arrive(n, u) ==
  /\ inbox[n] = NoNote
  /\ inbox' = [inbox EXCEPT ![n].to = u]
  /\ UNCHANGED <<told, asked>>

Ask(n, u) ==
  /\ asked' = asked \cup {<<u, n>>}
  /\ UNCHANGED <<inbox, told>>

(* The calls that are no longer under way after a step.                    *)
SomeEnd == asked' \in SUBSET asked

GiveUp ==
  /\ SomeEnd
  /\ UNCHANGED <<inbox, told>>

Read(n, t) ==
  /\ <<inbox[n].to, n>> \in asked
  /\ inbox[n] # NoNote /\ inbox[n].readAt = Unread
  /\ inbox' = [inbox EXCEPT ![n].readAt = Kept(t)]
  /\ SomeEnd
  /\ UNCHANGED told

Tell(n, u, t) ==
  /\ <<u, n>> \in asked
  /\ inbox[n].to = u
  /\ inbox[n].readAt # Unread /\ inbox[n].readAt = Kept(t)
  /\ told' = told \cup {[to |-> u, note |-> n, readAt |-> t]}
  /\ SomeEnd
  /\ UNCHANGED inbox

Next ==
  \/ \E n \in Notes :
       \/ \E u \in Users : Arrive(n, u) \/ Ask(n, u)
       \/ \E t \in Clock : Read(n, t)
       \/ \E u \in Users, t \in Clock \cup {Kept(x) : x \in Clock} : Tell(n, u, t)
  \/ GiveUp

Spec == Init /\ [][Next]_vars
=============================================================================
