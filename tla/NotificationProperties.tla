----------------------- MODULE NotificationProperties -----------------------
(***************************************************************************)
(* What the recipients of notifications may rely on.                       *)
(***************************************************************************)
EXTENDS NotificationService

(* The calls of MarkRead that may still succeed.                           *)
Asked ==
  {<<call[h].user, call[h].note>> :
     h \in {o \in Handlers : call[o].step \in {"lock", "update", "commit", "answer"}}}

Promised ==
  INSTANCE Inbox WITH inbox <- note, told <- told, asked <- Asked, Clock <- Time

(* The service implements the inbox: only a call of the recipient marks a  *)
(* notification, and however many calls mark it at once, fail, or commit   *)
(* without knowing, all answers of success give the one time the row keeps *)
(* (notifications/service.go:62-122; SPEC.md:1219 "Marking an already-read *)
(* notification succeeds and returns the existing readAt").                *)
ImplementsInbox == Promised!Spec

(* The unread count of an answer differs from the unread of its list by    *)
(* what was committed between the two queries, and by nothing else         *)
(* (router.go:324-334: no transaction spans them).                         *)
CountFollowsList ==
  \A h \in Handlers :
    At(h, "listed") =>
      call[h].count = Cardinality(call[h].unread) + call[h].news

(* Every call is answered: none waits for ever for a row, though others    *)
(* are refused or fail while they hold it (the deferred Rollback of        *)
(* notifications/service.go:70).                                           *)
CallsAreAnswered ==
  \A h \in Handlers : call[h] # Idle ~> call[h] = Idle
=============================================================================
