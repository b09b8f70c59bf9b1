------------------------ MODULE NotificationService -------------------------
(***************************************************************************)
(* The notifications of several users: MarkRead of                         *)
(* notifications/service.go, and the endpoint that answers with the list   *)
(* and the unread count of its caller (httpapi/router.go). The scheduling  *)
(* service adds notifications; users never change organization, so a row   *)
(* of another organization is one of another user.                         *)
(*                                                                         *)
(* Messages, types, jobs and the order of the list are left out, ids that  *)
(* are not positive are turned away before anything is read, and locks of  *)
(* ids that have no row are left out: no other call waits for them.        *)
(***************************************************************************)
EXTENDS Integers, FiniteSets

CONSTANTS
  Users,
  Notes,        \* the ids of the notifications table
  Handlers,     \* calls at work at a time
  NoUser,
  NoHandler,
  Resolution,   \* ticks of the clock in the smallest step of a DATETIME(6)
  MaxNow        \* bound: the clock

ASSUME NotificationAssumption ==
  /\ NoUser \notin Users
  /\ NoHandler \notin Handlers
  /\ IsFiniteSet(Notes)
  /\ Resolution \in Nat \ {0}
  /\ MaxNow \in Nat

VARIABLES
  now,      \* the server's clock
  note,     \* the notifications table, as committed
  locker,   \* the call whose transaction has locked a row
  call,     \* the calls at work
  told      \* the answers of MarkRead so far

vars == <<now, note, locker, call, told>>

Unread == -1
Time == 0..MaxNow

NoNote == [to |-> NoUser, readAt |-> Unread]

(* MySQL rounds to the nearest microsecond, a half up.                     *)
Stored(t) == ((2 * t + Resolution) \div (2 * Resolution)) * Resolution

StoredTime == {Stored(t) : t \in Time}

Row == [to : Users, readAt : StoredTime \cup {Unread}]

Idle == [step |-> "idle"]
Refused == [step |-> "refused"]

(* readAt: what the transaction has read or written.                       *)
Mark ==
  [step : {"lock", "update", "commit", "answer"},
   user : Users, note : Notes, readAt : Time \cup StoredTime \cup {Unread}]

(* unread: the rows listed as not read; news: how many of the caller's     *)
(* have come since, less those that have been marked.                      *)
List ==
  [step : {"list", "count", "listed"}, user : Users,
   unread : SUBSET Notes, count : Nat, news : Int]

TypeOK ==
  /\ now \in Time
  /\ note \in [Notes -> Row \cup {NoNote}]
  /\ locker \in [Notes -> Handlers \cup {NoHandler}]
  /\ call \in [Handlers -> Mark \cup List \cup {Idle, Refused}]
  /\ told \subseteq [to : Users, note : Notes, readAt : Time \cup StoredTime]

Init ==
  /\ now = 0
  /\ note = [n \in Notes |-> NoNote]
  /\ locker = [n \in Notes |-> NoHandler]
  /\ call = [h \in Handlers |-> Idle]
  /\ told = {}

-----------------------------------------------------------------------------
At(h, step) == call[h].step = step

Become(h, c) == [call EXCEPT ![h] = c]

End(h) == Become(h, Idle)

Release(h) ==
  locker' = [n \in Notes |-> IF locker[n] = h THEN NoHandler ELSE locker[n]]

(* The calls, with the commit of a change of a user's unread noted by his  *)
(* lists under way.                                                        *)
Noting(calls, u, change) ==
  [h \in Handlers |->
     IF calls[h].step = "count" /\ calls[h].user = u
     THEN [calls[h] EXCEPT !.news = @ + change] ELSE calls[h]]

-----------------------------------------------------------------------------
(* MarkRead.                                                               *)

StartMark(h, u, n) ==
  /\ call[h] = Idle
  /\ call' = Become(h,
       [step |-> "lock", user |-> u, note |-> n, readAt |-> Unread])
  /\ UNCHANGED <<now, note, locker, told>>

(* not_found, and forbidden. Both end the call in the same way.            *)
Missing(h) == note[call[h].note] = NoNote

Forbidden(h) == note[call[h].note].to # call[h].user

AfterLocking(h) ==
  IF note[call[h].note].readAt = Unread THEN "update" ELSE "commit"

(* Slip: no FOR UPDATE.                                                    *)
SelectPlainly(h) ==
  /\ At(h, "lock")
  /\ call' = IF Missing(h) \/ Forbidden(h) THEN Become(h, Refused)
             ELSE Become(h, [call[h] EXCEPT !.step = AfterLocking(h),
                                            !.readAt = note[call[h].note].readAt])
  /\ UNCHANGED <<now, note, locker, told>>

SelectForUpdate(h) ==
  LET n == call[h].note IN
  /\ At(h, "lock")
  /\ locker[n] = NoHandler
  /\ locker' = IF Missing(h) THEN locker ELSE [locker EXCEPT ![n] = h]
  /\ call' = IF Missing(h) \/ Forbidden(h) THEN Become(h, Refused)
             ELSE Become(h, [call[h] EXCEPT !.step = AfterLocking(h),
                                            !.readAt = note[n].readAt])
  /\ UNCHANGED <<now, note, told>>

Update(h) ==
  /\ At(h, "update")
  /\ call' = Become(h, [call[h] EXCEPT !.step = "commit", !.readAt = now])
  /\ UNCHANGED <<now, note, locker, told>>

(* The row that was updated is visible to others; the acknowledgement may  *)
(* be lost.                                                                *)
Commit(h) ==
  LET n == call[h].note IN
  /\ At(h, "commit")
  /\ note' = [note EXCEPT ![n].readAt = Stored(call[h].readAt)]
  /\ \E calls \in {Become(h, [call[h] EXCEPT !.step = "answer"]), Become(h, Refused)} :
       call' = IF note[n].readAt = Unread THEN Noting(calls, note[n].to, -1) ELSE calls
  /\ Release(h)
  /\ UNCHANGED <<now, told>>

Answer(h) ==
  /\ At(h, "answer")
  /\ told' = told \cup
       {[to |-> call[h].user, note |-> call[h].note, readAt |-> call[h].readAt]}
  /\ call' = End(h)
  /\ UNCHANGED <<now, note, locker>>

(* A statement fails, or the server dies.                                  *)
Fail(h) ==
  /\ call[h].step \in {"lock", "update", "commit"}
  /\ call' = Become(h, Refused)
  /\ UNCHANGED <<now, note, locker, told>>

(* Slip: no deferred Rollback.                                             *)
RefuseWithoutRollback(h) ==
  /\ At(h, "refused")
  /\ call' = End(h)
  /\ UNCHANGED <<now, note, locker, told>>

Refuse(h) ==
  /\ At(h, "refused")
  /\ call' = End(h)
  /\ Release(h)
  /\ UNCHANGED <<now, note, told>>

-----------------------------------------------------------------------------
(* GET /api/notifications: two queries, each of what is committed when it  *)
(* is run.                                                                 *)

UnreadOf(u) == {n \in Notes : note[n].to = u /\ note[n].readAt = Unread}

StartList(h, u) ==
  /\ call[h] = Idle
  /\ call' = Become(h,
       [step |-> "list", user |-> u, unread |-> {}, count |-> 0, news |-> 0])
  /\ UNCHANGED <<now, note, locker, told>>

ListNotifications(h) ==
  /\ At(h, "list")
  /\ call' = Become(h, [call[h] EXCEPT !.step = "count", !.unread = UnreadOf(call[h].user)])
  /\ UNCHANGED <<now, note, locker, told>>

(* Slip: rows that have been read are counted too.                         *)
CountAll(h) ==
  /\ At(h, "count")
  /\ call' = Become(h, [call[h] EXCEPT !.step = "listed",
       !.count = Cardinality({n \in Notes : note[n].to = call[h].user})])
  /\ UNCHANGED <<now, note, locker, told>>

UnreadCount(h) ==
  /\ At(h, "count")
  /\ call' = Become(h, [call[h] EXCEPT !.step = "listed",
       !.count = Cardinality(UnreadOf(call[h].user))])
  /\ UNCHANGED <<now, note, locker, told>>

(* The answer, or an error at any time.                                    *)
EndList(h) ==
  /\ call[h].step \in {"list", "count", "listed"}
  /\ call' = End(h)
  /\ UNCHANGED <<now, note, locker, told>>

-----------------------------------------------------------------------------
(* A commit of the scheduling service adds a notification.                 *)
Insert(n, u) ==
  /\ note[n] = NoNote
  /\ note' = [note EXCEPT ![n].to = u]
  /\ call' = Noting(call, u, 1)
  /\ UNCHANGED <<now, locker, told>>

Tick ==
  /\ now < MaxNow
  /\ now' = now + 1
  /\ UNCHANGED <<note, locker, call, told>>

Start(h) ==
  \E u \in Users : StartList(h, u) \/ \E n \in Notes : StartMark(h, u, n)

MarkRead(h) == Update(h) \/ Commit(h) \/ Answer(h) \/ Refuse(h)

Lists(h) == ListNotifications(h) \/ UnreadCount(h) \/ EndList(h)

Next ==
  \/ \E h \in Handlers : Start(h) \/ SelectForUpdate(h) \/ MarkRead(h) \/ Fail(h) \/ Lists(h)
  \/ \E n \in Notes, u \in Users : Insert(n, u)
  \/ Tick

Spec == Init /\ [][Next]_vars

(* A handler that can go on does; the database grants a row lock to a call *)
(* that waits for it, though others want it as well. Nothing needs to fail.*)
FairSpec ==
  /\ Spec
  /\ \A h \in Handlers :
       SF_vars(SelectForUpdate(h)) /\ WF_vars(MarkRead(h)) /\ WF_vars(Lists(h))
=============================================================================
