------------------------- MODULE NotificationProofs -------------------------
(***************************************************************************)
(* Proofs about the notifications, for any users, notifications, calls and *)
(* any resolution of the clock: however many calls mark a notification,    *)
(* fail, or commit without knowing, the service is the inbox it promises,  *)
(* and the two queries of a list differ by what came between them.         *)
(***************************************************************************)
EXTENDS NotificationProperties, FiniteSetTheorems, TLAPS

MarkSteps == {"lock", "update", "commit", "answer"}

ListSteps == {"list", "count", "listed"}

(* The step of a call tells what kind of call it is.                       *)
LEMMA CallShapes ==
  ASSUME NEW c \in Mark \cup List \cup {Idle, Refused}
  PROVE  /\ c.step \in MarkSteps <=> c \in Mark
         /\ c.step \in ListSteps <=> c \in List
         /\ c.step = "idle" <=> c = Idle
         /\ c.step = "refused" <=> c = Refused
         /\ c.step \in MarkSteps \cup ListSteps \cup {"idle", "refused"}
  BY DEF Mark, List, Idle, Refused, MarkSteps, ListSteps

-----------------------------------------------------------------------------
(* Times as the column keeps them.                                         *)

LEMMA Quotient ==
  ASSUME NEW a \in Nat, NEW d \in Nat \ {0}
  PROVE  /\ a \div d \in Nat
         /\ d * (a \div d) <= a
         /\ a < d * (a \div d) + d
  OBVIOUS

LEMMA QuotientIs ==
  ASSUME NEW a \in Nat, NEW d \in Nat \ {0}, NEW k \in Nat,
         d * k <= a, a < d * k + d
  PROVE  a \div d = k
  <1> DEFINE q == a \div d
  <1>1. q \in Nat /\ d * q <= a /\ a < d * q + d
    BY Quotient
  <1>2. CASE q < k
    <2>1. d * (q + 1) <= d * k
      BY <1>1, <1>2
    <2>2. QED
      BY <1>1, <2>1
  <1>3. CASE q > k
    BY <1>1, <1>3
  <1>4. QED
    BY <1>1, <1>2, <1>3

(* A time that has been rounded is rounded to itself.                      *)
LEMMA StoredOnce ==
  ASSUME NEW t \in Nat
  PROVE  Stored(t) \in Nat /\ Stored(Stored(t)) = Stored(t)
  <1> DEFINE d == 2 * Resolution
             k == (2 * t + Resolution) \div d
  <1>1. Resolution \in Nat \ {0} /\ d \in Nat \ {0}
    BY NotificationAssumption
  <1>2. k \in Nat
    BY <1>1, Quotient
  <1>3. Stored(t) = k * Resolution /\ Stored(t) \in Nat
    BY <1>1, <1>2 DEF Stored
  <1>4. (2 * Stored(t) + Resolution) \div d = k
    <2> HIDE DEF k
    <2>1. 2 * Stored(t) = d * k
      BY <1>1, <1>2, <1>3
    <2>2. d * k \in Nat
      BY <1>1, <1>2
    <2> DEFINE a == 2 * Stored(t) + Resolution
    <2>3. a \in Nat /\ d * k <= a /\ a < d * k + d
      BY <1>1, <2>1, <2>2
    <2> HIDE DEF a
    <2>4. a \div d = k
      BY <1>1, <1>2, <2>3, QuotientIs
    <2>5. QED
      BY <2>4 DEF a
  <1>5. QED
    BY <1>3, <1>4 DEF Stored

LEMMA Times ==
  /\ \A t \in Time \cup StoredTime :
       t \in Nat /\ t # Unread /\ Stored(t) \in StoredTime /\ Stored(t) # Unread
  /\ \A t \in StoredTime : Stored(t) = t
  <1>1. Time \subseteq Nat
    BY NotificationAssumption DEF Time
  <1>2. QED
    BY <1>1, StoredOnce DEF StoredTime, Unread

-----------------------------------------------------------------------------
(* The inductive invariant. A call that has found its row has it locked    *)
(* until it commits, so that nobody else marks it between the SELECT and   *)
(* the COMMIT; what it then writes, or what it found, is what the row      *)
(* keeps for good.                                                         *)
MarkOK(h) ==
  LET c == call[h]
      row == note[c.note] IN
  /\ c.step \in {"update", "commit"} => locker[c.note] = h
  /\ c.step \in {"update", "commit", "answer"} => row.to = c.user
  /\ c.step = "update" => row.readAt = Unread
  /\ c.step = "commit" =>
       \/ row.readAt = Unread /\ c.readAt \in Time
       \/ row.readAt # Unread /\ row.readAt = c.readAt
  /\ c.step = "answer" =>
       c.readAt # Unread /\ row.readAt = Stored(c.readAt)

(* news counts what has happened to the unread since they were listed.     *)
ListOK(h) ==
  LET c == call[h] IN
  /\ c.step = "list" => c.news = 0
  /\ c.step = "count" =>
       Cardinality(UnreadOf(c.user)) = Cardinality(c.unread) + c.news
  /\ c.step = "listed" => c.count = Cardinality(c.unread) + c.news

IInv == TypeOK /\ \A h \in Handlers : MarkOK(h) /\ ListOK(h)

-----------------------------------------------------------------------------
(* The steps of one call that leave the table alone.                       *)
Aside(h) ==
  /\ note' = note
  /\ \A o \in Handlers \ {h} :
       /\ call'[o] = call[o]
       /\ \A n \in Notes : locker[n] = o => locker'[n] = o

LEMMA AsideStep ==
  ASSUME IInv, NEW h \in Handlers, Aside(h), TypeOK', MarkOK(h)', ListOK(h)'
  PROVE  IInv'
  <1>1. ASSUME NEW o \in Handlers, o # h PROVE MarkOK(o)' /\ ListOK(o)'
    <2>1. call'[o] = call[o] /\ note' = note /\ MarkOK(o) /\ ListOK(o)
      BY <1>1 DEF IInv, Aside
    <2>2. call[o].step \in {"update", "commit"} => call[o].note \in Notes
      BY CallShapes DEF IInv, TypeOK, MarkSteps, Mark
    <2>3. MarkOK(o)'
      BY <1>1, <2>1, <2>2 DEF Aside, MarkOK
    <2>4. ListOK(o)'
      BY <2>1 DEF ListOK, UnreadOf
    <2>5. QED
      BY <2>3, <2>4
  <1>2. QED
    BY <1>1 DEF IInv

(* What Become does.                                                       *)
LEMMA BecomeEffect ==
  ASSUME TypeOK, NEW h \in Handlers,
         NEW c \in Mark \cup List \cup {Idle, Refused}, call' = Become(h, c)
  PROVE  /\ call' \in [Handlers -> Mark \cup List \cup {Idle, Refused}]
         /\ call'[h] = c
         /\ \A o \in Handlers \ {h} : call'[o] = call[o]
  BY DEF TypeOK, Become

LEMMA ReleaseEffect ==
  ASSUME TypeOK, NEW h \in Handlers, Release(h)
  PROVE  /\ locker' \in [Notes -> Handlers \cup {NoHandler}]
         /\ \A o \in Handlers \ {h}, n \in Notes : locker[n] = o => locker'[n] = o
  BY DEF TypeOK, Release

(* A call that asks nothing of the table.                                  *)
LEMMA Outside ==
  ASSUME NEW h \in Handlers,
         call'[h].step \in {"idle", "lock", "list", "refused"},
         call'[h].step = "list" => call'[h].news = 0
  PROVE  MarkOK(h)' /\ ListOK(h)'
  BY DEF MarkOK, ListOK

LEMMA StartStep ==
  ASSUME IInv, NEW h \in Handlers, Start(h)
  PROVE  IInv'
  <1>1. ASSUME NEW c \in Mark \cup List, call' = Become(h, c),
               c.step \in {"lock", "list"}, c.step = "list" => c.news = 0,
               UNCHANGED <<now, note, locker, told>>
        PROVE  IInv'
    <2>1. /\ call' \in [Handlers -> Mark \cup List \cup {Idle, Refused}]
          /\ call'[h] = c
          /\ \A o \in Handlers \ {h} : call'[o] = call[o]
      BY <1>1, BecomeEffect DEF IInv
    <2>2. TypeOK' /\ Aside(h)
      BY <1>1, <2>1 DEF IInv, TypeOK, Aside
    <2>3. QED
      BY <1>1, <2>1, <2>2, Outside, AsideStep
  <1>2. ASSUME NEW u \in Users, NEW n \in Notes, StartMark(h, u, n)
        PROVE  IInv'
    <2> DEFINE c == [step |-> "lock", user |-> u, note |-> n, readAt |-> Unread]
    <2>1. c \in Mark /\ c.step = "lock"
      BY DEF Mark
    <2>2. call' = Become(h, c) /\ UNCHANGED <<now, note, locker, told>>
      BY <1>2 DEF StartMark
    <2> HIDE DEF c
    <2>3. QED
      BY <1>1, <2>1, <2>2
  <1>3. ASSUME NEW u \in Users, StartList(h, u)
        PROVE  IInv'
    <2> DEFINE c == [step |-> "list", user |-> u, unread |-> {}, count |-> 0, news |-> 0]
    <2>1. c \in List /\ c.step = "list" /\ c.news = 0
      BY DEF List
    <2>2. call' = Become(h, c) /\ UNCHANGED <<now, note, locker, told>>
      BY <1>3 DEF StartList
    <2> HIDE DEF c
    <2>3. QED
      BY <1>1, <2>1, <2>2
  <1>4. QED
    BY <1>2, <1>3 DEF Start

(* The SELECT finds the row as the last commit left it, and keeps it so.   *)
LEMMA SelectStep ==
  ASSUME IInv, NEW h \in Handlers, SelectForUpdate(h)
  PROVE  IInv'
  <1> DEFINE c == call[h]
             n == c.note
             row == note[n]
  <1>1. c \in Mark /\ n \in Notes /\ row \in Row \cup {NoNote}
    BY CallShapes DEF IInv, TypeOK, SelectForUpdate, At, MarkSteps, Mark
  <1>2. UNCHANGED <<now, note, told>> /\ locker[n] = NoHandler
    BY DEF SelectForUpdate
  <1>3. locker' = IF row = NoNote THEN locker ELSE [locker EXCEPT ![n] = h]
    BY DEF SelectForUpdate, Missing
  <1>4. CASE Missing(h) \/ Forbidden(h)
    <2>1. call' = Become(h, Refused)
      BY <1>4 DEF SelectForUpdate
    <2>2. /\ call' \in [Handlers -> Mark \cup List \cup {Idle, Refused}]
          /\ call'[h] = Refused
          /\ \A o \in Handlers \ {h} : call'[o] = call[o]
      BY <2>1, BecomeEffect DEF IInv
    <2>3. TypeOK' /\ Aside(h)
      BY <1>1, <1>2, <1>3, <2>2, NotificationAssumption DEF IInv, TypeOK, Aside
    <2>4. QED
      BY <2>2, <2>3, Outside, AsideStep DEF Refused
  <1>5. CASE ~(Missing(h) \/ Forbidden(h))
    <2> DEFINE d == [c EXCEPT !.step = AfterLocking(h), !.readAt = row.readAt]
    <2>1. row \in Row /\ row # NoNote /\ row.to = c.user
      BY <1>1, <1>5 DEF Missing, Forbidden
    <2>2. /\ d \in Mark
          /\ d.step = AfterLocking(h) /\ d.step \in {"update", "commit"}
          /\ d.note = n /\ d.user = c.user /\ d.readAt = row.readAt
      BY <1>1, <2>1 DEF Mark, Row, AfterLocking
    <2>3. call' = Become(h, d)
      BY <1>5 DEF SelectForUpdate
    <2> HIDE DEF d
    <2>4. /\ call' \in [Handlers -> Mark \cup List \cup {Idle, Refused}]
          /\ call'[h] = d
          /\ \A o \in Handlers \ {h} : call'[o] = call[o]
      BY <2>2, <2>3, BecomeEffect DEF IInv
    <2>5. locker' = [locker EXCEPT ![n] = h] /\ locker'[n] = h
      BY <1>1, <1>3, <2>1 DEF IInv, TypeOK
    <2>6. TypeOK' /\ Aside(h)
      BY <1>1, <1>2, <2>4, <2>5, NotificationAssumption DEF IInv, TypeOK, Aside
    <2>7. MarkOK(h)'
      BY <1>2, <2>1, <2>2, <2>4, <2>5 DEF MarkOK, AfterLocking
    <2>8. ListOK(h)'
      BY <2>2, <2>4 DEF ListOK
    <2>9. QED
      BY <2>6, <2>7, <2>8, AsideStep
  <1>6. QED
    BY <1>4, <1>5

LEMMA UpdateStep ==
  ASSUME IInv, NEW h \in Handlers, Update(h)
  PROVE  IInv'
  <1> DEFINE c == call[h]
             d == [c EXCEPT !.step = "commit", !.readAt = now]
  <1>1. c \in Mark /\ c.step = "update" /\ now \in Time
    BY CallShapes DEF IInv, TypeOK, Update, At, MarkSteps
  <1>2. /\ d \in Mark /\ d.step = "commit" /\ d.note = c.note
        /\ d.user = c.user /\ d.readAt = now
    BY <1>1 DEF Mark
  <1>3. UNCHANGED <<now, note, locker, told>> /\ call' = Become(h, d)
    BY DEF Update
  <1> HIDE DEF d
  <1>4. /\ call' \in [Handlers -> Mark \cup List \cup {Idle, Refused}]
        /\ call'[h] = d
        /\ \A o \in Handlers \ {h} : call'[o] = call[o]
    BY <1>2, <1>3, BecomeEffect DEF IInv
  <1>5. TypeOK' /\ Aside(h)
    BY <1>3, <1>4 DEF IInv, TypeOK, Aside
  <1>6. MarkOK(h)' /\ ListOK(h)'
    BY <1>1, <1>2, <1>3, <1>4 DEF IInv, MarkOK, ListOK
  <1>7. QED
    BY <1>5, <1>6, AsideStep

LEMMA AnswerStep ==
  ASSUME IInv, NEW h \in Handlers, Answer(h)
  PROVE  IInv'
  <1> DEFINE c == call[h]
             told1 == [to |-> c.user, note |-> c.note, readAt |-> c.readAt]
  <1>1. c \in Mark /\ c.readAt # Unread
    BY CallShapes DEF IInv, TypeOK, Answer, At, MarkSteps, MarkOK
  <1>2. told1 \in [to : Users, note : Notes, readAt : Time \cup StoredTime]
    BY <1>1 DEF Mark
  <1>3. UNCHANGED <<now, note, locker>> /\ told' = told \cup {told1}
    BY DEF Answer
  <1>4. call' = Become(h, Idle)
    BY DEF Answer, End
  <1>5. /\ call' \in [Handlers -> Mark \cup List \cup {Idle, Refused}]
        /\ call'[h] = Idle
        /\ \A o \in Handlers \ {h} : call'[o] = call[o]
    BY <1>4, BecomeEffect DEF IInv
  <1>6. TypeOK' /\ Aside(h)
    BY <1>2, <1>3, <1>5 DEF IInv, TypeOK, Aside
  <1>7. QED
    BY <1>5, <1>6, Outside, AsideStep DEF Idle

LEMMA FailStep ==
  ASSUME IInv, NEW h \in Handlers, Fail(h)
  PROVE  IInv'
  <1>1. UNCHANGED <<now, note, locker, told>> /\ call' = Become(h, Refused)
    BY DEF Fail
  <1>2. /\ call' \in [Handlers -> Mark \cup List \cup {Idle, Refused}]
        /\ call'[h] = Refused
        /\ \A o \in Handlers \ {h} : call'[o] = call[o]
    BY <1>1, BecomeEffect DEF IInv
  <1>3. TypeOK' /\ Aside(h)
    BY <1>1, <1>2 DEF IInv, TypeOK, Aside
  <1>4. QED
    BY <1>2, <1>3, Outside, AsideStep DEF Refused

LEMMA RefuseStep ==
  ASSUME IInv, NEW h \in Handlers, Refuse(h)
  PROVE  IInv'
  <1>1. /\ UNCHANGED <<now, note, told>> /\ call' = Become(h, Idle)
        /\ Release(h)
    BY DEF Refuse, End
  <1>2. /\ call' \in [Handlers -> Mark \cup List \cup {Idle, Refused}]
        /\ call'[h] = Idle
        /\ \A o \in Handlers \ {h} : call'[o] = call[o]
    BY <1>1, BecomeEffect DEF IInv
  <1>3. TypeOK' /\ Aside(h)
    BY <1>1, <1>2, ReleaseEffect DEF IInv, TypeOK, Aside
  <1>4. QED
    BY <1>2, <1>3, Outside, AsideStep DEF Idle

-----------------------------------------------------------------------------
(* The two queries of the list.                                            *)

LEMMA UnreadIsFinite ==
  ASSUME NEW u
  PROVE  /\ UnreadOf(u) \in SUBSET Notes
         /\ IsFiniteSet(UnreadOf(u))
         /\ Cardinality(UnreadOf(u)) \in Nat
  <1>1. UnreadOf(u) \in SUBSET Notes
    BY DEF UnreadOf
  <1>2. IsFiniteSet(UnreadOf(u))
    BY <1>1, NotificationAssumption, FS_Subset
  <1>3. QED
    BY <1>1, <1>2, FS_CardinalityType

LEMMA ListsStep ==
  ASSUME IInv, NEW h \in Handlers, Lists(h)
  PROVE  IInv'
  <1> DEFINE c == call[h]
  <1>1. UNCHANGED <<now, note, locker, told>>
    BY DEF Lists, ListNotifications, UnreadCount, EndList
  <1>2. c \in List /\ ListOK(h)
    BY CallShapes
    DEF IInv, TypeOK, Lists, ListNotifications, UnreadCount, EndList, At, ListSteps
  <1>3. /\ UnreadOf(c.user) \in SUBSET Notes
        /\ Cardinality(UnreadOf(c.user)) \in Nat
    BY UnreadIsFinite
  <1>4. ASSUME NEW d \in List \cup {Idle}, call' = Become(h, d),
               d.step # "idle" => d.step \in {"count", "listed"},
               d.step = "count" =>
                 Cardinality(UnreadOf(d.user)) = Cardinality(d.unread) + d.news,
               d.step = "listed" => d.count = Cardinality(d.unread) + d.news
        PROVE  IInv'
    <2>1. /\ call' \in [Handlers -> Mark \cup List \cup {Idle, Refused}]
          /\ call'[h] = d
          /\ \A o \in Handlers \ {h} : call'[o] = call[o]
      BY <1>4, BecomeEffect DEF IInv
    <2>2. TypeOK' /\ Aside(h)
      BY <1>1, <2>1 DEF IInv, TypeOK, Aside
    <2>3. MarkOK(h)'
      BY <1>4, <2>1 DEF MarkOK
    <2>4. ListOK(h)'
      BY <1>1, <1>4, <2>1 DEF ListOK, UnreadOf
    <2>5. QED
      BY <2>2, <2>3, <2>4, AsideStep
  <1>5. CASE ListNotifications(h)
    <2> DEFINE d == [c EXCEPT !.step = "count", !.unread = UnreadOf(c.user)]
    <2>1. c.news = 0 /\ call' = Become(h, d)
      BY <1>2, <1>5 DEF ListNotifications, At, ListOK
    <2>2. /\ d \in List /\ d.step = "count" /\ d.user = c.user
          /\ d.unread = UnreadOf(c.user) /\ d.news = 0
      BY <1>2, <1>3, <2>1 DEF List
    <2> HIDE DEF d
    <2>3. Cardinality(UnreadOf(d.user)) = Cardinality(d.unread) + d.news
      BY <1>3, <2>2
    <2>4. QED
      BY <1>4, <2>1, <2>2, <2>3
  <1>6. CASE UnreadCount(h)
    <2> DEFINE d == [c EXCEPT !.step = "listed", !.count = Cardinality(UnreadOf(c.user))]
    <2>1. call' = Become(h, d)
      BY <1>6 DEF UnreadCount
    <2>2. /\ d \in List /\ d.step = "listed"
          /\ d.count = Cardinality(UnreadOf(c.user))
          /\ d.unread = c.unread /\ d.news = c.news
      BY <1>2, <1>3 DEF List
    <2> HIDE DEF d
    <2>3. d.count = Cardinality(d.unread) + d.news
      BY <1>2, <1>6, <2>2 DEF ListOK, UnreadCount, At
    <2>4. QED
      BY <1>4, <2>1, <2>2, <2>3
  <1>7. CASE EndList(h)
    <2>1. call' = Become(h, Idle) /\ Idle.step = "idle"
      BY <1>7 DEF EndList, End, Idle
    <2>2. QED
      BY <1>4, <2>1
  <1>8. QED
    BY <1>5, <1>6, <1>7 DEF Lists

-----------------------------------------------------------------------------
(* The steps that change the table.                                        *)

LEMMA NotingEffect ==
  ASSUME NEW calls \in [Handlers -> Mark \cup List \cup {Idle, Refused}],
         NEW u, NEW change \in Int, call' = Noting(calls, u, change)
  PROVE  /\ call' \in [Handlers -> Mark \cup List \cup {Idle, Refused}]
         /\ \A o \in Handlers :
              IF calls[o].step = "count" /\ calls[o].user = u
              THEN call'[o] = [calls[o] EXCEPT !.news = @ + change]
              ELSE call'[o] = calls[o]
  <1>1. \A o \in Handlers :
          call'[o] = IF calls[o].step = "count" /\ calls[o].user = u
                     THEN [calls[o] EXCEPT !.news = @ + change] ELSE calls[o]
    BY DEF Noting
  <1>2. ASSUME NEW o \in Handlers
        PROVE  call'[o] \in Mark \cup List \cup {Idle, Refused}
    <2>1. CASE calls[o].step = "count" /\ calls[o].user = u
      <3>1. calls[o] \in List
        BY <2>1, CallShapes DEF ListSteps
      <3>2. [calls[o] EXCEPT !.news = @ + change] \in List
        BY <3>1 DEF List
      <3>3. QED
        BY <1>1, <2>1, <3>2
    <2>2. CASE ~(calls[o].step = "count" /\ calls[o].user = u)
      BY <1>1, <2>2
    <2>3. QED
      BY <2>1, <2>2
  <1>3. call' \in [Handlers -> Mark \cup List \cup {Idle, Refused}]
    BY <1>2 DEF Noting
  <1>4. QED
    BY <1>1, <1>3

(* What is counted of a list under way keeps pace with the table when the  *)
(* unread of u change by as many.                                          *)
LEMMA CountsKeepPace ==
  ASSUME IInv, NEW o \in Handlers, NEW u, NEW change \in Int,
         Cardinality(UnreadOf(u)') = Cardinality(UnreadOf(u)) + change,
         \A v \in Users : v # u => UnreadOf(v)' = UnreadOf(v),
         IF call[o].step = "count" /\ call[o].user = u
         THEN call'[o] = [call[o] EXCEPT !.news = @ + change]
         ELSE call'[o] = call[o]
  PROVE  ListOK(o)'
  <1>1. ListOK(o)
    BY DEF IInv
  <1>2. CASE call[o].step = "count" /\ call[o].user = u
    <2>1. call[o] \in List
      BY <1>2, CallShapes DEF IInv, TypeOK, ListSteps
    <2>2. /\ call'[o].step = "count" /\ call'[o].user = u
          /\ call'[o].unread = call[o].unread
          /\ call'[o].news = call[o].news + change
      BY <1>2, <2>1 DEF List
    <2>3. /\ Cardinality(UnreadOf(u)) = Cardinality(call[o].unread) + call[o].news
          /\ Cardinality(UnreadOf(u)) \in Nat
          /\ call[o].news \in Int
      BY <1>1, <1>2, <2>1, UnreadIsFinite DEF ListOK, List
    <2>4. Cardinality(call[o].unread) \in Nat
      BY <2>1, NotificationAssumption, FS_Subset, FS_CardinalityType DEF List
    <2>5. QED
      BY <2>2, <2>3, <2>4 DEF ListOK
  <1>3. CASE ~(call[o].step = "count" /\ call[o].user = u)
    <2>1. call'[o] = call[o]
      BY <1>3
    <2>2. PICK v : v = call[o].user
      OBVIOUS
    <2>3. call[o].step = "count" => v \in Users \ {u}
      BY <1>3, <2>2, CallShapes DEF IInv, TypeOK, ListSteps, List
    <2>4. call[o].step = "count" => UnreadOf(v)' = UnreadOf(v)
      BY <2>3
    <2>5. QED
      BY <1>1, <2>1, <2>2, <2>4 DEF ListOK, UnreadOf
  <1>4. QED
    BY <1>2, <1>3

(* A commit writes what the row already holds, or the first time.          *)
LEMMA CommitWrites ==
  ASSUME IInv, NEW h \in Handlers, Commit(h)
  PROVE  LET c == call[h]
             row == note[c.note] IN
         /\ c \in Mark /\ c.note \in Notes /\ c.step = "commit"
         /\ row \in Row /\ row.to = c.user /\ locker[c.note] = h
         /\ note' = [note EXCEPT ![c.note].readAt = Stored(c.readAt)]
         /\ Stored(c.readAt) \in StoredTime /\ Stored(c.readAt) # Unread
         /\ row.readAt = Unread => c.readAt \in Time
         /\ row.readAt # Unread => row.readAt = Stored(c.readAt) /\ note' = note
  <1> DEFINE c == call[h]
             row == note[c.note]
  <1>1. /\ c \in Mark /\ c.note \in Notes /\ c.user \in Users
        /\ c.step = "commit" /\ MarkOK(h)
    BY CallShapes DEF IInv, TypeOK, Commit, At, MarkSteps, Mark
  <1>2. row \in Row /\ row.to = c.user /\ locker[c.note] = h
    BY <1>1, NotificationAssumption DEF IInv, TypeOK, MarkOK, NoNote
  <1>3. note' = [note EXCEPT ![c.note].readAt = Stored(c.readAt)]
    BY DEF Commit
  <1>4. /\ row.readAt = Unread => c.readAt \in Time
        /\ row.readAt # Unread => row.readAt = c.readAt /\ c.readAt \in StoredTime
    BY <1>1, <1>2 DEF MarkOK, Row
  <1>5. Stored(c.readAt) \in StoredTime /\ Stored(c.readAt) # Unread
    BY <1>4, Times
  <1>6. row.readAt # Unread => row.readAt = Stored(c.readAt)
    BY <1>4, Times
  <1>7. row.readAt # Unread => note' = note
    BY <1>1, <1>2, <1>3, <1>6 DEF IInv, TypeOK, Row
  <1>8. QED
    BY <1>1, <1>2, <1>3, <1>4, <1>5, <1>6, <1>7

LEMMA CommitStep ==
  ASSUME IInv, NEW h \in Handlers, Commit(h)
  PROVE  IInv'
  <1> DEFINE c == call[h]
             n == c.note
             row == note[n]
  <1>1. /\ c \in Mark /\ n \in Notes /\ c.step = "commit"
        /\ row \in Row /\ row.to = c.user /\ locker[n] = h
        /\ note' = [note EXCEPT ![n].readAt = Stored(c.readAt)]
        /\ Stored(c.readAt) \in StoredTime /\ Stored(c.readAt) # Unread
        /\ row.readAt = Unread => c.readAt \in Time
        /\ row.readAt # Unread => row.readAt = Stored(c.readAt) /\ note' = note
    BY CommitWrites
  <1>2. /\ locker' \in [Notes -> Handlers \cup {NoHandler}]
        /\ \A o \in Handlers \ {h}, m \in Notes : locker[m] = o => locker'[m] = o
    BY ReleaseEffect DEF IInv, Commit
  <1>3. UNCHANGED <<now, told>>
    BY DEF Commit
  <1> PICK u \in Users : u = row.to
    BY <1>1 DEF Row
  <1>4. /\ note' \in [Notes -> Row \cup {NoNote}]
        /\ note'[n].readAt = Stored(c.readAt) /\ note'[n].to = row.to
        /\ \A m \in Notes : m # n => note'[m] = note[m]
    BY <1>1 DEF IInv, TypeOK, Row
  <1>5. c.readAt # Unread
    BY <1>1, Times DEF MarkOK, IInv, Row
  <1>6. PICK d \in {[c EXCEPT !.step = "answer"], Refused} :
          call' = IF row.readAt = Unread THEN Noting(Become(h, d), row.to, -1)
                  ELSE Become(h, d)
    BY DEF Commit
  <1>7. /\ d \in Mark \cup {Refused} /\ d.step \in {"answer", "refused"}
        /\ d.step = "answer" => d.note = n /\ d.user = c.user /\ d.readAt = c.readAt
    BY <1>1, <1>6 DEF Mark, Refused
  <1> DEFINE calls == Become(h, d)
  <1>8. /\ calls \in [Handlers -> Mark \cup List \cup {Idle, Refused}]
        /\ calls[h] = d
        /\ \A o \in Handlers \ {h} : calls[o] = call[o]
    BY <1>7 DEF IInv, TypeOK, Become
  <1> HIDE DEF calls
  <1>9. d.step = "answer" /\ call'[h] = d => MarkOK(h)'
    BY <1>1, <1>4, <1>5, <1>7 DEF MarkOK
  <1>10. CASE row.readAt # Unread
    <2>1. call' = calls /\ note' = note
      BY <1>1, <1>6, <1>10 DEF calls
    <2>2. TypeOK' /\ Aside(h)
      BY <1>2, <1>3, <1>8, <2>1 DEF IInv, TypeOK, Aside
    <2>3. MarkOK(h)' /\ ListOK(h)'
      BY <1>7, <1>8, <1>9, <2>1 DEF MarkOK, ListOK
    <2>4. QED
      BY <2>2, <2>3, AsideStep
  <1>11. CASE row.readAt = Unread
    <2>1. call' = Noting(calls, u, -1)
      BY <1>6, <1>11 DEF calls
    <2>2. /\ call' \in [Handlers -> Mark \cup List \cup {Idle, Refused}]
          /\ \A o \in Handlers :
               IF calls[o].step = "count" /\ calls[o].user = u
               THEN call'[o] = [calls[o] EXCEPT !.news = @ + (-1)]
               ELSE call'[o] = calls[o]
      BY <1>8, <2>1, NotingEffect
    <2>3. TypeOK'
      BY <1>2, <1>3, <1>4, <2>2 DEF IInv, TypeOK
    <2>4. call'[h] = d
      BY <1>7, <1>8, <2>2
    <2>5. MarkOK(h)' /\ ListOK(h)'
      BY <1>7, <1>9, <2>4 DEF MarkOK, ListOK
    <2>6. UnreadOf(u)' = UnreadOf(u) \ {n} /\ n \in UnreadOf(u)
      BY <1>1, <1>4, <1>11 DEF UnreadOf
    <2>7. \A v \in Users : v # u => UnreadOf(v)' = UnreadOf(v)
      BY <1>1, <1>4, <1>11 DEF UnreadOf
    <2>8. Cardinality(UnreadOf(u)') = Cardinality(UnreadOf(u)) + (-1)
      <3> DEFINE U == UnreadOf(u)
      <3>1. n \in U /\ IsFiniteSet(U) /\ Cardinality(U) \in Nat
        BY <2>6, UnreadIsFinite
      <3>2. PICK m : m = n
        OBVIOUS
      <3>3. Cardinality(U \ {m}) = Cardinality(U) - 1
        <4> HIDE DEF U
        <4>1. m \in U
          BY <3>1, <3>2
        <4>2. QED
          BY <3>1, <4>1, FS_RemoveElement
      <3>4. QED
        BY <2>6, <3>1, <3>2, <3>3
    <2>9. ASSUME NEW o \in Handlers, o # h PROVE MarkOK(o)' /\ ListOK(o)'
      <3>1. IF call[o].step = "count" /\ call[o].user = u
            THEN call'[o] = [call[o] EXCEPT !.news = @ + (-1)]
            ELSE call'[o] = call[o]
        BY <1>8, <2>2, <2>9
      <3>2. ListOK(o)'
        BY <2>7, <2>8, <3>1, CountsKeepPace
      <3>3. MarkOK(o)'
        <4>1. CASE call[o].step \notin {"update", "commit", "answer"}
          <5>1. call[o].step = "count" => call[o] \in List
            BY CallShapes DEF IInv, TypeOK, ListSteps
          <5>2. call'[o].step = call[o].step
            BY <3>1, <5>1 DEF List
          <5>3. QED
            BY <4>1, <5>2 DEF MarkOK
        <4>2. CASE call[o].step \in {"update", "commit", "answer"}
          <5>1. call'[o] = call[o] /\ MarkOK(o) /\ call[o].note \in Notes
            BY <3>1, <4>2, CallShapes DEF IInv, TypeOK, MarkSteps, Mark
          <5>2. call[o].note # n
            <6>1. CASE call[o].step = "answer"
              <7>1. call[o].readAt \in Time \cup StoredTime
                BY <5>1, <6>1, CallShapes DEF MarkOK, IInv, TypeOK, Mark, MarkSteps
              <7>2. note[call[o].note].readAt = Stored(call[o].readAt)
                BY <5>1, <6>1 DEF MarkOK
              <7>3. QED
                BY <1>11, <7>1, <7>2, Times
            <6>2. CASE call[o].step # "answer"
              BY <1>1, <2>9, <4>2, <5>1, <6>2 DEF MarkOK
            <6>3. QED
              BY <6>1, <6>2
          <5>3. QED
            BY <1>2, <1>4, <2>9, <5>1, <5>2 DEF MarkOK
        <4>3. QED
          BY <4>1, <4>2
      <3>4. QED
        BY <3>2, <3>3
    <2>10. QED
      BY <2>3, <2>5, <2>9 DEF IInv
  <1>12. QED
    BY <1>10, <1>11

LEMMA InsertStep ==
  ASSUME IInv, NEW n \in Notes, NEW u \in Users, Insert(n, u)
  PROVE  IInv'
  <1>1. note[n] = NoNote /\ UNCHANGED <<now, locker, told>>
    BY DEF Insert
  <1>2. /\ note' \in [Notes -> Row \cup {NoNote}]
        /\ note'[n].to = u /\ note'[n].readAt = Unread
        /\ \A m \in Notes : m # n => note'[m] = note[m]
    BY DEF Insert, IInv, TypeOK, NoNote, Row
  <1>3. /\ call' \in [Handlers -> Mark \cup List \cup {Idle, Refused}]
        /\ \A o \in Handlers :
             IF call[o].step = "count" /\ call[o].user = u
             THEN call'[o] = [call[o] EXCEPT !.news = @ + 1]
             ELSE call'[o] = call[o]
    BY NotingEffect DEF Insert, IInv, TypeOK
  <1>4. TypeOK'
    BY <1>1, <1>2, <1>3 DEF IInv, TypeOK
  <1>5. UnreadOf(u)' = UnreadOf(u) \cup {n} /\ n \notin UnreadOf(u)
    BY <1>1, <1>2, NotificationAssumption DEF UnreadOf, NoNote
  <1>6. \A v \in Users : v # u => UnreadOf(v)' = UnreadOf(v)
    BY <1>1, <1>2, NotificationAssumption DEF UnreadOf, NoNote
  <1>7. Cardinality(UnreadOf(u)') = Cardinality(UnreadOf(u)) + 1
    BY <1>5, UnreadIsFinite, FS_AddElement
  <1>8. ASSUME NEW o \in Handlers PROVE MarkOK(o)'
    <2>1. CASE call[o].step \notin {"update", "commit", "answer"}
      <3>1. call[o].step = "count" => call[o] \in List
        BY CallShapes DEF IInv, TypeOK, ListSteps
      <3>2. call'[o].step = call[o].step
        BY <1>3, <3>1 DEF List
      <3>3. QED
        BY <2>1, <3>2 DEF MarkOK
    <2>2. CASE call[o].step \in {"update", "commit", "answer"}
      <3>1. /\ call'[o] = call[o] /\ MarkOK(o)
            /\ call[o].note \in Notes /\ call[o].user \in Users
        BY <1>3, <2>2, CallShapes DEF IInv, TypeOK, MarkSteps, Mark
      <3>2. call[o].note # n
        BY <1>1, <2>2, <3>1, NotificationAssumption DEF MarkOK, NoNote
      <3>3. QED
        BY <1>1, <1>2, <3>1, <3>2 DEF MarkOK
    <2>3. QED
      BY <2>1, <2>2
  <1>9. ASSUME NEW o \in Handlers PROVE ListOK(o)'
    BY <1>3, <1>6, <1>7, CountsKeepPace
  <1>10. QED
    BY <1>4, <1>8, <1>9 DEF IInv

LEMMA TickStep ==
  ASSUME IInv, Tick \/ UNCHANGED vars
  PROVE  IInv'
  <1>1. UNCHANGED <<note, locker, call, told>> /\ now' \in Time
    BY NotificationAssumption DEF IInv, TypeOK, Tick, vars, Time
  <1>2. QED
    BY <1>1 DEF IInv, TypeOK, MarkOK, ListOK, UnreadOf

LEMMA InvariantInit == Init => IInv
  BY NotificationAssumption
  DEF Init, IInv, TypeOK, MarkOK, ListOK, Time, Idle

LEMMA InvariantStep == IInv /\ [Next]_vars => IInv'
  <1> SUFFICES ASSUME IInv, [Next]_vars PROVE IInv'
    OBVIOUS
  <1>1. CASE \E h \in Handlers : Start(h) \/ SelectForUpdate(h) \/ Fail(h) \/ Lists(h)
    BY <1>1, StartStep, SelectStep, FailStep, ListsStep
  <1>2. CASE \E h \in Handlers : MarkRead(h)
    BY <1>2, UpdateStep, CommitStep, AnswerStep, RefuseStep DEF MarkRead
  <1>3. CASE \E n \in Notes, u \in Users : Insert(n, u)
    BY <1>3, InsertStep
  <1>4. CASE Tick \/ UNCHANGED vars
    BY <1>4, TickStep
  <1>5. QED
    BY <1>1, <1>2, <1>3, <1>4 DEF Next

LEMMA Invariant == Spec => []IInv
  BY InvariantInit, InvariantStep, PTL DEF Spec

(* Every variable keeps its type: the rows are rows the table can hold and *)
(* the times answered are times of the clock or of the column              *)
(* (notifications/service.go:84-122).                                      *)
THEOREM NotificationsTypeCorrect == Spec => []TypeOK
  <1>1. IInv => TypeOK
    BY DEF IInv
  <1>2. QED
    BY <1>1, Invariant, PTL

(* The count of an answer and its list differ by what was committed        *)
(* between the two queries, for any calls that mark and commits that add   *)
(* (router.go:324-334).                                                    *)
THEOREM CountsFollowLists == Spec => []CountFollowsList
  <1>1. IInv => CountFollowsList
    BY DEF IInv, ListOK, CountFollowsList, At
  <1>2. QED
    BY <1>1, Invariant, PTL

-----------------------------------------------------------------------------
(* The service is the inbox.                                               *)

(* A step that starts no call of MarkRead.                                 *)
AsksNothing ==
  \A o \in Handlers :
    call'[o].step \in MarkSteps =>
      /\ call[o].step \in MarkSteps
      /\ call'[o].user = call[o].user /\ call'[o].note = call[o].note

LEMMA AskedShrinks ==
  ASSUME AsksNothing
  PROVE  Promised!SomeEnd
  BY DEF AsksNothing, Asked, MarkSteps, Promised!SomeEnd

(* What a call becomes is the same call, or none of MarkRead.              *)
LEMMA BecomeAsksNothing ==
  ASSUME TypeOK, NEW h \in Handlers,
         NEW c \in Mark \cup List \cup {Idle, Refused}, call' = Become(h, c),
         c.step \in MarkSteps =>
           /\ call[h].step \in MarkSteps
           /\ c.user = call[h].user /\ c.note = call[h].note
  PROVE  AsksNothing
  BY BecomeEffect DEF AsksNothing

(* Noting a change touches the lists under way only.                       *)
LEMMA NotingAsksNothing ==
  ASSUME NEW calls \in [Handlers -> Mark \cup List \cup {Idle, Refused}],
         NEW u, NEW change \in Int, call' = Noting(calls, u, change)
  PROVE  \A o \in Handlers :
           /\ call'[o].step = calls[o].step
           /\ call'[o].step \in MarkSteps => call'[o] = calls[o]
  <1> TAKE o \in Handlers
  <1>1. CASE calls[o].step = "count" /\ calls[o].user = u
    <2>1. calls[o] \in List /\ call'[o] = [calls[o] EXCEPT !.news = @ + change]
      BY <1>1, CallShapes, NotingEffect DEF ListSteps
    <2>2. call'[o].step = "count"
      BY <1>1, <2>1 DEF List
    <2>3. QED
      BY <1>1, <2>2 DEF MarkSteps
  <1>2. CASE ~(calls[o].step = "count" /\ calls[o].user = u)
    <2>1. call'[o] = calls[o]
      BY <1>2 DEF Noting
    <2>2. QED
      BY <2>1
  <1>3. QED
    BY <1>1, <1>2

LEMMA CommitAsksNothing ==
  ASSUME IInv, NEW h \in Handlers, Commit(h)
  PROVE  Promised!SomeEnd
  <1> DEFINE c == call[h]
             row == note[c.note]
  <1>1. c \in Mark /\ c.step = "commit"
    BY CommitWrites
  <1>2. PICK d \in {[c EXCEPT !.step = "answer"], Refused} :
          call' = IF row.readAt = Unread THEN Noting(Become(h, d), row.to, -1)
                  ELSE Become(h, d)
    BY DEF Commit
  <1>3. /\ d \in Mark \cup {Refused}
        /\ d.step \in MarkSteps => d.user = c.user /\ d.note = c.note
    BY <1>1, <1>2 DEF Mark, Refused, MarkSteps
  <1> DEFINE calls == Become(h, d)
  <1>4. /\ calls \in [Handlers -> Mark \cup List \cup {Idle, Refused}]
        /\ calls[h] = d
        /\ \A o \in Handlers \ {h} : calls[o] = call[o]
    BY <1>3 DEF IInv, TypeOK, Become
  <1> HIDE DEF calls
  <1>5. \A o \in Handlers :
          /\ call'[o].step = calls[o].step
          /\ call'[o].step \in MarkSteps => call'[o] = calls[o]
    <2>1. CASE row.readAt = Unread
      <3>1. call' = Noting(calls, row.to, -1)
        BY <1>2, <2>1 DEF calls
      <3>2. QED
        BY <1>4, <3>1, NotingAsksNothing
    <2>2. CASE row.readAt # Unread
      BY <1>2, <2>2 DEF calls
    <2>3. QED
      BY <2>1, <2>2
  <1>6. AsksNothing
    BY <1>1, <1>3, <1>4, <1>5 DEF AsksNothing, MarkSteps
  <1>7. QED
    BY <1>6, AskedShrinks

LEMMA CommitReads ==
  ASSUME IInv, NEW h \in Handlers, Commit(h)
  PROVE  Promised!Next
  <1> DEFINE c == call[h]
             row == note[c.note]
  <1>1. /\ c.note \in Notes /\ row \in Row /\ row.to = c.user /\ c.step = "commit"
        /\ note' = [note EXCEPT ![c.note].readAt = Stored(c.readAt)]
        /\ row.readAt = Unread => c.readAt \in Time
        /\ row.readAt # Unread => note' = note
    BY CommitWrites
  <1>2. told' = told /\ Promised!SomeEnd
    BY CommitAsksNothing DEF Commit
  <1>3. CASE row.readAt # Unread
    BY <1>1, <1>2, <1>3 DEF Promised!GiveUp, Promised!Next
  <1>4. CASE row.readAt = Unread
    <2>1. row # Promised!NoNote
      BY <1>1, NotificationAssumption DEF Promised!NoNote, Row
    <2>2. <<row.to, c.note>> \in Asked
      BY <1>1 DEF Asked
    <2>3. Promised!Read(c.note, c.readAt)
      BY <1>1, <1>2, <1>4, <2>1, <2>2
      DEF Promised!Read, Promised!Unread, Unread, Promised!Kept, Stored
    <2>4. QED
      BY <1>1, <1>4, <2>3 DEF Promised!Next
  <1>5. QED
    BY <1>3, <1>4

LEMMA AnswerTells ==
  ASSUME IInv, NEW h \in Handlers, Answer(h)
  PROVE  Promised!Next
  <1> DEFINE c == call[h]
  <1>1. /\ c \in Mark /\ c.step = "answer" /\ MarkOK(h)
    BY CallShapes DEF IInv, TypeOK, Answer, At, MarkSteps
  <1>2. /\ c.note \in Notes /\ c.user \in Users
        /\ c.readAt \in Time \cup StoredTime
        /\ note[c.note].to = c.user
        /\ note[c.note].readAt = Stored(c.readAt) /\ Stored(c.readAt) # Unread
    BY <1>1, Times DEF MarkOK, Mark
  <1>3. Promised!SomeEnd
    <2>1. call' = Become(h, Idle)
      BY DEF Answer, End
    <2>2. QED
      BY <2>1, BecomeAsksNothing, AskedShrinks DEF IInv, Idle, MarkSteps
  <1>4. <<c.user, c.note>> \in Asked
    BY <1>1 DEF Asked
  <1>5. Promised!Tell(c.note, c.user, c.readAt)
    BY <1>2, <1>3, <1>4
    DEF Answer, Promised!Tell, Promised!Unread, Unread, Promised!Kept, Stored
  <1>6. Time \cup StoredTime = Time \cup {Promised!Kept(x) : x \in Time}
    BY DEF StoredTime, Stored, Promised!Kept
  <1>7. QED
    BY <1>2, <1>5, <1>6 DEF Promised!Next

LEMMA MarkAsks ==
  ASSUME IInv, NEW h \in Handlers, NEW u \in Users, NEW n \in Notes,
         StartMark(h, u, n)
  PROVE  Promised!Next
  <1> DEFINE c == [step |-> "lock", user |-> u, note |-> n, readAt |-> Unread]
  <1>1. /\ c \in Mark /\ c.step = "lock" /\ c.user = u /\ c.note = n
    BY DEF Mark
  <1>2. call' = Become(h, c) /\ call[h] = Idle /\ UNCHANGED <<note, told>>
    BY DEF StartMark
  <1> HIDE DEF c
  <1>3. call'[h] = c /\ \A o \in Handlers \ {h} : call'[o] = call[o]
    BY <1>1, <1>2, BecomeEffect DEF IInv
  <1>4. Asked' = Asked \cup {<<u, n>>}
    BY <1>1, <1>2, <1>3 DEF Asked, Idle
  <1>5. Promised!Ask(n, u)
    BY <1>2, <1>4 DEF Promised!Ask
  <1>6. QED
    BY <1>5 DEF Promised!Next

LEMMA InsertArrives ==
  ASSUME IInv, NEW n \in Notes, NEW u \in Users, Insert(n, u)
  PROVE  Promised!Next
  <1>1. /\ note[n] = NoNote /\ note' = [note EXCEPT ![n].to = u]
        /\ call' = Noting(call, u, 1) /\ told' = told
    BY DEF Insert
  <1>2. \A o \in Handlers :
          /\ call'[o].step = call[o].step
          /\ call'[o].step \in MarkSteps => call'[o] = call[o]
    BY <1>1, NotingAsksNothing DEF IInv, TypeOK
  <1>3. Asked' = Asked
    BY <1>2 DEF Asked, MarkSteps
  <1>4. QED
    BY <1>1, <1>3
    DEF Promised!Next, Promised!Arrive, Promised!NoNote, NoNote,
        Promised!Unread, Unread

(* The other steps of a call end it, or nothing of it can be seen.         *)
LEMMA QuietSteps ==
  ASSUME IInv, NEW h \in Handlers,
         \/ \E u \in Users : StartList(h, u)
         \/ SelectForUpdate(h) \/ Update(h) \/ Refuse(h) \/ Fail(h) \/ Lists(h)
  PROVE  Promised!Next
  <1>1. UNCHANGED <<note, told>>
    BY DEF StartList, SelectForUpdate, Update, Refuse, Fail, Lists,
           ListNotifications, UnreadCount, EndList
  <1>2. ASSUME NEW c \in Mark \cup List \cup {Idle, Refused}, call' = Become(h, c),
               c.step \in MarkSteps =>
                 /\ call[h].step \in MarkSteps
                 /\ c.user = call[h].user /\ c.note = call[h].note
        PROVE  Promised!Next
    BY <1>1, <1>2, BecomeAsksNothing, AskedShrinks
    DEF IInv, Promised!GiveUp, Promised!Next
  <1>3. Idle.step \notin MarkSteps /\ Refused.step \notin MarkSteps
    BY DEF Idle, Refused, MarkSteps
  <1>4. CASE Refuse(h) \/ Fail(h)
    BY <1>2, <1>3, <1>4 DEF Refuse, Fail, End
  <1>5. CASE \E u \in Users : StartList(h, u)
    <2>1. PICK u \in Users : StartList(h, u)
      BY <1>5
    <2> DEFINE c == [step |-> "list", user |-> u, unread |-> {}, count |-> 0, news |-> 0]
    <2>2. c \in List /\ c.step \notin MarkSteps /\ call' = Become(h, c)
      BY <2>1 DEF List, MarkSteps, StartList
    <2> HIDE DEF c
    <2>3. QED
      BY <1>2, <2>2
  <1>6. CASE SelectForUpdate(h)
    <2> DEFINE c == call[h]
               d == [c EXCEPT !.step = AfterLocking(h), !.readAt = note[c.note].readAt]
    <2>1. /\ c \in Mark /\ c.step \in MarkSteps /\ c.note \in Notes
          /\ note[c.note] \in Row \cup {NoNote}
      BY <1>6, CallShapes DEF IInv, TypeOK, SelectForUpdate, At, MarkSteps, Mark
    <2>2. call' = Become(h, Refused) \/ call' = Become(h, d)
      BY <1>6 DEF SelectForUpdate
    <2>3. d \in Mark /\ d.user = c.user /\ d.note = c.note
      <3>1. note[c.note].readAt \in StoredTime \cup {Unread}
        BY <2>1 DEF Row, NoNote
      <3>2. AfterLocking(h) \in {"update", "commit"}
        BY DEF AfterLocking
      <3>3. QED
        BY <2>1, <3>1, <3>2 DEF Mark
    <2> HIDE DEF d
    <2>4. QED
      BY <1>2, <1>3, <2>1, <2>2, <2>3
  <1>7. CASE Update(h)
    <2> DEFINE c == call[h]
               d == [c EXCEPT !.step = "commit", !.readAt = now]
    <2>1. c \in Mark /\ c.step \in MarkSteps /\ now \in Time
      BY <1>7, CallShapes DEF IInv, TypeOK, Update, At, MarkSteps
    <2>2. call' = Become(h, d)
      BY <1>7 DEF Update
    <2>3. d \in Mark /\ d.user = c.user /\ d.note = c.note
      BY <2>1 DEF Mark
    <2> HIDE DEF d
    <2>4. QED
      BY <1>2, <2>1, <2>2, <2>3
  <1>8. CASE Lists(h)
    <2> DEFINE c == call[h]
    <2>1. c \in List /\ c.count \in Nat /\ c.unread \in SUBSET Notes
      BY <1>8, CallShapes
      DEF IInv, TypeOK, Lists, ListNotifications, UnreadCount, EndList, At,
          ListSteps, List
    <2>2. CASE EndList(h)
      BY <1>2, <1>3, <2>2 DEF EndList, End
    <2>3. CASE ListNotifications(h)
      <3> DEFINE d == [c EXCEPT !.step = "count", !.unread = UnreadOf(c.user)]
      <3>1. d \in List /\ d.step \notin MarkSteps
        BY <2>1, UnreadIsFinite DEF List, MarkSteps
      <3>2. call' = Become(h, d)
        BY <2>3 DEF ListNotifications
      <3> HIDE DEF d
      <3>3. QED
        BY <1>2, <3>1, <3>2
    <2>4. CASE UnreadCount(h)
      <3> DEFINE d == [c EXCEPT !.step = "listed", !.count = Cardinality(UnreadOf(c.user))]
      <3>1. Cardinality(UnreadOf(c.user)) \in Nat
        BY UnreadIsFinite
      <3>2. d \in List /\ d.step \notin MarkSteps
        BY <2>1, <3>1 DEF List, MarkSteps
      <3>3. call' = Become(h, d)
        BY <2>4 DEF UnreadCount
      <3> HIDE DEF d
      <3>4. QED
        BY <1>2, <3>2, <3>3
    <2>5. QED
      BY <1>8, <2>2, <2>3, <2>4 DEF Lists
  <1>9. QED
    BY <1>4, <1>5, <1>6, <1>7, <1>8

LEMMA StepRefines == IInv /\ [Next]_vars => [Promised!Next]_(Promised!vars)
  <1> SUFFICES ASSUME IInv, [Next]_vars
               PROVE  [Promised!Next]_(Promised!vars)
    OBVIOUS
  <1>1. CASE \E h \in Handlers : Commit(h) \/ Answer(h)
    BY <1>1, CommitReads, AnswerTells
  <1>2. CASE \E h \in Handlers, u \in Users, n \in Notes : StartMark(h, u, n)
    BY <1>2, MarkAsks
  <1>3. CASE \E n \in Notes, u \in Users : Insert(n, u)
    BY <1>3, InsertArrives
  <1>4. CASE \E h \in Handlers :
               \/ \E u \in Users : StartList(h, u)
               \/ SelectForUpdate(h) \/ Update(h) \/ Refuse(h) \/ Fail(h) \/ Lists(h)
    BY <1>4, QuietSteps
  <1>5. CASE UNCHANGED <<note, call, told>>
    BY <1>5 DEF Promised!vars, Asked
  <1>6. QED
    BY <1>1, <1>2, <1>3, <1>4, <1>5 DEF Next, Start, MarkRead, Tick, vars

(* Whoever watches the rows, the calls and the answers sees an inbox in    *)
(* which a notification is marked once, by a call of its recipient, and    *)
(* every answer gives that time as the row keeps it                        *)
(* (notifications/service.go:62-122).                                      *)
THEOREM ServiceImplementsInbox == Spec => ImplementsInbox
  <1>1. Init => Promised!Init
    <2>1. Init => Asked = {}
      BY DEF Init, Idle, Asked
    <2>2. QED
      BY <2>1 DEF Init, Promised!Init, Promised!NoNote, NoNote, Promised!Unread, Unread
  <1>2. QED
    BY <1>1, Invariant, StepRefines, PTL DEF Spec, ImplementsInbox, Promised!Spec
=============================================================================
