--------------------------- MODULE QuoteDeskProofs ---------------------------
(***************************************************************************)
(* Proofs about creating quotes, for any drafts, requests at a time and    *)
(* quotes: what a draft that was made a quote twice, and a row no page was *)
(* told of, can have come from.                                            *)
(***************************************************************************)
EXTENDS QuoteDesk, TLAPS

(* A request with draft d is under way.                                    *)
Sent(d) == \E p \in Posts : post[p] # Idle /\ post[p].draft = d

PostOK(p) ==
  post[p] # Idle =>
    /\ post[p].draft \in typed
    /\ post[p].step = "insert" => post[p].quote = NoQuote
    /\ post[p].step \in {"select", "publish", "created"} => post[p].quote # NoQuote
    /\ post[p].step = "created" => post[p].quote \in signalled
    /\ post[p].quote # NoQuote => quotes[post[p].quote] = post[p].draft
    /\ post[p].told => post[p].draft \in failed

Alone(p, o) ==
  post[p] # Idle /\ post[o] # Idle /\ post[p].draft = post[o].draft
  => p = o \/ post[p].draft \in doubled

(* The request that made the row is under way, or the form has been        *)
(* cleared of its draft for good.                                          *)
Settled(q) ==
  \/ quotes[q] = Blank
  \/ quotes[q] \in doubled \cup failed
  \/ \E p \in Posts : post[p] # Idle /\ post[p].quote = q
  \/ form # quotes[q] /\ ~Sent(quotes[q])

IInv ==
  /\ TypeOK
  /\ form # Blank => form \in typed
  /\ \A q \in Quotes : quotes[q] # Blank => quotes[q] \in typed
  /\ \A p \in Posts : PostOK(p)
  /\ \A p, o \in Posts : Alone(p, o)
  /\ \A q \in Quotes : Settled(q)
  /\ DuplicatesAreDue
  /\ SilentRowsAreDue

-----------------------------------------------------------------------------
(* A post that is not idle is a request.                                   *)
LEMMA PostShapes ==
  ASSUME NEW k \in Post \cup {Idle}
  PROVE  /\ k # Idle <=> k \in Post
         /\ k = Idle <=> k.step = "idle"
  BY DEF Post, Idle

(* Statements that take a request further, and leave its row as it is.     *)
Advances(p, step) ==
  /\ post[p] # Idle /\ post[p].step # "idle"
  /\ step \in {"publish", "created", "error"}
  /\ step # "error" => post[p].step \in {"select", "publish"}
  /\ step = "created" => signalled' = signalled \cup {post[p].quote}
  /\ step # "created" => signalled' = signalled
  /\ Goto(p, step)
  /\ UNCHANGED <<form, quotes, history>>

LEMMA AdvanceStep ==
  ASSUME IInv, NEW p \in Posts, NEW step, Advances(p, step),
         post[p].step # "created"
  PROVE  IInv'
  <1>1. post[p] \in Post /\ PostOK(p)
    BY PostShapes DEF IInv, TypeOK, Advances
  <1>2. /\ post' \in [Posts -> Post \cup {Idle}]
        /\ post'[p] # Idle /\ post'[p].step = step
        /\ post'[p].draft = post[p].draft /\ post'[p].quote = post[p].quote
        /\ post'[p].told = post[p].told
        /\ \A o \in Posts : o # p => post'[o] = post[o]
    <2>1. post' = [post EXCEPT ![p].step = step]
      BY DEF Advances, Goto
    <2>2. [post[p] EXCEPT !.step = step] \in Post
      BY <1>1 DEF Advances, Post
    <2>3. QED
      BY <1>1, <2>1, <2>2, PostShapes DEF IInv, TypeOK, Post
  <1>3. /\ UNCHANGED <<form, typed, quotes, failed, doubled, disowned>>
        /\ signalled \subseteq signalled'
    BY DEF Advances, history
  <1>4. signalled' \subseteq {q \in Quotes : quotes[q] # Blank}
    <2>1. step = "created" =>
            post[p].quote \in Quotes /\ quotes[post[p].quote] \in Drafts
      BY <1>1 DEF Advances, PostOK, Post
    <2>2. QED
      BY <2>1, QuoteAssumption DEF Advances, IInv, TypeOK
  <1>5. TypeOK'
    BY <1>2, <1>3, <1>4 DEF IInv, TypeOK
  <1>6. \A o \in Posts : PostOK(o)'
    <2>1. PostOK(p)'
      BY <1>1, <1>2, <1>3 DEF PostOK, Advances
    <2>2. \A o \in Posts : o # p => PostOK(o)'
      BY <1>2, <1>3 DEF PostOK, IInv
    <2>3. QED
      BY <2>1, <2>2
  <1>7. \A o, u \in Posts : Alone(o, u)'
    BY <1>1, <1>2, <1>3 DEF Alone, IInv, Advances
  <1>8. \A q \in Quotes : Settled(q)'
    <2> SUFFICES ASSUME NEW q \in Quotes PROVE Settled(q)'
      OBVIOUS
    <2>1. Sent(quotes[q])' => Sent(quotes[q])
      BY <1>2, <1>3 DEF Sent, Advances
    <2>2. QED
      BY <1>2, <1>3, <2>1 DEF Settled, IInv
  <1>9. DuplicatesAreDue'
    BY <1>3 DEF DuplicatesAreDue, IInv
  <1>10. SilentRowsAreDue'
    <2> SUFFICES ASSUME NEW q \in Quotes \ signalled', quotes[q] # Blank,
                        q \notin disowned
                 PROVE  \E o \in Posts : /\ post'[o] # Idle /\ post'[o].quote = q
                                         /\ post'[o].step # "created"
      BY <1>3 DEF SilentRowsAreDue, At
    <2>1. PICK o \in Posts : post[o] # Idle /\ post[o].quote = q /\ ~At(o, "created")
      BY <1>3 DEF IInv, SilentRowsAreDue
    <2>2. CASE o = p
      BY <1>2, <2>1, <2>2 DEF Advances
    <2>3. CASE o # p
      BY <1>2, <2>1, <2>3 DEF At
    <2>4. QED
      BY <2>2, <2>3
  <1>11. QED
    BY <1>3, <1>5, <1>6, <1>7, <1>8, <1>9, <1>10 DEF IInv

LEMMA TypeStep ==
  ASSUME IInv, NEW d \in Drafts, Type(d)
  PROVE  IInv'
  <1>1. /\ d \notin typed /\ form' = d /\ typed' = typed \cup {d}
        /\ UNCHANGED <<post, quotes, signalled, failed, doubled, disowned>>
    BY DEF Type
  <1>2. TypeOK'
    BY <1>1 DEF IInv, TypeOK
  <1>3. /\ \A p \in Posts : PostOK(p)'
        /\ \A p, o \in Posts : Alone(p, o)'
    BY <1>1 DEF IInv, PostOK, Alone
  <1>4. \A q \in Quotes : Settled(q)'
    BY <1>1 DEF IInv, Settled, Sent
  <1>5. DuplicatesAreDue' /\ SilentRowsAreDue'
    BY <1>1 DEF IInv, DuplicatesAreDue, SilentRowsAreDue, At
  <1>6. QED
    BY <1>1, <1>2, <1>3, <1>4, <1>5 DEF IInv

(* The button.                                                             *)
LEMMA ClickStep ==
  ASSUME IInv, NEW p \in Posts, Click(p)
  PROVE  IInv'
  <1>1. /\ form # Blank /\ post[p] = Idle
        /\ post' = [post EXCEPT ![p] =
             [step |-> "insert", draft |-> form, quote |-> NoQuote, told |-> FALSE]]
        /\ UNCHANGED <<form, typed, quotes, signalled, failed, disowned>>
    BY DEF Click
  <1>2. doubled' = doubled \cup {d \in {form} : Sent(d)}
    BY DEF Click, Sent
  <1>3. form \in Drafts /\ form \in typed
    BY <1>1 DEF IInv, TypeOK
  <1>4. /\ post' \in [Posts -> Post \cup {Idle}]
        /\ post'[p] # Idle /\ post'[p].step = "insert"
        /\ post'[p].draft = form /\ post'[p].quote = NoQuote
        /\ post'[p].told = FALSE
        /\ \A o \in Posts : o # p => post'[o] = post[o]
    BY <1>1, <1>3 DEF IInv, TypeOK, Post, Idle
  <1>5. TypeOK'
    BY <1>1, <1>2, <1>3, <1>4 DEF IInv, TypeOK
  <1>6. \A o \in Posts : PostOK(o)'
    BY <1>1, <1>3, <1>4 DEF IInv, PostOK
  <1>7. \A o, u \in Posts : Alone(o, u)'
    BY <1>1, <1>2, <1>4 DEF IInv, Alone, Sent
  <1>8. \A q \in Quotes : Settled(q)'
    BY <1>1, <1>2, <1>4 DEF IInv, Settled, Sent
  <1>9. DuplicatesAreDue' /\ SilentRowsAreDue'
    BY <1>1, <1>2, <1>4 DEF IInv, DuplicatesAreDue, SilentRowsAreDue, At
  <1>10. QED
    BY <1>1, <1>3, <1>5, <1>6, <1>7, <1>8, <1>9 DEF IInv

(* The page is told of an error.                                           *)
LEMMA FailedStep ==
  ASSUME IInv, NEW p \in Posts, Failed(p)
  PROVE  IInv'
  <1>1. post[p] # Idle /\ post[p] \in Post /\ PostOK(p)
    BY PostShapes DEF IInv, TypeOK, Failed
  <1>2. /\ UNCHANGED <<form, typed, quotes, signalled, doubled, disowned>>
        /\ failed' = failed \cup {post[p].draft}
        /\ post' = [post EXCEPT ![p].told = TRUE]
    BY DEF Failed
  <1>3. /\ [post[p] EXCEPT !.told = TRUE] \in Post
        /\ [post[p] EXCEPT !.told = TRUE] # Idle
    BY <1>1, PostShapes DEF Post
  <1>4. /\ post' \in [Posts -> Post \cup {Idle}]
        /\ post'[p] # Idle /\ post'[p].step = post[p].step
        /\ post'[p].draft = post[p].draft /\ post'[p].quote = post[p].quote
        /\ \A o \in Posts : o # p => post'[o] = post[o]
    BY <1>1, <1>2, <1>3 DEF IInv, TypeOK, Post
  <1>5. TypeOK'
    BY <1>1, <1>2, <1>4 DEF IInv, TypeOK, PostOK
  <1>6. /\ \A o \in Posts : PostOK(o)'
        /\ \A o, u \in Posts : Alone(o, u)'
    BY <1>1, <1>2, <1>4 DEF IInv, PostOK, Alone
  <1>7. \A q \in Quotes : Settled(q)'
    <2> SUFFICES ASSUME NEW q \in Quotes PROVE Settled(q)'
      OBVIOUS
    <2>1. Sent(quotes[q])' => Sent(quotes[q])
      BY <1>1, <1>2, <1>4 DEF Sent
    <2>2. QED
      BY <1>1, <1>2, <1>4, <2>1 DEF Settled, IInv
  <1>8. DuplicatesAreDue'
    BY <1>2 DEF DuplicatesAreDue, IInv
  <1>9. SilentRowsAreDue'
    <2> SUFFICES ASSUME NEW q \in Quotes \ signalled, quotes[q] # Blank,
                        q \notin disowned
                 PROVE  \E o \in Posts : /\ post'[o] # Idle /\ post'[o].quote = q
                                         /\ post'[o].step # "created"
      BY <1>2 DEF SilentRowsAreDue, At
    <2>1. PICK o \in Posts : post[o] # Idle /\ post[o].quote = q /\ ~At(o, "created")
      BY DEF IInv, SilentRowsAreDue
    <2>2. QED
      BY <1>4, <2>1 DEF At
  <1>10. QED
    BY <1>2, <1>5, <1>6, <1>7, <1>8, <1>9 DEF IInv

(* A request is over. After success the form is empty, and no other        *)
(* request has the draft unless it was sent twice; otherwise its page has  *)
(* called it failed.                                                       *)
LEMMA EndStep ==
  ASSUME IInv, NEW p \in Posts, Created(p) \/ Over(p)
  PROVE  IInv'
  <1> DEFINE d == post[p].draft
  <1>1. post[p] # Idle /\ post[p] \in Post /\ PostOK(p)
    BY PostShapes DEF IInv, TypeOK, Created, Over, At
  <1>2. /\ UNCHANGED <<typed, quotes, signalled, doubled>>
        /\ disowned \subseteq disowned' /\ disowned' \subseteq Quotes
        /\ \/ post[p].step = "created"
           \/ post[p].quote = NoQuote
           \/ post[p].quote \in disowned'
        /\ failed' \in {failed, failed \cup {d}}
        /\ form' \in {form, Blank}
        /\ d \in failed' \/ (form' = Blank /\ post[p].step = "created")
        /\ post'[p] = Idle
        /\ \A o \in Posts : o # p => post'[o] = post[o]
        /\ post' \in [Posts -> Post \cup {Idle}]
    <2>1. /\ post' = [post EXCEPT ![p] = Idle]
          /\ UNCHANGED <<typed, quotes, signalled, doubled>>
      BY DEF Created, Over
    <2>2. /\ post \in [Posts -> Post \cup {Idle}] /\ disowned \subseteq Quotes
          /\ post[p].quote \in Quotes \cup {NoQuote}
      BY <1>1 DEF IInv, TypeOK, Post
    <2>3. /\ post'[p] = Idle
          /\ \A o \in Posts : o # p => post'[o] = post[o]
          /\ post' \in [Posts -> Post \cup {Idle}]
      BY <2>1, <2>2
    <2>4. CASE Created(p)
      <3>1. /\ form' = Blank /\ post[p].step = "created"
            /\ failed' \in {failed, failed \cup {d}} /\ disowned' = disowned
        BY <2>4 DEF Created, ClearForm, At
      <3>2. QED
        BY <2>1, <2>2, <2>3, <3>1
    <2>5. CASE Over(p)
      <3>1. /\ form' = form /\ failed' = failed /\ d \in failed
            /\ disowned' = disowned \cup ({post[p].quote} \ {NoQuote})
        BY <1>1, <2>5 DEF Over, PostOK
      <3>2. QED
        BY <2>1, <2>2, <2>3, <3>1
    <2>6. QED
      BY <2>4, <2>5
  <1>3. TypeOK'
    BY <1>1, <1>2 DEF IInv, TypeOK, PostOK
  <1>4. /\ \A o \in Posts : PostOK(o)'
        /\ \A o, u \in Posts : Alone(o, u)'
    BY <1>2 DEF IInv, PostOK, Alone
  <1>5. \A q \in Quotes : Settled(q)'
    <2> SUFFICES ASSUME NEW q \in Quotes, quotes[q] # Blank,
                        quotes[q] \notin doubled \cup failed'
                 PROVE  Settled(q)'
      BY <1>2 DEF Settled
    <2>1. PICK e : e = quotes[q]
      OBVIOUS
    <2>2. Settled(q) /\ quotes'[q] = e /\ e \notin doubled \cup failed
      BY <1>2, <2>1 DEF IInv
    <2>3. CASE \E o \in Posts \ {p} : post[o] # Idle /\ post[o].quote = q
      BY <1>2, <2>3 DEF Settled
    <2>4. CASE post[p].quote = q
      <3>1. d = e /\ form' = Blank
        BY <1>1, <1>2, <2>1, <2>2, <2>4, QuoteAssumption DEF PostOK
      <3>2. ~Sent(e)'
        BY <1>1, <1>2, <2>2, <3>1 DEF Sent, Alone, IInv
      <3>3. QED
        BY <2>1, <2>2, <3>1, <3>2 DEF Settled
    <2>5. CASE form # e /\ ~Sent(e)
      BY <1>2, <2>1, <2>2, <2>5 DEF Settled, Sent
    <2>6. QED
      BY <2>1, <2>2, <2>3, <2>4, <2>5 DEF Settled
  <1>6. DuplicatesAreDue'
    BY <1>2 DEF IInv, DuplicatesAreDue
  <1>7. SilentRowsAreDue'
    <2> SUFFICES ASSUME NEW q \in Quotes \ signalled, quotes[q] # Blank,
                        q \notin disowned'
                 PROVE  \E o \in Posts : /\ post'[o] # Idle /\ post'[o].quote = q
                                         /\ post'[o].step # "created"
      BY <1>2 DEF SilentRowsAreDue, At
    <2>1. PICK o \in Posts : post[o] # Idle /\ post[o].quote = q /\ ~At(o, "created")
      BY <1>2 DEF IInv, SilentRowsAreDue
    <2>2. o # p
      BY <1>1, <1>2, <2>1, QuoteAssumption DEF PostOK, At
    <2>3. QED
      BY <1>2, <2>1, <2>2 DEF At
  <1>8. QED
    BY <1>2, <1>3, <1>4, <1>5, <1>6, <1>7 DEF IInv

(* A row is made. Another of the same draft is there only if that draft    *)
(* was sent twice or called failed: its request would be this one, which   *)
(* has no row yet, or be through, and then no request would have it.       *)
LEMMA InsertStep ==
  ASSUME IInv, NEW p \in Posts, Insert(p)
  PROVE  IInv'
  <1> DEFINE d == post[p].draft
  <1>1. /\ post[p] # Idle /\ post[p] \in Post /\ post[p].step = "insert"
        /\ PostOK(p) /\ post[p].quote = NoQuote /\ d \in Drafts /\ d \in typed
    BY PostShapes DEF IInv, TypeOK, Insert, At, PostOK, Post
  <1>2. PICK q \in Quotes :
          /\ quotes[q] = Blank
          /\ quotes' = [quotes EXCEPT ![q] = d]
          /\ \E step \in {"select", "error"} :
               post' = [post EXCEPT ![p].step = step, ![p].quote = q]
    BY DEF Insert
  <1>3. PICK step \in {"select", "error"} :
          post' = [post EXCEPT ![p].step = step, ![p].quote = q]
    BY <1>2
  <1>4. UNCHANGED <<form, typed, signalled, failed, doubled, disowned>>
    BY DEF Insert, history
  <1>5. /\ post' \in [Posts -> Post \cup {Idle}]
        /\ post'[p] # Idle /\ post'[p].step = step
        /\ post'[p].draft = d /\ post'[p].quote = q
        /\ post'[p].told = post[p].told
        /\ \A o \in Posts : o # p => post'[o] = post[o]
    BY <1>1, <1>3 DEF IInv, TypeOK, Post, Idle
  <1>6. /\ quotes' \in [Quotes -> Drafts \cup {Blank}]
        /\ quotes'[q] = d
        /\ \A r \in Quotes : r # q => quotes'[r] = quotes[r]
    BY <1>1, <1>2 DEF IInv, TypeOK
  <1>7. TypeOK'
    BY <1>1, <1>4, <1>5, <1>6, QuoteAssumption DEF IInv, TypeOK
  <1>8. \A o \in Posts : PostOK(o)'
    <2>1. PostOK(p)'
      BY <1>1, <1>4, <1>5, <1>6, QuoteAssumption DEF PostOK
    <2>2. ASSUME NEW o \in Posts, o # p, post[o] # Idle PROVE PostOK(o)'
      <3>1. post[o] \in Post /\ PostOK(o) /\ post'[o] = post[o]
        BY <1>5, <2>2, PostShapes DEF IInv, TypeOK
      <3>2. post[o].quote # NoQuote =>
              post[o].quote \in Quotes /\ post[o].quote # q
        BY <1>2, <2>2, <3>1, QuoteAssumption DEF PostOK, Post
      <3>3. QED
        BY <1>4, <1>6, <2>2, <3>1, <3>2 DEF PostOK
    <2>3. QED
      BY <1>5, <2>1, <2>2 DEF PostOK
  <1>9. \A o, u \in Posts : Alone(o, u)'
    BY <1>1, <1>4, <1>5 DEF IInv, Alone
  <1>10. \A r \in Quotes : Settled(r)'
    <2>1. Settled(q)'
      BY <1>5 DEF Settled
    <2>2. ASSUME NEW r \in Quotes, r # q PROVE Settled(r)'
      <3>1. Settled(r) /\ quotes'[r] = quotes[r]
        BY <1>6, <2>2 DEF IInv
      <3>2. PICK e : e = quotes[r]
        OBVIOUS
      <3>3. Sent(e)' => Sent(e)
        BY <1>1, <1>5 DEF Sent
      <3>4. CASE \E o \in Posts : post[o] # Idle /\ post[o].quote = r
        BY <1>1, <1>5, <3>4, QuoteAssumption DEF Settled
      <3>5. QED
        BY <1>4, <3>1, <3>2, <3>3, <3>4 DEF Settled
    <2>3. QED
      BY <2>1, <2>2
  <1>11. \A r \in Quotes : quotes[r] = d => d \in doubled \cup failed
    <2> SUFFICES ASSUME NEW r \in Quotes, quotes[r] = d, d \notin doubled \cup failed
                 PROVE  FALSE
      OBVIOUS
    <2>1. Settled(r) /\ d # Blank /\ Sent(d)
      BY <1>1, QuoteAssumption DEF IInv, Sent
    <2>2. PICK o \in Posts : post[o] # Idle /\ post[o].quote = r
      BY <2>1 DEF Settled
    <2>3. post[o].draft = d
      BY <2>2, QuoteAssumption DEF IInv, PostOK
    <2>4. o = p
      BY <1>1, <2>2, <2>3 DEF IInv, Alone
    <2>5. QED
      BY <1>1, <2>2, <2>4, QuoteAssumption
  <1>12. DuplicatesAreDue'
    BY <1>4, <1>6, <1>11 DEF IInv, DuplicatesAreDue
  <1>13. SilentRowsAreDue'
    <2> SUFFICES ASSUME NEW r \in Quotes \ signalled, quotes'[r] # Blank,
                        r \notin disowned
                 PROVE  \E o \in Posts : /\ post'[o] # Idle /\ post'[o].quote = r
                                         /\ post'[o].step # "created"
      BY <1>4 DEF SilentRowsAreDue, At
    <2>1. CASE r = q
      BY <1>5, <2>1
    <2>2. CASE r # q
      <3>1. PICK o \in Posts : post[o] # Idle /\ post[o].quote = r /\ ~At(o, "created")
        BY <1>6, <2>2 DEF IInv, SilentRowsAreDue
      <3>2. o # p
        BY <1>1, <3>1, QuoteAssumption
      <3>3. QED
        BY <1>5, <3>1, <3>2 DEF At
    <2>3. QED
      BY <2>1, <2>2
  <1>14. QED
    BY <1>1, <1>4, <1>6, <1>7, <1>8, <1>9, <1>10, <1>12, <1>13 DEF IInv

-----------------------------------------------------------------------------
LEMMA InvariantInit == Init => IInv
  BY DEF Init, IInv, TypeOK, PostOK, Alone, Settled, DuplicatesAreDue,
         SilentRowsAreDue

LEMMA InvariantStep == IInv /\ [Next]_vars => IInv'
  <1> SUFFICES ASSUME IInv, [Next]_vars PROVE IInv'
    OBVIOUS
  <1>1. ASSUME NEW p \in Posts, Select(p) \/ Publish(p) \/ Fail(p)
        PROVE  IInv'
    <2>1. post[p] # Idle /\ post[p].step \notin {"idle", "created"}
      BY <1>1 DEF Select, Publish, Fail, At, Idle
    <2>2. CASE Select(p)
      BY <2>1, <2>2, AdvanceStep DEF Select, At, Advances
    <2>3. CASE Publish(p)
      BY <2>1, <2>3, AdvanceStep DEF Publish, At, Advances
    <2>4. CASE Fail(p)
      BY <2>1, <2>4, AdvanceStep DEF Fail, Advances
    <2>5. QED
      BY <1>1, <2>2, <2>3, <2>4
  <1>2. CASE \E d \in Drafts : Type(d)
    BY <1>2, TypeStep
  <1>3. CASE \E p \in Posts : Click(p) \/ Created(p) \/ Failed(p) \/ Over(p)
    BY <1>3, ClickStep, FailedStep, EndStep
  <1>4. CASE \E p \in Posts : CreateQuote(p)
    BY <1>1, <1>4, InsertStep DEF CreateQuote
  <1>5. CASE UNCHANGED vars
    BY <1>5 DEF vars, history, IInv, TypeOK, PostOK, Alone, Settled, Sent,
       DuplicatesAreDue, SilentRowsAreDue, At
  <1>6. QED
    BY <1>2, <1>3, <1>4, <1>5 DEF Next

LEMMA Invariant == Spec => []IInv
  BY InvariantInit, InvariantStep, PTL DEF Spec

(* Every variable keeps its type, and only rows that exist are published   *)
(* (router.go:193-207).                                                    *)
THEOREM DeskTypeCorrect == Spec => []TypeOK
  <1>1. IInv => TypeOK
    BY DEF IInv
  <1>2. QED
    BY <1>1, Invariant, PTL

(* A draft is made a quote twice only if it was sent while a request with  *)
(* it was under way or after the page had called its creation failed       *)
(* (ManagerWorkspace.tsx:173-186, quotes/service.go:67-87).                *)
THEOREM DuplicatesHaveACause == Spec => []DuplicatesAreDue
  <1>1. IInv => DuplicatesAreDue
    BY DEF IInv
  <1>2. QED
    BY <1>1, Invariant, PTL

(* A row of which no page is told is one whose own request is under way or *)
(* was called failed on its page (router.go:193-207).                      *)
THEOREM SilentRowsHaveACause == Spec => []SilentRowsAreDue
  <1>1. IInv => SilentRowsAreDue
    BY DEF IInv
  <1>2. QED
    BY <1>1, Invariant, PTL
=============================================================================
