----------------------------- MODULE QuoteDesk ------------------------------
(***************************************************************************)
(* Creating quotes: the form of ManagerWorkspace.tsx, the endpoint         *)
(* createQuote of httpapi/router.go and CreateQuote of quotes/service.go,  *)
(* which inserts the row in a statement of its own and reads it back in    *)
(* another. The list the page refetches is in LivePage.                    *)
(*                                                                         *)
(* A draft is what the form holds; one that is typed again counts as       *)
(* another. The button needs a form that is not blank, so that the checks  *)
(* of role and input pass. Wording and the quote's status are left out.    *)
(***************************************************************************)
EXTENDS FiniteSets

CONSTANTS
  Drafts,     \* bound: what is typed
  Blank,
  Posts,      \* requests under way at a time
  Quotes,     \* the ids of the quotes table; bound: quotes
  NoQuote

ASSUME QuoteAssumption ==
  /\ Blank \notin Drafts
  /\ NoQuote \notin Quotes

VARIABLES
  form,       \* the draft in the form
  typed,      \* the drafts typed so far
  post,       \* the requests under way
  quotes,     \* the quotes table: the draft each row was made of
  signalled,  \* quotes whose quotes.changed has been published
  failed,     \* drafts whose creation the page has called failed
  doubled,    \* drafts sent while an earlier request with them was under way
  disowned    \* quotes whose own request the page has called failed

history == <<typed, failed, doubled, disowned>>
vars == <<form, post, quotes, signalled, history>>

Idle == [step |-> "idle"]

(* quote: the row inserted, once there is one; in the last two steps the   *)
(* handler is through and its answer is on the way. told: the page has     *)
(* been told of an error, which may be one of the network while the server *)
(* goes on.                                                                *)
Post ==
  [step : {"insert", "select", "publish", "created", "error"},
   draft : Drafts, quote : Quotes \cup {NoQuote}, told : BOOLEAN]

TypeOK ==
  /\ form \in Drafts \cup {Blank}
  /\ typed \subseteq Drafts
  /\ post \in [Posts -> Post \cup {Idle}]
  /\ quotes \in [Quotes -> Drafts \cup {Blank}]
  /\ signalled \subseteq {q \in Quotes : quotes[q] # Blank}
  /\ failed \subseteq typed
  /\ doubled \subseteq typed
  /\ disowned \subseteq Quotes

Init ==
  /\ form = Blank
  /\ typed = {}
  /\ post = [p \in Posts |-> Idle]
  /\ quotes = [q \in Quotes |-> Blank]
  /\ signalled = {}
  /\ failed = {}
  /\ doubled = {}
  /\ disowned = {}

At(p, step) == post[p].step = step

Goto(p, step) == post' = [post EXCEPT ![p].step = step]

-----------------------------------------------------------------------------
(* The page.                                                               *)

Type(d) ==
  /\ d \notin typed
  /\ form' = d
  /\ typed' = typed \cup {d}
  /\ UNCHANGED <<post, quotes, signalled, failed, doubled, disowned>>

(* handleCreateQuote. The button stays enabled while a request is under    *)
(* way.                                                                    *)
Click(p) ==
  /\ form # Blank
  /\ post[p] = Idle
  /\ post' = [post EXCEPT ![p] =
       [step |-> "insert", draft |-> form, quote |-> NoQuote, told |-> FALSE]]
  /\ doubled' = doubled \cup
       {d \in {form} : \E o \in Posts : post[o] # Idle /\ post[o].draft = d}
  /\ UNCHANGED <<form, typed, quotes, signalled, failed, disowned>>

(* Slip: the form keeps what it holds.                                     *)
KeepForm == UNCHANGED form

(* Whatever the user has typed by now goes too.                            *)
ClearForm == form' = Blank

(* The answer that the quote was created. The page calls the creation      *)
(* failed also when only its refetch of the list fails.                    *)
Created(p) ==
  /\ At(p, "created") /\ ~post[p].told
  /\ ClearForm
  /\ failed' \in {failed, failed \cup {post[p].draft}}
  /\ post' = [post EXCEPT ![p] = Idle]
  /\ UNCHANGED <<typed, quotes, signalled, doubled, disowned>>

(* An error, or no answer: the server may be at any point of the request.  *)
Failed(p) ==
  /\ post[p] # Idle /\ ~post[p].told
  /\ failed' = failed \cup {post[p].draft}
  /\ post' = [post EXCEPT ![p].told = TRUE]
  /\ UNCHANGED <<form, typed, quotes, signalled, doubled, disowned>>

(* The server is through with a request whose page waits no more.          *)
Over(p) ==
  /\ At(p, "created") \/ At(p, "error")
  /\ post[p].told
  /\ disowned' = disowned \cup ({post[p].quote} \ {NoQuote})
  /\ post' = [post EXCEPT ![p] = Idle]
  /\ UNCHANGED <<form, typed, quotes, signalled, failed, doubled>>

-----------------------------------------------------------------------------
(* The server.                                                             *)

(* The INSERT commits by itself; its acknowledgement may be lost.          *)
Insert(p) ==
  /\ At(p, "insert")
  /\ \E q \in Quotes :
       /\ quotes[q] = Blank
       /\ quotes' = [quotes EXCEPT ![q] = post[p].draft]
       /\ \E step \in {"select", "error"} :
            post' = [post EXCEPT ![p].step = step, ![p].quote = q]
  /\ UNCHANGED <<form, signalled, history>>

(* Slip: the answer does not wait for the event to be published.           *)
SelectAndAnswer(p) ==
  /\ At(p, "select")
  /\ Goto(p, "created")
  /\ UNCHANGED <<form, quotes, signalled, history>>

Select(p) ==
  /\ At(p, "select")
  /\ Goto(p, "publish")
  /\ UNCHANGED <<form, quotes, signalled, history>>

Publish(p) ==
  /\ At(p, "publish")
  /\ signalled' = signalled \cup {post[p].quote}
  /\ Goto(p, "created")
  /\ UNCHANGED <<form, quotes, history>>

(* A statement fails before it has an effect, or the server dies.          *)
Fail(p) ==
  /\ post[p].step \in {"insert", "select", "publish"}
  /\ Goto(p, "error")
  /\ UNCHANGED <<form, quotes, signalled, history>>

-----------------------------------------------------------------------------
CreateQuote(p) == Insert(p) \/ Select(p) \/ Publish(p) \/ Fail(p)

Next ==
  \/ \E d \in Drafts : Type(d)
  \/ \E p \in Posts : Click(p) \/ Created(p) \/ Failed(p) \/ Over(p) \/ CreateQuote(p)

Spec == Init /\ [][Next]_vars

-----------------------------------------------------------------------------
(* Two quotes of one draft are there only if the user sent it again while  *)
(* a request with it was under way, or after the page had told him that    *)
(* its creation failed (ManagerWorkspace.tsx:173-186: the form is cleared  *)
(* on success only; quotes/service.go:67-87: the row may be there when an  *)
(* error is told).                                                         *)
DuplicatesAreDue ==
  \A q, r \in Quotes :
    q # r /\ quotes[q] = quotes[r] /\ quotes[q] # Blank
    => quotes[q] \in doubled \cup failed

(* A row of which no page is told is one whose own request is still under  *)
(* way or was called failed on its page: it is not enough that some other  *)
(* request with the same draft was                                         *)
(* (router.go:193-207: published after the row, before the answer).        *)
SilentRowsAreDue ==
  \A q \in Quotes \ signalled :
    \/ quotes[q] = Blank
    \/ \E p \in Posts : post[p] # Idle /\ post[p].quote = q /\ ~At(p, "created")
    \/ q \in disowned
=============================================================================
