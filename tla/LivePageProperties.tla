------------------------- MODULE LivePageProperties -------------------------
(***************************************************************************)
(* What the user of a page may rely on.                                    *)
(***************************************************************************)
EXTENDS LivePage

Asked(l) ==
  \E r \in Requests :
    /\ l \in request[r].lists
    /\ request[r].got[l] \in {NotRead, version[l]}

Refetching(l) ==
  \E k \in Calls :
    \/ /\ call[k].step = "done"
       /\ l \in Changes[call[k].command] \ Signals[call[k].command]
    \/ call[k].step = "answered" /\ l \in call[k].todo

NewsUnderway(l) ==
  \/ \E e \in signals : e.list = l
  \/ \E i \in DOMAIN wire : wire[i] = l
  \/ Asked(l)
  \/ Refetching(l)

(* A page that shows an old list will be told or is already asking, or it  *)
(* has lost the news in one of three ways: the event was not published or  *)
(* not received, a request failed, an older answer came after a newer one. *)
(* Commits, events and answers may interleave as they like otherwise       *)
(* (ManagerWorkspace.tsx:103-154, technician/page.tsx:50-86).              *)
StaleIsAccountedFor ==
  open => \A l \in Lists :
    shown[l] = version[l] \/ lost[l] # {} \/ NewsUnderway(l)

(* Once a command has been answered the page shows its effect or newer, as *)
(* soon as its refetches are back, whatever events are lost; only a failed *)
(* request or an older answer that came late can prevent it                *)
(* (ManagerWorkspace.tsx:156-209, technician/page.tsx:88-101).             *)
OwnChangesAreShown ==
  open => \A l \in Lists :
    \/ shown[l] >= own[l]
    \/ lost[l] \cap {"failed", "overtaken"} # {}
    \/ \E k \in Calls : call[k].step = "answered" /\ l \in call[k].todo
    \/ \E r \in Requests :
         /\ l \in request[r].lists
         /\ \/ request[r].got[l] = NotRead
            \/ request[r].got[l] >= own[l]

(* A page that is left alone comes to show what is committed, unless it    *)
(* loses the news on the way (ManagerWorkspace.tsx:136-146).               *)
PageCatchesUp ==
  \A l \in Lists :
    shown[l] # version[l] ~> shown[l] = version[l] \/ lost[l] # {} \/ ~open

(* When the page is left its socket ends for good: neither the timer nor   *)
(* a late onclose opens another (lib/api.ts:159-185).                      *)
SocketStops == [](~open => <>[](socket = "off"))

(* README.md:124: the page "refreshes on window focus to recover stale UI  *)
(* state". A page at rest should not be older than what such a refresh has *)
(* shown (ManagerWorkspace.tsx:107-154: whatever answer comes last is set).*)
FocusRecovers ==
  open /\ (\A r \in Requests : request[r] = NoRequest)
  => \A l \in Lists : shown[l] >= recovered[l]
=============================================================================
