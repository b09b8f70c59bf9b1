----------------------- MODULE AuthSessionsProperties -----------------------
(***************************************************************************)
(* What users and the rest of the server may rely on in the sessions.      *)
(***************************************************************************)
EXTENDS AuthSessions

(* A call is let in only if its session had neither been revoked nor come  *)
(* to its end when the call arrived: what is checked late, in three        *)
(* queries, is never more lenient than what was so at the beginning        *)
(* (auth/service.go:93, 200; README.md:130 "Logout revokes the active      *)
(* session, session expiry is enforced server side").                      *)
AdmittedWereGood ==
  \A c \in Calls : At(c, "run") => call[c].good

(* A call that is refused, and not for a failed query, is one of a session *)
(* for whose own cookie a logout was asked, or whose time is over but for  *)
(* less than a second: neither the logout of the user's other sessions nor *)
(* the cut of the token's expiry takes more                                *)
(* (auth/service.go:83, 93, 122-126, 200).                                 *)
RefusalsAreDue ==
  \A c \in Calls :
    LET s == call[c].session IN
    At(c, "refused") => s \in asked \/ now > session[s].expiresAt - TicksPerSecond

(* Once a logout has been answered with success the session it was for is  *)
(* revoked, since no later than that answer, whatever logouts of the same  *)
(* session are repeated or overtake each other (router.go:132-153,         *)
(* auth/service.go:114-128).                                               *)
LogoutRevokes ==
  \A s \in Sessions :
    answered[s] # Never => session[s].revokedAt \in 0..answered[s]

Over(s) ==
  session[s] # NoRow /\ (session[s].revokedAt # Never \/ now >= session[s].expiresAt)

(* When a session is over, its sockets and the calls let in before come to *)
(* an end and no other call is let in for it, however often the pages that *)
(* still hold its cookie reconnect (ws/hub.go:196-226).                    *)
EndedSessionsFallSilent ==
  \A s \in Sessions :
    Over(s) ~> [](\A c \in Calls : At(c, "run") => call[c].session # s)
=============================================================================
