----------------------------- MODULE MCLivePage -----------------------------
(* Instances of LivePage for TLC.                                         *)
EXTENDS LivePageProperties, TLC

Alike == Permutations(Requests) \cup Permutations(Calls)
=============================================================================
