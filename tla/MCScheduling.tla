--------------------------- MODULE MCScheduling -----------------------------
(* Instances of Scheduling for TLC.                                        *)
EXTENDS SchedulingProperties, TLC

OneOrg == [x \in Users \cup Quotes |-> "org1"]

AlwaysAvailable == [t \in Technicians |-> Instants]

(* Well-formed requests by actors of the right role.                       *)
Wellformed == {r \in AllRequests : RoleAllows(r) /\ ValidInput(r)}

Interchangeable ==
  Permutations(Handlers) \cup Permutations(Managers)
    \cup Permutations(Technicians) \cup Permutations(Quotes)
    \cup Permutations(Jobs)
=============================================================================
