----------------------------- MODULE MCTenancy ------------------------------
(* A server of two organizations, for TLC.                                 *)
EXTENDS MCScheduling

(* The manager m3 belongs to another organization than everyone else.      *)
CONSTANTS m3

TwoOrgs == [x \in Users \cup Quotes |-> IF x = m3 THEN "org2" ELSE "org1"]

(* Every technician is off at the last instant.                            *)
Off == CHOOSE s \in Instants : \A i \in Instants : i <= s

EarlyRisers == [t \in Technicians |-> Instants \ {Off}]

(* What the roles allow, with for each check that is made before a window  *)
(* is looked at a request that fails it.                                   *)
Mixed ==
  {r \in Wellformed : r.op # "complete" => r.startsAt # Off}
    \cup {[op |-> "assign", actor |-> u, quote |-> q, technician |-> t,
           startsAt |-> Off] :
            u \in {m3} \cup Technicians, q \in {NoId}, t \in Technicians}
    \cup {[op |-> "reschedule", actor |-> m, job |-> j, technician |-> t,
           startsAt |-> Off] : m \in Managers \ {m3}, j \in Jobs, t \in Technicians}

Replicas ==
  Permutations(Handlers) \cup Permutations(Managers \ {m3})
    \cup Permutations(Technicians) \cup Permutations(Quotes)
    \cup Permutations(Jobs)
=============================================================================
