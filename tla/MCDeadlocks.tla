---------------------------- MODULE MCDeadlocks -----------------------------
(* Requests that contend for the locks of a few rows, for TLC.             *)
EXTENDS MCScheduling

CONSTANTS q1, q2, t1, j1

(* Quote q1 is wanted in the first window, q2 in the second, and jobs are  *)
(* moved to the second.                                                    *)
Staggered ==
  {r \in Wellformed :
     /\ r.op = "assign" => r.startsAt = IF r.quote = q1 THEN 0 ELSE 2
     /\ r.op = "reschedule" => r.startsAt = 2}

(* Quote q1 is wanted for technician t1, q2 for the others, to whom job j1 *)
(* is moved as well.                                                       *)
Contending ==
  {r \in Wellformed :
     /\ r.op = "assign" => (r.quote = q1 <=> r.technician = t1)
     /\ r.op = "reschedule" => r.technician # t1 /\ r.job = j1
     /\ r.op # "complete"}

Alike ==
  Permutations(Handlers) \cup Permutations(Managers)
    \cup Permutations(Technicians) \cup Permutations(Jobs)
=============================================================================
