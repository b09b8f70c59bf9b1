----------------------------- MODULE MCEventHub -----------------------------
(* Instances of EventHub for TLC.                                          *)
EXTENDS EventHubProperties, TLC

CONSTANTS m1, m2, c1, c2

(* The manager m2 belongs to another organization.                         *)
OrgPerManager == [u \in Users |-> IF u = m2 THEN "org2" ELSE "org1"]

TwoManagers == (c1 :> m1) @@ (c2 :> m2)

(* The managers are of the same organization.                             *)
OneOrganization == [u \in Users |-> "org1"]

Tells(type, to) == [type |-> type, to |-> to]

(* What m1 and m2 cause by an assignment, without the technician's part.   *)
ToManagers ==
  {<<Tells("quotes.changed", OrgOf[m]), Tells("jobs.changed", m)>> :
     m \in Managers}

(* What a manager causes by creating a quote.                              *)
QuoteCreated == {<<Tells("quotes.changed", OrgOf[m])>> : m \in Managers}

NoStarts == [t \in Technicians |-> {}]
=============================================================================
