---------------------------- MODULE MCAssignments ----------------------------
(* Two versions of one feature, a target that is part of another, and an    *)
(* environment for each.                                                    *)
EXTENDS Assignments

Labels(k, t) == [kind |-> k, tenant |-> t]
MCEnvironments ==
    (<<"acme", "prod">> :> [kind |-> "tenant", labels |-> Labels("tenant", "acme"),
                            reconcile |-> TRUE])
    @@ (<<"acme", "management">> :> [kind |-> "management",
                                     labels |-> Labels("management", "acme"),
                                     reconcile |-> TRUE])

Chart(version) == [name |-> "app", version |-> version, url |-> "oci://charts",
                   dependencies |-> <<>>, values |-> EmptyTable]
MCCharts == {Chart(v) : v \in {"1", "2", "3"}}
Everywhere == <<>>
OfKind == [kind |-> "tenant"]

MCAssigned == <<<<Chart("1"), Everywhere>>, <<Chart("1"), OfKind>>>>
MCOperations == {Create(Chart("2"), OfKind), Create(Chart("2"), Everywhere),
                 Deactivate(2), DeactivateMatching(2)}
=============================================================================
