------------------------------ MODULE MCRollout ------------------------------
(* Instances of Rollout for TLC: the scenarios of each run. *)
EXTENDS Rollout

Plan(faults, most, changes, requests) ==
    [faults |-> faults, most |-> most, changes |-> changes, requests |-> requests]

\* Every kind of fault, beside a Redeploy or a change of the desired state; two
\* faults of the milder kinds beside two changes.
AllPlans == {Plan(FaultKinds, 1, 0, Requests), Plan(FaultKinds, 1, 1, {}),
             Plan(SerialFaults, 2, 2, {}), Plan(RetriedFaults, 2, 2, {})}

\* The publish that fails after Publish has returned.
LostPublish == {Plan({"publish_lost"}, 1, 0, {})}

=============================================================================
