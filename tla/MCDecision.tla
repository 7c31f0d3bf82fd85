----------------------------- MODULE MCDecision ------------------------------
(* Instances of Decision: a tenant environment beside the tenant's          *)
(* management environment, and a feature that depends on another.           *)
EXTENDS Decision

Prod == <<"acme", "prod">>
Management == <<"acme", "management">>
Kind(k) == [kind |-> k]

Plain(v) == [value |-> v, secret |-> FALSE]

MCEnvironments ==
    (Prod :> [kind |-> "tenant", labels |-> Kind("tenant"), reconcile |-> TRUE])
    @@ (Management :> [kind |-> "management", labels |-> Kind("management"),
                       reconcile |-> FALSE])
MCValues == (<<Management, "domain">> :> Plain("acme.test"))
            @@ (<<Prod, "project">> :> [value |-> "p1", secret |-> TRUE])
MCGlobalConfig == (<<"app", <<"size">>>> :> Plain("small"))
                  @@ (<<"app", <<"zone">>>> :> Plain("a"))
MCOverride == <<Prod, "app", <<"zone">>>> :> Plain("b")

ConfigKey(required) == [config |-> TRUE, secret |-> FALSE, required |-> required,
                        ignoreKind |-> {"management"}, computed |-> NoTemplate]
ComputedKey(from, k) == [config |-> FALSE, secret |-> FALSE, required |-> TRUE,
                         ignoreKind |-> {},
                         computed |-> [from |-> from, key |-> k, guarded |-> TRUE]]

Chart(f, version, deps, values) ==
    [name |-> f, version |-> version, url |-> "oci://charts", dependencies |-> deps,
     values |-> values]

Base == Chart("base", "1", <<>>, <<"host">> :> ComputedKey("Management", "domain"))
App ==
    Chart("app", "1",
          <<[allOf |-> {"base"}, anyOf |-> {}], [allOf |-> {}, anyOf |-> {"base", "other"}]>>,
          (<<"size">> :> ConfigKey(TRUE)) @@ (<<"zone">> :> ConfigKey(FALSE)))

MCCharts == {Base, App}
MCAssigned == <<<<Base, Kind("tenant")>>, <<App, <<>>>>>>
MCSizes == {<<"app", <<"size">>, "large">>}
MCLabelSets == {Kind("tenant"), Kind("other")}
MCTouched == {Prod}
MCAssignable == {<<App, Kind("tenant")>>}
=============================================================================
