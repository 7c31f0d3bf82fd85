------------------------------- MODULE MCConfig ------------------------------
(* One feature with a plain key and a secret one, in a tenant environment    *)
(* that overrides the plain key and in one that does not take it.            *)
EXTENDS Config

Prod == <<"acme", "prod">>
Management == <<"acme", "management">>
Labels(k) == [kind |-> k]
Env(k) == [kind |-> k, labels |-> Labels(k), reconcile |-> TRUE]
MCEnvironments == (Prod :> Env("tenant")) @@ (Management :> Env("management"))

Size == <<"size">>
Token == <<"token">>
Declared(secret, ignore) == [config |-> TRUE, secret |-> secret, required |-> FALSE,
                             ignoreKind |-> ignore, computed |-> NoTemplate]
App == [name |-> "app", version |-> "1", url |-> "oci://charts", dependencies |-> <<>>,
        values |-> (Size :> Declared(FALSE, {"management"}))
                   @@ (Token :> Declared(TRUE, {}))]
MCCharts == {App}
MCAssigned == <<<<App, EmptyTable>>>>

ProdSize == <<"env", <<Prod, "app", Size>>>>
ProdToken == <<"env", <<Prod, "app", Token>>>>
AppSize == <<"global", <<"app", Size>>>>
MCInitConfig == (ProdSize :> "small") @@ (AppSize :> "small")

MCValues == {"tiny", "small", "medium", "large", "s3cret"}
MCForms == {<<Set(ProdSize, "large")>>, <<Update(ProdSize, "medium")>>, <<Delete(ProdSize)>>,
            <<Update(ProdSize, "tiny"), Set(ProdToken, "s3cret")>>,
            <<Disable(Prod, "app")>>, <<Enable(Prod, "app")>>,
            <<Set(AppSize, "large")>>, <<Delete(AppSize)>>}

MCProvisions == {MakeTenant("beta"), MakeEnvironment(<<"beta", "dev">>, Env("tenant")),
                 Relabel(Prod, Labels("other")),
                 SetValue(Prod, ProjectKey, [value |-> "p1", secret |-> FALSE]),
                 SetValue(Prod, ProjectKey, [value |-> "p2", secret |-> TRUE]),
                 DropValue(Prod, ProjectKey)}
=============================================================================
