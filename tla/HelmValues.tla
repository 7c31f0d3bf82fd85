----------------------------- MODULE HelmValues ------------------------------
(***************************************************************************)
(* The two ways from the tables to helm values.  The pages, the API and    *)
(* the template tester read the rows of one environment and feature        *)
(* (internal/feature/queries.go); the reconcile loop builds the same data  *)
(* for all environments from bulk queries (internal/reconciler/fetch.go).  *)
(* An environment is the pair of its tenant's name and its own name, which *)
(* the schema keeps unique.                                                *)
(***************************************************************************)
EXTENDS Matching, Render

CONSTANT Redacted   \* the text "*****" in place of a secret value

TenantOf(e) == e[1]
NameOf(e) == e[2]
ReservedKeys == {"name", "kind"}
Identity(e, kind, k) == IF k = "name" THEN NameOf(e) ELSE kind

\* The rows of one feature, [key -> row].
ListGlobalConfigByFeature(f) ==
    LET keys == {x \in DOMAIN globalConfig : x[1] = f}
    IN  [k \in {x[2] : x \in keys} |-> globalConfig[<<f, k>>]]
ListEnvConfigByFeature(e, f) ==
    LET keys == {x \in DOMAIN envConfig : x[1] = e /\ x[2] = f}
    IN  [k \in {x[3] : x \in keys} |-> envConfig[<<e, f, k>>]]

-----------------------------------------------------------------------------
(* internal/feature/queries.go *)

ValueKeys(values, e) == {x[2] : x \in {y \in DOMAIN values : y[1] = e}}

\* ListMappingValuesForTenant: a secret value is shown on request only.
MappingValue(row, showSensitive) ==
    IF row.secret /\ ~showSensitive THEN Redacted ELSE row.value

\* The name and the kind are set after the values have been unmarshalled.
MappingValues(e, showSensitive) ==
    [k \in ValueKeys(environmentValues, e) \cup ReservedKeys |->
        IF k \in ReservedKeys THEN Identity(e, environments[e].kind, k)
        ELSE MappingValue(environmentValues[<<e, k>>], showSensitive)]

TenantEnvs(envs, e) == {x \in DOMAIN envs : TenantOf(x) = TenantOf(e)}
ManagementOf(envs, e) == {x \in TenantEnvs(envs, e) : envs[x].kind = "management"}

MappingValuesForEnvironment(e, showSensitive) ==
    LET management == ManagementOf(environments, e)
    IN  [kind |-> environments[e].kind,
         tenant |-> TenantOf(e),
         Env |-> MappingValues(e, showSensitive),
         Management |-> IF management = {} THEN Nil
                        ELSE MappingValues(CHOOSE x \in management : TRUE, showSensitive),
         Envs |-> {MappingValues(x, showSensitive) :
                     x \in TenantEnvs(environments, e) \ management}]

\* The environment keys that taint detection treats as secret.
ListSecretKeysForTenant(e) ==
    {x[2] : x \in {y \in DOMAIN environmentValues :
                     TenantOf(y[1]) = TenantOf(e) /\ environmentValues[y].secret}}

\* fetchHelmRenderData followed by RenderHelmValues, for one range order.
fetchHelmRenderData(chart, e) ==
    [mv |-> MappingValuesForEnvironment(e, TRUE),
     merged |-> MergeConfigs(ListGlobalConfigByFeature(chart.name),
                             ListEnvConfigByFeature(e, chart.name),
                             configIncludeKeys(chart, environments[e].kind)),
     secretEnvKeys |-> ListSecretKeysForTenant(e)]
helmValues(chart, e, order) ==
    LET data == fetchHelmRenderData(chart, e)
    IN  RenderHelmValues(chart, data.mv, data.merged, order)

-----------------------------------------------------------------------------
(* internal/reconciler/fetch.go, on the rows of a snapshot *)

\* buildGlobalConfigMap and buildEnvConfigMap, looked up for one feature.
buildGlobalConfigMap(rows, f) ==
    [k \in {x[2] : x \in {y \in DOMAIN rows : y[1] = f}} |-> rows[<<f, k>>]]
buildEnvConfigMap(rows, e, f) ==
    [k \in {x[3] : x \in {y \in DOMAIN rows : y[1] = e /\ y[2] = f}} |->
        rows[<<e, f, k>>]]

\* Here a stored value with the key "name" or "kind" replaces the identity.
SnapshotValues(envs, values, e) ==
    [k \in ValueKeys(values, e) \cup ReservedKeys |->
        IF <<e, k>> \in DOMAIN values THEN values[<<e, k>>].value
        ELSE Identity(e, envs[e].kind, k)]

buildEnvValues(envs, values, e) ==
    LET management == ManagementOf(envs, e)
    IN  [kind |-> envs[e].kind,
         tenant |-> TenantOf(e),
         Env |-> SnapshotValues(envs, values, e),
         Management |-> IF management = {} THEN Nil
                        ELSE SnapshotValues(envs, values, CHOOSE x \in management : TRUE),
         Envs |-> {SnapshotValues(envs, values, x) :
                     x \in TenantEnvs(envs, e) \ management}]

\* Mutant: the global row hides the row of the environment.
mergeConfigRowsMutant(global, env, keys) ==
    Over(Included(global, keys), Included(env, keys))
\* mergeConfigRows: the copy of MergeConfigs in internal/reconciler.
mergeConfigRows(global, env, keys) ==
    Over(Included(env, keys), Included(global, keys))
=============================================================================
