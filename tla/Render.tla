------------------------------- MODULE Render --------------------------------
(***************************************************************************)
(* From configuration and environment values to helm values                *)
(* (internal/feature).  A key is the path SmartDotSplit makes of a dotted  *)
(* name; a helm value map is the function from the paths of its leaves to  *)
(* their values, so a path with a leaf below it is a nested map.           *)
(*                                                                         *)
(* A chart is a record: name, version, url, dependencies (a sequence of    *)
(* records allOf, anyOf) and values, a function from keys to               *)
(*   config, secret, required : BOOLEAN,                                   *)
(*   ignoreKind : a set of environment kinds,                              *)
(*   computed : a template, or NoTemplate.                                 *)
(* A template prints one environment value, [from, key, guarded], where    *)
(* from is "Env" or "Management".  Printing a value that is absent yields  *)
(* the text "<no value>" (text/template); a guarded template, with its     *)
(* action inside {{with}}, then renders to nothing, which is a YAML null.  *)
(***************************************************************************)
EXTENDS Integers, Sequences, FiniteSets, SequencesExt, FiniteSetsExt, Functions

CONSTANTS
    NoTemplate, \* Value.Computed is nil
    NoValueText,\* the text "<no value>"
    Null,       \* a YAML null
    Nil         \* the nil map: no management environment

StrictPrefixes(path) == {SubSeq(path, 1, i) : i \in 1 .. Len(path) - 1}
Below(map, path) == {p \in DOMAIN map : IsStrictPrefix(path, p)}
Has(map, path) == path \in DOMAIN map \/ Below(map, path) # {}

\* SecretKeys, RequiredFields, configIncludeKeys and the same loop in
\* fetchHelmRenderData.
SecretKeys(chart) == {k \in DOMAIN chart.values :
                        chart.values[k].config /\ chart.values[k].secret}
RequiredFields(chart, kind) ==
    {k \in DOMAIN chart.values : /\ kind \notin chart.values[k].ignoreKind
                                 /\ chart.values[k].required}
configIncludeKeys(chart, kind) ==
    {k \in DOMAIN chart.values : /\ chart.values[k].config
                                 /\ kind \notin chart.values[k].ignoreKind}

-----------------------------------------------------------------------------
(* Configuration: rows of one feature, [key -> row] *)

\* No include keys means no filter: the len(keySet) > 0 of both merges.
Included(rows, keys) ==
    IF keys = {} THEN rows ELSE Restrict(rows, DOMAIN rows \cap keys)

\* Rows written to a map over those it has.
Over(rows, map) == [k \in DOMAIN rows \cup DOMAIN map |->
                       IF k \in DOMAIN rows THEN rows[k] ELSE map[k]]

\* Mutant: the global row hides the row of the environment.
MergeConfigsMutant(global, env, keys) ==
    Over(Included(global, keys), Included(env, keys))

\* MergeConfigs: rows of the environment over global rows.
MergeConfigs(global, env, keys) ==
    Over(Included(env, keys), Included(global, keys))

\* MakeHelmConfigMap fails when a key is a strict prefix of another one.
MakeHelmConfigMap(merged) ==
    IF \E k \in DOMAIN merged : StrictPrefixes(k) \cap DOMAIN merged # {}
    THEN [ok |-> FALSE, err |-> "render-error", fields |-> {}]
    ELSE [ok |-> TRUE, map |-> [k \in DOMAIN merged |-> merged[k].value]]

-----------------------------------------------------------------------------
(* Templates *)

renderTemplate(mv, tpl) ==
    LET from == IF tpl.from = "Env" THEN mv.Env ELSE mv.Management
    IN  IF from # Nil /\ tpl.key \in DOMAIN from THEN from[tpl.key]
        ELSE IF tpl.guarded THEN Null ELSE NoValueText

\* addToMap: a value that is already there stays, and a scalar on the way to
\* the key is an error.  An error ends GenerateWith.
addToMap(target, mv, path, tpl) ==
    IF \E p \in StrictPrefixes(path) : p \in DOMAIN target.map
    THEN [ok |-> FALSE, err |-> "render-error", fields |-> {}]
    ELSE IF Has(target.map, path) THEN target
    ELSE [target EXCEPT !.map = @ @@ (path :> renderTemplate(mv, tpl))]

ComputedKeys(chart, kind) ==
    {k \in DOMAIN chart.values : /\ chart.values[k].computed # NoTemplate
                                 /\ kind \notin chart.values[k].ignoreKind}

\* The orders in which range visits the map of the computed keys.
Orders(chart, kind) == SetToSeqs(ComputedKeys(chart, kind))

GenerateWith(chart, mv, target, order) ==
    FoldLeft(LAMBDA t, k : IF ~t.ok THEN t
                           ELSE addToMap(t, mv, k, chart.values[k].computed),
             target, order)

-----------------------------------------------------------------------------
(* ValidateFields and RenderHelmValues *)

\* One step of the walk down to a required field: a null or an absent part is
\* missing, below a scalar the walk goes on in the same map.
WalkPart(map, walk, part) ==
    LET p == Append(walk.at, part)
    IN  IF ~walk.ok \/ ~Has(map, p) THEN [walk EXCEPT !.ok = FALSE]
        ELSE IF p \notin DOMAIN map THEN [walk EXCEPT !.at = p]
        ELSE [walk EXCEPT !.ok = map[p] # Null]

ValidateFields(chart, kind, merged, map) ==
    {k \in RequiredFields(chart, kind) :
        /\ k \notin DOMAIN merged
        /\ ~FoldLeft(LAMBDA w, part : WalkPart(map, w, part),
                     [at |-> <<>>, ok |-> TRUE], k).ok}

\* What Fasit itself adds, over anything the chart has there.
FasitPath == <<"fasit">>
WithFasit(map, mv) ==
    Restrict(map, {p \in DOMAIN map : ~IsPrefix(FasitPath, p)})
    @@ (FasitPath :> <<mv.tenant, mv.Env["name"], mv.kind>>)

RenderHelmValues(chart, mv, merged, order) ==
    LET config == MakeHelmConfigMap(merged)
        target == IF config.ok THEN GenerateWith(chart, mv, config, order) ELSE config
    IN  IF ~target.ok THEN target
        ELSE LET map == WithFasit(target.map, mv)
                 missing == ValidateFields(chart, mv.kind, merged, map)
             IN  IF missing # {}
                 THEN [ok |-> FALSE, err |-> "missing-config", fields |-> missing]
                 ELSE [ok |-> TRUE, map |-> map]

\* generateHash: equal exactly when values, version and chart are.
generateHash(map, chart) == <<map, chart.version, chart.url>>
=============================================================================
