-------------------------------- MODULE Pages --------------------------------
(***************************************************************************)
(* What the pages read from the tables (internal/ui): each page as an      *)
(* operator from the tables to the rows it shows.  Layout, links and times *)
(* are left out.  The pages repeat the matching and the status rules of    *)
(* the reconcile loop; the modules that extend this one compare them.      *)
(***************************************************************************)
EXTENDS HelmValues, History

FeatureNames == {c.name : c \in Charts}
Overridden == "overridden"
HistoryLimit == 50  \* the deploys a page of a feature lists

NormalizeStatus(s) == IF s = NoSignal THEN "unknown" ELSE s

ListTenantEnvironments(onlyReconciled) ==
    {e \in DOMAIN environments : onlyReconciled => environments[e].reconcile}
ListDisabledEnvironmentsForFeature(f) == {k[1] : k \in {x \in disabledFeatures : x[2] = f}}

\* The three copies of the label match in the pages, and the preview's.
targetMatchesLabels(target, labels) == \A k \in DOMAIN target : LabelAt(labels, k) = target[k]
labelsMatch(labels, target) == \A k \in DOMAIN target : LabelAt(labels, k) = target[k]
matchesLabels(labels, target) ==
    DOMAIN target = {} \/ \A k \in DOMAIN target : LabelAt(labels, k) = target[k]
matchesFilters(labels, filters) == \A k \in DOMAIN filters : LabelAt(labels, k) = filters[k]

\* The active assignments of a feature, newest first.
ListByFeature(f) == NewestFirst({d \in ActiveAssignments : d.feature = f})

\* The first of each target in a list that is newest first.
latestAssignmentPerTarget(fas) ==
    {fas[i] : i \in {j \in DOMAIN fas :
                       \A n \in 1 .. j - 1 : fas[n].target # fas[j].target}}

winningAssignment(fas, e) ==
    winnerOf({fa \in fas : targetMatchesLabels(fa.target, environments[e].labels)})

StatusOf(statuses, fa, e) ==
    IF fa.id \in DOMAIN statuses /\ e \in DOMAIN statuses[fa.id]
    THEN statuses[fa.id][e] ELSE NoSignal

-----------------------------------------------------------------------------
(* featureenvs.LoadEnvironments: the environments of a feature *)

LoadEnvironments(f) ==
    LET fas == latestAssignmentPerTarget(ListByFeature(f))
        statuses == AllReconcileStatuses
        disabled == ListDisabledEnvironmentsForFeature(f)
        Row(e, fa) == [env |-> e, fa |-> fa.id, version |-> fa.version,
                       enabled |-> e \notin disabled,
                       status |-> IF ~environments[e].reconcile \/ e \in disabled
                                  THEN "disabled"
                                  ELSE NormalizeStatus(StatusOf(statuses, fa, e))]
    IN  {Row(e, winningAssignment(fas, e)) :
            e \in {x \in ListTenantEnvironments(FALSE) : winningAssignment(fas, x) # NoRow}}

-----------------------------------------------------------------------------
(* The assignments page of a feature *)

\* One row per assignment and environment it matches.
featureAssignmentEnvStatuses(f) ==
    LET fas == latestAssignmentPerTarget(ListByFeature(f))
        statuses == AllReconcileStatuses
        disabled == ListDisabledEnvironmentsForFeature(f)
        deployed == LatestDeployedForFeature(f)
        latest == LatestDeployInstructionsForFeature(f)
        Status(e, fa, winner) ==
            IF winner.id # fa.id THEN Overridden
            ELSE IF ~environments[e].reconcile \/ e \in disabled THEN "disabled"
            ELSE NormalizeStatus(StatusOf(statuses, fa, e))
        Row(e, fa, winner) ==
            [env |-> e, fa |-> fa.id, version |-> fa.version,
             enabled |-> e \notin disabled, status |-> Status(e, fa, winner),
             by |-> winner.id, lastDeployed |-> Lookup(deployed, e),
             instruction |-> Lookup(latest, e)]
    IN  {Row(k[1], k[2], winningAssignment(fas, k[1])) :
            k \in {x \in ListTenantEnvironments(FALSE) \X fas :
                     targetMatchesLabels(x[2].target, environments[x[1]].labels)}}

currentAssignmentEnvStatuses(rows) == {r \in rows : r.status # Overridden}

-----------------------------------------------------------------------------
(* The page of an environment and of a feature in an environment *)

ListEnvironmentFeatures(e) ==
    {[feature |-> d.feature, disabled |-> <<e, d.feature>> \in disabledFeatures] :
        d \in ListForEnvironment(e)}

loadEnvironmentFeatureRows(e) ==
    LET statuses == FeatureStatusesForEnvironment(e)
        Status(r) == IF ~environments[e].reconcile \/ r.disabled THEN "disabled"
                     ELSE IF r.feature \in DOMAIN statuses
                     THEN NormalizeStatus(statuses[r.feature]) ELSE "unknown"
        latest == LatestDeployInstructionsForEnvironment(e)
        deployed == LatestDeployedForEnvironment(e)
    IN  {[feature |-> r.feature, status |-> Status(r),
          instruction |-> Lookup(latest, r.feature),
          lastSuccessful |-> Lookup(deployed, r.feature)] :
            r \in ListEnvironmentFeatures(e)}

\* The status part of loadFeaturePageData.
FeaturePageStatus(e, f) ==
    IF ~environments[e].reconcile \/ <<e, f>> \in disabledFeatures THEN "disabled"
    ELSE FeatureStatusForEnvironment(e, f)

\* The assignments tab there: the candidates with most labels.
loadEnvironmentAssignments(e, f) ==
    LET matching == {d \in Range(ListByFeature(f)) :
                       labelsMatch(environments[e].labels, d.target)}
        maxLabels == Max({0} \cup {Cardinality(DOMAIN d.target) : d \in matching})
    IN  {d \in matching : Cardinality(DOMAIN d.target) = maxLabels}

\* A helm release is orphaned when no assignment wants it in the environment.
buildReleaseRows(e, releases) ==
    [rel \in releases |-> ~\E d \in ListForEnvironment(e) : d.feature = rel]

-----------------------------------------------------------------------------
(* The list of assignments, the preview of a target, the labels page *)

AssignmentsPageStatus(d) ==
    IF ~d.active THEN "inactive"
    ELSE LET statuses == AllReconcileStatuses
         IN  Aggregate(IF d.id \in DOMAIN statuses THEN statuses[d.id] ELSE EmptyTable)

PreviewTargets(target) ==
    {e \in ListTenantEnvironments(FALSE) : matchesLabels(environments[e].labels, target)}
LabelsPage(filters) ==
    {e \in ListTenantEnvironments(FALSE) : matchesFilters(environments[e].labels, filters)}

\* Another active assignment of the same feature and target, made later.
SupersededBy(d) ==
    {other \in AssignmentRows : /\ other.feature = d.feature /\ other.target = d.target
                                /\ other.active /\ other.created > d.created}

\* The rows of the page of an assignment: its statuses, and the environments
\* it matches where another assignment wins and it has no status; rows are
\* those of the assignments page of its feature.
AssignmentDetail(d, rows) ==
    LET statuses == ReconcileStatuses(d.id)
        overridden == {r.env : r \in {x \in rows : x.fa = d.id /\ x.status = Overridden}}
    IN  [e \in DOMAIN statuses \cup overridden |->
            IF e \in DOMAIN statuses THEN NormalizeStatus(statuses[e]) ELSE Overridden]

-----------------------------------------------------------------------------
(* Features and their versions *)

\* The chart a feature's own pages use: of its newest active assignment.
FeatureByName(f) ==
    LET fas == ListByFeature(f) IN IF fas = <<>> THEN NoRow ELSE ChartOf(fas[1])

ListActiveFeatures ==
    {ChartOf(d) : d \in {x \in ActiveAssignments :
        \A y \in ActiveAssignments : y.feature = x.feature => y.created <= x.created}}

\* LEFT JOIN feature_assignments: a version that was never assigned is as old
\* as time.
FeatureVersions(f) ==
    [v \in {k[2] : k \in {x \in DOMAIN featureData : x[1] = f}} |->
        Max({0} \cup {d.created : d \in {x \in AssignmentRows :
                                            x.feature = f /\ x.version = v}})]

envsByVersion(rows) ==
    [v \in {r.version : r \in rows} |-> {r.env : r \in {x \in rows : x.version = v}}]

-----------------------------------------------------------------------------
(* Configuration: the comparison of one key over environments *)

featureEnvironments(f) ==
    {e \in ListTenantEnvironments(FALSE) :
        \E d \in latestAssignmentPerTarget(ListByFeature(f)) :
            targetMatchesLabels(d.target, environments[e].labels)}

HelmDefault == "helm value"

\* compareKeyAcrossEnvs for a configured key: environment, global, default.
compareKeyAcrossEnvs(f, key) ==
    [e \in featureEnvironments(f) |->
        IF <<e, f, key>> \in DOMAIN envConfig THEN envConfig[<<e, f, key>>].value
        ELSE IF <<f, key>> \in DOMAIN globalConfig THEN globalConfig[<<f, key>>].value
        ELSE HelmDefault]

GetGlobalConfig(f) == ListGlobalConfigByFeature(f)
GetEnvConfig(f, e) ==
    MergeConfigs(ListGlobalConfigByFeature(f), ListEnvConfigByFeature(e, f), {})

\* The global configuration of a feature: stored rows, and the declared keys
\* without a row.
loadGlobalConfigItems(chart) ==
    LET stored == GetGlobalConfig(chart.name)
    IN  [k \in DOMAIN stored \cup DOMAIN chart.values |->
            [value |-> IF k \in DOMAIN stored THEN stored[k].value ELSE HelmDefault,
             orphaned |-> k \notin DOMAIN chart.values]]

\* The values tab of an environment.
ListEnvironmentValuesForEnvironment(e, showSensitive) ==
    [k \in ValueKeys(environmentValues, e) |->
        MappingValue(environmentValues[<<e, k>>], showSensitive)]

\* The configuration a feature page lists: stored rows, merged without a
\* filter, and the declared keys without a row.
loadFeatureConfigItems(chart, e) ==
    LET stored == GetEnvConfig(chart.name, e)
        declared == {k \in DOMAIN chart.values :
                       chart.values[k].config \/ chart.values[k].computed # NoTemplate}
    IN  [k \in DOMAIN stored \cup declared |->
            [value |-> IF k \in DOMAIN stored THEN stored[k].value ELSE HelmDefault,
             orphaned |-> k \notin declared,
             secret |-> k \in SecretKeys(chart)]]
=============================================================================
