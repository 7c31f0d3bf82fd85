-------------------------------- MODULE Store --------------------------------
(***************************************************************************)
(* The PostgreSQL database that every part of Fasit meets in: its tables   *)
(* (migrations 0089 to 0098) as variables, the two views of the logs, and  *)
(* the statements that more than one component executes.  Modules that     *)
(* model a component extend this one and say which tables they leave alone.*)
(*                                                                         *)
(* A table with a unique key is a function on the keys present.  The       *)
(* serial id of the append-only tables is the position in a sequence.      *)
(* A label set is a function from label names to label values, as in the   *)
(* jsonb columns labels and target.                                        *)
(***************************************************************************)
EXTENDS Integers, Sequences, FiniteSets, SequencesExt, FiniteSetsExt, Functions

CONSTANTS
    Charts,     \* the helm charts in the registry, see ChartType of Render
    EmptyValue, \* the label value ""
    NoRow       \* a query for one row that finds none

VARIABLES
    environments,       \* [environment -> tenant, kind, labels, reconcile]
    environmentValues,  \* [<<environment, key>> -> value, secret]
    featureData,        \* [<<feature, version>> -> the chart stored for it]
    featureAssignments, \* sequence of rows; the id is the position
    globalConfig,       \* [<<feature, key>> -> value, secret]
    envConfig,          \* [<<environment, feature, key>> -> value, secret]
    disabledFeatures,   \* set of <<environment, feature>>
    healthStatuses,     \* [environment -> when naisd reported last]
    deployLog,          \* sequence of rows, oldest first
    decisionLog,        \* sequence of rows, oldest first
    audits              \* sequence of rows, oldest first

tables == <<environments, environmentValues, featureData, featureAssignments,
            globalConfig, envConfig, disabledFeatures, healthStatuses,
            deployLog, decisionLog, audits>>
inputTables == <<environments, environmentValues, featureData,
                 featureAssignments, globalConfig, envConfig,
                 disabledFeatures, healthStatuses>>

EmptyTable == <<>>  \* the function with no keys

-----------------------------------------------------------------------------
(* Upsert and delete on a keyed table *)

Put(table, k, row) == [x \in DOMAIN table \cup {k} |->
                          IF x = k THEN row ELSE table[x]]
Drop(table, k) == Restrict(table, DOMAIN table \ {k})
Lookup(table, k) == IF k \in DOMAIN table THEN table[k] ELSE NoRow

-----------------------------------------------------------------------------
(* The views deploy_status and decision_status: the latest row of a log per *)
(* environment and feature.                                                 *)

View(log) ==
    {log[i] : i \in {j \in DOMAIN log : \A n \in j + 1 .. Len(log) :
                         log[n].feature # log[j].feature \/ log[n].env # log[j].env}}
\* :one, with pgx.ErrNoRows as NoRow.
One(rows) == IF rows = {} THEN NoRow ELSE CHOOSE r \in rows : TRUE
LatestOf(log, e, f) == One({r \in View(log) : r.env = e /\ r.feature = f})
deploy_status == View(deployLog)
decision_status == View(decisionLog)

-----------------------------------------------------------------------------
(* feature_assignments: a row holds id (its position), feature, version,   *)
(* target, created and active.                                             *)

AssignmentRows == Range(featureAssignments)
ActiveAssignments == {d \in AssignmentRows : d.active}
\* JOIN feature_data fd ON d.feature_name = fd.name AND d.version = fd.version
ChartOf(d) == featureData[<<d.feature, d.version>>]

\* DISTINCT ON (feature_name, target) ... ORDER BY ..., created DESC: of the
\* rows of a feature and target the one created last.
DistinctOnTarget(rows) ==
    {d \in rows : \A other \in rows :
        (other.feature = d.feature /\ other.target = d.target)
        => other.created <= d.created}

\* ORDER BY created DESC: row n has n - 1 newer ones.
NewestFirst(rows) ==
    [n \in 1 .. Cardinality(rows) |->
        CHOOSE d \in rows : Cardinality({x \in rows : x.created > d.created}) = n - 1]

\* UPDATE ... SET active = FALSE for the active row of a feature and target.
Deactivated(rows, f, target) ==
    [id \in DOMAIN rows |->
        IF rows[id].feature = f /\ rows[id].target = target /\ rows[id].active
        THEN [rows[id] EXCEPT !.active = FALSE] ELSE rows[id]]
=============================================================================
