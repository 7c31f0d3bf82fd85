------------------------------- MODULE Status --------------------------------
(***************************************************************************)
(* What the pages and the REST API say about a feature in an environment:  *)
(* the latest decision and the latest deploy joined by the precedence      *)
(* ladder of deriveState (internal/reconciler/status.go), the roll-up of   *)
(* an assignment over environments (internal/model) and the roll-up of     *)
(* recent deploys (recentdeploys.go).  Times are left out.                 *)
(***************************************************************************)
EXTENDS Matching

NoSignal == "none"  \* the zero decisionSignal or deploySignal
IsInProgress(s) == s \in {"sent", "installing"}
Blockers == {"unhealthy", "missing-deps", "missing-config", "render-error"}

deriveState(deploy, action) ==
    IF action = "disabled" THEN "disabled"
    ELSE IF IsInProgress(deploy) THEN deploy
    ELSE IF action \in Blockers THEN action
    ELSE IF deploy \in {"deployed", "failed"} THEN deploy
    ELSE IF action \in {"deploy", "in-progress"} THEN "pending"
    ELSE IF action = "unchanged" THEN "deployed"
    ELSE "unknown"

\* joinReconcileSignals: one status per environment of either signal.
joinReconcileSignals(decisions, deploys) ==
    [e \in {r.env : r \in decisions} \cup {r.env : r \in deploys} |->
        LET dec == {r \in decisions : r.env = e}
            dep == {r \in deploys : r.env = e}
        IN  deriveState(IF dep = {} THEN NoSignal ELSE (CHOOSE r \in dep : TRUE).status,
                        IF dec = {} THEN NoSignal ELSE (CHOOSE r \in dec : TRUE).action)]

-----------------------------------------------------------------------------
(* The read path of one assignment *)

ListDecisionStatuses(fa) == {r \in decision_status : r.fa = fa}
ListDeployStatuses(fa) == {r \in deploy_status : r.fa = fa}
ReconcileStatuses(fa) ==
    joinReconcileSignals(ListDecisionStatuses(fa), ListDeployStatuses(fa))

FeatureStatusForEnvironment(e, f) ==
    LET d == WinningAssignment(e, f)
    IN  IF d = NoRow THEN NoSignal
        ELSE LET statuses == ReconcileStatuses(d.id)
             IN  IF e \in DOMAIN statuses THEN statuses[e] ELSE NoSignal

-----------------------------------------------------------------------------
(* The read path of all assignments *)

ListAllDecisionStatuses == decision_status
ListAllDeployStatuses == deploy_status

\* Mutant: an assignment with no decision is left out.
AllReconcileStatusesMutant ==
    LET decisions == ListAllDecisionStatuses
        deploys == ListAllDeployStatuses
    IN  [fa \in {r.fa : r \in decisions} |->
            joinReconcileSignals({r \in decisions : r.fa = fa}, {r \in deploys : r.fa = fa})]

AllReconcileStatuses ==
    LET decisions == ListAllDecisionStatuses
        deploys == ListAllDeployStatuses
    IN  [fa \in {r.fa : r \in decisions \cup deploys} |->
            joinReconcileSignals({r \in decisions : r.fa = fa}, {r \in deploys : r.fa = fa})]

FeatureStatusesForEnvironment(e) ==
    LET statuses == AllReconcileStatuses
        winners == {d \in ListForEnvironment(e) : d.id \in DOMAIN statuses
                                                /\ e \in DOMAIN statuses[d.id]}
    IN  [f \in {d.feature : d \in winners} |->
            statuses[(CHOOSE d \in winners : d.feature = f).id][e]]

-----------------------------------------------------------------------------
(* GET /feature-assignments/{id}: FeatureReconcileStatusStates.Aggregate *)

blockedPrecedence == <<"render-error", "missing-deps", "missing-config">>

Aggregate(states) ==
    LET live == Range(states) \ {"disabled"}
        blocked == SelectSeq(blockedPrecedence, LAMBDA s : s \in live)
    IN  IF DOMAIN states = {} THEN "unknown"
        ELSE IF live = {} THEN "disabled"
        ELSE IF "failed" \in live THEN "failed"
        ELSE IF blocked # <<>> THEN Head(blocked)
        ELSE IF live = {"deployed"} THEN "deployed"
        ELSE "pending"

GetFeatureAssignment(fa) == Aggregate(ReconcileStatuses(fa))

-----------------------------------------------------------------------------
(* Recent deploys *)

\* The newest lim rows of deploy_log, newest first.
ListRecentDeploys(lim) ==
    Reverse(SubSeq(deployLog, Len(deployLog) - Min({lim, Len(deployLog)}) + 1, Len(deployLog)))

\* The first row of an instruction in the list is its latest one.
FirstOfDiid(rows) ==
    {i \in DOMAIN rows : \A j \in 1 .. i - 1 : rows[j].diid # rows[i].diid}

\* Mutant: every row counts, not the latest of its instruction.
aggregateRecentDeploysMutant(rows) ==
    [g \in {<<rows[i].feature, rows[i].version>> : i \in DOMAIN rows} |->
        LET of == {i \in DOMAIN rows : <<rows[i].feature, rows[i].version>> = g}
        IN  [total |-> Cardinality(of),
             deployed |-> Cardinality({i \in of : rows[i].status = "deployed"}),
             failed |-> Cardinality({i \in of : rows[i].status = "failed"}),
             pending |-> Cardinality({i \in of : IsInProgress(rows[i].status)})]]

\* aggregateRecentDeploys, before it is cut to the groups that are shown.
aggregateRecentDeploys(rows) ==
    [g \in {<<rows[i].feature, rows[i].version>> : i \in DOMAIN rows} |->
        LET of == {i \in FirstOfDiid(rows) : <<rows[i].feature, rows[i].version>> = g}
        IN  [total |-> Cardinality(of),
             deployed |-> Cardinality({i \in of : rows[i].status = "deployed"}),
             failed |-> Cardinality({i \in of : rows[i].status = "failed"}),
             pending |-> Cardinality({i \in of : IsInProgress(rows[i].status)})]]

\* The badge of a row of the home page.
deployRollupStatus(r) ==
    IF r.total > 0 /\ r.deployed = r.total THEN "deployed"
    ELSE IF r.failed > 0 THEN "error" ELSE "pending"
=============================================================================
