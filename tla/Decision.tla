------------------------------ MODULE Decision -------------------------------
(***************************************************************************)
(* The reconcile loop from the tables to the decision log and the deploy   *)
(* log (internal/reconciler: fetch.go, compute.go, reconciler.go).  The    *)
(* snapshot is read by one query and then eight concurrent ones, outside   *)
(* any transaction, while operators change the tables; the gates, the      *)
(* rendering and the comparison with the latest deploy follow from it.     *)
(* What happens to an instruction on its way to the cluster and back is    *)
(* module Rollout; here the agent answers deployed or failed.              *)
(***************************************************************************)
EXTENDS Pages

CONSTANTS
    Assignable,  \* <<chart, target>> pairs operators assign
    LabelSets,   \* labels operators give an environment
    Configs,     \* <<feature, key, value>> operators configure globally
    Outcomes,    \* how the agent may answer: a subset of {"deployed", "failed"}
    InitEnvironments, InitValues, InitGlobalConfig, InitEnvConfig,
    InitAssigned, \* the tables at the start; sequence of <<chart, target>>
    Touched,     \* the environments operators disable features in and label
    Changes,     \* the kinds of change a run admits
    MaxChanges   \* bound: changes operators and agents make

ChangeKinds == {"assign", "deactivate", "config", "disable", "health", "labels",
               "db"}

Targets == {a[2] : a \in Assignable \cup Range(InitAssigned)}

AssignmentType ==
    [id : Nat, feature : {c.name : c \in Charts}, version : {c.version : c \in Charts},
     target : Targets, created : Nat, active : BOOLEAN]

ASSUME DecisionAssumption ==
    /\ Outcomes \subseteq {"deployed", "failed"}
    /\ Changes \subseteq ChangeKinds
    /\ MaxChanges \in Nat
ASSUME TablesAssumption ==
    /\ IsFiniteSet(DOMAIN InitEnvironments)
    /\ Assignable \subseteq Charts \X Targets
    /\ InitAssigned \in Seq(Charts \X Targets)
    /\ \A chart \in Charts : DOMAIN chart.dependencies \subseteq Nat
    /\ \A k \in DOMAIN InitValues : k = <<k[1], k[2]>>
\* What module Assignments shows of the table is so at the start: a feature and
\* a target have one active assignment.
ASSUME AssignedAssumption ==
    /\ NoRow \notin AssignmentType
    /\ \A target \in Targets : IsFiniteSet(DOMAIN target)
    /\ \A i, j \in DOMAIN InitAssigned :
          (InitAssigned[i][1].name = InitAssigned[j][1].name /\ InitAssigned[i][2] = InitAssigned[j][2])
             => i = j

VARIABLES
    cycle,        \* where Run is: pc, the queries still to do, snapshot, results
    changesLeft,
    lateDeploys   \* history: [<<environment, feature>> -> deploys sent since
                  \* the feature was disabled there]

vars == <<tables, cycle, changesLeft, lateDeploys>>

-----------------------------------------------------------------------------
(* The snapshot: ListAllTenantEnvironments, then eight queries in parallel *)

ListAllTenantEnvironments == environments
ListHealthStatuses == healthStatuses
ListDisabledFeatures == disabledFeatures
ListAllGlobalConfigs == globalConfig
ListAllEnvConfigs == envConfig
ListAllEnvironmentValues == environmentValues
ListLatestDeploys == deploy_status
\* Mutant: a deploy that has been sent counts as deployed.
ListDeployedFeaturesMutant == {<<r.env, r.feature>> : r \in deploy_status}
ListDeployedFeatures ==
    {<<r.env, r.feature>> : r \in {s \in deploy_status : s.status = "deployed"}}

Query(q) ==
    CASE q = "envs"        -> ListAllTenantEnvironments
      [] q = "health"      -> ListHealthStatuses
      [] q = "assignments" -> ListLatestFeatureAssignments
      [] q = "disabled"    -> ListDisabledFeatures
      [] q = "global"      -> ListAllGlobalConfigs
      [] q = "env"         -> ListAllEnvConfigs
      [] q = "values"      -> ListAllEnvironmentValues
      [] q = "latest"      -> ListLatestDeploys
      [] q = "deployed"    -> ListDeployedFeatures
Queries == {"health", "assignments", "disabled", "global", "env", "values",
            "latest", "deployed"}

\* The snapshot a cycle would read if nothing changed while it reads.
Now == [q \in Queries \cup {"envs"} |-> Query(q)]

Unread == "unread"
NoSnapshot == [q \in Queries \cup {"envs"} |-> Unread]
Idle == [pc |-> "idle", todo |-> {}, snap |-> NoSnapshot, results |-> {}]

-----------------------------------------------------------------------------
(* computeActionsStream and computeAction *)

\* The features one dependency lacks: those of allOf that are not deployed,
\* or all of anyOf when none of them is.
unmet(dep, e, deployed) ==
    LET missing == {g \in dep.allOf : <<e, g>> \notin deployed}
    IN  IF missing # {} THEN missing
        ELSE IF \E g \in dep.anyOf : <<e, g>> \in deployed THEN {}
        ELSE dep.anyOf

\* What checkDependencies reports as missing: the first dependency not met.
checkDependencies(chart, e, deployed) ==
    LET failing == {i \in DOMAIN chart.dependencies :
                      unmet(chart.dependencies[i], e, deployed) # {}}
    IN  IF failing = {} THEN {}
        ELSE unmet(chart.dependencies[Min(failing)], e, deployed)

Healthy(snap, e) == e \in DOMAIN snap["health"] /\ snap["health"][e] = "fresh"

\* The rendered release of an assignment, for one range order of its keys.
Rendered(snap, e, d, order) ==
    RenderHelmValues(d.chart, buildEnvValues(snap["envs"], snap["values"], e),
        mergeConfigRows(buildGlobalConfigMap(snap["global"], d.feature),
                        buildEnvConfigMap(snap["env"], e, d.feature),
                        configIncludeKeys(d.chart, snap["envs"][e].kind)),
        order)

\* DeployDecision; its message is the action and the names it lists.
Decided(e, d, action, names, hash) ==
    [env |-> e, feature |-> d.feature, fa |-> d.id, version |-> d.version,
     action |-> action, message |-> names, hash |-> hash]
NoHash == <<>>

computeAction(snap, e, d, order) ==
    LET missing == checkDependencies(d.chart, e, snap["deployed"])
        rendered == Rendered(snap, e, d, order)
        latest == {r \in snap["latest"] : r.env = e /\ r.feature = d.feature}
    IN  IF missing # {} THEN Decided(e, d, "missing-deps", missing, NoHash)
        ELSE IF ~rendered.ok THEN Decided(e, d, rendered.err, rendered.fields, NoHash)
        ELSE LET hash == generateHash(rendered.map, d.chart)
             IN  IF \E r \in latest : IsInProgress(r.status)
                 THEN Decided(e, d, "in-progress", {}, hash)
                 ELSE IF \E r \in latest : r.hash = hash
                 THEN Decided(e, d, "unchanged", {}, hash)
                 ELSE Decided(e, d, "deploy", {}, hash)

\* Mutant: disabled features are not skipped.
decideMutant(snap, e, d) ==
    IF ~Healthy(snap, e) THEN {Decided(e, d, "unhealthy", {}, NoHash)}
    ELSE {computeAction(snap, e, d, order) :
            order \in Orders(d.chart, snap["envs"][e].kind)}

\* The dispatch of computeActionsStream: a set, for the orders of ranging.
decide(snap, e, d) ==
    IF ~Healthy(snap, e) THEN {Decided(e, d, "unhealthy", {}, NoHash)}
    ELSE IF <<e, d.feature>> \in snap["disabled"]
    THEN {Decided(e, d, "disabled", {}, NoHash)}
    ELSE {computeAction(snap, e, d, order) :
            order \in Orders(d.chart, snap["envs"][e].kind)}

Reconciled(envs) == {e \in DOMAIN envs : envs[e].reconcile}
Winners(snap) ==
    UNION {{e} \X mostSpecificPerFeature(
                         matchAssignments(snap["assignments"], snap["envs"][e].labels)) :
              e \in Reconciled(snap["envs"])}

\* The results of computeActions: one decision per winner.
Results(snap) ==
    LET options == UNION {decide(snap, w[1], w[2]) : w \in Winners(snap)}
    IN  {results \in SUBSET options :
            \A r \in options : \E s \in results :
                \A t \in results : (t.env = r.env /\ t.feature = r.feature) <=> t = s}

-----------------------------------------------------------------------------
(* The cycle of Run *)

logs == <<deployLog, decisionLog>>

\* A cycle starts; fetchSnapshot reads the environments first.
StartCycle ==
    /\ cycle.pc = "idle"
    /\ cycle' = [cycle EXCEPT !.pc = "fetch", !.todo = Queries,
                              !.snap["envs"] = ListAllTenantEnvironments]
    /\ UNCHANGED <<tables, changesLeft, lateDeploys>>

Returned(qs) == [cycle EXCEPT !.todo = @ \ qs,
                              !.snap = [q \in DOMAIN @ |-> IF q \in qs THEN Query(q) ELSE @[q]]]

\* The queries that have not returned yet do.
Fetch ==
    /\ cycle.pc = "fetch" /\ cycle.todo # {}
    /\ cycle' = Returned(cycle.todo)
    /\ UNCHANGED <<tables, changesLeft, lateDeploys>>

\* A table is changed while a cycle may be reading: each of the queries qs
\* whose answer the change alters has returned before it, or has not.
While(qs) ==
    IF cycle.pc # "fetch" THEN cycle' = cycle
    ELSE \E before \in SUBSET (qs \cap cycle.todo) : cycle' = Returned(before)

\* A query or an append fails: the error is logged and the cycle is over.
CycleFails ==
    /\ cycle.pc \in {"fetch", "deploy"}
    /\ "db" \in Changes /\ changesLeft > 0
    /\ changesLeft' = changesLeft - 1
    /\ cycle' = Idle
    /\ UNCHANGED <<tables, lateDeploys>>

ListLatestDecisions == decision_status

SameDecision(p, r) == /\ p.env = r.env /\ p.feature = r.feature
                      /\ p.fa = r.fa /\ p.version = r.version
                      /\ p.action = r.action /\ p.message = r.message

\* Mutant: every cycle logs all its decisions.
ChangedMutant(results, latest) == results
\* Mutant: a decision is logged only when its action changes.
ChangedByAction(results, latest) ==
    {r \in results : ~\E p \in latest :
        p.env = r.env /\ p.feature = r.feature /\ p.action = r.action}
Changed(results, latest) ==
    {r \in results : ~\E p \in latest : SameDecision(p, r)}

AppendDecisions(rows) == decisionLog' = decisionLog \o SetToSeq(rows)

\* computeActions and writeResultLogs; the loop is the only writer of
\* decision_log, so the read and the append of one cycle are one step.
WriteResultLogs ==
    /\ cycle.pc = "fetch" /\ cycle.todo = {}
    /\ \E results \in Results(cycle.snap) :
          /\ AppendDecisions(Changed(results, ListLatestDecisions))
          /\ cycle' = [cycle EXCEPT !.pc = "deploy", !.snap = NoSnapshot,
                                    !.results = {r \in results : r.action = "deploy"}]
    /\ UNCHANGED <<inputTables, deployLog, audits, changesLeft, lateDeploys>>

NextDiid == Cardinality({r.diid : r \in Range(deployLog)}) + 1
SentRow(r, n) == [diid |-> NextDiid + n - 1, env |-> r.env, feature |-> r.feature,
                  fa |-> r.fa, version |-> r.version, status |-> "sent", hash |-> r.hash]

\* pubSubDeployer.Deploy: what is published is appended with status sent.
Deploy ==
    /\ cycle.pc = "deploy"
    /\ LET sent == SetToSeq(cycle.results)
       IN  deployLog' = deployLog \o [n \in DOMAIN sent |-> SentRow(sent[n], n)]
    /\ lateDeploys' = [k \in DOMAIN lateDeploys |->
          IF \E r \in cycle.results : k = <<r.env, r.feature>>
          THEN lateDeploys[k] + 1 ELSE lateDeploys[k]]
    /\ cycle' = Idle
    /\ UNCHANGED <<inputTables, decisionLog, audits, changesLeft>>

-----------------------------------------------------------------------------
(* The agents: a deploy that is in progress is answered *)

Answer(e, f, outcome) ==
    LET latest == LatestOf(deployLog, e, f)
    IN  /\ latest # NoRow
        /\ IsInProgress(latest.status)
        /\ While({"latest", "deployed"})
        /\ deployLog' = Append(deployLog, [latest EXCEPT !.status = outcome])
        /\ UNCHANGED <<inputTables, decisionLog, audits, changesLeft, lateDeploys>>

-----------------------------------------------------------------------------
(* Operators and agents change the tables; each change is one committed    *)
(* transaction (modules Assignments and Config have the steps inside).     *)

Change(kind) == /\ kind \in Changes
                /\ changesLeft > 0
                /\ changesLeft' = changesLeft - 1

AssignmentRow(id, chart, target) ==
    [id |-> id, feature |-> chart.name, version |-> chart.version,
     target |-> target, created |-> id, active |-> TRUE]

\* createFeatureAssignment, committed: the chart of a version that is already
\* stored is kept, the active assignment of the target is replaced.
Assign(chart, target) ==
    LET f == chart.name
        stored == <<f, chart.version>>
        row == AssignmentRow(Len(featureAssignments) + 1, chart, target)
        rows == Deactivated(featureAssignments, f, target)
    IN  /\ Change("assign") /\ While({"assignments"})
        /\ featureData' = IF stored \in DOMAIN featureData THEN featureData
                          ELSE Put(featureData, stored, chart)
        /\ featureAssignments' = Append(rows, row)
        /\ UNCHANGED <<environments, environmentValues, globalConfig, envConfig,
                       disabledFeatures, healthStatuses, logs, audits, lateDeploys>>

Deactivate(id) ==
    /\ Change("deactivate") /\ While({"assignments"})
    /\ featureAssignments[id].active
    /\ featureAssignments' = [featureAssignments EXCEPT ![id].active = FALSE]
    /\ UNCHANGED <<environments, environmentValues, featureData, globalConfig, envConfig,
                   disabledFeatures, healthStatuses, logs, audits, lateDeploys>>

SetConfig(f, k, v) ==
    /\ Change("config") /\ While({"global"})
    /\ Lookup(globalConfig, <<f, k>>) # [value |-> v, secret |-> FALSE]
    /\ globalConfig' = Put(globalConfig, <<f, k>>, [value |-> v, secret |-> FALSE])
    /\ UNCHANGED <<environments, environmentValues, featureData, featureAssignments, envConfig,
                   disabledFeatures, healthStatuses, logs, audits, lateDeploys>>

DisableFeature(e, f) ==
    /\ Change("disable") /\ While({"disabled"})
    /\ <<e, f>> \notin disabledFeatures
    /\ disabledFeatures' = disabledFeatures \cup {<<e, f>>}
    /\ lateDeploys' = Put(lateDeploys, <<e, f>>, 0)
    /\ UNCHANGED <<environments, environmentValues, featureData, featureAssignments,
                   globalConfig, envConfig, healthStatuses, logs, audits>>

EnableFeature(e, f) ==
    /\ Change("disable") /\ While({"disabled"})
    /\ <<e, f>> \in disabledFeatures
    /\ disabledFeatures' = disabledFeatures \ {<<e, f>>}
    /\ lateDeploys' = Drop(lateDeploys, <<e, f>>)
    /\ UNCHANGED <<environments, environmentValues, featureData, featureAssignments,
                   globalConfig, envConfig, healthStatuses, logs, audits>>

\* A health report arrives, or three minutes pass without one.  The
\* dispatch of a cycle judges the age of the row a moment after it is read.
ReportHealth(e, age) ==
    /\ Change("health") /\ While({"health"})
    /\ Lookup(healthStatuses, e) # age
    /\ healthStatuses' = Put(healthStatuses, e, age)
    /\ UNCHANGED <<environments, environmentValues, featureData, featureAssignments,
                   globalConfig, envConfig, disabledFeatures, logs, audits, lateDeploys>>

SetLabels(e, labels) ==
    /\ Change("labels") /\ While({})
    /\ environments[e].labels # labels
    /\ environments' = [environments EXCEPT ![e].labels = labels]
    /\ UNCHANGED <<environmentValues, featureData, featureAssignments, globalConfig, envConfig,
                   disabledFeatures, healthStatuses, logs, audits, lateDeploys>>

-----------------------------------------------------------------------------
LoopStep == \/ StartCycle
            \/ Fetch
            \/ WriteResultLogs
            \/ Deploy
AgentStep == \E e \in DOMAIN environments, f \in FeatureNames, outcome \in Outcomes :
                Answer(e, f, outcome)
ChangeStep ==
    \/ \E a \in Assignable : Assign(a[1], a[2])
    \/ \E id \in DOMAIN featureAssignments : Deactivate(id)
    \/ \E c \in Configs : SetConfig(c[1], c[2], c[3])
    \/ \E e \in Touched, f \in FeatureNames :
          DisableFeature(e, f) \/ EnableFeature(e, f)
    \/ \E e \in Touched, age \in {"fresh", "stale"} : ReportHealth(e, age)
    \/ \E e \in Touched, labels \in LabelSets : SetLabels(e, labels)

Next == LoopStep \/ CycleFails \/ AgentStep \/ ChangeStep

\* Run cycles until the process stops: some step of the loop is always
\* enabled and a cycle is finite, so weak fairness of LoopStep is that cycles
\* start again and again.  naisd handles what it is sent.
Fairness == []<><<StartCycle>>_vars /\ WF_vars(AgentStep)

Init ==
    /\ environments = InitEnvironments
    /\ environmentValues = InitValues
    /\ envConfig = InitEnvConfig
    /\ featureData = [k \in {<<a[1].name, a[1].version>> : a \in Range(InitAssigned)} |->
                        CHOOSE c \in Charts : k = <<c.name, c.version>>]
    /\ featureAssignments = [id \in DOMAIN InitAssigned |->
                               AssignmentRow(id, InitAssigned[id][1], InitAssigned[id][2])]
    /\ globalConfig = InitGlobalConfig /\ disabledFeatures = {}
    /\ healthStatuses = [e \in DOMAIN InitEnvironments |-> "fresh"]
    /\ deployLog = <<>> /\ decisionLog = <<>> /\ audits = <<>>
    /\ cycle = Idle
    /\ changesLeft = MaxChanges
    /\ lateDeploys = EmptyTable

Spec == Init /\ [][Next]_vars /\ Fairness

-----------------------------------------------------------------------------
(* Properties *)

\* The pages depend on the tables alone.  In a state where queries are still
\* under way they need not be looked at: Fetch is enabled there and leads to a
\* state with the same tables.
AllRead == cycle.todo = {}

\* checkDependencies with a snapshot that is not one transaction: an
\* instruction is sent only after every feature its chart depends on has been
\* deployed in that environment.
DeployedBefore(log, i, e, g) ==
    \E j \in 1 .. i - 1 : log[j].env = e /\ log[j].feature = g /\ log[j].status = "deployed"
DependenciesMet(log, i, charts, r) ==
    LET deps == charts[<<r.feature, r.version>>].dependencies
    IN  \A n \in DOMAIN deps :
            /\ \A g \in deps[n].allOf : DeployedBefore(log, i, r.env, g)
            /\ deps[n].anyOf # {} =>
                  \E g \in deps[n].anyOf : DeployedBefore(log, i, r.env, g)
DependencyFirst ==
    \A i \in DOMAIN deployLog : deployLog[i].status = "sent" =>
        DependenciesMet(deployLog, i, featureData, deployLog[i])

\* writeResultLogs, as decisionlog.go describes the table: "A row exists only
\* for cycles where the decision changed".  Two rows in a row for a feature in
\* an environment differ.
DecisionLogIsTransitions ==
    \A j \in DOMAIN decisionLog : \A i \in 1 .. j - 1 :
        SameDecision(decisionLog[i], decisionLog[j]) =>
            \E n \in i + 1 .. j - 1 : /\ decisionLog[n].env = decisionLog[j].env
                                     /\ decisionLog[n].feature = decisionLog[j].feature

\* ListRecentDeployInstructions groups the rows of the log in Go, the other
\* queries pick rows in SQL: the newest entry of the history is the latest
\* instruction with its latest status, its newest deployed entry the latest
\* successful one, whichever query is asked (there may be one further back than
\* a history that is full), and the log lines that are shown are those of the
\* latest instruction, of the assignment it was made for.
DeployPagesAgree ==
    \A e \in DOMAIN environments, f \in FeatureNames :
        LET latest == GetLatestDeployInstruction(e, f)
            history == ListRecentDeployInstructions(e, f, HistoryLimit)
            deployed == {n \in DOMAIN history : history[n].status = "deployed"}
            successful == Lookup(LatestDeployedForEnvironment(e), f)
        IN  /\ latest = IF DOMAIN history = {} THEN NoRow ELSE history[1]
            /\ Lookup(LatestDeployInstructionsForEnvironment(e), f) = latest
            /\ Lookup(LatestDeployInstructionsForFeature(f), e) = latest
            /\ deployed # {} => successful = history[Min(deployed)]
            /\ deployed = {} => successful = NoRow \/ HistoryLimit \in DOMAIN history
            /\ Lookup(LatestDeployedForFeature(f), e) = successful
            /\ loadFeatureLog(e, f) = latest
            /\ latest # NoRow => /\ latest \in ListDeployInstructions(latest.fa)
                                 /\ GetFeatureLog(latest.fa, e) = latest

\* Every page and the REST API tell the same story, whatever the latest
\* decisions and deploys are and whichever assignment they were made for: the
\* home of a feature, its assignments page, the page of an environment and the
\* page of the feature there name the same assignment and the same status, the
\* list of assignments shows what GET /feature-assignments answers, the page of
\* an assignment shows a status for every environment that it rules, and all of
\* them name the same latest and latest successful deploys.
PagesAgree == AllRead =>
    /\ DeployPagesAgree
    /\ \A f \in FeatureNames :
          LET rows == featureAssignmentEnvStatuses(f)
              current == currentAssignmentEnvStatuses(rows)
          IN  /\ {<<r.env, r.fa, r.status>> : r \in LoadEnvironments(f)} =
                    {<<r.env, r.fa, r.status>> : r \in current}
              /\ \A r \in current :
                    /\ r.status = NormalizeStatus(FeaturePageStatus(r.env, f))
                    /\ \E row \in loadEnvironmentFeatureRows(r.env) :
                          /\ row.feature = f /\ row.status = r.status
                          /\ row.instruction = r.instruction
                          /\ row.lastSuccessful = r.lastDeployed
              /\ \A d \in {x \in ActiveAssignments : x.feature = f} :
                    LET detail == AssignmentDetail(d, rows)
                    IN  \A r \in rows :
                          (r.fa = d.id /\ r.status \notin {"disabled", "unknown"}) =>
                              /\ r.env \in DOMAIN detail
                              /\ r.status # Overridden => detail[r.env] = r.status
    /\ \A d \in ActiveAssignments : AssignmentsPageStatus(d) = GetFeatureAssignment(d.id)

\* DisableFeature while a cycle is under way: at most the one deploy that this
\* cycle had already decided on is sent after the feature is disabled.
OneLateDeploy == \A k \in DOMAIN lateDeploys : lateDeploys[k] <= 1

\* What makes DependencyFirst, DecisionLogIsTransitions and OneLateDeploy
\* inductive.  The tables refer to each other the way the schema says.
TablesInv ==
    /\ DOMAIN environments = DOMAIN InitEnvironments
    /\ \A k \in DOMAIN featureData : featureData[k] \in Charts
    /\ featureAssignments \in Seq(AssignmentType)
    /\ \A d \in Range(featureAssignments) : <<d.feature, d.version>> \in DOMAIN featureData
    /\ deployLog \in Seq(Range(deployLog))
    /\ decisionLog \in Seq(Range(decisionLog))
    /\ \A r \in Range(deployLog) :
          /\ DOMAIN r = {"diid", "env", "feature", "fa", "version", "status", "hash"}
          /\ <<r.feature, r.version>> \in DOMAIN featureData
CycleInv ==
    /\ DOMAIN cycle = {"pc", "todo", "snap", "results"}
    /\ DOMAIN cycle.snap = Queries \cup {"envs"}
    /\ cycle.pc \in {"idle", "fetch", "deploy"}
    /\ cycle.todo \subseteq Queries

\* What a cycle c has read stays true of the tables, however long ago it did:
\* a stored chart is kept, and a log only grows.
HasRead(c, q) == c.pc = "fetch" /\ q \notin c.todo
SnapshotOK(c, log, charts) ==
    /\ c.pc = "fetch" => DOMAIN c.snap["envs"] = DOMAIN InitEnvironments
    /\ HasRead(c, "assignments") =>
          /\ IsFiniteSet(c.snap["assignments"])
          /\ \A d \in c.snap["assignments"] :
                /\ <<d.feature, d.version>> \in DOMAIN charts
                /\ d.chart = charts[<<d.feature, d.version>>]
    /\ HasRead(c, "deployed") =>
          \A k \in c.snap["deployed"] : DeployedBefore(log, Len(log) + 1, k[1], k[2])
    /\ c.pc = "deploy" =>
          /\ IsFiniteSet(c.results)
          /\ \A r \in c.results : /\ <<r.feature, r.version>> \in DOMAIN charts
                                  /\ DependenciesMet(log, Len(log) + 1, charts, r)

\* Once a late deploy has been sent, every later cycle sees the feature disabled.
LateOK(c, disabled, late) ==
    \A k \in disabled : late[k] = 1 =>
        /\ HasRead(c, "disabled") => k \in c.snap["disabled"]
        /\ c.pc = "deploy" => \A r \in c.results : <<r.env, r.feature>> # k
LateInv == /\ DOMAIN lateDeploys = disabledFeatures
           /\ \A k \in disabledFeatures : lateDeploys[k] \in {0, 1}

DecisionInv ==
    /\ TablesInv /\ CycleInv /\ LateInv
    /\ SnapshotOK(cycle, deployLog, featureData)
    /\ LateOK(cycle, disabledFeatures, lateDeploys)
    /\ DependencyFirst /\ DecisionLogIsTransitions

\* aggregateRecentDeploys on the newest rows of the log, wherever the limit of
\* the scan cuts an instruction's rows in two: each instruction it sees is
\* counted once, with its latest status, and the home page shows a version as
\* deployed only where each of them is.
LatestOfDiid(d) == deployLog[Max({i \in DOMAIN deployLog : deployLog[i].diid = d})]
RecentDeploysAreExact == AllRead =>
    \A lim \in 1 .. Len(deployLog) :
        LET rows == ListRecentDeploys(lim)
            groups == aggregateRecentDeploys(rows)
        IN  \A g \in DOMAIN groups :
                LET of == {LatestOfDiid(d) : d \in
                             {rows[i].diid : i \in {j \in DOMAIN rows :
                                <<rows[j].feature, rows[j].version>> = g}}}
                IN  /\ groups[g].total = Cardinality(of)
                    /\ groups[g].deployed = Cardinality({r \in of : r.status = "deployed"})
                    /\ groups[g].pending = Cardinality({r \in of : IsInProgress(r.status)})
                    /\ deployRollupStatus(groups[g]) = "deployed"
                          <=> \A r \in of : r.status = "deployed"

\* What makes it inductive: instructions are numbered as they are sent, what a
\* row says of its instruction but for the status is what the first one said,
\* only the last one says that it has ended, and the rows of an instruction follow
\* those of earlier ones for the same feature in the same environment.
SameInstruction(r, s) == /\ r.env = s.env /\ r.feature = s.feature /\ r.fa = s.fa
                         /\ r.version = s.version /\ r.hash = s.hash
Diids(log) == {r.diid : r \in Range(log)}
InstructionsOK(log) ==
    /\ Diids(log) = 1 .. Cardinality(Diids(log))
    /\ \A i, j \in DOMAIN log :
          /\ log[i].diid = log[j].diid => SameInstruction(log[i], log[j])
          /\ (i < j /\ log[i].diid = log[j].diid) => IsInProgress(log[i].status)
          /\ (i < j /\ log[i].env = log[j].env /\ log[i].feature = log[j].feature)
                => log[i].diid <= log[j].diid
InstructionsInv == InstructionsOK(deployLog)

\* What makes PagesAgree hold.  An assignment has the position of its row as its
\* id, keeps its feature, and is the only active one of its feature and target;
\* what has been read, decided and sent for it is of that feature.
OfAssignment(rows, id, f) == id \in DOMAIN rows /\ rows[id].feature = f
AssignmentsOK(rows) ==
    /\ \A id \in DOMAIN rows : rows[id].id = id /\ rows[id].created = id
    /\ \A i, j \in DOMAIN rows :
          (/\ rows[i].active /\ rows[j].active
           /\ rows[i].feature = rows[j].feature /\ rows[i].target = rows[j].target) => i = j
IsDeployRow(r) == r = [diid |-> r.diid, env |-> r.env, feature |-> r.feature, fa |-> r.fa,
                       version |-> r.version, status |-> r.status, hash |-> r.hash]
NamesOK(c, log, rows) ==
    /\ \A i \in DOMAIN log : IsDeployRow(log[i]) /\ OfAssignment(rows, log[i].fa, log[i].feature)
    /\ HasRead(c, "assignments") => \A d \in c.snap["assignments"] :
          OfAssignment(rows, d.id, d.feature)
    /\ c.pc = "deploy" => \A r \in c.results : OfAssignment(rows, r.fa, r.feature)
AssignedInv == /\ AssignmentsOK(featureAssignments)
               /\ NamesOK(cycle, deployLog, featureAssignments)
               /\ disabledFeatures \subseteq Touched \X FeatureNames

\* No target asks for the empty value of a label.  The copies of the match in
\* Go take a label that an environment lacks for an empty one, SQL does not.
\* Nothing in the code keeps such a target out.
TargetsHaveValues == \A target \in Targets : \A k \in DOMAIN target : target[k] # EmptyValue

\* A chart is stored under its own name, and the values of environments are
\* the ones at the start.
StoredInv == /\ \A k \in DOMAIN featureData : k = <<featureData[k].name, featureData[k].version>>
             /\ environmentValues = InitValues

\* No environment has a value of its own called name or kind.  The preview
\* writes the identity of the environment over such a value, the loop writes
\* the value over the identity.  Nothing in the code keeps such a value out.
NoReservedValues == \A k \in DOMAIN InitValues : k[2] \notin ReservedKeys

\* The values a page previews (helmValues, from per-feature queries) are the
\* values the loop would render (from bulk queries), in every environment and
\* for every winning assignment.
PreviewIsWhatIsDeployed == AllRead =>
    LET now == Now
    IN  \A w \in Winners(now) : \A order \in Orders(w[2].chart, environments[w[1]].kind) :
            helmValues(ChartOf(w[2]), w[1], order) = Rendered(now, w[1], w[2], order)

DecisionsTrue ==
    LET now == Now
    IN  \A w \in Winners(now) :
            LET logged == LatestOf(decisionLog, w[1], w[2].feature)
            IN  /\ logged # NoRow
                /\ logged.action \notin {"deploy", "in-progress"}
                /\ \E r \in decide(now, w[1], w[2]) : SameDecision(logged, r)

\* Whatever mixture of table states the cycles have read, once the tables stop
\* changing the decision log tells the truth for good: the latest decision on
\* every winner is, between cycles, the one the tables lead to, and nothing is
\* left to deploy.
DecisionsBecomeTrue == <>[](cycle.pc = "idle" => DecisionsTrue)
=============================================================================
