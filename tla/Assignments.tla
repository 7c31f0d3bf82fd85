----------------------------- MODULE Assignments -----------------------------
(***************************************************************************)
(* Creating and deactivating assignments (internal/featureassignment,      *)
(* behind the REST API and the pages), statement by statement: requests    *)
(* run at the same time, each in a READ COMMITTED transaction of its own.  *)
(* An UPDATE picks its rows from the snapshot it starts with, waits for    *)
(* the row locks and looks at its condition again; an INSERT waits for an  *)
(* uncommitted row of the same key and then meets the unique index         *)
(* feature_assignments_one_active_per_feature_target.                      *)
(*                                                                         *)
(* Uncommitted work is kept with the request and reaches the tables at     *)
(* Commit.  The columns that no statement changes are read once.           *)
(***************************************************************************)
EXTENDS Pages

CONSTANTS
    Requests,         \* the requests a run makes
    Operations,       \* what they may ask for, see Create, Deactivate, DeactivateMatching
    InitEnvironments,
    InitAssigned,     \* sequence of <<chart, target>> assigned at the start
    MaxFaults         \* bound: failing statements and crashes

\* The targets that occur, what rows and operations may hold.
Targets == {a[2] : a \in Range(InitAssigned)}
           \cup {op.target : op \in {o \in Operations : o.kind = "create"}}
Row == [id : Nat, feature : FeatureNames, version : {c.version : c \in Charts},
        target : Targets, created : Nat, active : BOOLEAN]
Audit == [action : {"created", "deleted"}, fa : Nat, key : FeatureNames \X Targets]
Operation == [kind : {"create"}, chart : Charts, target : Targets]
             \cup [kind : {"deactivate", "matching"}, fa : Nat \ {0}]

ASSUME AssignmentsAssumption ==
    /\ MaxFaults \in Nat
    /\ Operations \subseteq Operation
    /\ InitAssigned \in Seq(Charts \X Targets)
    /\ NoRow \notin Row \cup Charts
    /\ \A target \in Targets : IsFiniteSet(DOMAIN target)

\* The unique index holds of what the database has at the start.
ASSUME IndexAssumption ==
    \A i, j \in DOMAIN InitAssigned :
        /\ InitAssigned[i][1].name = InitAssigned[j][1].name
        /\ InitAssigned[i][2] = InitAssigned[j][2]
        => i = j

VARIABLES
    req,        \* [request -> pc, op, start, snap, off, row, fa]
    clock,      \* transactions begun; now() is the start of the transaction
    faultsLeft

vars == <<tables, req, clock, faultsLeft>>
othersThanAssigned == <<environments, environmentValues, globalConfig, envConfig,
                        disabledFeatures, healthStatuses, deployLog, decisionLog>>

Create(chart, target) == [kind |-> "create", chart |-> chart, target |-> target]
Deactivate(id) == [kind |-> "deactivate", fa |-> id]
DeactivateMatching(id) == [kind |-> "matching", fa |-> id]

NoFA == 0
Waiting == [pc |-> "idle", op |-> NoRow, start |-> 0, snap |-> {}, off |-> {},
            row |-> NoRow, fa |-> NoFA]

InTx(r) == req[r].pc \in {"update", "lock", "insert", "commit"}
Key(d) == <<d.feature, d.target>>

\* The key a request is about: of its chart and target, or of its assignment.
KeyOf(op) == IF op.kind = "create" THEN <<op.chart.name, op.target>>
             ELSE Key(featureAssignments[op.fa])

\* Mutant: the condition on the target is missing.
MatchesMutant(op, d) ==
    IF op.kind = "deactivate" THEN d.id = op.fa
    ELSE d.feature = KeyOf(op)[1] /\ d.active

\* The WHERE of the three UPDATE statements.
Matches(op, d) ==
    IF op.kind = "deactivate" THEN d.id = op.fa
    ELSE Key(d) = KeyOf(op) /\ d.active

\* Mutant: a failed request keeps the rows it has locked.
EndedMutant(r, pc) == [req[r] EXCEPT !.pc = pc, !.snap = {}, !.row = NoRow]
\* A transaction is over, by commit or by rollback.
Ended(r, pc) == [req[r] EXCEPT !.pc = pc, !.snap = {}, !.off = {}, !.row = NoRow]

-----------------------------------------------------------------------------
(* The handlers up to the transaction *)

\* A request arrives, is authorised and parsed; for a create the chart has
\* been downloaded.  A request that fails here has touched nothing.
Receive(r, op) ==
    /\ req[r].pc = "idle"
    /\ op.kind # "create" => op.fa \in DOMAIN featureAssignments
    /\ req' = [req EXCEPT ![r].op = op,
                          ![r].pc = IF op.kind = "create" THEN "data" ELSE "begin"]
    /\ UNCHANGED <<tables, clock, faultsLeft>>

\* CreateFeatureData, a statement of its own; a duplicate (23505) is ignored,
\* so the chart stored first for a version stays.
CreateFeatureData(r) ==
    LET chart == req[r].op.chart
        stored == <<chart.name, chart.version>>
    IN  /\ req[r].pc = "data"
        /\ featureData' = IF stored \in DOMAIN featureData THEN featureData
                          ELSE Put(featureData, stored, chart)
        /\ req' = [req EXCEPT ![r].pc = "begin"]
        /\ UNCHANGED <<othersThanAssigned, featureAssignments, audits, clock, faultsLeft>>

-----------------------------------------------------------------------------
(* WithTx *)

Begin(r) ==
    /\ req[r].pc = "begin"
    /\ clock' = clock + 1
    /\ req' = [req EXCEPT ![r].pc = "update", ![r].start = clock + 1]
    /\ UNCHANGED <<tables, faultsLeft>>

\* The UPDATE starts: it finds its rows in what is committed now.
StartUpdate(r) ==
    /\ req[r].pc = "update"
    /\ req' = [req EXCEPT ![r].pc = "lock",
                          ![r].snap = {id \in DOMAIN featureAssignments :
                                         Matches(req[r].op, featureAssignments[id])}]
    /\ UNCHANGED <<tables, clock, faultsLeft>>

\* The UPDATE has the row locks (at most one row is active for a key) and has
\* looked at its condition again.
FinishUpdate(r) ==
    /\ req[r].pc = "lock"
    /\ \A other \in Requests \ {r} : req[other].off \cap req[r].snap = {}
    /\ req' = [req EXCEPT ![r].pc = IF req[r].op.kind = "create" THEN "insert" ELSE "commit",
                          ![r].off = {id \in req[r].snap :
                                        Matches(req[r].op, featureAssignments[id])}]
    /\ UNCHANGED <<tables, clock, faultsLeft>>

\* Another transaction has inserted a row of the key, or locked one away.
KeyIsBusy(r) ==
    LET k == KeyOf(req[r].op)
    IN  \E other \in Requests \ {r} :
           \/ req[other].row # NoRow /\ Key(req[other].row) = k
           \/ \E id \in req[other].off :
                 featureAssignments[id].active /\ Key(featureAssignments[id]) = k

\* Mutant: there is no unique index.
DuplicateMutant(r) == FALSE
\* The unique index: an active row of the key that this request has not
\* deactivated.
Duplicate(r) ==
    \E id \in DOMAIN featureAssignments \ req[r].off :
        /\ featureAssignments[id].active
        /\ Key(featureAssignments[id]) = KeyOf(req[r].op)

NewRow(r) ==
    LET op == req[r].op
    IN  [id |-> NoFA, feature |-> op.chart.name, version |-> op.chart.version,
         target |-> op.target, created |-> req[r].start, active |-> TRUE]

CreateFeatureAssignment(r) ==
    /\ req[r].pc = "insert"
    /\ ~KeyIsBusy(r)
    /\ req' = [req EXCEPT ![r] = IF Duplicate(r) THEN Ended(r, "failed")
                                 ELSE [@ EXCEPT !.pc = "commit", !.row = NewRow(r)]]
    /\ UNCHANGED <<tables, clock, faultsLeft>>

\* The audit row inside the transaction of a deactivation.
DeletedAudit(op) ==
    [action |-> "deleted", fa |-> IF op.kind = "deactivate" THEN op.fa ELSE NoFA,
     key |-> KeyOf(op)]

Deactivations(r) == [id \in DOMAIN featureAssignments |->
    IF id \in req[r].off THEN [featureAssignments[id] EXCEPT !.active = FALSE]
    ELSE featureAssignments[id]]

\* COMMIT of a create; audit.Create follows outside the transaction.
CommitCreate(r) ==
    LET id == Len(featureAssignments) + 1
    IN  /\ req[r].pc = "commit" /\ req[r].op.kind = "create"
        /\ featureAssignments' = Append(Deactivations(r), [req[r].row EXCEPT !.id = id])
        /\ req' = [req EXCEPT ![r] = [Ended(r, "audit") EXCEPT !.fa = id]]
        /\ UNCHANGED <<othersThanAssigned, featureData, audits, clock, faultsLeft>>

\* COMMIT of a deactivation, with its audit row.
CommitDeactivate(r) ==
    /\ req[r].pc = "commit" /\ req[r].op.kind # "create"
    /\ featureAssignments' = Deactivations(r)
    /\ audits' = Append(audits, DeletedAudit(req[r].op))
    /\ req' = [req EXCEPT ![r] = Ended(r, "done")]
    /\ UNCHANGED <<othersThanAssigned, featureData, clock, faultsLeft>>

AuditCreated(r) ==
    /\ req[r].pc = "audit"
    /\ audits' = Append(audits, [action |-> "created", fa |-> req[r].fa,
                                 key |-> KeyOf(req[r].op)])
    /\ req' = [req EXCEPT ![r].pc = "done"]
    /\ UNCHANGED <<othersThanAssigned, featureData, featureAssignments, clock, faultsLeft>>

-----------------------------------------------------------------------------
(* Faults *)

Fault == faultsLeft > 0 /\ faultsLeft' = faultsLeft - 1

\* A statement fails or the client goes away: the transaction is rolled back.
\* The error of the audit of a create is ignored.
Fail(r) ==
    /\ Fault
    /\ req[r].pc \notin {"idle", "done", "failed"}
    /\ req' = [req EXCEPT ![r] = Ended(r, IF @.pc = "audit" THEN "done" ELSE "failed")]
    /\ UNCHANGED <<tables, clock>>

\* The process stops: every open transaction is rolled back.
Crash ==
    /\ Fault
    /\ req' = [r \in Requests |-> IF req[r].pc \in {"idle", "done"} THEN req[r]
                                  ELSE Ended(r, "failed")]
    /\ req' # req
    /\ UNCHANGED <<tables, clock>>

-----------------------------------------------------------------------------
Handle(r) == \/ CreateFeatureData(r)
             \/ Begin(r)
             \/ StartUpdate(r)
             \/ FinishUpdate(r)
             \/ CreateFeatureAssignment(r)
             \/ CommitCreate(r)
             \/ CommitDeactivate(r)
             \/ AuditCreated(r)

AllEnded == /\ \A r \in Requests : req[r].pc \in {"done", "failed"}
            /\ UNCHANGED vars

Next == \/ \E r \in Requests : Handle(r) \/ Fail(r) \/ \E op \in Operations : Receive(r, op)
        \/ Crash
        \/ AllEnded

\* A request that has been taken in is executed; the database grants a lock
\* when it is free.
Fairness == \A r \in Requests : WF_vars(Handle(r))

Init ==
    /\ environments = InitEnvironments
    /\ featureData = [k \in {<<a[1].name, a[1].version>> : a \in Range(InitAssigned)} |->
                        CHOOSE c \in Charts : k = <<c.name, c.version>>]
    /\ featureAssignments = [id \in DOMAIN InitAssigned |->
          [id |-> id, feature |-> InitAssigned[id][1].name,
           version |-> InitAssigned[id][1].version, target |-> InitAssigned[id][2],
           created |-> id, active |-> TRUE]]
    /\ environmentValues = EmptyTable /\ globalConfig = EmptyTable /\ envConfig = EmptyTable
    /\ disabledFeatures = {} /\ healthStatuses = EmptyTable
    /\ deployLog = <<>> /\ decisionLog = <<>> /\ audits = <<>>
    /\ req = [r \in Requests |-> Waiting]
    /\ clock = Len(InitAssigned)
    /\ faultsLeft = MaxFaults

Spec == Init /\ [][Next]_vars /\ Fairness

-----------------------------------------------------------------------------
(* Properties *)

\* Type invariant: the rows of a request exist, it holds rows only inside its
\* transaction, and no two assignments were created at the same instant.
TypeOK ==
    /\ \A r \in Requests :
          /\ req[r].pc \in {"idle", "data", "begin", "update", "lock", "insert",
                            "commit", "audit", "done", "failed"}
          /\ req[r].off \cup req[r].snap \subseteq DOMAIN featureAssignments
          /\ ~InTx(r) => req[r].off = {} /\ req[r].row = NoRow
    /\ \A d \in AssignmentRows :
          /\ d.created \in 1 .. clock
          /\ <<d.feature, d.version>> \in DOMAIN featureData
    /\ faultsLeft \in 0 .. MaxFaults

\* createFeatureAssignment against itself and against the two deactivations:
\* a feature has at most one active assignment for a target, however the
\* statements of the requests interleave.
OneActive ==
    \A i, j \in DOMAIN featureAssignments :
        (/\ featureAssignments[i].active /\ featureAssignments[j].active
         /\ Key(featureAssignments[i]) = Key(featureAssignments[j])) => i = j

\* WithTx: an assignment is lost only by being replaced by a later one of its
\* feature and target in the same transaction, or by a deactivation that is in
\* the audit log, whatever fails or crashes in between.
EveryLossIsExplained ==
    \A id \in DOMAIN featureAssignments :
        LET d == featureAssignments[id]
        IN  ~d.active =>
            \/ \E later \in DOMAIN featureAssignments :
                  later > id /\ Key(featureAssignments[later]) = Key(d)
            \/ \E a \in Range(audits) :
                  a.action = "deleted" /\ a.key = Key(d) /\ a.fa \in {id, NoFA}

\* What makes these two inductive.  The tables: the id is the position.
AssignedInv == /\ featureAssignments \in Seq(Row)
               /\ \A id \in DOMAIN featureAssignments : featureAssignments[id].id = id
               /\ clock \in Nat
               /\ audits \in Seq(Audit)

Request == [pc : {"idle", "data", "begin", "update", "lock", "insert", "commit", "audit",
                  "done", "failed"},
            op : Operations \cup {NoRow}, start : Nat, snap : SUBSET Nat, off : SUBSET Nat,
            row : Row \cup {NoRow}, fa : Nat]

\* A request is about rows that exist and have its key; its own row is there
\* from the INSERT to the COMMIT.
Inserted(r) == req[r].pc = "commit" /\ req[r].op.kind = "create"
RequestInv(r) ==
    /\ req[r].pc = "idle" => req[r].snap = {} /\ req[r].off = {}
    /\ req[r].pc # "idle" =>
          /\ req[r].op \in Operations
          /\ req[r].op.kind # "create" => req[r].op.fa \in DOMAIN featureAssignments
    /\ req[r].pc = "insert" => req[r].op.kind = "create"
    /\ \A id \in req[r].snap \cup req[r].off :
          /\ id \in DOMAIN featureAssignments
          /\ Key(featureAssignments[id]) = KeyOf(req[r].op)
          /\ req[r].op.kind = "deactivate" => id = req[r].op.fa
    /\ req[r].row = IF Inserted(r) THEN NewRow(r) ELSE NoRow

\* Whoever has inserted a row is alone with its key: every active row of the
\* key is among those it deactivates, and no other request has inserted one.
AloneInv ==
    \A r \in Requests : Inserted(r) =>
        /\ \A id \in DOMAIN featureAssignments :
              /\ featureAssignments[id].active
              /\ Key(featureAssignments[id]) = KeyOf(req[r].op)
              => id \in req[r].off
        /\ \A other \in Requests :
              Inserted(other) /\ KeyOf(req[other].op) = KeyOf(req[r].op) => other = r

AssignmentsInv == /\ AssignedInv /\ req \in [Requests -> Request]
                  /\ \A r \in Requests : RequestInv(r)
                  /\ AloneInv /\ OneActive /\ EveryLossIsExplained

\* What the pages rely on: every row has its chart, and rows and open
\* transactions have start times of their own.
Stored(chart) == <<chart.name, chart.version>> \in DOMAIN featureData
ChartsInv ==
    /\ \A k \in DOMAIN featureData : featureData[k] \in Charts
    /\ \A id \in DOMAIN featureAssignments :
          <<featureAssignments[id].feature, featureAssignments[id].version>> \in DOMAIN featureData
    /\ \A r \in Requests :
          /\ req[r].pc = "data" => req[r].op.kind = "create"
          /\ (req[r].pc = "begin" \/ InTx(r)) /\ req[r].op.kind = "create"
             => Stored(req[r].op.chart)
TimesInv ==
    /\ \A id \in DOMAIN featureAssignments : featureAssignments[id].created \in 1 .. clock
    /\ \A i, j \in DOMAIN featureAssignments :
          featureAssignments[i].created = featureAssignments[j].created => i = j
    /\ \A r \in Requests : InTx(r) =>
          /\ req[r].start \in 1 .. clock
          /\ \A id \in DOMAIN featureAssignments : featureAssignments[id].created # req[r].start
          /\ \A other \in Requests : InTx(other) /\ req[other].start = req[r].start => other = r

\* No target asks for the empty value of a label.  The copies of the match in
\* Go take a label that an environment lacks for an empty one, SQL does not.
\* Nothing in the code keeps such a target out.
TargetsHaveValues == \A target \in Targets : \A k \in DOMAIN target : target[k] # EmptyValue

\* The rule for the winning assignment exists in SQL (pages of an environment,
\* REST) and in Go (reconcile loop, pages of a feature), the match of a target
\* in six places.  In every committed state all copies name the same assignment
\* for every environment; the preview of an active assignment's target and the
\* labels page list the environments the loop would match; a release is shown
\* as orphaned exactly where no assignment wins; nothing that is active is
\* shown as superseded; the list of features shows the chart that the pages of
\* each feature use; and the versions page counts every environment under the
\* version that wins there.
WinnersAgree ==
    LET loop == ListLatestFeatureAssignments
    IN  /\ \A d \in loop :
             LET matched == {e \in ListTenantEnvironments(FALSE) :
                               matchAssignments({d}, environments[e].labels) # {}}
             IN  PreviewTargets(d.target) = matched /\ LabelsPage(d.target) = matched
        /\ \A d \in ActiveAssignments : SupersededBy(d) = {}
        /\ ListActiveFeatures = {FeatureByName(f) : f \in FeatureNames} \ {NoRow}
        /\ \A f \in FeatureNames :
               LET envs == envsByVersion(LoadEnvironments(f))
                   versions == FeatureVersions(f)
               IN  \A v \in DOMAIN envs :
                      /\ v \in DOMAIN versions /\ versions[v] > 0
                      /\ envs[v] = {e \in DOMAIN environments :
                                      WinningAssignment(e, f) # NoRow
                                      /\ WinningAssignment(e, f).version = v}
        /\ \A e \in DOMAIN environments :
               LET labels == environments[e].labels
                   winners == mostSpecificPerFeature(matchAssignments(loop, labels))
               IN  /\ {d.id : d \in winners} = {d.id : d \in ListForEnvironment(e)}
                   /\ \A d \in winners :
                         LET f == d.feature
                         IN  /\ WinningAssignment(e, f).id = d.id
                             /\ winningAssignment(latestAssignmentPerTarget(ListByFeature(f)), e).id
                                  = d.id
                             /\ d.id \in {a.id : a \in loadEnvironmentAssignments(e, f)}
                   /\ \A f \in FeatureNames : buildReleaseRows(e, FeatureNames)[f]
                                                 <=> ~\E d \in winners : d.feature = f

\* Locks of a transaction are released when it ends, so requests that wait for
\* each other's rows never wait for ever.
RequestsEnd ==
    \A r \in Requests : req[r].pc = "data" ~> req[r].pc \in {"done", "failed"}
=============================================================================
