------------------------------- MODULE History -------------------------------
(***************************************************************************)
(* What the pages and queries say about past deploys: the latest           *)
(* instruction and the latest successful one, asked for one feature, for   *)
(* an environment and for a feature over all environments                  *)
(* (internal/feature/queries.go), the deploys of an assignment             *)
(* (internal/ui/uidata) and the history, which is grouped in Go from the   *)
(* rows of deploy_log.  An instruction is a row of the log.                *)
(***************************************************************************)
EXTENDS Status

ByFeature(rows) == [f \in {r.feature : r \in rows} |-> One({r \in rows : r.feature = f})]
ByEnvironment(rows) == [e \in {r.env : r \in rows} |-> One({r \in rows : r.env = e})]

-----------------------------------------------------------------------------
(* The latest instruction: deploy_status *)

GetLatestDeployInstruction(e, f) == One({r \in deploy_status : r.env = e /\ r.feature = f})

ListLatestDeployInstructionsForEnvironment(e) == {r \in deploy_status : r.env = e}
LatestDeployInstructionsForEnvironment(e) ==
    ByFeature(ListLatestDeployInstructionsForEnvironment(e))

ListLatestDeployInstructionsForFeature(f) == {r \in deploy_status : r.feature = f}
LatestDeployInstructionsForFeature(f) ==
    ByEnvironment(ListLatestDeployInstructionsForFeature(f))

\* Those of an assignment, which has one feature: one row per environment.
ListDeployInstructions(fa) == {r \in deploy_status : r.fa = fa}
GetDeployInstructionByFeatureAssignmentAndEnvironmentID(fa, e) ==
    One({r \in deploy_status : r.fa = fa /\ r.env = e})

-----------------------------------------------------------------------------
(* The latest successful one: DISTINCT ON over the deployed rows of the log *)

LatestAmong(ids) ==
    {deployLog[i] : i \in {j \in ids : \A n \in ids : n > j =>
        deployLog[n].feature # deployLog[j].feature \/ deployLog[n].env # deployLog[j].env}}

ListLatestDeployedForEnvironment(e) ==
    LatestAmong({i \in DOMAIN deployLog : deployLog[i].env = e /\ deployLog[i].status = "deployed"})
LatestDeployedForEnvironment(e) == ByFeature(ListLatestDeployedForEnvironment(e))

ListLatestDeployedForFeature(f) ==
    LatestAmong({i \in DOMAIN deployLog : deployLog[i].feature = f /\ deployLog[i].status = "deployed"})
LatestDeployedForFeature(f) == ByEnvironment(ListLatestDeployedForFeature(f))

-----------------------------------------------------------------------------
(* The history of a feature in an environment *)

\* The ids of its rows, which are in the order of their creation.
ListDeployLog(e, f) == {i \in DOMAIN deployLog : deployLog[i].env = e /\ deployLog[i].feature = f}

\* Of some rows: the first ones of their instructions, the last one of the
\* instruction of a row, and the one with n - 1 newer ones.
FirstRows(ids) == {i \in ids : \A j \in ids : j < i => deployLog[j].diid # deployLog[i].diid}
LastRow(ids, i) == Max({j \in ids : deployLog[j].diid = deployLog[i].diid})
NthNewest(ids, n) == CHOOSE i \in ids : Cardinality({j \in ids : j > i}) = n - 1

\* One entry per instruction, the latest instruction first: what its first
\* row says, with the status of its last row.
ListRecentDeployInstructions(e, f, limit) ==
    LET rows == ListDeployLog(e, f)
        order == FirstRows(rows)
        Entry(i) == [deployLog[i] EXCEPT !.status = deployLog[LastRow(rows, i)].status]
    IN  [n \in 1 .. Min({limit, Cardinality(order)}) |-> Entry(NthNewest(order, n))]

\* The instruction whose log lines the page of the feature shows, and the
\* page of an assignment in an environment.
loadFeatureLog(e, f) == GetLatestDeployInstruction(e, f)
GetFeatureLog(fa, e) == GetDeployInstructionByFeatureAssignmentAndEnvironmentID(fa, e)
=============================================================================
