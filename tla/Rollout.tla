------------------------------- MODULE Rollout -------------------------------
(***************************************************************************)
(* How a rendered configuration becomes an installed helm release, and how *)
(* the answer comes back: the reconcile loop and the manual Redeploy       *)
(* (internal/reconciler), Pub/Sub, the naisd agent (internal/naisd), the   *)
(* status receiver and the timeout worker, all meeting in deploy_log.      *)
(*                                                                         *)
(* A key is one feature in one environment.  What the render stage makes   *)
(* of assignments, configs and values is abstracted to desired[k]: the     *)
(* hash of the rendered release, or Blocked when a gate (health, disabled, *)
(* dependencies, missing config, render error, no assignment) keeps        *)
(* computeAction from getting to the comparison with the latest deploy.    *)
(*                                                                         *)
(* Pub/Sub is external: instructions are delivered in any order, and so    *)
(* are statuses once "reorder" is admitted.  Whatever may go wrong is a    *)
(* fault.  A behaviour follows a plan: the kinds of fault it admits, how   *)
(* often in all, how many changes, which requests.  The kinds are:         *)
(*   publish_lost  the asynchronous publish fails after Publish returned   *)
(*                 nil (the publisher of run.go does not wait for it)      *)
(*   publish_err   Publish itself returns an error                         *)
(*   db_fail       fetchSnapshot or writeResultLogs returns an error       *)
(*   append_fail   AppendDeploys returns an error                          *)
(*   crash_fasit   the Fasit process restarts                              *)
(*   crash_agent   the naisd process dies in the middle of a handler       *)
(*   prepare_fail  makeHelmValues returns an error                         *)
(*   helm_fail     helm returns an error (--atomic has rolled it back)     *)
(*   status_lost   naisd cannot publish a status message                   *)
(*   dup_instr     Pub/Sub redelivers an instruction                       *)
(*   dup_status    Pub/Sub redelivers a status message                     *)
(*   reorder       Pub/Sub delivers a status before an earlier one         *)
(*   slow          an answer is still on its way after the one-hour limit  *)
(*   uninstall     an operator uninstalls a release                        *)
(***************************************************************************)
EXTENDS Integers, Sequences

CONSTANTS
    Environments, Features,  \* a key is a pair of the two
    Hashes,                  \* hashes a render can produce
    Blocked,                 \* the render stage stops at a gate
    NotInstalled,            \* no release; also what an uninstall ships
    Loop,                    \* the goroutine of Reconciler.Run
    Requests,                \* HTTP requests that call Redeploy, once each
    Plans,                   \* the scenarios: what may happen together
    MaxFaults,               \* bound: occurrences of faults
    MaxChanges,              \* bound: changes of the desired state
    MaxDeploys               \* bound: deploy instruction ids handed out

FaultKinds == {"publish_lost", "publish_err", "db_fail", "append_fail",
               "crash_fasit", "crash_agent", "prepare_fail", "helm_fail",
               "status_lost", "dup_instr", "dup_status", "reorder", "slow",
               "uninstall"}

ASSUME ValuesAssumption == /\ Blocked \notin Hashes
                           /\ NotInstalled \notin Hashes
                           /\ Blocked # NotInstalled
                           /\ Loop \notin Requests
                           /\ Plans \subseteq [faults : SUBSET FaultKinds,
                                               most : 0 .. MaxFaults,
                                               changes : 0 .. MaxChanges,
                                               requests : SUBSET Requests]
ASSUME BoundsAssumption == /\ MaxFaults \in Nat
                           /\ MaxChanges \in Nat
                           /\ MaxDeploys \in Nat

Key == Environments \X Features
Diid == 1 .. MaxDeploys
Worker == Requests \cup {Loop}
Release == Hashes \cup {NotInstalled}

VARIABLES
    plan,           \* the scenario of this behaviour, never changed
    desired,        \* [Key -> hash or Blocked]: what the tables would render to
    changesLeft,
    faultsLeft,
    worker,         \* the loop and the requests: where each is in its cycle
    issued,         \* number of diids handed out; uuid.New never repeats one
    instr,          \* [Diid -> the immutable instruction: its key and hash]
    topic,          \* diids waiting in the naisd topics
    agent,          \* [Environments -> the instruction naisd is handling]
    installed,      \* [Key -> the release in the cluster]
    applied,        \* history: diids that helm has installed
    inbox,          \* status messages waiting in the status subscription
    deployLog,      \* [Diid -> the deploy_log rows of that diid, in order]
    deployCurrent   \* [Key -> the deploy_current row]

vars == <<plan, desired, changesLeft, faultsLeft, worker, issued, instr, topic,
          agent, installed, applied, inbox, deployLog, deployCurrent>>
desiredVars == <<desired, changesLeft>>
pubsubVars == <<issued, instr, topic>>
clusterVars == <<agent, installed, applied>>
logVars == <<deployLog, deployCurrent>>

-----------------------------------------------------------------------------
(* DeployStatus and the rows of deploy_log / deploy_current *)

Status == {"sent", "installing", "deployed", "failed"}
\* Mutant: an installing deploy does not count as in progress.
IsInProgressMutant(s) == s = "sent"
IsInProgress(s) == s \in {"sent", "installing"}

Instruction == [key : Key, hash : Release]
Row == [diid : Diid, key : Key, hash : Release, status : Status]
NoRow(k) == [diid |-> 0, key |-> k, hash |-> NotInstalled, status |-> "none"]

NoInstr == [key |-> <<>>, hash |-> NotInstalled]
Idle == [diid |-> 0, phase |-> "idle"]
Message == [diid : Diid, status : {"installing", "deployed", "failed"}]

\* Mutant: any settled deploy counts as unchanged, the hash is not compared.
computeActionMutant(want, seen) ==
    IF want = Blocked THEN "blocked"
    ELSE IF IsInProgress(seen.status) THEN "skip-in-progress"
    ELSE IF seen.status # "none" THEN "skip-unchanged"
    ELSE "deploy"

\* The tail of computeAction: the latest deploy against the rendered hash.
\* "blocked" stands for every action a gate before it returns.
computeAction(want, seen) ==
    IF want = Blocked THEN "blocked"
    ELSE IF IsInProgress(seen.status) THEN "skip-in-progress"
    ELSE IF seen.status # "none" /\ seen.hash = want THEN "skip-unchanged"
    ELSE "deploy"

Fresh == [pc |-> "idle", got |-> {}, want |-> [k \in Key |-> Blocked],
          seen |-> [k \in Key |-> NoRow(k)], todo |-> {}, sent |-> {}]

\* A cycle of the loop is followed by the next one; a request ends.
Finished(w) == IF w = Loop THEN Fresh ELSE [Fresh EXCEPT !.pc = "done"]

\* Inserting rows (at most one per diid and per key) and what the AFTER INSERT
\* trigger does for each.  A row inserted last has the greatest (created, id).
AppendRows(rows) ==
    /\ deployLog' = [d \in Diid |->
          IF \E r \in rows : r.diid = d
          THEN Append(deployLog[d], CHOOSE r \in rows : r.diid = d)
          ELSE deployLog[d]]
    /\ deployCurrent' = [k \in Key |->
          IF \E r \in rows : r.key = k
          THEN CHOOSE r \in rows : r.key = k
          ELSE deployCurrent[k]]

LatestDeployByDIID(d) == deployLog[d][Len(deployLog[d])]

Spend(f) == /\ f \in plan.faults
            /\ faultsLeft > 0
            /\ faultsLeft' = faultsLeft - 1

-----------------------------------------------------------------------------
Init ==
    /\ plan \in Plans
    /\ desired \in [Key -> Hashes]
    /\ changesLeft = plan.changes
    /\ faultsLeft = plan.most
    /\ worker = [w \in Worker |-> Fresh]
    /\ issued = 0
    /\ instr = [d \in Diid |-> NoInstr]
    /\ topic = {}
    /\ agent = [e \in Environments |-> Idle]
    /\ installed = [k \in Key |-> NotInstalled]
    /\ applied = {}
    /\ inbox = {}
    /\ deployLog = [d \in Diid |-> <<>>]
    /\ deployCurrent = [k \in Key |-> NoRow(k)]

-----------------------------------------------------------------------------
(* Operators and authors: assignments, configs, values, health *)

ChangeDesired(k) ==
    /\ changesLeft > 0
    /\ changesLeft' = changesLeft - 1
    /\ \E h \in (Hashes \cup {Blocked}) \ {desired[k]} :
          desired' = [desired EXCEPT ![k] = h]
    /\ UNCHANGED <<faultsLeft, worker, inbox, pubsubVars, clusterVars, logVars>>

-----------------------------------------------------------------------------
(* fetchSnapshot: the tables are read by parallel queries, not in one       *)
(* transaction, so the desired state and the deploys may be of two moments. *)

Fetching(w) == worker[w].pc \in {"idle", "fetch"}

FetchDesired(w) ==
    /\ Fetching(w) /\ "desired" \notin worker[w].got
    /\ worker' = [worker EXCEPT ![w].pc = "fetch",
                                ![w].got = @ \cup {"desired"},
                                ![w].want = desired]
    /\ UNCHANGED <<desiredVars, faultsLeft, inbox, pubsubVars, clusterVars, logVars>>

ListLatestDeploys(w) ==
    /\ Fetching(w) /\ "deploys" \notin worker[w].got
    /\ worker' = [worker EXCEPT ![w].pc = "fetch",
                                ![w].got = @ \cup {"deploys"},
                                ![w].seen = deployCurrent]
    /\ UNCHANGED <<desiredVars, faultsLeft, inbox, pubsubVars, clusterVars, logVars>>

\* An error of fetchSnapshot or of writeResultLogs ends the cycle.
CycleFails(w) ==
    /\ worker[w].pc = "fetch"
    /\ Spend("db_fail")
    /\ worker' = [worker EXCEPT ![w] = Finished(w)]
    /\ UNCHANGED <<desiredVars, inbox, pubsubVars, clusterVars, logVars>>

-----------------------------------------------------------------------------
(* From the snapshot to the decisions *)

ActionOf(w, k) == computeAction(worker[w].want[k], worker[w].seen[k])

\* The decisions of w for keys, as the items pubSubDeployer.Deploy collects.
StartDeploy(w, keys) ==
    worker' = [worker EXCEPT ![w] =
                 [Fresh EXCEPT !.pc = "deploy",
                               !.todo = {[key |-> k, hash |-> worker[w].want[k]] : k \in keys}]]

\* Run: every ActionDeploy goes to the deployer.
Reconcile ==
    /\ worker[Loop].pc = "fetch" /\ worker[Loop].got = {"desired", "deploys"}
    /\ StartDeploy(Loop, {k \in Key : ActionOf(Loop, k) = "deploy"})
    /\ UNCHANGED <<desiredVars, faultsLeft, inbox, pubsubVars, clusterVars, logVars>>

\* Redeploy: only an unchanged key is sent again, anything else is refused.
Redeploy(w, k) ==
    /\ worker[w].pc = "fetch" /\ worker[w].got = {"desired", "deploys"}
    /\ \/ /\ ActionOf(w, k) = "skip-unchanged"
          /\ StartDeploy(w, {k})
       \/ /\ ActionOf(w, k) # "skip-unchanged"
          /\ worker' = [worker EXCEPT ![w] = Finished(w)]
    /\ UNCHANGED <<desiredVars, faultsLeft, inbox, pubsubVars, clusterVars, logVars>>

-----------------------------------------------------------------------------
(* pubSubDeployer.Deploy: publish item after item, then append all the rows *)

\* uuid.New, and the instruction that carries it.
Issue(k, h) ==
    /\ issued < MaxDeploys
    /\ issued' = issued + 1
    /\ instr' = [instr EXCEPT ![issued + 1] = [key |-> k, hash |-> h]]

\* Publish has returned nil.  Whether Pub/Sub accepts the message is known only
\* later, and nobody looks: the item is counted as sent in both cases.
Publish(w, i) ==
    /\ worker[w].pc = "deploy" /\ i \in worker[w].todo
    /\ Issue(i.key, i.hash)
    /\ worker' = [worker EXCEPT ![w].todo = @ \ {i}, ![w].sent = @ \cup {issued + 1}]
    /\ \/ topic' = topic \cup {issued + 1} /\ UNCHANGED faultsLeft
       \/ topic' = topic /\ Spend("publish_lost")
    /\ UNCHANGED <<desiredVars, inbox, clusterVars, logVars>>

\* Mutant: the row of an item is kept although Publish returned an error.
PublishFailsMutant(w, i) ==
    /\ worker[w].pc = "deploy" /\ i \in worker[w].todo
    /\ Issue(i.key, i.hash)
    /\ Spend("publish_err")
    /\ worker' = [worker EXCEPT ![w].todo = @ \ {i}, ![w].sent = @ \cup {issued + 1}]
    /\ UNCHANGED <<desiredVars, inbox, topic, clusterVars, logVars>>

\* Publish has returned an error: the item is skipped.
PublishFails(w, i) ==
    /\ worker[w].pc = "deploy" /\ i \in worker[w].todo
    /\ Spend("publish_err")
    /\ worker' = [worker EXCEPT ![w].todo = @ \ {i}]
    /\ UNCHANGED <<desiredVars, inbox, pubsubVars, clusterVars, logVars>>

SentRow(d) == [diid |-> d, key |-> instr[d].key, hash |-> instr[d].hash, status |-> "sent"]

AppendDeploys(w) ==
    /\ worker[w].pc = "deploy" /\ worker[w].todo = {}
    /\ AppendRows({SentRow(d) : d \in worker[w].sent})
    /\ worker' = [worker EXCEPT ![w] = Finished(w)]
    /\ UNCHANGED <<desiredVars, faultsLeft, inbox, pubsubVars, clusterVars>>

\* The messages are out already, the rows of the whole batch are missing.
AppendDeploysFails(w) ==
    /\ worker[w].pc = "deploy" /\ worker[w].todo = {} /\ worker[w].sent # {}
    /\ Spend("append_fail")
    /\ worker' = [worker EXCEPT ![w] = Finished(w)]
    /\ UNCHANGED <<desiredVars, inbox, pubsubVars, clusterVars, logVars>>

\* Reconciler.Uninstall: published like a deploy, but never recorded.
Uninstall(k) ==
    /\ Issue(k, NotInstalled)
    /\ Spend("uninstall")
    /\ topic' = topic \cup {issued + 1}
    /\ UNCHANGED <<desiredVars, worker, inbox, clusterVars, logVars>>

\* A restart forgets every cycle and request in progress.
FasitRestarts ==
    /\ Spend("crash_fasit")
    /\ worker' = [w \in Worker |-> IF worker[w].pc = "idle" THEN Fresh ELSE Finished(w)]
    /\ UNCHANGED <<desiredVars, inbox, pubsubVars, clusterVars, logVars>>

-----------------------------------------------------------------------------
(* DeployManager.handler: one instruction at a time, acknowledged first *)

Handling(e) == instr[agent[e].diid]

Receive(e, d) ==
    /\ agent[e] = Idle /\ d \in topic /\ instr[d].key[1] = e
    /\ \/ topic' = topic \ {d} /\ UNCHANGED faultsLeft
       \/ topic' = topic /\ Spend("dup_instr")
    /\ agent' = [agent EXCEPT ![e] =
                   [diid |-> d, phase |-> IF instr[d].hash = NotInstalled
                                          THEN "uninstall" ELSE "accepted"]]
    /\ UNCHANGED <<desiredVars, worker, issued, instr, installed, applied, inbox, logVars>>

\* The values file or the arguments cannot be made: no status is sent.
PrepareFails(e) ==
    /\ agent[e].phase = "accepted"
    /\ Spend("prepare_fail")
    /\ agent' = [agent EXCEPT ![e] = Idle]
    /\ UNCHANGED <<desiredVars, worker, pubsubVars, installed, applied, inbox, logVars>>

\* publishStatus waits for Pub/Sub; when it fails the message is gone.
PublishStatus(m) ==
    \/ inbox' = inbox \cup {m} /\ UNCHANGED faultsLeft
    \/ inbox' = inbox /\ Spend("status_lost")

ReportInstalling(e) ==
    /\ agent[e].phase = "accepted"
    /\ PublishStatus([diid |-> agent[e].diid, status |-> "installing"])
    /\ agent' = [agent EXCEPT ![e].phase = "helm"]
    /\ UNCHANGED <<desiredVars, worker, pubsubVars, installed, applied, logVars>>

HelmSucceeds(e) ==
    /\ agent[e].phase = "helm"
    /\ installed' = [installed EXCEPT ![Handling(e).key] = Handling(e).hash]
    /\ applied' = applied \cup {agent[e].diid}
    /\ agent' = [agent EXCEPT ![e].phase = "deployed"]
    /\ UNCHANGED <<desiredVars, faultsLeft, worker, pubsubVars, inbox, logVars>>

\* Mutant: the error of runHelm is not looked at.
HelmFailsMutant(e) ==
    /\ agent[e].phase = "helm"
    /\ Spend("helm_fail")
    /\ agent' = [agent EXCEPT ![e].phase = "deployed"]
    /\ UNCHANGED <<desiredVars, worker, pubsubVars, installed, applied, inbox, logVars>>

\* helm upgrade --atomic: the previous release is back when it returns.
HelmFails(e) ==
    /\ agent[e].phase = "helm"
    /\ Spend("helm_fail")
    /\ agent' = [agent EXCEPT ![e].phase = "failed"]
    /\ UNCHANGED <<desiredVars, worker, pubsubVars, installed, applied, inbox, logVars>>

ReportTerminal(e) ==
    /\ agent[e].phase \in {"deployed", "failed"}
    /\ PublishStatus([diid |-> agent[e].diid, status |-> agent[e].phase])
    /\ agent' = [agent EXCEPT ![e] = Idle]
    /\ UNCHANGED <<desiredVars, worker, pubsubVars, installed, applied, logVars>>

\* uninstallHandler reports nothing that reaches deploy_log.
UninstallHandler(e) ==
    /\ agent[e].phase = "uninstall"
    /\ \/ /\ installed' = [installed EXCEPT ![Handling(e).key] = NotInstalled]
          /\ UNCHANGED faultsLeft
       \/ installed' = installed /\ Spend("helm_fail")
    /\ agent' = [agent EXCEPT ![e] = Idle]
    /\ UNCHANGED <<desiredVars, worker, pubsubVars, applied, inbox, logVars>>

\* The instruction was acknowledged: nobody will deliver it again.  A helm
\* process that dies with naisd may or may not have installed the release.
AgentRestarts(e) ==
    /\ agent[e] # Idle
    /\ Spend("crash_agent")
    /\ agent' = [agent EXCEPT ![e] = Idle]
    /\ \/ UNCHANGED <<installed, applied>>
       \/ /\ agent[e].phase = "helm"
          /\ installed' = [installed EXCEPT ![Handling(e).key] = Handling(e).hash]
          /\ applied' = applied \cup {agent[e].diid}
    /\ UNCHANGED <<desiredVars, worker, pubsubVars, inbox, logVars>>

-----------------------------------------------------------------------------
(* The receiver and the timeout worker *)

\* A message naisd has sent before m is still waiting.
Overtakes(m) ==
    \E n \in inbox :
        \/ n.diid < m.diid
        \/ /\ n.diid = m.diid
           /\ n.status = "installing" /\ m.status # "installing"

\* Pub/Sub hands m to the receiver: in order, out of order, or not for the last time.
Deliver(m) ==
    /\ m \in inbox
    /\ \/ inbox' = inbox \ {m} /\ ~Overtakes(m) /\ UNCHANGED faultsLeft
       \/ inbox' = inbox \ {m} /\ Overtakes(m) /\ Spend("reorder")
       \/ inbox' = inbox /\ Spend("dup_status")

\* Mutant: the hash is not carried forward from row to row.
HandlerHelmNoHash(m) ==
    /\ Deliver(m)
    /\ \/ deployLog[m.diid] = <<>> /\ UNCHANGED logVars
       \/ /\ deployLog[m.diid] # <<>>
          /\ AppendRows({[LatestDeployByDIID(m.diid) EXCEPT !.hash = NotInstalled, !.status = m.status]})
    /\ UNCHANGED <<desiredVars, worker, pubsubVars, clusterVars>>

\* handlerHelm: a diid without a row is unknown and its status is dropped;
\* otherwise the status is appended, whatever the rows before it say.
HandlerHelm(m) ==
    /\ Deliver(m)
    /\ \/ deployLog[m.diid] = <<>> /\ UNCHANGED logVars
       \/ /\ deployLog[m.diid] # <<>>
          /\ AppendRows({[LatestDeployByDIID(m.diid) EXCEPT !.diid = m.diid, !.status = m.status]})
    /\ UNCHANGED <<desiredVars, worker, pubsubVars, clusterVars>>

\* Mutant: only deploys still in "sent" time out.
PendingMutant == {k \in Key : deployCurrent[k].status = "sent"}
Pending == {k \in Key : IsInProgress(deployCurrent[k].status)}

\* Something that may still lead to a status of the key is under way.
Outstanding(k) ==
    \/ \E d \in topic : instr[d].key = k
    \/ \E e \in Environments : agent[e] # Idle /\ Handling(e).key = k
    \/ \E m \in inbox : instr[m.diid].key = k

TimeoutRows(old) == AppendRows({[deployCurrent[k] EXCEPT !.status = "failed"] : k \in old})

\* TimeoutPendingDeploys fails the rows that are more than an hour old.
TimeoutPendingDeploys ==
    /\ \E old \in SUBSET Pending \ {{}} :
          (\A k \in old : ~Outstanding(k)) /\ TimeoutRows(old)
    /\ UNCHANGED <<desiredVars, faultsLeft, worker, inbox, pubsubVars, clusterVars>>

\* The same statement, when an answer takes more than that hour.
TimeoutBeforeAnswer ==
    /\ \E old \in SUBSET Pending :
          (\E k \in old : Outstanding(k)) /\ TimeoutRows(old)
    /\ Spend("slow")
    /\ UNCHANGED <<desiredVars, worker, inbox, pubsubVars, clusterVars>>

-----------------------------------------------------------------------------
Deploying(w) == \/ \E i \in worker[w].todo : Publish(w, i)
                \/ AppendDeploys(w)

LoopStep == \/ FetchDesired(Loop)
            \/ ListLatestDeploys(Loop)
            \/ Reconcile
            \/ Deploying(Loop)

RequestStep(w) == \/ FetchDesired(w)
                  \/ ListLatestDeploys(w)
                  \/ \E k \in Key : Redeploy(w, k)
                  \/ Deploying(w)

AgentStep(e) == \/ \E d \in topic : Receive(e, d)
                \/ ReportInstalling(e)
                \/ HelmSucceeds(e)
                \/ ReportTerminal(e)
                \/ UninstallHandler(e)

WorkerFails(w) == \/ CycleFails(w)
                  \/ \E i \in worker[w].todo : PublishFails(w, i)
                  \/ AppendDeploysFails(w)

AgentFails(e) == PrepareFails(e) \/ HelmFails(e) \/ AgentRestarts(e)

Step ==
    \/ \E k \in Key : ChangeDesired(k) \/ Uninstall(k)
    \/ LoopStep
    \/ \E w \in Requests \cap plan.requests : RequestStep(w)
    \/ \E w \in Worker : WorkerFails(w)
    \/ FasitRestarts
    \/ \E e \in Environments : AgentStep(e) \/ AgentFails(e)
    \/ \E m \in inbox : HandlerHelm(m)
    \/ TimeoutPendingDeploys
    \/ TimeoutBeforeAnswer

Next == Step /\ UNCHANGED plan

\* The loop and the timeout worker are goroutines that run for the life of the
\* process, Pub/Sub delivers what it accepted, naisd finishes what it started.
Fairness ==
    /\ WF_vars(LoopStep /\ UNCHANGED plan)
    /\ \A w \in Requests : WF_vars(worker[w].pc # "idle" /\ RequestStep(w) /\ UNCHANGED plan)
    /\ \A e \in Environments : WF_vars(AgentStep(e) /\ UNCHANGED plan)
    /\ WF_vars((\E m \in inbox : HandlerHelm(m)) /\ UNCHANGED plan)
    /\ WF_vars(TimeoutPendingDeploys /\ UNCHANGED plan)

Spec == Init /\ [][Next]_vars
FairSpec == Spec /\ Fairness

-----------------------------------------------------------------------------
(* Properties *)

TypeOK ==
    /\ desired \in [Key -> Hashes \cup {Blocked}]
    /\ changesLeft \in 0 .. MaxChanges
    /\ faultsLeft \in 0 .. MaxFaults
    /\ worker \in [Worker ->
          [pc : {"idle", "fetch", "deploy", "done"},
           got : SUBSET {"desired", "deploys"},
           want : [Key -> Hashes \cup {Blocked}],
           seen : [Key -> Row \cup {NoRow(k) : k \in Key}],
           todo : SUBSET [key : Key, hash : Hashes],
           sent : SUBSET Diid]]
    /\ issued \in 0 .. MaxDeploys
    /\ instr \in [Diid -> Instruction \cup {NoInstr}]
    /\ topic \subseteq Diid
    /\ agent \in [Environments ->
          [diid : Diid, phase : {"accepted", "helm", "deployed", "failed", "uninstall"}]
            \cup {Idle}]
    /\ installed \in [Key -> Release]
    /\ applied \subseteq Diid
    /\ inbox \subseteq Message
    /\ deployLog \in [Diid -> Seq(Row)]
    /\ deployCurrent \in [Key -> Row \cup {NoRow(k) : k \in Key}]

\* The rows of a diid begin with the one "sent" row the deployer wrote, however
\* early naisd answers: a status that overtakes AppendDeploys is dropped.
StartsWithSent ==
    \A d \in Diid : \A i \in 1 .. Len(deployLog[d]) :
        (deployLog[d][i].status = "sent") <=> (i = 1)

\* Through every copy from row to row, deploy_current included, the key and the
\* hash compared by skip-unchanged are those of the instruction naisd was sent,
\* and the current row of a key is about that key.
RowsMatchInstruction ==
    /\ \A d \in Diid : \A i \in 1 .. Len(deployLog[d]) :
          /\ deployLog[d][i].diid = d
          /\ deployLog[d][i].key = instr[d].key
          /\ deployLog[d][i].hash = instr[d].hash
    /\ \A k \in Key : deployCurrent[k].key = k
    /\ \A k \in Key : deployCurrent[k].status # "none" =>
          \E i \in 1 .. Len(deployLog[deployCurrent[k].diid]) :
             deployCurrent[k] = deployLog[deployCurrent[k].diid][i]

\* "deployed" is in the log only for an instruction helm has really installed.
DeployedIsEarned ==
    \A d \in Diid : \A i \in 1 .. Len(deployLog[d]) :
        deployLog[d][i].status = "deployed" => d \in applied

\* What makes the three inductive.  Only issued diids are anywhere, each with
\* its instruction; a diid counted as sent has no row before AppendDeploys; a
\* "deployed" on its way to the log has been earned.
IssuedInv ==
    /\ \A d \in Diid : IF d <= issued THEN instr[d] \in Instruction
                                      ELSE deployLog[d] = <<>>
    /\ \A d \in topic : d <= issued
    /\ \A e \in Environments : agent[e].diid <= issued
    /\ \A m \in inbox : m.diid <= issued
UnrecordedInv ==
    \A w \in Worker : \A d \in worker[w].sent :
        /\ d <= issued
        /\ deployLog[d] = <<>>
        /\ \A v \in Worker \ {w} : d \notin worker[v].sent
EarnedInv ==
    /\ \A e \in Environments : agent[e].phase = "deployed" => agent[e].diid \in applied
    /\ \A m \in inbox : m.status = "deployed" => m.diid \in applied
RolloutInv ==
    /\ TypeOK
    /\ IssuedInv
    /\ UnrecordedInv
    /\ EarnedInv
    /\ StartsWithSent
    /\ RowsMatchInstruction
    /\ DeployedIsEarned

\* The faults that never leave two instructions for a key at naisd, and the
\* ones the next cycle makes up for.
SerialFaults == {"publish_lost", "publish_err", "db_fail", "crash_agent",
                 "prepare_fail", "helm_fail", "status_lost"}
RetriedFaults == {"publish_err", "db_fail", "status_lost"}
Serial == plan.faults \subseteq SerialFaults /\ plan.requests = {}

\* naisd never has two instructions for one key in front of it, unless
\* Pub/Sub, a restart or a Redeploy puts one there.
Live(k) == {d \in Diid : /\ \/ d \in topic
                            \/ \E e \in Environments : agent[e].diid = d
                         /\ instr[d].key = k}
SingleFlight == Serial => \A k \in Key : \A c, d \in Live(k) : c = d

\* When nothing is under way and the loop would call the key in sync with a
\* successful deploy, the cluster runs what is desired.
Quiet(k) == /\ ~Outstanding(k)
            /\ \A w \in Worker : worker[w].pc # "deploy"
InSyncIsInstalled ==
    Serial => \A k \in Key :
        /\ Quiet(k)
        /\ deployCurrent[k].status = "deployed"
        /\ computeAction(desired[k], deployCurrent[k]) = "skip-unchanged"
        => installed[k] = desired[k]

\* What makes the two inductive where the plan is Serial.  Whatever is on its
\* way belongs to the batch of the loop or to the current row of its key, never
\* to both.
InFlight(d) == \/ d \in topic
               \/ \E e \in Environments : agent[e].diid = d
               \/ \E m \in inbox : m.diid = d
KeyInProgress(k) == IsInProgress(deployCurrent[k].status)
TrackedInv ==
    \A d \in Diid : InFlight(d) =>
        \/ d \in worker[Loop].sent
        \/ deployCurrent[instr[d].key].diid = d /\ KeyInProgress(instr[d].key)

\* The loop deploys only keys that are settled, each of them once, and a
\* settled key does not get into progress between its snapshot and its batch.
BatchInv ==
    LET loop == worker[Loop]
    IN  /\ loop.pc # "deploy" => loop.todo = {} /\ loop.sent = {}
        /\ loop.pc = "idle" => loop.got = {}
        /\ loop.pc = "fetch" /\ "deploys" \in loop.got =>
              \A k \in Key : KeyInProgress(k) => IsInProgress(loop.seen[k].status)
        /\ \A i \in loop.todo :
              /\ ~KeyInProgress(i.key)
              /\ \A j \in loop.todo : j.key = i.key => j = i
              /\ \A d \in loop.sent : instr[d].key # i.key
        /\ \A c \in loop.sent :
              /\ ~KeyInProgress(instr[c].key)
              /\ \A d \in loop.sent : instr[c].key = instr[d].key => c = d

\* naisd has an instruction once, and its last answer comes once it is done.
AnswerInv ==
    /\ \A d \in Diid : d <= issued => instr[d].hash \in Hashes
    /\ \A e \in Environments : agent[e] # Idle =>
          /\ Handling(e).key[1] = e /\ agent[e].diid \notin topic
          /\ agent[e].phase # "uninstall"
    /\ \A m \in inbox : m.status # "installing" =>
          /\ m.diid \notin topic /\ \A e \in Environments : agent[e].diid # m.diid
          /\ \A n \in inbox : n.diid = m.diid /\ n.status # "installing" => n = m

\* Nothing replaces a release between its installation and the row that says so.
InstalledInv ==
    /\ \A e \in Environments : agent[e].phase = "deployed" =>
          installed[Handling(e).key] = Handling(e).hash
    /\ \A m \in inbox : m.status = "deployed" =>
          installed[instr[m.diid].key] = instr[m.diid].hash
    /\ \A k \in Key : deployCurrent[k].status = "deployed"
                       /\ (\A d \in worker[Loop].sent : instr[d].key # k) =>
          installed[k] = deployCurrent[k].hash

FlightInv == /\ \A w \in Requests : worker[w] = Fresh
             /\ TrackedInv /\ BatchInv /\ AnswerInv /\ InstalledInv
SerialInv == Serial => FlightInv

\* No key stays in progress: an answer or the timeout worker settles it.
InProgressSettles ==
    \A k \in Key : IsInProgress(deployCurrent[k].status)
                       ~> ~IsInProgress(deployCurrent[k].status)

\* A desired state that stops changing is in the end the one the current row
\* carries: it was shipped and no late answer displaces it for good.
ChangeIsShipped ==
    \A k \in Key : \A h \in Hashes :
        <>[](desired[k] = h) => <>[](deployCurrent[k].hash = h)

\* ... and the one the cluster runs (what CONTEXT.md and the README promise of
\* the reconcile loop; violated when a publish fails after Publish returned) ...
DesiredIsReached ==
    \A k \in Key : \A h \in Hashes :
        <>[](desired[k] = h) => <>[](installed[k] = h)

\* ... which it does where every fault is one the next cycle makes up for.
Converges == plan.faults \subseteq RetriedFaults => DesiredIsReached

=============================================================================
