---------------------------- MODULE RolloutProofs ----------------------------
(***************************************************************************)
(* Proofs about Rollout, for any number of environments, features, hashes, *)
(* requests and faults, and any bounds.                                    *)
(***************************************************************************)
EXTENDS Rollout, TLAPS

AnyRow == Row \cup {NoRow(k) : k \in Key}
Busy == [diid : Diid, phase : {"accepted", "helm", "deployed", "failed", "uninstall"}]
WorkerState ==
    [pc : {"idle", "fetch", "deploy", "done"},
     got : SUBSET {"desired", "deploys"},
     want : [Key -> Hashes \cup {Blocked}],
     seen : [Key -> AnyRow],
     todo : SUBSET [key : Key, hash : Hashes],
     sent : SUBSET Diid]

\* A worker record that is back at the start has nothing in flight.
LEMMA FinishedFacts ==
    ASSUME NEW w \in Worker
    PROVE  /\ Finished(w) \in WorkerState
           /\ Finished(w).sent = {}
           /\ Fresh \in WorkerState
           /\ Fresh.sent = {}
BY DEF Finished, Fresh, WorkerState, AnyRow, NoRow

\* What AppendRows does to the log and to the current rows.
LEMMA AppendRowsFacts ==
    ASSUME TypeOK, NEW rows \in SUBSET Row, AppendRows(rows)
    PROVE  /\ deployLog' \in [Diid -> Seq(Row)]
           /\ deployCurrent' \in [Key -> AnyRow]
           /\ \A d \in Diid : (\A r \in rows : r.diid # d) => deployLog'[d] = deployLog[d]
           /\ \A d \in Diid : (\E r \in rows : r.diid = d) =>
                 \E r \in rows : r.diid = d /\ deployLog'[d] = Append(deployLog[d], r)
           /\ \A k \in Key : (\A r \in rows : r.key # k) => deployCurrent'[k] = deployCurrent[k]
           /\ \A k \in Key : (\E r \in rows : r.key = k) =>
                 deployCurrent'[k] \in rows /\ deployCurrent'[k].key = k
<1>1. \A d \in Diid : deployLog[d] \in Seq(Row)
  BY DEF TypeOK
<1>2. \A d \in Diid : (\A r \in rows : r.diid # d) => deployLog'[d] = deployLog[d]
  BY DEF AppendRows
<1>3. \A d \in Diid : (\E r \in rows : r.diid = d) =>
                 \E r \in rows : r.diid = d /\ deployLog'[d] = Append(deployLog[d], r)
  BY DEF AppendRows
<1>4. \A k \in Key : (\A r \in rows : r.key # k) => deployCurrent'[k] = deployCurrent[k]
  BY DEF AppendRows
<1>5. \A k \in Key : (\E r \in rows : r.key = k) =>
                 deployCurrent'[k] \in rows /\ deployCurrent'[k].key = k
  BY DEF AppendRows
<1>6. deployLog' \in [Diid -> Seq(Row)]
  <2>1. \A d \in Diid : deployLog'[d] \in Seq(Row)
    BY <1>1, <1>2, <1>3, SMTT(30)
  <2> QED
    BY <2>1 DEF AppendRows
<1>7. deployCurrent' \in [Key -> AnyRow]
  <2>1. \A k \in Key : deployCurrent[k] \in AnyRow
    BY DEF TypeOK, AnyRow
  <2>2. \A k \in Key : deployCurrent'[k] \in AnyRow
    BY <1>4, <1>5, <2>1 DEF AnyRow
  <2> QED
    BY <2>2 DEF AppendRows
<1> QED
  BY <1>2, <1>3, <1>4, <1>5, <1>6, <1>7

\* Before the first cycle the tables are empty and nothing is in flight.
LEMMA InitInv == Init => RolloutInv
<1> SUFFICES ASSUME Init PROVE RolloutInv
  OBVIOUS
<1>0. changesLeft \in 0 .. MaxChanges /\ faultsLeft \in 0 .. MaxFaults
  BY ValuesAssumption DEF Init
<1>1. TypeOK
  BY <1>0, BoundsAssumption DEF Init, TypeOK, Fresh, Idle, NoRow, NoInstr, Row, Release, Diid
<1>2. IssuedInv /\ UnrecordedInv /\ EarnedInv
  BY BoundsAssumption DEF Init, IssuedInv, UnrecordedInv, EarnedInv, Fresh, Idle, Diid
<1>3. StartsWithSent /\ RowsMatchInstruction /\ DeployedIsEarned
  BY DEF Init, StartsWithSent, RowsMatchInstruction, DeployedIsEarned, NoRow
<1> QED
  BY <1>1, <1>2, <1>3 DEF RolloutInv

-----------------------------------------------------------------------------
(* The log invariants, for the steps that leave the log alone and for the   *)
(* steps that append to it.                                                 *)

\* A step that touches neither log table keeps the three facts about the rows.
LEMMA LogUnchanged ==
    ASSUME RolloutInv, UNCHANGED logVars, applied \subseteq applied',
           \A d \in Diid : d <= issued => instr'[d] = instr[d]
    PROVE  StartsWithSent' /\ RowsMatchInstruction' /\ DeployedIsEarned'
<1>1. \A d \in Diid : deployLog'[d] = deployLog[d]
  BY DEF logVars
<1>2. \A d \in Diid : deployLog[d] # <<>> => instr'[d] = instr[d]
  BY BoundsAssumption DEF RolloutInv, IssuedInv, TypeOK, Diid
<1>3. \A d \in Diid : \A i \in 1 .. Len(deployLog[d]) : deployLog[d] # <<>>
  OBVIOUS
<1>4. StartsWithSent' /\ DeployedIsEarned'
  BY <1>1 DEF RolloutInv, StartsWithSent, DeployedIsEarned
<1>5. RowsMatchInstruction'
  BY <1>1, <1>2, <1>3 DEF RolloutInv, RowsMatchInstruction, logVars
<1> QED
  BY <1>4, <1>5

\* Rows that may be appended: the first of a diid is its "sent" row, no other
\* is, and all fields but the status come from the instruction.
GoodRows(rows) ==
    /\ rows \subseteq Row
    /\ \A r \in rows : /\ r.key = instr[r.diid].key
                       /\ r.hash = instr[r.diid].hash
                       /\ r.status = "sent" <=> deployLog[r.diid] = <<>>
                       /\ r.status = "deployed" => r.diid \in applied
    /\ \A r, s \in rows : r.diid = s.diid => r = s

\* Appending rows that carry their own instruction keeps the facts about the rows.
LEMMA LogAppended ==
    ASSUME RolloutInv, NEW rows, GoodRows(rows), AppendRows(rows),
           UNCHANGED <<instr, applied>>
    PROVE  StartsWithSent' /\ RowsMatchInstruction' /\ DeployedIsEarned'
<1>1. /\ \A d \in Diid : (\A r \in rows : r.diid # d) => deployLog'[d] = deployLog[d]
      /\ \A d \in Diid : (\E r \in rows : r.diid = d) =>
            \E r \in rows : r.diid = d /\ deployLog'[d] = Append(deployLog[d], r)
      /\ \A k \in Key : (\A r \in rows : r.key # k) => deployCurrent'[k] = deployCurrent[k]
      /\ \A k \in Key : (\E r \in rows : r.key = k) =>
            deployCurrent'[k] \in rows /\ deployCurrent'[k].key = k
  BY AppendRowsFacts DEF RolloutInv, GoodRows
<1>2. \A d \in Diid : deployLog[d] \in Seq(Row)
  BY DEF RolloutInv, TypeOK
<1>3. ASSUME NEW d \in Diid, NEW i \in 1 .. Len(deployLog'[d])
      PROVE  \/ /\ i \in 1 .. Len(deployLog[d])
                /\ deployLog'[d][i] = deployLog[d][i]
             \/ /\ i = Len(deployLog[d]) + 1
                /\ deployLog'[d][i] \in rows
                /\ deployLog'[d][i].diid = d
  <2>1. CASE \A r \in rows : r.diid # d
    BY <1>1, <2>1
  <2>2. CASE \E r \in rows : r.diid = d
    <3>1. PICK r \in rows : r.diid = d /\ deployLog'[d] = Append(deployLog[d], r)
      BY <1>1, <2>2
    <3>2. r \in Row
      BY DEF GoodRows
    <3> QED
      BY <1>2, <3>1, <3>2
  <2> QED
    BY <2>1, <2>2
<1>4. StartsWithSent'
  <2> SUFFICES ASSUME NEW d \in Diid, NEW i \in 1 .. Len(deployLog'[d])
               PROVE  (deployLog'[d][i].status = "sent") <=> (i = 1)
    BY DEF StartsWithSent
  <2>1. CASE i \in 1 .. Len(deployLog[d]) /\ deployLog'[d][i] = deployLog[d][i]
    BY <2>1 DEF RolloutInv, StartsWithSent
  <2>2. CASE /\ i = Len(deployLog[d]) + 1
             /\ deployLog'[d][i] \in rows
             /\ deployLog'[d][i].diid = d
    <3>1. (deployLog'[d][i].status = "sent") <=> (deployLog[d] = <<>>)
      BY <2>2 DEF GoodRows
    <3>2. (deployLog[d] = <<>>) <=> (Len(deployLog[d]) = 0)
      BY <1>2
    <3>3. Len(deployLog[d]) \in Nat
      BY <1>2
    <3> QED
      BY <2>2, <3>1, <3>2, <3>3
  <2> QED
    BY <1>3, <2>1, <2>2
<1>5. DeployedIsEarned'
  BY <1>3 DEF RolloutInv, DeployedIsEarned, GoodRows
<1>6. RowsMatchInstruction'
  <2>1. ASSUME NEW d \in Diid, NEW i \in 1 .. Len(deployLog'[d])
        PROVE  /\ deployLog'[d][i].diid = d
               /\ deployLog'[d][i].key = instr'[d].key
               /\ deployLog'[d][i].hash = instr'[d].hash
    BY <1>3 DEF RolloutInv, RowsMatchInstruction, GoodRows
  <2>2. ASSUME NEW k \in Key, deployCurrent'[k].status # "none"
        PROVE  \E i \in 1 .. Len(deployLog'[deployCurrent'[k].diid]) :
                  deployCurrent'[k] = deployLog'[deployCurrent'[k].diid][i]
    <3>1. CASE \E r \in rows : r.key = k
      <4> DEFINE r == deployCurrent'[k]
      <4>1. r \in rows /\ r \in Row /\ r.diid \in Diid
        BY <1>1, <3>1 DEF GoodRows, Row
      <4>2. deployLog'[r.diid] = Append(deployLog[r.diid], r)
        BY <1>1, <4>1, SMTT(30) DEF GoodRows
      <4>3. /\ Len(deployLog[r.diid]) + 1 \in 1 .. Len(deployLog'[r.diid])
            /\ deployLog'[r.diid][Len(deployLog[r.diid]) + 1] = r
        BY <1>2, <4>1, <4>2
      <4> QED
        BY <4>3
    <3>2. CASE \A r \in rows : r.key # k
      <4> DEFINE c == deployCurrent[k]
      <4>1. deployCurrent'[k] = c /\ c.status # "none"
        BY <1>1, <2>2, <3>2
      <4>2. c \in Row
        BY <4>1 DEF RolloutInv, TypeOK, NoRow
      <4>3. c.diid \in Diid
        BY <4>2 DEF Row
      <4>4. PICK i \in 1 .. Len(deployLog[c.diid]) : c = deployLog[c.diid][i]
        BY <4>1 DEF RolloutInv, RowsMatchInstruction
      <4>5. i \in 1 .. Len(deployLog'[c.diid]) /\ deployLog'[c.diid][i] = deployLog[c.diid][i]
        <5>1. CASE \A r \in rows : r.diid # c.diid
          BY <1>1, <4>3, <5>1
        <5>2. CASE \E r \in rows : r.diid = c.diid
          <6>1. PICK r \in rows : deployLog'[c.diid] = Append(deployLog[c.diid], r)
            BY <1>1, <4>3, <5>2
          <6>2. r \in Row
            BY DEF GoodRows
          <6> QED
            BY <1>2, <4>3, <6>1, <6>2
        <5> QED
          BY <5>1, <5>2
      <4> QED
        BY <4>1, <4>4, <4>5
    <3> QED
      BY <3>1, <3>2
  <2>3. ASSUME NEW k \in Key PROVE deployCurrent'[k].key = k
    BY <1>1 DEF RolloutInv, RowsMatchInstruction
  <2> QED
    BY <2>1, <2>2, <2>3 DEF RowsMatchInstruction
<1> QED
  BY <1>4, <1>5, <1>6

-----------------------------------------------------------------------------
(* One lemma per action or group of actions. *)

\* Steps of a worker that publish and record nothing: they may only forget
\* diids that were counted as sent.
LEMMA WorkerOnly ==
    ASSUME RolloutInv,
           UNCHANGED <<desiredVars, inbox, pubsubVars, clusterVars, logVars>>,
           faultsLeft' \in 0 .. MaxFaults,
           worker' \in [Worker -> WorkerState],
           \A w \in Worker : worker'[w].sent \subseteq worker[w].sent
    PROVE  RolloutInv'
<1>1. TypeOK'
  BY DEF RolloutInv, TypeOK, WorkerState, AnyRow, desiredVars, pubsubVars, clusterVars, logVars
<1>2. IssuedInv' /\ EarnedInv'
  BY DEF RolloutInv, IssuedInv, EarnedInv, pubsubVars, clusterVars, logVars
<1>3. UnrecordedInv'
  BY DEF RolloutInv, UnrecordedInv, pubsubVars, logVars
<1>4. StartsWithSent' /\ RowsMatchInstruction' /\ DeployedIsEarned'
  BY LogUnchanged DEF pubsubVars, clusterVars
<1> QED
  BY <1>1, <1>2, <1>3, <1>4 DEF RolloutInv

\* A fault is paid for from a budget that stays in its range.
LEMMA SpendType == ASSUME TypeOK, NEW f, Spend(f) PROVE faultsLeft' \in 0 .. MaxFaults
BY BoundsAssumption DEF TypeOK, Spend

\* The worker records have the type that TypeOK gives them.
LEMMA WorkerTyped == ASSUME RolloutInv PROVE worker \in [Worker -> WorkerState]
BY DEF RolloutInv, TypeOK, WorkerState, AnyRow

\* A change of the desired state touches no row and no instruction.
LEMMA ChangeDesiredInv == ASSUME RolloutInv, NEW k \in Key, ChangeDesired(k) PROVE RolloutInv'
<1>1. TypeOK'
  BY BoundsAssumption DEF ChangeDesired, RolloutInv, TypeOK, pubsubVars, clusterVars, logVars
<1>2. IssuedInv' /\ EarnedInv' /\ UnrecordedInv'
  BY DEF ChangeDesired, RolloutInv, IssuedInv, EarnedInv, UnrecordedInv, pubsubVars, clusterVars, logVars
<1>3. StartsWithSent' /\ RowsMatchInstruction' /\ DeployedIsEarned'
  BY LogUnchanged DEF ChangeDesired, pubsubVars, clusterVars
<1> QED
  BY <1>1, <1>2, <1>3 DEF RolloutInv

\* The two reads of fetchSnapshot only fill the snapshot of one worker.
LEMMA FetchInv ==
    ASSUME RolloutInv, NEW w \in Worker, FetchDesired(w) \/ ListLatestDeploys(w)
    PROVE  RolloutInv'
<1>1. /\ worker \in [Worker -> WorkerState]
      /\ desired \in [Key -> Hashes \cup {Blocked}]
      /\ deployCurrent \in [Key -> AnyRow]
      /\ faultsLeft \in 0 .. MaxFaults
  BY WorkerTyped DEF RolloutInv, TypeOK, AnyRow
<1>2. /\ worker' \in [Worker -> WorkerState]
      /\ \A v \in Worker : worker'[v].sent = worker[v].sent
      /\ UNCHANGED <<desiredVars, faultsLeft, inbox, pubsubVars, clusterVars, logVars>>
  <2>1. CASE FetchDesired(w)
    BY <1>1, <2>1 DEF FetchDesired, WorkerState
  <2>2. CASE ListLatestDeploys(w)
    BY <1>1, <2>2 DEF ListLatestDeploys, WorkerState
  <2> QED
    BY <2>1, <2>2
<1> QED
  BY <1>1, <1>2, WorkerOnly

\* A worker that starts its deploy has published nothing yet.
LEMMA StartDeployFacts ==
    ASSUME RolloutInv, NEW w \in Worker, NEW keys \in SUBSET Key, StartDeploy(w, keys),
           \A k \in keys : worker[w].want[k] # Blocked
    PROVE  /\ worker' \in [Worker -> WorkerState]
           /\ \A v \in Worker : worker'[v].sent \subseteq worker[v].sent
<1> DEFINE items == {[key |-> k, hash |-> worker[w].want[k]] : k \in keys}
           started == [Fresh EXCEPT !.pc = "deploy", !.todo = items]
<1>1. worker \in [Worker -> WorkerState]
  BY WorkerTyped
<1>2. \A k \in keys : worker[w].want[k] \in Hashes
  BY <1>1 DEF WorkerState
<1>3. items \in SUBSET [key : Key, hash : Hashes]
  BY <1>2
<1>4. started \in WorkerState /\ started.sent = {}
  <2> HIDE DEF items
  <2>1. Fresh \in WorkerState /\ Fresh.sent = {}
    BY FinishedFacts
  <2> QED
    BY <1>3, <2>1 DEF WorkerState
<1>5. worker' = [worker EXCEPT ![w] = started]
  BY DEF StartDeploy
<1> HIDE DEF started
<1> QED
  BY <1>1, <1>4, <1>5

\* Run hands its deploy decisions over: nothing is published yet.
LEMMA ReconcileInv == ASSUME RolloutInv, Reconcile PROVE RolloutInv'
<1> DEFINE keys == {k \in Key : ActionOf(Loop, k) = "deploy"}
<1>1. \A k \in keys : worker[Loop].want[k] # Blocked
  BY DEF ActionOf, computeAction
<1>2. StartDeploy(Loop, keys) /\ Loop \in Worker
  BY DEF Reconcile, Worker
<1>3. /\ worker' \in [Worker -> WorkerState]
      /\ \A v \in Worker : worker'[v].sent \subseteq worker[v].sent
  <2> HIDE DEF keys
  <2>1. keys \in SUBSET Key
    BY DEF keys
  <2> QED
    BY <1>1, <1>2, <2>1, StartDeployFacts
<1>4. faultsLeft' \in 0 .. MaxFaults
  BY DEF RolloutInv, TypeOK, Reconcile
<1> QED
  BY <1>3, <1>4, WorkerOnly DEF Reconcile

\* A worker that is done forgets what it had published.
LEMMA FinishFacts ==
    ASSUME RolloutInv, NEW w \in Worker, worker' = [worker EXCEPT ![w] = Finished(w)]
    PROVE  /\ worker' \in [Worker -> WorkerState]
           /\ worker'[w].sent = {}
           /\ \A v \in Worker \ {w} : worker'[v] = worker[v]
           /\ \A v \in Worker : worker'[v].sent \subseteq worker[v].sent
BY WorkerTyped, FinishedFacts

\* Redeploy hands over its key, or refuses: nothing is published yet.
LEMMA RedeployInv ==
    ASSUME RolloutInv, NEW w \in Requests, NEW k \in Key, Redeploy(w, k)
    PROVE  RolloutInv'
<1>0. w \in Worker
  BY DEF Worker
<1>1. /\ worker' \in [Worker -> WorkerState]
      /\ \A v \in Worker : worker'[v].sent \subseteq worker[v].sent
  <2>1. CASE ActionOf(w, k) = "skip-unchanged" /\ StartDeploy(w, {k})
    <3>1. worker[w].want[k] # Blocked
      BY <2>1 DEF ActionOf, computeAction
    <3> QED
      BY <1>0, <2>1, <3>1, StartDeployFacts
  <2>2. CASE worker' = [worker EXCEPT ![w] = Finished(w)]
    BY <1>0, <2>2, FinishFacts
  <2> QED
    BY <2>1, <2>2 DEF Redeploy
<1>2. faultsLeft' \in 0 .. MaxFaults
  BY DEF RolloutInv, TypeOK, Redeploy
<1> QED
  BY <1>1, <1>2, WorkerOnly DEF Redeploy

\* A cycle that ends in an error leaves the rows alone.
LEMMA WorkerFailsInv == ASSUME RolloutInv, NEW w \in Worker, WorkerFails(w) PROVE RolloutInv'
<1>1. CASE CycleFails(w) \/ AppendDeploysFails(w)
  <2>1. worker' = [worker EXCEPT ![w] = Finished(w)]
    BY <1>1 DEF CycleFails, AppendDeploysFails
  <2>2. faultsLeft' \in 0 .. MaxFaults
    BY <1>1, SpendType DEF CycleFails, AppendDeploysFails, RolloutInv
  <2>3. UNCHANGED <<desiredVars, inbox, pubsubVars, clusterVars, logVars>>
    BY <1>1 DEF CycleFails, AppendDeploysFails
  <2> QED
    BY <2>1, <2>2, <2>3, FinishFacts, WorkerOnly
<1>2. ASSUME NEW i \in worker[w].todo, PublishFails(w, i) PROVE RolloutInv'
  <2>1. /\ worker' \in [Worker -> WorkerState]
        /\ \A v \in Worker : worker'[v].sent = worker[v].sent
    BY <1>2, WorkerTyped, ZenonT(60) DEF PublishFails, WorkerState
  <2>2. faultsLeft' \in 0 .. MaxFaults
    BY <1>2, SpendType DEF PublishFails, RolloutInv
  <2> QED
    BY <1>2, <2>1, <2>2, WorkerOnly DEF PublishFails
<1> QED
  BY <1>1, <1>2 DEF WorkerFails

\* A restart forgets the published batch, whose diids have no row.
LEMMA FasitRestartsInv == ASSUME RolloutInv, FasitRestarts PROVE RolloutInv'
<1>1. \A w \in Worker : worker'[w] \in WorkerState /\ worker'[w].sent = {}
  BY FinishedFacts DEF FasitRestarts
<1>2. worker' \in [Worker -> WorkerState]
  BY <1>1 DEF FasitRestarts
<1>3. faultsLeft' \in 0 .. MaxFaults
  BY SpendType DEF FasitRestarts, RolloutInv
<1> QED
  BY <1>1, <1>2, <1>3, WorkerOnly DEF FasitRestarts

-----------------------------------------------------------------------------
(* Publishing *)

\* A fresh diid is beyond every diid in use, and has no row.
LEMMA IssueFacts ==
    ASSUME RolloutInv, NEW k \in Key, NEW h \in Release, Issue(k, h)
    PROVE  /\ issued + 1 \in Diid
           /\ issued' = issued + 1 /\ issued' \in 0 .. MaxDeploys
           /\ instr' \in [Diid -> Instruction \cup {NoInstr}]
           /\ instr'[issued + 1] \in Instruction
           /\ \A d \in Diid : d <= issued => instr'[d] = instr[d]
           /\ deployLog[issued + 1] = <<>>
           /\ \A w \in Worker : issued + 1 \notin worker[w].sent
<1>1. issued \in 0 .. MaxDeploys /\ issued < MaxDeploys
  BY DEF RolloutInv, TypeOK, Issue
<1>2. issued + 1 \in Diid /\ issued' = issued + 1 /\ issued' \in 0 .. MaxDeploys
  BY <1>1, BoundsAssumption DEF Issue, Diid
<1>3. /\ instr' \in [Diid -> Instruction \cup {NoInstr}]
      /\ instr'[issued + 1] \in Instruction
      /\ \A d \in Diid : d <= issued => instr'[d] = instr[d]
  <2>1. instr' = [instr EXCEPT ![issued + 1] = [key |-> k, hash |-> h]]
    BY DEF Issue
  <2>2. [key |-> k, hash |-> h] \in Instruction
    BY DEF Instruction
  <2>3. instr \in [Diid -> Instruction \cup {NoInstr}]
    BY DEF RolloutInv, TypeOK
  <2>4. \A d \in Diid : d <= issued => d # issued + 1
    BY <1>1 DEF Diid
  <2> QED
    BY <1>2, <2>1, <2>2, <2>3, <2>4
<1>4. ~(issued + 1 <= issued)
  BY <1>1
<1>5. deployLog[issued + 1] = <<>>
  BY <1>2, <1>4 DEF RolloutInv, IssuedInv
<1>6. \A w \in Worker : issued + 1 \notin worker[w].sent
  BY <1>4 DEF RolloutInv, UnrecordedInv
<1> QED
  BY <1>2, <1>3, <1>5, <1>6

\* What an issued diid leaves intact in IssuedInv and EarnedInv.
LEMMA IssuedGrows ==
    ASSUME RolloutInv, NEW k \in Key, NEW h \in Release, Issue(k, h),
           UNCHANGED <<inbox, clusterVars, logVars>>,
           topic' \in {topic, topic \cup {issued + 1}}
    PROVE  IssuedInv' /\ EarnedInv'
<1>1. issued \in Nat /\ issued' = issued + 1 /\ Diid \subseteq Nat
  BY IssueFacts, BoundsAssumption DEF RolloutInv, TypeOK, Diid
<1>2. \A d \in Diid : IF d <= issued' THEN instr'[d] \in Instruction
                                       ELSE deployLog'[d] = <<>>
  <2> SUFFICES ASSUME NEW d \in Diid
               PROVE  IF d <= issued' THEN instr'[d] \in Instruction
                                      ELSE deployLog'[d] = <<>>
    OBVIOUS
  <2>1. d \in Nat /\ (d <= issued' <=> d <= issued \/ d = issued + 1)
    BY <1>1
  <2>2. CASE d = issued + 1
    BY <2>1, <2>2, IssueFacts
  <2>3. CASE d <= issued
    <3>1. instr'[d] = instr[d]
      BY <2>3, IssueFacts
    <3>2. instr[d] \in Instruction
      BY <2>3 DEF RolloutInv, IssuedInv
    <3> QED
      BY <2>1, <2>3, <3>1, <3>2
  <2>4. CASE ~(d <= issued')
    BY <2>1, <2>4 DEF RolloutInv, IssuedInv, logVars
  <2> QED
    BY <2>1, <2>2, <2>3, <2>4
<1>3. \A d \in topic' : d <= issued'
  BY <1>1 DEF RolloutInv, IssuedInv, TypeOK
<1>4. \A e \in Environments : agent[e].diid \in Nat
  <2> SUFFICES ASSUME NEW e \in Environments PROVE agent[e].diid \in Nat
    OBVIOUS
  <2>1. agent[e] \in Busy \cup {Idle}
    BY DEF RolloutInv, TypeOK, Busy
  <2> QED
    BY <2>1, BoundsAssumption DEF Busy, Idle, Diid
<1>5. \A e \in Environments : agent'[e].diid <= issued'
  BY <1>1, <1>4 DEF RolloutInv, IssuedInv, clusterVars
<1>6. \A m \in inbox' : m.diid <= issued'
  <2>1. \A m \in inbox : m.diid \in Diid
    BY DEF RolloutInv, TypeOK, Message
  <2>2. \A m \in inbox : m.diid <= issued
    BY DEF RolloutInv, IssuedInv
  <2>3. \A m \in inbox : m.diid \in Nat
    BY <2>1, BoundsAssumption DEF Diid
  <2>4. \A n \in Nat : n <= issued => n <= issued'
    BY <1>1
  <2>5. inbox' = inbox
    OBVIOUS
  <2> QED
    BY <2>2, <2>3, <2>4, <2>5
<1> QED
  BY <1>2, <1>3, <1>5, <1>6 DEF IssuedInv, EarnedInv, RolloutInv, clusterVars

\* A published item gets a fresh diid, without a row, known to one worker only.
LEMMA PublishInv ==
    ASSUME RolloutInv, NEW w \in Worker, NEW i \in worker[w].todo, Publish(w, i)
    PROVE  RolloutInv'
<1>1. i.key \in Key /\ i.hash \in Release /\ Issue(i.key, i.hash)
  BY WorkerTyped DEF Publish, WorkerState, Release
<1>2. topic' \in {topic, topic \cup {issued + 1}} /\ faultsLeft' \in 0 .. MaxFaults
  BY SpendType DEF Publish, RolloutInv, TypeOK
<1>3. UNCHANGED <<desiredVars, inbox, clusterVars, logVars>>
  BY DEF Publish
<1>4. issued + 1 \in Diid
  BY <1>1, IssueFacts
<1>5. /\ worker' \in [Worker -> WorkerState]
      /\ worker'[w].sent = worker[w].sent \cup {issued + 1}
      /\ \A v \in Worker \ {w} : worker'[v].sent = worker[v].sent
  <2> DEFINE next == [worker[w] EXCEPT !.todo = @ \ {i}, !.sent = @ \cup {issued + 1}]
  <2>1. worker \in [Worker -> WorkerState]
    BY WorkerTyped
  <2>2. next \in WorkerState /\ next.sent = worker[w].sent \cup {issued + 1}
    BY <1>4, <2>1 DEF WorkerState
  <2>3. worker' = [worker EXCEPT ![w] = next]
    BY <2>1 DEF Publish, WorkerState
  <2> HIDE DEF next
  <2> QED
    BY <2>1, <2>2, <2>3
<1>6. TypeOK'
  <2>1. topic' \subseteq Diid
    BY <1>2, <1>4 DEF RolloutInv, TypeOK
  <2>2. issued' \in 0 .. MaxDeploys /\ instr' \in [Diid -> Instruction \cup {NoInstr}]
    BY <1>1, IssueFacts
  <2> QED
    BY <1>2, <1>3, <1>5, <2>1, <2>2
    DEF RolloutInv, TypeOK, WorkerState, AnyRow, desiredVars, clusterVars, logVars
<1>7. IssuedInv' /\ EarnedInv'
  BY <1>1, <1>2, <1>3, IssuedGrows
<1>8. UnrecordedInv'
  <2>1. /\ issued' = issued + 1 /\ deployLog[issued + 1] = <<>>
        /\ \A v \in Worker : issued + 1 \notin worker[v].sent
    BY <1>1, IssueFacts
  <2>2. \A v \in Worker : \A d \in worker[v].sent : d <= issued + 1
    <3>1. issued \in Nat
      BY BoundsAssumption DEF RolloutInv, TypeOK
    <3>2. \A v \in Worker : \A d \in worker[v].sent : d \in Nat /\ d <= issued
      BY WorkerTyped, BoundsAssumption DEF RolloutInv, UnrecordedInv, WorkerState, Diid
    <3> QED
      BY <3>1, <3>2
  <2>3. issued + 1 <= issued + 1
    BY <1>4, BoundsAssumption DEF Diid
  <2> QED
    BY <1>3, <1>5, <2>1, <2>2, <2>3 DEF RolloutInv, UnrecordedInv, logVars
<1>9. StartsWithSent' /\ RowsMatchInstruction' /\ DeployedIsEarned'
  BY <1>1, <1>3, IssueFacts, LogUnchanged DEF clusterVars
<1> QED
  BY <1>6, <1>7, <1>8, <1>9 DEF RolloutInv

\* An uninstall gets a fresh diid that no worker will record.
LEMMA UninstallInv == ASSUME RolloutInv, NEW k \in Key, Uninstall(k) PROVE RolloutInv'
<1>1. NotInstalled \in Release /\ Issue(k, NotInstalled)
  BY DEF Uninstall, Release
<1>2. topic' \in {topic, topic \cup {issued + 1}} /\ faultsLeft' \in 0 .. MaxFaults
  BY SpendType DEF Uninstall, RolloutInv
<1>3. UNCHANGED <<desiredVars, worker, inbox, clusterVars, logVars>>
  BY DEF Uninstall
<1>4. /\ issued + 1 \in Diid /\ issued' = issued + 1 /\ issued' \in 0 .. MaxDeploys
      /\ instr' \in [Diid -> Instruction \cup {NoInstr}]
  BY <1>1, IssueFacts
<1>5. TypeOK'
  <2>1. topic' \subseteq Diid
    BY <1>2, <1>4 DEF RolloutInv, TypeOK
  <2> QED
    BY <1>2, <1>3, <1>4, <2>1 DEF RolloutInv, TypeOK, desiredVars, clusterVars, logVars
<1>6. IssuedInv' /\ EarnedInv'
  BY <1>1, <1>2, <1>3, IssuedGrows
<1>7. UnrecordedInv'
  <2>1. issued \in Nat
    BY BoundsAssumption DEF RolloutInv, TypeOK
  <2>2. \A v \in Worker : \A d \in worker[v].sent : d \in Nat
    BY WorkerTyped, BoundsAssumption DEF WorkerState, Diid
  <2> QED
    BY <1>3, <1>4, <2>1, <2>2 DEF RolloutInv, UnrecordedInv, logVars
<1>8. StartsWithSent' /\ RowsMatchInstruction' /\ DeployedIsEarned'
  BY <1>1, <1>3, IssueFacts, LogUnchanged DEF clusterVars
<1> QED
  BY <1>5, <1>6, <1>7, <1>8 DEF RolloutInv

-----------------------------------------------------------------------------
(* Appending to the log *)

\* The rows of a batch are the first rows of their diids.
LEMMA AppendDeploysInv ==
    ASSUME RolloutInv, NEW w \in Worker, AppendDeploys(w)
    PROVE  RolloutInv'
<1> DEFINE sent == worker[w].sent
           rows == {SentRow(d) : d \in sent}
<1>1. /\ sent \subseteq Diid
      /\ \A d \in sent : d <= issued /\ deployLog[d] = <<>> /\ instr[d] \in Instruction
  BY WorkerTyped DEF RolloutInv, UnrecordedInv, IssuedInv, WorkerState
<1>2. GoodRows(rows)
  BY <1>1 DEF GoodRows, SentRow, Row, Status, Instruction
<1>3. AppendRows(rows) /\ worker' = [worker EXCEPT ![w] = Finished(w)]
      /\ UNCHANGED <<desiredVars, faultsLeft, inbox, pubsubVars, clusterVars>>
  BY DEF AppendDeploys
<1>4. /\ worker' \in [Worker -> WorkerState]
      /\ worker'[w].sent = {}
      /\ \A v \in Worker \ {w} : worker'[v] = worker[v]
  BY <1>3, FinishFacts
<1>5. \A r \in rows : r.diid \in sent
  BY DEF SentRow
<1> HIDE DEF rows, sent
<1>6. /\ deployLog' \in [Diid -> Seq(Row)]
      /\ deployCurrent' \in [Key -> AnyRow]
      /\ \A d \in Diid : (\A r \in rows : r.diid # d) => deployLog'[d] = deployLog[d]
  BY <1>2, <1>3, AppendRowsFacts DEF RolloutInv, GoodRows
<1>7. \A d \in Diid : d \notin sent => deployLog'[d] = deployLog[d]
  BY <1>5, <1>6
<1>8. TypeOK'
  BY <1>3, <1>4, <1>6 DEF RolloutInv, TypeOK, WorkerState, AnyRow, desiredVars, pubsubVars, clusterVars
<1>9. IssuedInv' /\ EarnedInv'
  BY <1>1, <1>3, <1>7 DEF RolloutInv, IssuedInv, EarnedInv, pubsubVars, clusterVars
<1>10. UnrecordedInv'
  <2> SUFFICES ASSUME NEW v \in Worker, NEW d \in worker'[v].sent
               PROVE  /\ d <= issued'
                      /\ deployLog'[d] = <<>>
                      /\ \A u \in Worker \ {v} : d \notin worker'[u].sent
    BY DEF UnrecordedInv
  <2>1. v # w /\ worker'[v] = worker[v]
    BY <1>4
  <2>2. d \in Diid /\ d \notin sent
    BY <2>1, WorkerTyped DEF RolloutInv, UnrecordedInv, WorkerState, sent
  <2> QED
    BY <1>3, <1>4, <1>7, <2>1, <2>2 DEF RolloutInv, UnrecordedInv, pubsubVars
<1>11. StartsWithSent' /\ RowsMatchInstruction' /\ DeployedIsEarned'
  BY <1>2, <1>3, LogAppended DEF pubsubVars, clusterVars
<1> QED
  BY <1>8, <1>9, <1>10, <1>11 DEF RolloutInv

\* Rows of diids that are in the log already, appended by the receiver or by
\* the timeout worker.
LEMMA AppendKnown ==
    ASSUME RolloutInv, NEW rows, GoodRows(rows), AppendRows(rows),
           \A r \in rows : deployLog[r.diid] # <<>>,
           UNCHANGED <<desiredVars, worker, pubsubVars, clusterVars>>,
           faultsLeft' \in 0 .. MaxFaults, inbox' \subseteq inbox
    PROVE  RolloutInv'
<1>1. /\ deployLog' \in [Diid -> Seq(Row)]
      /\ deployCurrent' \in [Key -> AnyRow]
      /\ \A d \in Diid : (\A r \in rows : r.diid # d) => deployLog'[d] = deployLog[d]
  BY AppendRowsFacts DEF RolloutInv, GoodRows
<1>2. \A d \in Diid : deployLog[d] = <<>> => deployLog'[d] = <<>>
  BY <1>1
<1>3. TypeOK'
  BY <1>1 DEF RolloutInv, TypeOK, AnyRow, desiredVars, pubsubVars, clusterVars
<1>4. IssuedInv' /\ EarnedInv'
  BY <1>2 DEF RolloutInv, IssuedInv, EarnedInv, pubsubVars, clusterVars
<1>5. UnrecordedInv'
  BY <1>2, WorkerTyped DEF RolloutInv, UnrecordedInv, WorkerState, pubsubVars
<1>6. StartsWithSent' /\ RowsMatchInstruction' /\ DeployedIsEarned'
  BY LogAppended DEF pubsubVars, clusterVars
<1> QED
  BY <1>3, <1>4, <1>5, <1>6 DEF RolloutInv

\* The receiver appends only to a diid that has its "sent" row.
LEMMA HandlerHelmInv == ASSUME RolloutInv, NEW m \in inbox, HandlerHelm(m) PROVE RolloutInv'
<1>1. inbox' \subseteq inbox /\ faultsLeft' \in 0 .. MaxFaults
  BY SpendType DEF HandlerHelm, Deliver, RolloutInv, TypeOK
<1>2. UNCHANGED <<desiredVars, worker, pubsubVars, clusterVars>>
  BY DEF HandlerHelm
<1>3. m \in Message
  BY DEF RolloutInv, TypeOK
<1>4. CASE UNCHANGED logVars
  <2>1. TypeOK'
    BY <1>1, <1>2, <1>4 DEF RolloutInv, TypeOK, desiredVars, pubsubVars, clusterVars, logVars
  <2>2. IssuedInv' /\ EarnedInv' /\ UnrecordedInv'
    BY <1>1, <1>2, <1>4 DEF RolloutInv, IssuedInv, EarnedInv, UnrecordedInv, pubsubVars, clusterVars, logVars
  <2>3. StartsWithSent' /\ RowsMatchInstruction' /\ DeployedIsEarned'
    BY <1>2, <1>4, LogUnchanged DEF pubsubVars, clusterVars
  <2> QED
    BY <2>1, <2>2, <2>3 DEF RolloutInv
<1>5. CASE /\ deployLog[m.diid] # <<>>
           /\ AppendRows({[LatestDeployByDIID(m.diid) EXCEPT !.diid = m.diid, !.status = m.status]})
  <2> DEFINE last == LatestDeployByDIID(m.diid)
             new == [last EXCEPT !.diid = m.diid, !.status = m.status]
  <2>1. m.diid \in Diid /\ m.status \in Status /\ m.status # "sent"
    BY <1>3 DEF Message, Status
  <2>2. deployLog[m.diid] \in Seq(Row)
    BY <2>1 DEF RolloutInv, TypeOK
  <2>3. Len(deployLog[m.diid]) \in 1 .. Len(deployLog[m.diid])
    BY <1>5, <2>2
  <2>4. last \in Row /\ last = deployLog[m.diid][Len(deployLog[m.diid])]
    BY <2>2, <2>3 DEF LatestDeployByDIID
  <2>5. last.diid = m.diid /\ last.key = instr[m.diid].key /\ last.hash = instr[m.diid].hash
    BY <2>1, <2>3, <2>4 DEF RolloutInv, RowsMatchInstruction
  <2> HIDE DEF last
  <2>6. /\ new \in Row /\ new.status = m.status
        /\ new.diid = m.diid /\ new.key = instr[m.diid].key /\ new.hash = instr[m.diid].hash
    BY <2>1, <2>4, <2>5 DEF Row
  <2>7. AppendRows({new})
    BY <1>5 DEF last
  <2> HIDE DEF new
  <2>8. GoodRows({new})
    BY <1>5, <2>1, <2>6 DEF GoodRows, RolloutInv, EarnedInv
  <2> QED
    BY <1>1, <1>2, <1>5, <2>6, <2>7, <2>8, AppendKnown
<1> QED
  BY <1>4, <1>5 DEF HandlerHelm

\* The timeout worker appends only to the diids of current rows.
LEMMA TimeoutInv ==
    ASSUME RolloutInv, TimeoutPendingDeploys \/ TimeoutBeforeAnswer
    PROVE  RolloutInv'
<1>1. PICK old \in SUBSET Pending : TimeoutRows(old)
  BY DEF TimeoutPendingDeploys, TimeoutBeforeAnswer
<1>2. /\ UNCHANGED <<desiredVars, worker, inbox, pubsubVars, clusterVars>>
      /\ faultsLeft' \in 0 .. MaxFaults
  BY SpendType DEF TimeoutPendingDeploys, TimeoutBeforeAnswer, RolloutInv, TypeOK
<1> DEFINE rows == {[deployCurrent[k] EXCEPT !.status = "failed"] : k \in old}
<1>3. AppendRows(rows)
  BY <1>1 DEF TimeoutRows
<1>4. ASSUME NEW k \in old
      PROVE  LET c == deployCurrent[k] IN
             /\ c \in Row
             /\ deployLog[c.diid] # <<>>
             /\ c.key = instr[c.diid].key /\ c.hash = instr[c.diid].hash
  <2> DEFINE c == deployCurrent[k]
  <2>1. k \in Key /\ c.status # "none"
    BY DEF Pending, IsInProgress
  <2>2. c \in Row
    BY <2>1 DEF RolloutInv, TypeOK, NoRow
  <2>3. c.diid \in Diid /\ deployLog[c.diid] \in Seq(Row)
    BY <2>2 DEF Row, RolloutInv, TypeOK
  <2>4. PICK i \in 1 .. Len(deployLog[c.diid]) : c = deployLog[c.diid][i]
    BY <2>1 DEF RolloutInv, RowsMatchInstruction
  <2> QED
    BY <2>2, <2>3, <2>4 DEF RolloutInv, RowsMatchInstruction
<1>5. \A r \in rows : /\ r \in Row /\ r.status = "failed"
                      /\ deployLog[r.diid] # <<>>
                      /\ r.key = instr[r.diid].key /\ r.hash = instr[r.diid].hash
  BY <1>4 DEF Row, Status
<1> HIDE DEF rows
<1>6. GoodRows(rows)
  BY <1>5 DEF GoodRows, Row
<1> QED
  BY <1>2, <1>3, <1>5, <1>6, AppendKnown

-----------------------------------------------------------------------------
(* The agent *)

\* Steps of naisd: the log, the workers and the instructions stay, helm may
\* only add to what was installed, and the agent holds an issued diid.
LEMMA AgentOnly ==
    ASSUME RolloutInv, UNCHANGED <<desiredVars, worker, issued, instr, logVars>>,
           faultsLeft' \in 0 .. MaxFaults,
           topic' \subseteq topic,
           agent' \in [Environments -> Busy \cup {Idle}],
           \A e \in Environments : agent'[e].diid <= issued,
           \A e \in Environments : agent'[e].phase = "deployed" => agent'[e].diid \in applied',
           installed' \in [Key -> Release],
           applied \subseteq applied', applied' \subseteq Diid,
           \A m \in inbox' \ inbox : /\ m \in Message
                                     /\ m.diid <= issued
                                     /\ m.status = "deployed" => m.diid \in applied'
    PROVE  RolloutInv'
<1>1. inbox' \subseteq Message
  BY DEF RolloutInv, TypeOK
<1>2. TypeOK'
  BY <1>1 DEF RolloutInv, TypeOK, Busy, desiredVars, logVars
<1>3. IssuedInv'
  BY DEF RolloutInv, IssuedInv, logVars
<1>4. EarnedInv'
  BY DEF RolloutInv, EarnedInv
<1>5. UnrecordedInv'
  BY DEF RolloutInv, UnrecordedInv, logVars
<1>6. StartsWithSent' /\ RowsMatchInstruction' /\ DeployedIsEarned'
  BY LogUnchanged
<1> QED
  BY <1>2, <1>3, <1>4, <1>5, <1>6 DEF RolloutInv

\* The agent records have the type that TypeOK gives them.
LEMMA AgentTyped ==
    ASSUME RolloutInv
    PROVE  /\ agent \in [Environments -> Busy \cup {Idle}]
           /\ \A e \in Environments : agent[e].diid <= issued
           /\ \A e \in Environments : agent[e].phase = "deployed" => agent[e].diid \in applied
           /\ installed \in [Key -> Release] /\ applied \subseteq Diid
           /\ faultsLeft \in 0 .. MaxFaults
           /\ issued \in Nat
           /\ 0 <= issued
           /\ Idle.diid = 0 /\ Idle.phase = "idle"
<1>1. agent \in [Environments -> Busy \cup {Idle}]
  BY DEF RolloutInv, TypeOK, Busy
<1>2. \A e \in Environments : agent[e].diid <= issued
  BY DEF RolloutInv, IssuedInv
<1>3. \A e \in Environments : agent[e].phase = "deployed" => agent[e].diid \in applied
  BY DEF RolloutInv, EarnedInv
<1>4. /\ installed \in [Key -> Release] /\ applied \subseteq Diid
      /\ faultsLeft \in 0 .. MaxFaults
  BY DEF RolloutInv, TypeOK
<1>5. issued \in Nat /\ 0 <= issued
  BY BoundsAssumption DEF RolloutInv, TypeOK
<1> QED
  BY <1>1, <1>2, <1>3, <1>4, <1>5 DEF Idle

\* The agent goes back to idle; what else happens is the caller's to say.
LEMMA AgentIdles ==
    ASSUME RolloutInv, NEW e \in Environments, agent' = [agent EXCEPT ![e] = Idle]
    PROVE  /\ agent' \in [Environments -> Busy \cup {Idle}]
           /\ \A f \in Environments : agent'[f].diid <= issued
           /\ \A f \in Environments : agent'[f].phase = "deployed" => agent'[f].diid \in applied
<1>1. \A f \in Environments : agent'[f] = IF f = e THEN Idle ELSE agent[f]
  BY AgentTyped
<1>2. \A f \in Environments : agent'[f] \in Busy \cup {Idle}
  BY <1>1, AgentTyped
<1>3. agent' \in [Environments -> Busy \cup {Idle}]
  BY AgentTyped
<1> QED
  BY <1>1, <1>3, AgentTyped

\* The agent takes up diid d in some phase.
LEMMA AgentMoves ==
    ASSUME RolloutInv, NEW e \in Environments, NEW b \in Busy, b.diid <= issued,
           agent' = [agent EXCEPT ![e] = b]
    PROVE  /\ agent' \in [Environments -> Busy \cup {Idle}]
           /\ \A f \in Environments : agent'[f].diid <= issued
           /\ \A f \in Environments : agent'[f].phase = "deployed" =>
                 agent'[f].diid \in applied \cup {b.diid}
           /\ b.phase # "deployed" => \A f \in Environments :
                 agent'[f].phase = "deployed" => agent'[f].diid \in applied
<1>1. \A f \in Environments : agent'[f] = IF f = e THEN b ELSE agent[f]
  BY AgentTyped
<1>2. agent' \in [Environments -> Busy \cup {Idle}]
  BY AgentTyped
<1> QED
  BY <1>1, <1>2, AgentTyped

\* A busy agent handles an issued instruction, so helm gets a key and a release.
LEMMA HandlingFacts ==
    ASSUME RolloutInv, NEW e \in Environments, agent[e].phase # "idle"
    PROVE  /\ agent[e] \in Busy /\ agent[e].diid \in Diid /\ agent[e].diid <= issued
           /\ Handling(e).key \in Key /\ Handling(e).hash \in Release
<1>1. agent[e] \in Busy
  BY AgentTyped
<1>2. agent[e].diid \in Diid
  BY <1>1 DEF Busy
<1>3. agent[e].diid <= issued
  BY AgentTyped
<1>4. Handling(e) \in Instruction
  BY <1>2, <1>3 DEF RolloutInv, IssuedInv, Handling
<1> QED
  BY <1>1, <1>2, <1>3, <1>4 DEF Instruction

\* naisd takes an instruction up: its diid has been issued.
LEMMA ReceiveInv ==
    ASSUME RolloutInv, NEW e \in Environments, NEW d \in topic, Receive(e, d)
    PROVE  RolloutInv'
<1> DEFINE b == [diid |-> d, phase |-> IF instr[d].hash = NotInstalled
                                       THEN "uninstall" ELSE "accepted"]
<1>1. d \in Diid /\ d <= issued
  BY DEF RolloutInv, TypeOK, IssuedInv
<1>2. b \in Busy /\ b.diid = d /\ b.phase # "deployed"
  BY <1>1 DEF Busy
<1>3. agent' = [agent EXCEPT ![e] = b]
  BY DEF Receive
<1> HIDE DEF b
<1>4. topic' \subseteq topic /\ faultsLeft' \in 0 .. MaxFaults
  BY SpendType, AgentTyped DEF Receive, RolloutInv
<1>5. UNCHANGED <<desiredVars, worker, issued, instr, installed, applied, inbox, logVars>>
  BY DEF Receive
<1>6. /\ agent' \in [Environments -> Busy \cup {Idle}]
      /\ \A f \in Environments : agent'[f].diid <= issued
      /\ \A f \in Environments : agent'[f].phase = "deployed" => agent'[f].diid \in applied'
  BY <1>1, <1>2, <1>3, <1>5, AgentMoves
<1> QED
  BY <1>4, <1>5, <1>6, AgentTyped, AgentOnly

\* A step of the agent from one phase of an instruction to the next.
LEMMA PhaseMoves ==
    ASSUME RolloutInv, NEW e \in Environments, agent[e].phase # "idle",
           NEW p \in {"helm", "deployed", "failed"},
           agent' = [agent EXCEPT ![e].phase = p]
    PROVE  /\ agent' \in [Environments -> Busy \cup {Idle}]
           /\ \A f \in Environments : agent'[f].diid <= issued
           /\ \A f \in Environments : agent'[f].phase = "deployed" =>
                 agent'[f].diid \in applied \cup {agent[e].diid}
           /\ p # "deployed" => \A f \in Environments :
                 agent'[f].phase = "deployed" => agent'[f].diid \in applied
<1> DEFINE b == [agent[e] EXCEPT !.phase = p]
<1>1. agent[e] \in Busy /\ agent[e].diid <= issued
  BY HandlingFacts
<1>2. b \in Busy /\ b.diid = agent[e].diid /\ b.phase = p
  BY <1>1 DEF Busy
<1>3. agent' = [agent EXCEPT ![e] = b]
  OBVIOUS
<1> HIDE DEF b
<1> QED
  BY <1>1, <1>2, <1>3, AgentMoves

\* publishStatus puts at most the given message into the inbox.
LEMMA PublishStatusFacts ==
    ASSUME RolloutInv, NEW m, PublishStatus(m)
    PROVE  (inbox' \ inbox) \subseteq {m} /\ faultsLeft' \in 0 .. MaxFaults
BY SpendType, AgentTyped DEF PublishStatus, RolloutInv

\* The "installing" message is about the issued diid at hand.
LEMMA ReportInstallingInv ==
    ASSUME RolloutInv, NEW e \in Environments, ReportInstalling(e)
    PROVE  RolloutInv'
<1> DEFINE m == [diid |-> agent[e].diid, status |-> "installing"]
<1>1. agent[e].phase # "idle"
  BY DEF ReportInstalling
<1>2. m \in Message /\ m.diid <= issued /\ m.status # "deployed"
  BY <1>1, HandlingFacts DEF Message
<1>3. PublishStatus(m)
  BY DEF ReportInstalling
<1> HIDE DEF m
<1>4. (inbox' \ inbox) \subseteq {m} /\ faultsLeft' \in 0 .. MaxFaults
  BY <1>3, PublishStatusFacts
<1>5. UNCHANGED <<desiredVars, worker, pubsubVars, installed, applied, logVars>>
  BY DEF ReportInstalling
<1>6. /\ agent' \in [Environments -> Busy \cup {Idle}]
      /\ \A f \in Environments : agent'[f].diid <= issued
      /\ \A f \in Environments : agent'[f].phase = "deployed" => agent'[f].diid \in applied'
  BY <1>1, <1>5, PhaseMoves DEF ReportInstalling
<1> QED
  BY <1>2, <1>4, <1>5, <1>6, AgentTyped, AgentOnly DEF pubsubVars

\* helm returns: the diid is earned before naisd says "deployed".
LEMMA HelmSucceedsInv ==
    ASSUME RolloutInv, NEW e \in Environments, HelmSucceeds(e)
    PROVE  RolloutInv'
<1>1. agent[e].phase # "idle"
  BY DEF HelmSucceeds
<1>2. installed' \in [Key -> Release]
  BY <1>1, HandlingFacts, AgentTyped DEF HelmSucceeds
<1>3. applied' = applied \cup {agent[e].diid} /\ applied' \subseteq Diid
  BY <1>1, HandlingFacts, AgentTyped DEF HelmSucceeds
<1>4. UNCHANGED <<desiredVars, faultsLeft, worker, pubsubVars, inbox, logVars>>
  BY DEF HelmSucceeds
<1>5. /\ agent' \in [Environments -> Busy \cup {Idle}]
      /\ \A f \in Environments : agent'[f].diid <= issued
      /\ \A f \in Environments : agent'[f].phase = "deployed" => agent'[f].diid \in applied'
  BY <1>1, <1>3, PhaseMoves DEF HelmSucceeds
<1> QED
  BY <1>2, <1>3, <1>4, <1>5, AgentTyped, AgentOnly DEF pubsubVars

\* helm returns an error: the phase is "failed", nothing is earned.
LEMMA HelmFailsInv ==
    ASSUME RolloutInv, NEW e \in Environments, HelmFails(e)
    PROVE  RolloutInv'
<1>1. agent[e].phase # "idle"
  BY DEF HelmFails
<1>2. UNCHANGED <<desiredVars, worker, pubsubVars, installed, applied, inbox, logVars>>
  BY DEF HelmFails
<1>3. faultsLeft' \in 0 .. MaxFaults
  BY SpendType DEF HelmFails, RolloutInv
<1>4. /\ agent' \in [Environments -> Busy \cup {Idle}]
      /\ \A f \in Environments : agent'[f].diid <= issued
      /\ \A f \in Environments : agent'[f].phase = "deployed" => agent'[f].diid \in applied'
  BY <1>1, <1>2, PhaseMoves DEF HelmFails
<1> QED
  BY <1>2, <1>3, <1>4, AgentTyped, AgentOnly DEF pubsubVars

\* The message sent at the end says "deployed" only for an earned diid.
LEMMA ReportTerminalInv ==
    ASSUME RolloutInv, NEW e \in Environments, ReportTerminal(e)
    PROVE  RolloutInv'
<1> DEFINE m == [diid |-> agent[e].diid, status |-> agent[e].phase]
<1>1. agent[e].phase \in {"deployed", "failed"} /\ agent[e].phase # "idle"
  BY DEF ReportTerminal
<1>2. m \in Message /\ m.diid <= issued /\ (m.status = "deployed" => m.diid \in applied)
  BY <1>1, HandlingFacts, AgentTyped DEF Message
<1>3. PublishStatus(m) /\ agent' = [agent EXCEPT ![e] = Idle]
  BY DEF ReportTerminal
<1> HIDE DEF m
<1>4. (inbox' \ inbox) \subseteq {m} /\ faultsLeft' \in 0 .. MaxFaults
  BY <1>3, PublishStatusFacts
<1>5. UNCHANGED <<desiredVars, worker, pubsubVars, installed, applied, logVars>>
  BY DEF ReportTerminal
<1> QED
  BY <1>2, <1>3, <1>4, <1>5, AgentIdles, AgentTyped, AgentOnly DEF pubsubVars

\* The three steps that drop the instruction without a status.
LEMMA AgentDropsInv ==
    ASSUME RolloutInv, NEW e \in Environments,
           PrepareFails(e) \/ UninstallHandler(e) \/ AgentRestarts(e)
    PROVE  RolloutInv'
<1>1. agent[e].phase # "idle"
  <2>1. agent[e] # Idle => agent[e].phase # "idle"
    BY AgentTyped DEF Busy
  <2> QED
    BY <2>1 DEF PrepareFails, UninstallHandler, AgentRestarts
<1>2. agent' = [agent EXCEPT ![e] = Idle] /\ UNCHANGED <<desiredVars, worker, pubsubVars, inbox, logVars>>
  BY DEF PrepareFails, UninstallHandler, AgentRestarts
<1>3. faultsLeft' \in 0 .. MaxFaults
  BY SpendType, AgentTyped DEF PrepareFails, UninstallHandler, AgentRestarts, RolloutInv
<1>4. NotInstalled \in Release
  BY DEF Release
<1>5. installed' \in [Key -> Release]
  BY <1>1, <1>4, HandlingFacts, AgentTyped DEF PrepareFails, UninstallHandler, AgentRestarts
<1>6. applied \subseteq applied' /\ applied' \subseteq Diid
  BY <1>1, HandlingFacts, AgentTyped DEF PrepareFails, UninstallHandler, AgentRestarts
<1>7. /\ agent' \in [Environments -> Busy \cup {Idle}]
      /\ \A f \in Environments : agent'[f].diid <= issued
      /\ \A f \in Environments : agent'[f].phase = "deployed" => agent'[f].diid \in applied'
  BY <1>2, <1>6, AgentIdles
<1> QED
  BY <1>2, <1>3, <1>5, <1>6, <1>7, AgentOnly DEF pubsubVars

-----------------------------------------------------------------------------
(* The theorems *)

\* Every step preserves the invariant: one case per action.
LEMMA NextInv == RolloutInv /\ [Next]_vars => RolloutInv'
<1> SUFFICES ASSUME RolloutInv, [Next]_vars PROVE RolloutInv'
  OBVIOUS
<1>1. CASE UNCHANGED vars
  <2>1. TypeOK' /\ IssuedInv' /\ UnrecordedInv' /\ EarnedInv'
    BY <1>1 DEF RolloutInv, TypeOK, IssuedInv, UnrecordedInv, EarnedInv, vars
  <2>2. StartsWithSent' /\ RowsMatchInstruction' /\ DeployedIsEarned'
    BY <1>1, LogUnchanged DEF vars, logVars
  <2> QED
    BY <2>1, <2>2 DEF RolloutInv
<1>2. ASSUME NEW k \in Key, ChangeDesired(k) \/ Uninstall(k) PROVE RolloutInv'
  BY <1>2, ChangeDesiredInv, UninstallInv
<1>3. ASSUME NEW w \in Worker, Deploying(w) PROVE RolloutInv'
  BY <1>3, PublishInv, AppendDeploysInv DEF Deploying
<1>4. CASE LoopStep
  <2>1. Loop \in Worker
    BY DEF Worker
  <2> QED
    BY <1>3, <1>4, <2>1, FetchInv, ReconcileInv DEF LoopStep
<1>5. ASSUME NEW w \in Requests, RequestStep(w) PROVE RolloutInv'
  <2>1. w \in Worker
    BY DEF Worker
  <2> QED
    BY <1>3, <1>5, <2>1, FetchInv, RedeployInv DEF RequestStep
<1>6. ASSUME NEW w \in Worker, WorkerFails(w) PROVE RolloutInv'
  BY <1>6, WorkerFailsInv
<1>7. CASE FasitRestarts
  BY <1>7, FasitRestartsInv
<1>8. ASSUME NEW e \in Environments, AgentStep(e) PROVE RolloutInv'
  BY <1>8, ReceiveInv, ReportInstallingInv, HelmSucceedsInv, ReportTerminalInv, AgentDropsInv
  DEF AgentStep
<1>9. ASSUME NEW e \in Environments, AgentFails(e) PROVE RolloutInv'
  BY <1>9, HelmFailsInv, AgentDropsInv DEF AgentFails
<1>10. ASSUME NEW m \in inbox, HandlerHelm(m) PROVE RolloutInv'
  BY <1>10, HandlerHelmInv
<1>11. CASE TimeoutPendingDeploys \/ TimeoutBeforeAnswer
  BY <1>11, TimeoutInv
<1> QED
  BY <1>1, <1>2, <1>4, <1>5, <1>6, <1>7, <1>8, <1>9, <1>10, <1>11 DEF Next, Step

\* RolloutInv holds in every reachable state: the inductive invariant.
THEOREM RolloutInvariant == Spec => []RolloutInv
<1>1. Init => RolloutInv
  BY InitInv
<1>2. RolloutInv /\ [Next]_vars => RolloutInv'
  BY NextInv
<1> QED
  BY <1>1, <1>2, PTL DEF Spec

\* Every variable of the rollout keeps its type.
THEOREM TypeCorrect == Spec => []TypeOK
<1>1. RolloutInv => TypeOK
  BY DEF RolloutInv
<1> QED
  BY <1>1, RolloutInvariant, PTL

\* handlerHelm and AppendDeploys: whatever races, is lost, repeated or
\* restarted, the rows of a diid start with its only "sent" row.
THEOREM LogStartsWithSent == Spec => []StartsWithSent
<1>1. RolloutInv => StartsWithSent
  BY DEF RolloutInv
<1> QED
  BY <1>1, RolloutInvariant, PTL

\* AppendDeployStatus and TimeoutPendingDeploys: the hash and the key copied
\* from row to row, and into deploy_current, stay those of the instruction.
THEOREM LogMatchesInstruction == Spec => []RowsMatchInstruction
<1>1. RolloutInv => RowsMatchInstruction
  BY DEF RolloutInv
<1> QED
  BY <1>1, RolloutInvariant, PTL

\* DeployManager.handler to handlerHelm: "deployed" is never recorded for an
\* instruction that helm has not installed.
THEOREM LogDeployedIsEarned == Spec => []DeployedIsEarned
<1>1. RolloutInv => DeployedIsEarned
  BY DEF RolloutInv
<1> QED
  BY <1>1, RolloutInvariant, PTL

-----------------------------------------------------------------------------
(* Serial plans, the ones without the faults that put a second instruction  *)
(* for a key in front of naisd: SerialInv is inductive next to RolloutInv.  *)

\* A Serial plan pays only for the faults it admits.
LEMMA SerialSpend == ASSUME Serial, NEW f, Spend(f) PROVE f \in SerialFaults
BY DEF Serial, Spend

\* The types of what is on its way.
LEMMA FlightTypes ==
    ASSUME RolloutInv
    PROVE  /\ Loop \in Worker /\ worker[Loop] \in WorkerState
           /\ worker[Loop].todo \subseteq [key : Key, hash : Hashes]
           /\ worker[Loop].sent \subseteq Diid
           /\ \A d \in worker[Loop].sent : d <= issued /\ instr[d] \in Instruction /\ instr[d].key \in Key
           /\ topic \subseteq Diid
           /\ \A m \in inbox : /\ m \in Message /\ m.diid \in Diid /\ m.diid <= issued
                               /\ instr[m.diid] \in Instruction /\ instr[m.diid].key \in Key
           /\ \A d \in Diid : InFlight(d) => d <= issued /\ instr[d] \in Instruction /\ instr[d].key \in Key
           /\ \A e \in Environments : agent[e] # Idle <=> agent[e].phase # "idle"
           /\ \A e \in Environments : agent[e].diid \in Diid <=> agent[e] # Idle
<1>1. Loop \in Worker /\ worker[Loop] \in WorkerState
  BY WorkerTyped DEF Worker
<1>2. \A d \in Diid : d <= issued => instr[d] \in Instruction /\ instr[d].key \in Key
  BY DEF RolloutInv, IssuedInv, Instruction
<1>3. /\ worker[Loop].todo \subseteq [key : Key, hash : Hashes]
      /\ worker[Loop].sent \subseteq Diid
  BY <1>1 DEF WorkerState
<1>4. \A d \in worker[Loop].sent : d <= issued
  BY <1>1 DEF RolloutInv, UnrecordedInv
<1>5. topic \subseteq Diid /\ \A d \in topic : d <= issued
  BY DEF RolloutInv, TypeOK, IssuedInv
<1>6. \A m \in inbox : m \in Message /\ m.diid \in Diid /\ m.diid <= issued
  BY DEF RolloutInv, TypeOK, IssuedInv, Message
<1>7. \A d \in Diid : InFlight(d) => d <= issued
  BY <1>5, <1>6, AgentTyped DEF InFlight
<1>8. 0 \notin Diid
  BY DEF Diid
<1>9. ASSUME NEW e \in Environments
      PROVE  /\ agent[e] # Idle <=> agent[e].phase # "idle"
             /\ agent[e].diid \in Diid <=> agent[e] # Idle
  <2>1. agent[e] \in Busy \/ agent[e] = Idle
    BY AgentTyped
  <2>2. CASE agent[e] = Idle
    BY <1>8, <2>2 DEF Idle
  <2>3. CASE agent[e] \in Busy
    BY <1>8, <2>3 DEF Idle, Busy
  <2> QED
    BY <2>1, <2>2, <2>3
<1> QED
  BY <1>1, <1>2, <1>3, <1>4, <1>5, <1>6, <1>7, <1>9

\* Whatever is on its way is the only one of its key.
LEMMA FlightUnique ==
    ASSUME RolloutInv, FlightInv, NEW c \in Diid, NEW d \in Diid,
           InFlight(c), InFlight(d), instr[c].key = instr[d].key
    PROVE  c = d
BY DEF FlightInv, TrackedInv, BatchInv

\* Before the first cycle nothing is on its way.
LEMMA FlightInit == ASSUME Init PROVE FlightInv
<1>1. Loop \in Worker /\ Requests \subseteq Worker
  BY DEF Worker
<1>2. /\ \A w \in Worker : worker[w] = Fresh
      /\ Fresh.pc = "idle" /\ Fresh.got = {} /\ Fresh.todo = {} /\ Fresh.sent = {}
  BY DEF Init, Fresh
<1>3. \A e \in Environments : agent[e] = Idle /\ Idle.diid = 0 /\ Idle.phase = "idle"
  BY DEF Init, Idle
<1>4. 0 \notin Diid /\ \A d \in Diid : ~(d <= 0)
  BY DEF Diid
<1>5. TrackedInv
  BY <1>3, <1>4 DEF TrackedInv, InFlight, Init
<1>6. BatchInv
  BY <1>1, <1>2 DEF BatchInv
<1>7. AnswerInv
  BY <1>3, <1>4 DEF AnswerInv, Init
<1>8. InstalledInv
  BY <1>3 DEF InstalledInv, Init, NoRow
<1> QED
  BY <1>1, <1>2, <1>5, <1>6, <1>7, <1>8 DEF FlightInv

\* A step of the loop that publishes nothing and records nothing.
LEMMA LoopOnly ==
    ASSUME FlightInv, BatchInv',
           UNCHANGED <<inbox, pubsubVars, clusterVars, logVars>>,
           \A w \in Requests : worker'[w] = worker[w],
           worker'[Loop].sent = worker[Loop].sent
    PROVE  FlightInv'
<1>1. TrackedInv'
  BY DEF FlightInv, TrackedInv, InFlight, KeyInProgress, pubsubVars, clusterVars, logVars
<1>2. AnswerInv'
  BY DEF FlightInv, AnswerInv, Handling, pubsubVars, clusterVars
<1>3. InstalledInv'
  BY DEF FlightInv, InstalledInv, Handling, pubsubVars, clusterVars, logVars
<1> QED
  BY <1>1, <1>2, <1>3 DEF FlightInv

\* The loop reads a table of its snapshot; the current rows it reads are those
\* that are there.
LEMMA FetchFlight ==
    ASSUME RolloutInv, FlightInv, FetchDesired(Loop) \/ ListLatestDeploys(Loop)
    PROVE  FlightInv'
<1> DEFINE loop == worker[Loop]
<1>0. Loop \notin Requests
  BY ValuesAssumption
<1>1. Loop \in Worker /\ loop \in WorkerState /\ worker \in [Worker -> WorkerState]
  BY FlightTypes, WorkerTyped
<1>2. UNCHANGED <<inbox, pubsubVars, clusterVars, logVars>>
  BY DEF FetchDesired, ListLatestDeploys
<1>3. \A w \in Requests : worker'[w] = worker[w]
  BY <1>0, <1>1 DEF FetchDesired, ListLatestDeploys, Worker
<1>4. loop.pc # "deploy" /\ loop.todo = {} /\ loop.sent = {}
  BY DEF FetchDesired, ListLatestDeploys, Fetching, FlightInv, BatchInv
<1>5. CASE FetchDesired(Loop)
  <2>1. worker'[Loop] = [loop EXCEPT !.pc = "fetch", !.got = @ \cup {"desired"}, !.want = desired]
    BY <1>1, <1>5 DEF FetchDesired, WorkerState
  <2>2. /\ worker'[Loop].pc = "fetch" /\ worker'[Loop].got = loop.got \cup {"desired"}
        /\ worker'[Loop].seen = loop.seen /\ worker'[Loop].todo = {} /\ worker'[Loop].sent = {}
    BY <1>1, <1>4, <2>1 DEF WorkerState
  <2>3. "deploys" \in loop.got => loop.pc = "fetch"
    BY <1>5 DEF FetchDesired, Fetching, FlightInv, BatchInv
  <2>4. BatchInv'
    BY <1>2, <2>2, <2>3 DEF FlightInv, BatchInv, KeyInProgress, logVars
  <2> QED
    BY <1>2, <1>3, <1>4, <2>2, <2>4, LoopOnly
<1>6. CASE ListLatestDeploys(Loop)
  <2>1. worker'[Loop] = [loop EXCEPT !.pc = "fetch", !.got = @ \cup {"deploys"}, !.seen = deployCurrent]
    BY <1>1, <1>6 DEF ListLatestDeploys, WorkerState
  <2>2. /\ worker'[Loop].pc = "fetch"
        /\ worker'[Loop].seen = deployCurrent /\ worker'[Loop].todo = {} /\ worker'[Loop].sent = {}
    BY <1>1, <1>4, <2>1 DEF WorkerState
  <2>4. BatchInv'
    BY <1>2, <2>2 DEF BatchInv, KeyInProgress, logVars
  <2> QED
    BY <1>2, <1>3, <1>4, <2>2, <2>4, LoopOnly
<1> QED
  BY <1>5, <1>6

\* The deploy decisions are about settled keys, one for each.
LEMMA ReconcileFlight == ASSUME RolloutInv, FlightInv, Reconcile PROVE FlightInv'
<1> DEFINE loop == worker[Loop]
           keys == {k \in Key : ActionOf(Loop, k) = "deploy"}
           items == {[key |-> k, hash |-> loop.want[k]] : k \in keys}
           started == [Fresh EXCEPT !.pc = "deploy", !.todo = items]
<1>0. Loop \notin Requests
  BY ValuesAssumption
<1>1. Loop \in Worker /\ worker \in [Worker -> WorkerState]
  BY FlightTypes, WorkerTyped
<1>2. UNCHANGED <<inbox, pubsubVars, clusterVars, logVars>>
  BY DEF Reconcile
<1>3. worker' = [worker EXCEPT ![Loop] = started]
  BY DEF Reconcile, StartDeploy
<1>4. started.pc = "deploy" /\ started.todo = items /\ started.sent = {}
  BY DEF Fresh
<1>5. \A k \in keys : k \in Key /\ ~KeyInProgress(k)
  <2>1. ASSUME NEW k \in keys PROVE ~IsInProgress(loop.seen[k].status)
    BY DEF ActionOf, computeAction
  <2> QED
    BY <2>1 DEF Reconcile, FlightInv, BatchInv
<1>6. \A i \in items : /\ i.key \in keys
                       /\ \A j \in items : j.key = i.key => j = i
  OBVIOUS
<1>7. loop.sent = {}
  BY DEF Reconcile, FlightInv, BatchInv
<1> HIDE DEF items, keys, started
<1>8. worker'[Loop] = started /\ \A w \in Requests : worker'[w] = worker[w]
  BY <1>0, <1>1, <1>3 DEF Worker
<1>9. \A k \in keys : ~KeyInProgress(k)'
  BY <1>2, <1>5 DEF KeyInProgress, logVars
<1>10. BatchInv'
  BY <1>4, <1>6, <1>8, <1>9 DEF BatchInv
<1> QED
  BY <1>2, <1>4, <1>7, <1>8, <1>10, LoopOnly

\* A cycle that fails before it publishes, and an item that is skipped.
LEMMA WorkerFailsFlight ==
    ASSUME RolloutInv, Serial, FlightInv, NEW w \in Worker, WorkerFails(w)
    PROVE  FlightInv'
<1> DEFINE loop == worker[Loop]
<1>0. Loop \notin Requests
  BY ValuesAssumption
<1>1. Loop \in Worker /\ loop \in WorkerState /\ worker \in [Worker -> WorkerState]
  BY FlightTypes, WorkerTyped
<1>2. ~AppendDeploysFails(w)
  BY SerialSpend DEF AppendDeploysFails, SerialFaults
<1>3. w = Loop
  <2>0. Fresh.pc = "idle"
    BY DEF Fresh
  <2>1. w \in Requests => worker[w].pc = "idle"
    BY <2>0 DEF FlightInv
  <2>2. worker[w].pc \in {"fetch", "deploy"}
    BY <1>2 DEF WorkerFails, CycleFails, PublishFails
  <2> QED
    BY <2>1, <2>2 DEF Worker
<1>4. CASE CycleFails(Loop)
  <2>1. worker' = [worker EXCEPT ![Loop] = Fresh] /\ UNCHANGED <<inbox, pubsubVars, clusterVars, logVars>>
    BY <1>4 DEF CycleFails, Finished
  <2>2. worker'[Loop] = Fresh /\ \A v \in Requests : worker'[v] = worker[v]
    BY <1>0, <1>1, <2>1 DEF Worker
  <2>3. Fresh.pc = "idle" /\ Fresh.got = {} /\ Fresh.todo = {} /\ Fresh.sent = {}
    BY DEF Fresh
  <2>4. loop.sent = {}
    BY <1>4 DEF CycleFails, FlightInv, BatchInv
  <2>5. BatchInv'
    BY <2>2, <2>3 DEF BatchInv
  <2> QED
    BY <2>1, <2>2, <2>3, <2>4, <2>5, LoopOnly
<1>5. ASSUME NEW i \in loop.todo, PublishFails(Loop, i) PROVE FlightInv'
  <2>1. /\ worker' = [worker EXCEPT ![Loop].todo = @ \ {i}] /\ loop.pc = "deploy"
        /\ UNCHANGED <<inbox, pubsubVars, clusterVars, logVars>>
    BY <1>5 DEF PublishFails
  <2>2. worker'[Loop] = [loop EXCEPT !.todo = @ \ {i}] /\ \A v \in Requests : worker'[v] = worker[v]
    BY <1>0, <1>1, <2>1 DEF Worker
  <2>3. /\ worker'[Loop].pc = "deploy" /\ worker'[Loop].todo \subseteq loop.todo
        /\ worker'[Loop].sent = loop.sent
    BY <1>1, <2>1, <2>2 DEF WorkerState
  <2>4. BatchInv'
    BY <2>1, <2>3 DEF FlightInv, BatchInv, KeyInProgress, pubsubVars, logVars
  <2> QED
    BY <2>1, <2>2, <2>3, <2>4, LoopOnly
<1> QED
  BY <1>2, <1>3, <1>4, <1>5 DEF WorkerFails

\* A published item is the first of its key since the key was settled.
LEMMA PublishFlight ==
    ASSUME RolloutInv, FlightInv, NEW i \in worker[Loop].todo, Publish(Loop, i)
    PROVE  FlightInv'
<1> DEFINE loop == worker[Loop]
           n == issued + 1
           next == [loop EXCEPT !.todo = @ \ {i}, !.sent = @ \cup {n}]
<1>0. Loop \notin Requests
  BY ValuesAssumption
<1>1. Loop \in Worker /\ loop \in WorkerState /\ worker \in [Worker -> WorkerState]
  BY FlightTypes, WorkerTyped
<1>2. /\ loop.pc = "deploy" /\ Issue(i.key, i.hash)
      /\ topic' \in {topic, topic \cup {n}} /\ UNCHANGED <<inbox, clusterVars, logVars>>
  BY DEF Publish
<1>3. i.key \in Key /\ i.hash \in Hashes /\ i.hash \in Release
  BY FlightTypes DEF Release
<1>4. /\ n \in Diid /\ issued' = n
      /\ \A d \in Diid : d <= issued => instr'[d] = instr[d]
  BY <1>2, <1>3, IssueFacts
<1>5. instr'[n].key = i.key /\ instr'[n].hash = i.hash
  <2>1. instr' = [instr EXCEPT ![n] = [key |-> i.key, hash |-> i.hash]]
    BY <1>2 DEF Issue
  <2>2. DOMAIN instr = Diid
    BY DEF RolloutInv, TypeOK
  <2> QED
    BY <1>4, <2>1, <2>2
<1>6. /\ worker'[Loop].pc = "deploy" /\ worker'[Loop].todo = loop.todo \ {i}
      /\ worker'[Loop].sent = loop.sent \cup {n}
      /\ \A w \in Requests : worker'[w] = worker[w]
  <2>1. next.pc = "deploy" /\ next.todo = loop.todo \ {i} /\ next.sent = loop.sent \cup {n}
    BY <1>1, <1>2 DEF WorkerState
  <2>2. worker' = [worker EXCEPT ![Loop] = next]
    BY <1>1 DEF Publish, WorkerState
  <2> HIDE DEF next
  <2> QED
    BY <1>0, <1>1, <2>1, <2>2 DEF Worker
<1>7. issued \in Nat /\ ~(n <= issued) /\ \A d \in Diid : d <= n => d <= issued \/ d = n
  BY AgentTyped DEF Diid
<1>8. \A d \in loop.sent : d \in Diid /\ d <= issued /\ d # n /\ instr'[d] = instr[d]
  BY <1>4, <1>7, FlightTypes
<1>9. \A m \in inbox : m.diid \in Diid /\ m.diid <= issued /\ m.diid # n /\ instr'[m.diid] = instr[m.diid]
  BY <1>4, <1>7, FlightTypes
<1>10. \A e \in Environments : agent[e] # Idle => /\ agent[e].diid # n
                                                 /\ instr'[agent[e].diid] = instr[agent[e].diid]
  <2>1. \A e \in Environments : agent[e] # Idle => agent[e].diid \in Diid /\ agent[e].diid <= issued
    BY FlightTypes, AgentTyped
  <2> QED
    BY <1>4, <1>7, <2>1
<1> HIDE DEF n, next
<1>11. TrackedInv'
  <2> SUFFICES ASSUME NEW d \in Diid, InFlight(d)'
               PROVE  \/ d \in worker'[Loop].sent
                      \/ deployCurrent'[instr'[d].key].diid = d /\ KeyInProgress(instr[d].key)'
    BY DEF TrackedInv, KeyInProgress
  <2>1. CASE d = n
    BY <1>6, <2>1
  <2>2. CASE InFlight(d)
    <3>1. d <= issued /\ instr'[d] = instr[d]
      BY <1>4, <2>2, FlightTypes
    <3> QED
      BY <1>2, <1>6, <2>2, <3>1 DEF FlightInv, TrackedInv, KeyInProgress, logVars
  <2> QED
    BY <1>2, <2>1, <2>2 DEF InFlight, clusterVars
<1>12. BatchInv'
  <2>1. \A k : KeyInProgress(k)' = KeyInProgress(k)
    BY <1>2 DEF KeyInProgress, logVars
  <2>2. \A j \in loop.todo : j.key = i.key => j = i
    BY DEF FlightInv, BatchInv
  <2>3. ~KeyInProgress(i.key) /\ \A d \in loop.sent : instr[d].key # i.key
    BY DEF FlightInv, BatchInv
  <2>4. ASSUME NEW j \in worker'[Loop].todo
        PROVE  /\ ~KeyInProgress(j.key)'
               /\ \A l \in worker'[Loop].todo : l.key = j.key => l = j
               /\ \A d \in worker'[Loop].sent : instr'[d].key # j.key
    BY <1>5, <1>6, <1>8, <2>1, <2>2 DEF FlightInv, BatchInv
  <2>5. ASSUME NEW c \in worker'[Loop].sent
        PROVE  /\ ~KeyInProgress(instr'[c].key)
               /\ \A d \in worker'[Loop].sent : instr'[c].key = instr'[d].key => c = d
    BY <1>5, <1>6, <1>8, <2>3 DEF FlightInv, BatchInv
  <2>6. \A c \in worker'[Loop].sent : ~KeyInProgress(instr[c].key)'
    BY <1>2, <2>5 DEF KeyInProgress, logVars
  <2> QED
    BY <1>6, <2>4, <2>5, <2>6 DEF BatchInv, KeyInProgress
<1>13. AnswerInv'
  <2>1. \A d \in Diid : d <= issued' => instr'[d].hash \in Hashes
    BY <1>3, <1>4, <1>5, <1>7 DEF FlightInv, AnswerInv, n
  <2>2. \A e \in Environments : agent'[e] # Idle =>
          /\ instr'[agent'[e].diid].key[1] = e /\ agent'[e].diid \notin topic'
          /\ agent'[e].phase # "uninstall"
    BY <1>2, <1>10 DEF FlightInv, AnswerInv, Handling, clusterVars
  <2>3. \A m \in inbox' : m.status # "installing" =>
          /\ m.diid \notin topic' /\ \A e \in Environments : agent'[e].diid # m.diid
          /\ \A o \in inbox' : o.diid = m.diid /\ o.status # "installing" => o = m
    BY <1>2, <1>9 DEF FlightInv, AnswerInv, clusterVars
  <2> QED
    BY <2>1, <2>2, <2>3 DEF AnswerInv, Handling
<1>14. InstalledInv'
  <2>1. \A e \in Environments : agent'[e].phase = "deployed" =>
          installed'[instr'[agent'[e].diid].key] = instr'[agent'[e].diid].hash
    BY <1>2, <1>10, FlightTypes DEF FlightInv, InstalledInv, Handling, clusterVars
  <2>2. \A m \in inbox' : m.status = "deployed" =>
          installed'[instr'[m.diid].key] = instr'[m.diid].hash
    BY <1>2, <1>9 DEF FlightInv, InstalledInv, clusterVars
  <2>3. \A k \in Key : deployCurrent'[k].status = "deployed"
                       /\ (\A d \in worker'[Loop].sent : instr'[d].key # k) =>
          installed'[k] = deployCurrent'[k].hash
    BY <1>2, <1>6, <1>8 DEF FlightInv, InstalledInv, clusterVars, logVars
  <2> QED
    BY <2>1, <2>2, <2>3 DEF InstalledInv, Handling
<1> QED
  BY <1>6, <1>11, <1>12, <1>13, <1>14 DEF FlightInv

\* The rows of a batch take over from the batch as the record of what is on
\* its way.
LEMMA AppendDeploysFlight ==
    ASSUME RolloutInv, FlightInv, AppendDeploys(Loop)
    PROVE  FlightInv'
<1> DEFINE sent == worker[Loop].sent
           rows == {SentRow(d) : d \in sent}
<1>0. Loop \notin Requests
  BY ValuesAssumption
<1>1. Loop \in Worker /\ worker \in [Worker -> WorkerState]
  BY FlightTypes, WorkerTyped
<1>2. \A d \in sent : d \in Diid /\ instr[d] \in Instruction
  BY FlightTypes
<1>3. rows \in SUBSET Row
  BY <1>2 DEF SentRow, Row, Status, Instruction
<1>4. \A r \in rows : /\ r.diid \in sent /\ r.key = instr[r.diid].key
                      /\ r.status = "sent"
  BY DEF SentRow
<1>5. \A d \in sent : SentRow(d) \in rows /\ SentRow(d).key = instr[d].key
  BY DEF SentRow
<1> HIDE DEF rows
<1>6. /\ \A k \in Key : (\A r \in rows : r.key # k) => deployCurrent'[k] = deployCurrent[k]
      /\ \A k \in Key : (\E r \in rows : r.key = k) =>
                 deployCurrent'[k] \in rows /\ deployCurrent'[k].key = k
  <2>1. AppendRows(rows)
    BY DEF AppendDeploys, rows
  <2> QED
    BY <1>3, <2>1, AppendRowsFacts DEF RolloutInv
<1>7. ASSUME NEW d \in sent
      PROVE  deployCurrent'[instr[d].key].diid = d /\ deployCurrent'[instr[d].key].status = "sent"
  <2>1. instr[d].key \in Key
    BY FlightTypes
  <2>2. PICK r \in rows : r = deployCurrent'[instr[d].key] /\ r.key = instr[d].key
    BY <1>5, <1>6, <2>1
  <2>3. r.diid = d
    BY <1>4, <2>2 DEF FlightInv, BatchInv
  <2> QED
    BY <1>4, <2>2, <2>3
<1>8. ASSUME NEW k \in Key, \A d \in sent : instr[d].key # k
      PROVE  deployCurrent'[k] = deployCurrent[k]
  BY <1>4, <1>6, <1>8
<1>9. /\ worker'[Loop] = Fresh /\ \A w \in Requests : worker'[w] = worker[w]
      /\ UNCHANGED <<inbox, pubsubVars, clusterVars>>
  BY <1>0, <1>1 DEF AppendDeploys, Finished, Worker
<1>10. Fresh.pc = "idle" /\ Fresh.got = {} /\ Fresh.todo = {} /\ Fresh.sent = {}
  BY DEF Fresh
<1>11. TrackedInv'
  <2> SUFFICES ASSUME NEW d \in Diid, InFlight(d)'
               PROVE  deployCurrent'[instr[d].key].diid = d
                      /\ IsInProgress(deployCurrent'[instr[d].key].status)
    BY <1>9 DEF TrackedInv, KeyInProgress, pubsubVars
  <2>1. InFlight(d) /\ instr[d].key \in Key
    BY <1>9, FlightTypes DEF InFlight, pubsubVars, clusterVars
  <2>2. CASE d \in sent
    BY <1>7, <2>2 DEF IsInProgress
  <2>3. CASE d \notin sent
    <3>1. deployCurrent[instr[d].key].diid = d /\ KeyInProgress(instr[d].key)
      BY <2>1, <2>3 DEF FlightInv, TrackedInv
    <3>2. \A c \in sent : instr[c].key # instr[d].key
      BY <3>1 DEF FlightInv, BatchInv
    <3> QED
      BY <1>8, <2>1, <3>1, <3>2 DEF KeyInProgress
  <2> QED
    BY <2>2, <2>3
<1>12. BatchInv'
  BY <1>9, <1>10 DEF BatchInv
<1>13. AnswerInv'
  BY <1>9 DEF FlightInv, AnswerInv, Handling, pubsubVars, clusterVars
<1>14. InstalledInv'
  <2>1. ASSUME NEW k \in Key, deployCurrent'[k].status = "deployed"
        PROVE  installed[k] = deployCurrent'[k].hash
    <3>1. \A d \in sent : instr[d].key # k
      BY <1>7, <2>1
    <3> QED
      BY <1>8, <2>1, <3>1 DEF FlightInv, InstalledInv
  <2> QED
    BY <1>9, <2>1 DEF FlightInv, InstalledInv, Handling, pubsubVars, clusterVars
<1> QED
  BY <1>9, <1>11, <1>12, <1>13, <1>14 DEF FlightInv

-----------------------------------------------------------------------------
\* A step of naisd puts nothing new on its way: only what its instruction has
\* done to the cluster and to the inbox is left to show.
LEMMA AgentFlight ==
    ASSUME FlightInv, AnswerInv', InstalledInv',
           UNCHANGED <<worker, issued, instr, logVars>>,
           \A d \in Diid : InFlight(d)' => InFlight(d)
    PROVE  FlightInv'
<1>1. TrackedInv'
  BY DEF FlightInv, TrackedInv, KeyInProgress, logVars
<1>2. BatchInv'
  BY DEF FlightInv, BatchInv, KeyInProgress, logVars
<1> QED
  BY <1>1, <1>2 DEF FlightInv

\* naisd takes up an instruction: Pub/Sub has it no more.
LEMMA ReceiveFlight ==
    ASSUME RolloutInv, Serial, FlightInv, NEW e \in Environments, NEW d \in topic, Receive(e, d)
    PROVE  FlightInv'
<1> DEFINE b == [diid |-> d, phase |-> IF instr[d].hash = NotInstalled
                                       THEN "uninstall" ELSE "accepted"]
<1>1. topic' = topic \ {d} /\ instr[d].key[1] = e /\ agent[e] = Idle
  BY SerialSpend DEF Receive, SerialFaults
<1>2. UNCHANGED <<worker, issued, instr, installed, inbox, logVars>>
  BY DEF Receive
<1>3. d \in Diid /\ d <= issued
  BY DEF RolloutInv, TypeOK, IssuedInv
<1>4. b.diid = d /\ b.phase = "accepted"
  BY <1>3, ValuesAssumption DEF FlightInv, AnswerInv
<1>5. agent' = [agent EXCEPT ![e] = b]
  BY DEF Receive
<1> HIDE DEF b
<1>6. \A f \in Environments : agent'[f] = IF f = e THEN b ELSE agent[f]
  BY <1>5, AgentTyped
<1>7. \A c \in Diid : InFlight(c)' => InFlight(c)
  BY <1>1, <1>2, <1>4, <1>6 DEF InFlight
<1>8. ASSUME NEW f \in Environments PROVE f # e /\ agent[f] # Idle => agent[f].diid # d
  BY DEF FlightInv, AnswerInv
<1>9. AnswerInv'
  <2>1. \A f \in Environments : agent'[f] # Idle =>
          /\ instr[agent'[f].diid].key[1] = f /\ agent'[f].diid \notin topic'
          /\ agent'[f].phase # "uninstall"
    BY <1>1, <1>4, <1>6 DEF FlightInv, AnswerInv, Handling
  <2>2. \A m \in inbox : m.status # "installing" =>
          /\ m.diid \notin topic' /\ \A f \in Environments : agent'[f].diid # m.diid
          /\ \A n \in inbox : n.diid = m.diid /\ n.status # "installing" => n = m
    BY <1>1, <1>4, <1>6 DEF FlightInv, AnswerInv
  <2> QED
    BY <1>2, <2>1, <2>2 DEF FlightInv, AnswerInv, Handling
<1>10. InstalledInv'
  BY <1>2, <1>4, <1>6 DEF FlightInv, InstalledInv, Handling, logVars
<1> QED
  BY <1>2, <1>7, <1>9, <1>10, AgentFlight

\* naisd moves on within its instruction and sends at most "installing".
LEMMA PhaseFlight ==
    ASSUME RolloutInv, FlightInv, NEW e \in Environments, agent[e].phase # "idle",
           NEW p \in {"helm", "deployed", "failed"},
           agent' = [agent EXCEPT ![e].phase = p],
           UNCHANGED <<worker, issued, instr, topic, logVars>>,
           (inbox' \ inbox) \subseteq {[diid |-> agent[e].diid, status |-> "installing"]},
           inbox \subseteq inbox'
    PROVE  /\ \A d \in Diid : InFlight(d)' => InFlight(d)
           /\ AnswerInv'
           /\ agent'[e].phase = p /\ agent'[e].diid = agent[e].diid
           /\ \A f \in Environments \ {e} : agent'[f] = agent[f]
           /\ \A m \in inbox' : m.status # "installing" => m \in inbox
<1> DEFINE new == [diid |-> agent[e].diid, status |-> "installing"]
<1>1. agent[e] \in Busy
  BY HandlingFacts
<1>2. /\ agent'[e].phase = p /\ agent'[e].diid = agent[e].diid
      /\ \A f \in Environments \ {e} : agent'[f] = agent[f]
  BY <1>1, AgentTyped DEF Busy
<1>3. new.diid = agent[e].diid /\ new.status = "installing"
  OBVIOUS
<1>4. \A m \in inbox' : m \in inbox \/ m = new
  OBVIOUS
<1> HIDE DEF new
<1>5. \A d \in Diid : InFlight(d)' => InFlight(d)
  BY <1>2, <1>3, <1>4 DEF InFlight
<1>6. \A m \in inbox' : m.status # "installing" => m \in inbox
  BY <1>3, <1>4
<1>7. \A f \in Environments : agent'[f].diid = agent[f].diid
  BY <1>2
<1>8. \A f \in Environments : agent'[f] # Idle => agent[f] # Idle
  BY <1>2, FlightTypes
<1>9. AnswerInv'
  <2>1. \A f \in Environments : agent'[f] # Idle =>
          /\ instr[agent'[f].diid].key[1] = f /\ agent'[f].diid \notin topic
          /\ agent'[f].phase # "uninstall"
    BY <1>2, <1>7, <1>8 DEF FlightInv, AnswerInv, Handling
  <2>2. \A m \in inbox' : m.status # "installing" =>
          /\ m.diid \notin topic /\ \A f \in Environments : agent'[f].diid # m.diid
          /\ \A n \in inbox' : n.diid = m.diid /\ n.status # "installing" => n = m
    BY <1>6, <1>7 DEF FlightInv, AnswerInv
  <2> QED
    BY <2>1, <2>2 DEF FlightInv, AnswerInv, Handling
<1> QED
  BY <1>2, <1>5, <1>6, <1>9

\* publishStatus under a Serial plan: the message arrives, or it is gone.
LEMMA StatusGrows ==
    ASSUME NEW m, PublishStatus(m)
    PROVE  (inbox' \ inbox) \subseteq {m} /\ inbox \subseteq inbox'
BY DEF PublishStatus

\* "installing" and the error of helm leave the cluster as it is.
LEMMA InstallingFlight ==
    ASSUME RolloutInv, FlightInv, NEW e \in Environments, ReportInstalling(e) \/ HelmFails(e)
    PROVE  FlightInv'
<1>1. PICK p \in {"helm", "failed"} : agent' = [agent EXCEPT ![e].phase = p]
  BY DEF ReportInstalling, HelmFails
<1>2. /\ agent[e].phase # "idle"
      /\ UNCHANGED <<worker, issued, instr, topic, installed, logVars>>
  BY DEF ReportInstalling, HelmFails, pubsubVars
<1>3. /\ (inbox' \ inbox) \subseteq {[diid |-> agent[e].diid, status |-> "installing"]}
      /\ inbox \subseteq inbox'
  BY StatusGrows DEF ReportInstalling, HelmFails
<1>4. /\ \A d \in Diid : InFlight(d)' => InFlight(d)
      /\ AnswerInv'
      /\ agent'[e].phase = p /\ agent'[e].diid = agent[e].diid
      /\ \A f \in Environments \ {e} : agent'[f] = agent[f]
      /\ \A m \in inbox' : m.status # "installing" => m \in inbox
  BY <1>1, <1>2, <1>3, PhaseFlight
<1>5. InstalledInv'
  <2>1. \A f \in Environments : agent'[f].phase = "deployed" => agent'[f] = agent[f]
    BY <1>4
  <2>2. \A m \in inbox' : m.status = "deployed" => m \in inbox
    BY <1>4
  <2> QED
    BY <1>2, <2>1, <2>2 DEF FlightInv, InstalledInv, Handling, logVars
<1> QED
  BY <1>2, <1>4, <1>5, AgentFlight

\* helm replaces a release only for the instruction on its way, so no message
\* and no settled row speaks of the one that goes.
LEMMA ReplacedFlight ==
    ASSUME RolloutInv, FlightInv, NEW e \in Environments, agent[e] # Idle
    PROVE  /\ Handling(e).key \in Key
           /\ \A f \in Environments : f # e /\ agent[f] # Idle => Handling(f).key # Handling(e).key
           /\ \A m \in inbox : m.status # "installing" => instr[m.diid].key # Handling(e).key
           /\ deployCurrent[Handling(e).key].status = "deployed" =>
                 \E d \in worker[Loop].sent : instr[d].key = Handling(e).key
<1>1. agent[e].diid \in Diid /\ Handling(e).key \in Key
  BY FlightTypes, HandlingFacts
<1>2. InFlight(agent[e].diid)
  BY DEF InFlight
<1>3. \A f \in Environments : f # e /\ agent[f] # Idle => Handling(f).key # Handling(e).key
  BY DEF FlightInv, AnswerInv
<1>4. ASSUME NEW m \in inbox, m.status # "installing" PROVE instr[m.diid].key # Handling(e).key
  <2>1. m.diid \in Diid /\ InFlight(m.diid)
    BY FlightTypes DEF InFlight
  <2>2. m.diid # agent[e].diid
    BY <1>4 DEF FlightInv, AnswerInv
  <2> QED
    BY <1>1, <1>2, <2>1, <2>2, FlightUnique DEF Handling
<1>5. ASSUME deployCurrent[Handling(e).key].status = "deployed"
      PROVE  \E d \in worker[Loop].sent : instr[d].key = Handling(e).key
  BY <1>1, <1>2, <1>5 DEF FlightInv, TrackedInv, KeyInProgress, IsInProgress, Handling
<1> QED
  BY <1>1, <1>3, <1>4, <1>5

\* helm returns: the release of the instruction is the one that runs.
LEMMA HelmSucceedsFlight ==
    ASSUME RolloutInv, FlightInv, NEW e \in Environments, HelmSucceeds(e)
    PROVE  FlightInv'
<1>1. /\ agent[e].phase # "idle" /\ agent' = [agent EXCEPT ![e].phase = "deployed"]
      /\ installed' = [installed EXCEPT ![Handling(e).key] = Handling(e).hash]
      /\ UNCHANGED <<worker, issued, instr, topic, inbox, logVars>>
  BY DEF HelmSucceeds, pubsubVars
<1>2. agent[e] # Idle
  BY <1>1, FlightTypes
<1>3. /\ \A d \in Diid : InFlight(d)' => InFlight(d)
      /\ AnswerInv'
      /\ agent'[e].diid = agent[e].diid
      /\ \A f \in Environments \ {e} : agent'[f] = agent[f]
  BY <1>1, PhaseFlight
<1>4. \A k \in Key : installed'[k] = IF k = Handling(e).key THEN Handling(e).hash ELSE installed[k]
  BY <1>1, AgentTyped
<1>5. ASSUME NEW f \in Environments, agent'[f].phase = "deployed"
      PROVE  installed'[instr[agent'[f].diid].key] = instr[agent'[f].diid].hash
  <2>1. CASE f = e
    BY <1>2, <1>3, <1>4, <2>1, ReplacedFlight DEF Handling
  <2>2. CASE f # e
    <3>1. agent'[f] = agent[f] /\ agent[f].phase = "deployed" /\ agent[f] # Idle
      BY <1>3, <1>5, <2>2, FlightTypes
    <3>2. Handling(f).key \in Key /\ Handling(f).key # Handling(e).key
      BY <1>2, <2>2, <3>1, ReplacedFlight
    <3>3. installed[Handling(f).key] = Handling(f).hash
      BY <3>1 DEF FlightInv, InstalledInv
    <3> QED
      BY <1>4, <3>1, <3>2, <3>3 DEF Handling
  <2> QED
    BY <2>1, <2>2
<1>6. ASSUME NEW m \in inbox, m.status = "deployed"
      PROVE  installed'[instr[m.diid].key] = instr[m.diid].hash
  <2>1. instr[m.diid].key \in Key
    BY FlightTypes
  <2>2. instr[m.diid].key # Handling(e).key
    BY <1>2, <1>6, ReplacedFlight
  <2> QED
    BY <1>4, <1>6, <2>1, <2>2 DEF FlightInv, InstalledInv
<1>7. ASSUME NEW k \in Key, deployCurrent[k].status = "deployed",
             \A d \in worker[Loop].sent : instr[d].key # k
      PROVE  installed'[k] = deployCurrent[k].hash
  <2>1. k # Handling(e).key
    BY <1>2, <1>7, ReplacedFlight
  <2> QED
    BY <1>4, <1>7, <2>1 DEF FlightInv, InstalledInv
<1>8. InstalledInv'
  BY <1>1, <1>5, <1>6, <1>7 DEF InstalledInv, Handling, logVars
<1> QED
  BY <1>1, <1>3, <1>8, AgentFlight

\* naisd lets go of its instruction: what remains of it is its last answer.
LEMMA IdlesFlight ==
    ASSUME RolloutInv, FlightInv, NEW e \in Environments, agent[e] # Idle,
           agent' = [agent EXCEPT ![e] = Idle],
           UNCHANGED <<worker, issued, instr, topic, logVars>>,
           NEW s \in {"deployed", "failed"},
           (inbox' \ inbox) \subseteq {[diid |-> agent[e].diid, status |-> s]},
           inbox \subseteq inbox'
    PROVE  /\ \A d \in Diid : InFlight(d)' => InFlight(d)
           /\ AnswerInv'
           /\ \A f \in Environments : agent'[f] = IF f = e THEN Idle ELSE agent[f]
<1> DEFINE new == [diid |-> agent[e].diid, status |-> s]
<1>1. \A f \in Environments : agent'[f] = IF f = e THEN Idle ELSE agent[f]
  BY AgentTyped
<1>2. new.diid = agent[e].diid /\ new.status = s
  OBVIOUS
<1>3. \A m \in inbox' : m \in inbox \/ m = new
  OBVIOUS
<1> HIDE DEF new
<1>4. \A f \in Environments : agent'[f].diid \in Diid => f # e /\ agent'[f] = agent[f]
  BY <1>1, AgentTyped DEF Diid
<1>5. \A d \in Diid : InFlight(d)' => InFlight(d)
  BY <1>2, <1>3, <1>4 DEF InFlight
<1>6. agent[e].diid \in Diid /\ agent[e].diid \notin topic
  BY FlightTypes DEF FlightInv, AnswerInv
<1>7. \A f \in Environments : f # e /\ agent[f] # Idle => agent[f].diid # agent[e].diid
  BY DEF FlightInv, AnswerInv, Handling
<1>8. \A f \in Environments : agent'[f].diid # agent[e].diid
  BY <1>4, <1>6, <1>7, FlightTypes
<1>9. \A m \in inbox : m.status # "installing" =>
          /\ m.diid \in Diid /\ m.diid # agent[e].diid /\ m.diid \notin topic
          /\ \A f \in Environments : agent'[f].diid # m.diid
  BY <1>4, FlightTypes DEF FlightInv, AnswerInv
<1>10. AnswerInv'
  <2>1. \A f \in Environments : agent'[f] # Idle =>
          /\ instr[agent'[f].diid].key[1] = f /\ agent'[f].diid \notin topic
          /\ agent'[f].phase # "uninstall"
    BY <1>1 DEF FlightInv, AnswerInv, Handling
  <2>2. \A m \in inbox' : m.status # "installing" =>
          /\ m.diid \notin topic /\ \A f \in Environments : agent'[f].diid # m.diid
          /\ \A n \in inbox' : n.diid = m.diid /\ n.status # "installing" => n = m
    BY <1>2, <1>3, <1>6, <1>8, <1>9 DEF FlightInv, AnswerInv
  <2> QED
    BY <2>1, <2>2 DEF FlightInv, AnswerInv, Handling
<1> QED
  BY <1>1, <1>5, <1>10

\* The last answer of an instruction, sent or lost.
LEMMA ReportTerminalFlight ==
    ASSUME RolloutInv, FlightInv, NEW e \in Environments, ReportTerminal(e)
    PROVE  FlightInv'
<1> DEFINE new == [diid |-> agent[e].diid, status |-> agent[e].phase]
<1>1. /\ agent[e].phase \in {"deployed", "failed"} /\ agent' = [agent EXCEPT ![e] = Idle]
      /\ UNCHANGED <<worker, issued, instr, topic, installed, logVars>>
  BY DEF ReportTerminal, pubsubVars
<1>2. agent[e] # Idle
  BY <1>1, FlightTypes
<1>3. (inbox' \ inbox) \subseteq {new} /\ inbox \subseteq inbox'
  BY StatusGrows DEF ReportTerminal
<1>4. /\ \A d \in Diid : InFlight(d)' => InFlight(d)
      /\ AnswerInv'
      /\ \A f \in Environments : agent'[f] = IF f = e THEN Idle ELSE agent[f]
  BY <1>1, <1>2, <1>3, IdlesFlight
<1>5. new.diid = agent[e].diid /\ new.status = agent[e].phase
  OBVIOUS
<1>6. \A m \in inbox' : m \in inbox \/ m = new
  BY <1>3
<1> HIDE DEF new
<1>7. \A f \in Environments : agent'[f].phase = "deployed" => agent'[f] = agent[f]
  BY <1>4, AgentTyped
<1>8. \A m \in inbox' : m.status = "deployed" => installed[instr[m.diid].key] = instr[m.diid].hash
  BY <1>5, <1>6 DEF FlightInv, InstalledInv, Handling
<1>9. InstalledInv'
  BY <1>1, <1>7, <1>8 DEF FlightInv, InstalledInv, Handling, logVars
<1> QED
  BY <1>1, <1>4, <1>9, AgentFlight

\* An instruction that ends without an answer, helm having finished or not.
LEMMA AgentDropsFlight ==
    ASSUME RolloutInv, FlightInv, NEW e \in Environments,
           PrepareFails(e) \/ UninstallHandler(e) \/ AgentRestarts(e)
    PROVE  FlightInv'
<1>1. agent[e] # Idle
  BY FlightTypes DEF PrepareFails, UninstallHandler, AgentRestarts
<1>2. ~UninstallHandler(e)
  BY <1>1 DEF UninstallHandler, FlightInv, AnswerInv
<1>3. /\ agent' = [agent EXCEPT ![e] = Idle]
      /\ UNCHANGED <<worker, issued, instr, topic, inbox, logVars>>
      /\ \/ installed' = installed
         \/ installed' = [installed EXCEPT ![Handling(e).key] = Handling(e).hash]
  BY <1>2 DEF PrepareFails, AgentRestarts, pubsubVars
<1>4. /\ \A d \in Diid : InFlight(d)' => InFlight(d)
      /\ AnswerInv'
      /\ \A f \in Environments : agent'[f] = IF f = e THEN Idle ELSE agent[f]
  <2>1. \A s : (inbox' \ inbox) \subseteq {[diid |-> agent[e].diid, status |-> s]} /\ inbox \subseteq inbox'
    BY <1>3
  <2> QED
    BY <1>1, <1>3, <2>1, IdlesFlight
<1>5. \A k \in Key : k # Handling(e).key => installed'[k] = installed[k]
  BY <1>3, AgentTyped
<1>6. ASSUME NEW f \in Environments, agent'[f].phase = "deployed"
      PROVE  installed'[instr[agent'[f].diid].key] = instr[agent'[f].diid].hash
  <2>1. f # e /\ agent'[f] = agent[f] /\ agent[f].phase = "deployed" /\ agent[f] # Idle
    BY <1>4, <1>6, AgentTyped
  <2>2. Handling(f).key \in Key /\ Handling(f).key # Handling(e).key
    BY <1>1, <2>1, ReplacedFlight
  <2> QED
    BY <1>5, <2>1, <2>2 DEF FlightInv, InstalledInv, Handling
<1>7. ASSUME NEW m \in inbox, m.status = "deployed"
      PROVE  installed'[instr[m.diid].key] = instr[m.diid].hash
  <2>1. instr[m.diid].key \in Key
    BY FlightTypes
  <2>2. instr[m.diid].key # Handling(e).key
    BY <1>1, <1>7, ReplacedFlight
  <2> QED
    BY <1>5, <1>7, <2>1, <2>2 DEF FlightInv, InstalledInv
<1>8. ASSUME NEW k \in Key, deployCurrent[k].status = "deployed",
             \A d \in worker[Loop].sent : instr[d].key # k
      PROVE  installed'[k] = deployCurrent[k].hash
  <2>1. k # Handling(e).key
    BY <1>1, <1>8, ReplacedFlight
  <2> QED
    BY <1>5, <1>8, <2>1 DEF FlightInv, InstalledInv
<1>9. InstalledInv'
  BY <1>3, <1>6, <1>7, <1>8 DEF InstalledInv, Handling, logVars
<1> QED
  BY <1>3, <1>4, <1>9, AgentFlight

-----------------------------------------------------------------------------
\* The receiver and the timeout worker: rows that settle a key, or leave it in
\* progress, while what is on its way stays tracked.
LEMMA SettlesFlight ==
    ASSUME RolloutInv, FlightInv,
           UNCHANGED <<worker, pubsubVars, clusterVars>>, inbox' \subseteq inbox,
           \A k \in Key : KeyInProgress(k)' => KeyInProgress(k),
           \A d \in Diid : InFlight(d)' /\ d \notin worker[Loop].sent =>
               deployCurrent'[instr[d].key].diid = d /\ KeyInProgress(instr[d].key)',
           \A k \in Key : deployCurrent'[k].status = "deployed" =>
               deployCurrent'[k] = deployCurrent[k] \/ installed[k] = deployCurrent'[k].hash
    PROVE  FlightInv'
<1>1. TrackedInv'
  BY DEF TrackedInv, KeyInProgress, pubsubVars
<1>2. BatchInv'
  <2>1. \A i \in worker[Loop].todo : i.key \in Key
    BY FlightTypes
  <2>2. \A d \in worker[Loop].sent : instr[d].key \in Key
    BY FlightTypes
  <2> QED
    BY <2>1, <2>2 DEF FlightInv, BatchInv, KeyInProgress, pubsubVars
<1>3. AnswerInv'
  BY DEF FlightInv, AnswerInv, Handling, pubsubVars, clusterVars
<1>4. InstalledInv'
  BY DEF FlightInv, InstalledInv, Handling, pubsubVars, clusterVars
<1> QED
  BY <1>1, <1>2, <1>3, <1>4 DEF FlightInv

\* The receiver settles a key with the last thing that is on its way for it.
LEMMA HandlerHelmFlight ==
    ASSUME RolloutInv, Serial, FlightInv, NEW m \in inbox, HandlerHelm(m)
    PROVE  FlightInv'
<1>1. /\ inbox' = inbox \ {m} /\ ~Overtakes(m)
      /\ UNCHANGED <<worker, pubsubVars, clusterVars>>
  BY SerialSpend DEF HandlerHelm, Deliver, SerialFaults
<1>2. \A d \in Diid : InFlight(d)' => InFlight(d)
  BY <1>1 DEF InFlight, pubsubVars, clusterVars
<1>3. m \in Message /\ m.diid \in Diid /\ m.diid <= issued /\ instr[m.diid].key \in Key
  BY FlightTypes
<1>4. CASE UNCHANGED logVars
  <2>1. /\ \A k \in Key : KeyInProgress(k)' => KeyInProgress(k)
        /\ \A d \in Diid : InFlight(d)' /\ d \notin worker[Loop].sent =>
               deployCurrent'[instr[d].key].diid = d /\ KeyInProgress(instr[d].key)'
        /\ \A k \in Key : deployCurrent'[k] = deployCurrent[k]
    BY <1>1, <1>2, <1>4 DEF FlightInv, TrackedInv, KeyInProgress, pubsubVars, logVars
  <2> QED
    BY <1>1, <2>1, SettlesFlight
<1>5. CASE /\ deployLog[m.diid] # <<>>
           /\ AppendRows({[LatestDeployByDIID(m.diid) EXCEPT !.diid = m.diid, !.status = m.status]})
  <2> DEFINE last == LatestDeployByDIID(m.diid)
             new == [last EXCEPT !.diid = m.diid, !.status = m.status]
             key == instr[m.diid].key
  <2>1. m.status \in {"installing", "deployed", "failed"} /\ m.status \in Status
    BY <1>3 DEF Message, Status
  <2>2. deployLog[m.diid] \in Seq(Row)
    BY <1>3 DEF RolloutInv, TypeOK
  <2>3. Len(deployLog[m.diid]) \in 1 .. Len(deployLog[m.diid])
    BY <1>5, <2>2
  <2>4. last \in Row /\ last = deployLog[m.diid][Len(deployLog[m.diid])]
    BY <2>2, <2>3 DEF LatestDeployByDIID
  <2>5. last.key = key /\ last.hash = instr[m.diid].hash
    BY <1>3, <2>3, <2>4 DEF RolloutInv, RowsMatchInstruction
  <2> HIDE DEF last
  <2>6. /\ new \in Row /\ new.status = m.status
        /\ new.diid = m.diid /\ new.key = key /\ new.hash = instr[m.diid].hash
    BY <1>3, <2>1, <2>4, <2>5 DEF Row
  <2>7. AppendRows({new})
    BY <1>5 DEF last
  <2> HIDE DEF new
  <2>8. /\ deployCurrent'[key] = new
        /\ \A k \in Key : k # key => deployCurrent'[k] = deployCurrent[k]
    BY <1>3, <2>6, <2>7, AppendRowsFacts, SMTT(30) DEF RolloutInv
  <2>9. m.diid \notin worker[Loop].sent
    BY <1>5, FlightTypes DEF RolloutInv, UnrecordedInv
  <2>10. InFlight(m.diid)
    BY DEF InFlight
  <2>11. KeyInProgress(key)
    BY <1>3, <2>9, <2>10 DEF FlightInv, TrackedInv
  <2>12. InFlight(m.diid)' => m.status = "installing"
    <3>1. m.status # "installing" =>
             /\ m.diid \notin topic /\ \A e \in Environments : agent[e].diid # m.diid
             /\ \A n \in inbox : n.diid = m.diid /\ n.status # "installing" => n = m
      BY DEF FlightInv, AnswerInv
    <3>2. m.status # "installing" => \A n \in inbox' : n.diid # m.diid
      BY <1>1, <3>1 DEF Overtakes
    <3> QED
      BY <1>1, <3>1, <3>2 DEF InFlight, pubsubVars, clusterVars
  <2>13. \A k \in Key : KeyInProgress(k)' => KeyInProgress(k)
    BY <2>8, <2>11 DEF KeyInProgress
  <2>14. ASSUME NEW d \in Diid, InFlight(d)', d \notin worker[Loop].sent
         PROVE  deployCurrent'[instr[d].key].diid = d /\ KeyInProgress(instr[d].key)'
    <3>1. /\ InFlight(d) /\ instr[d].key \in Key /\ instr' = instr
          /\ deployCurrent[instr[d].key].diid = d /\ KeyInProgress(instr[d].key)
      BY <1>1, <1>2, <2>14, FlightTypes DEF FlightInv, TrackedInv, pubsubVars
    <3>2. CASE instr[d].key # key
      BY <2>8, <3>1, <3>2 DEF KeyInProgress
    <3>3. CASE instr[d].key = key
      <4>1. d = m.diid
        BY <1>3, <2>10, <3>1, <3>3, FlightUnique
      <4>2. m.status = "installing"
        BY <2>12, <2>14, <4>1
      <4> QED
        BY <2>6, <2>8, <3>1, <3>3, <4>1, <4>2 DEF KeyInProgress, IsInProgress
    <3> QED
      BY <3>2, <3>3
  <2>15. \A k \in Key : deployCurrent'[k].status = "deployed" =>
               deployCurrent'[k] = deployCurrent[k] \/ installed[k] = deployCurrent'[k].hash
    BY <2>6, <2>8 DEF FlightInv, InstalledInv
  <2> QED
    BY <1>1, <2>13, <2>14, <2>15, SettlesFlight
<1> QED
  BY <1>4, <1>5 DEF HandlerHelm

\* The timeout worker fails only what has nothing left on its way.
LEMMA TimeoutFlight == ASSUME RolloutInv, FlightInv, TimeoutPendingDeploys PROVE FlightInv'
<1>1. PICK old \in SUBSET Pending \ {{}} : (\A k \in old : ~Outstanding(k)) /\ TimeoutRows(old)
  BY DEF TimeoutPendingDeploys
<1>2. UNCHANGED <<worker, inbox, pubsubVars, clusterVars>>
  BY DEF TimeoutPendingDeploys
<1> DEFINE Failed(k) == [deployCurrent[k] EXCEPT !.status = "failed"]
           rows == {Failed(k) : k \in old}
<1>3. ASSUME NEW k \in old
      PROVE  /\ k \in Key /\ KeyInProgress(k) /\ deployCurrent[k] \in Row
             /\ deployCurrent[k].key = k
  <2>1. k \in Key /\ KeyInProgress(k) /\ deployCurrent[k].status # "none"
    BY DEF Pending, KeyInProgress, IsInProgress
  <2> QED
    BY <2>1 DEF RolloutInv, TypeOK, NoRow, RowsMatchInstruction
<1>4. \A k \in old : Failed(k) \in Row /\ Failed(k).key = k /\ Failed(k).status = "failed"
  BY <1>3 DEF Row, Status
<1>5. AppendRows(rows)
  BY <1>1 DEF TimeoutRows
<1> HIDE DEF Failed
<1>6. rows \in SUBSET Row /\ \A r \in rows : r.key \in old /\ r.status = "failed"
  BY <1>4
<1>7. \A k \in old : \E r \in rows : r.key = k
  BY <1>4
<1> HIDE DEF rows
<1>8. /\ \A k \in old : deployCurrent'[k].status = "failed"
      /\ \A k \in Key : k \notin old => deployCurrent'[k] = deployCurrent[k]
  BY <1>3, <1>5, <1>6, <1>7, AppendRowsFacts DEF RolloutInv
<1>9. \A k \in Key : KeyInProgress(k)' => KeyInProgress(k)
  BY <1>3, <1>8 DEF KeyInProgress
<1>10. ASSUME NEW d \in Diid, InFlight(d)', d \notin worker[Loop].sent
       PROVE  deployCurrent'[instr[d].key].diid = d /\ KeyInProgress(instr[d].key)'
  <2>1. InFlight(d) /\ instr[d].key \in Key /\ instr' = instr
    BY <1>2, <1>10, FlightTypes DEF InFlight, pubsubVars, clusterVars
  <2>2. Outstanding(instr[d].key)
    BY <2>1, FlightTypes DEF InFlight, Outstanding, Handling
  <2>3. deployCurrent'[instr[d].key] = deployCurrent[instr[d].key]
    BY <1>1, <1>8, <2>1, <2>2
  <2> QED
    BY <1>10, <2>1, <2>3 DEF FlightInv, TrackedInv, KeyInProgress
<1>11. \A k \in Key : deployCurrent'[k].status = "deployed" => deployCurrent'[k] = deployCurrent[k]
  BY <1>8
<1> QED
  BY <1>2, <1>9, <1>10, <1>11, SettlesFlight

\* What FlightInv does not speak of may change.
LEMMA StutterFlight ==
    ASSUME FlightInv, UNCHANGED <<worker, inbox, pubsubVars, clusterVars, logVars>>
    PROVE  FlightInv'
<1>1. BatchInv'
  BY DEF FlightInv, BatchInv, KeyInProgress, pubsubVars, logVars
<1> QED
  BY <1>1, LoopOnly

-----------------------------------------------------------------------------
\* Every step of a Serial plan preserves FlightInv: one case per action.
LEMMA NextFlight == RolloutInv /\ SerialInv /\ [Next]_vars => SerialInv'
<1> SUFFICES ASSUME RolloutInv, SerialInv, [Next]_vars, Serial' PROVE FlightInv'
  BY DEF SerialInv
<1>0. Serial /\ FlightInv
  BY DEF SerialInv, Serial, Next, vars
<1>1. CASE UNCHANGED vars
  BY <1>0, <1>1, StutterFlight DEF vars, pubsubVars, clusterVars, logVars
<1>2. ASSUME NEW k \in Key, ChangeDesired(k) \/ Uninstall(k) PROVE FlightInv'
  BY <1>0, <1>2, StutterFlight, SerialSpend DEF ChangeDesired, Uninstall, SerialFaults
<1>3. CASE LoopStep
  BY <1>0, <1>3, FetchFlight, ReconcileFlight, PublishFlight, AppendDeploysFlight
  DEF LoopStep, Deploying
<1>4. ASSUME NEW w \in Requests \cap plan.requests, RequestStep(w) PROVE FlightInv'
  BY <1>0 DEF Serial
<1>5. ASSUME NEW w \in Worker, WorkerFails(w) PROVE FlightInv'
  BY <1>0, <1>5, WorkerFailsFlight
<1>6. CASE FasitRestarts \/ TimeoutBeforeAnswer
  BY <1>0, <1>6, SerialSpend DEF FasitRestarts, TimeoutBeforeAnswer, SerialFaults
<1>7. ASSUME NEW e \in Environments, AgentStep(e) PROVE FlightInv'
  BY <1>0, <1>7, ReceiveFlight, InstallingFlight, HelmSucceedsFlight, ReportTerminalFlight,
     AgentDropsFlight DEF AgentStep
<1>8. ASSUME NEW e \in Environments, AgentFails(e) PROVE FlightInv'
  BY <1>0, <1>8, InstallingFlight, AgentDropsFlight DEF AgentFails
<1>9. ASSUME NEW m \in inbox, HandlerHelm(m) PROVE FlightInv'
  BY <1>0, <1>9, HandlerHelmFlight
<1>10. CASE TimeoutPendingDeploys
  BY <1>0, <1>10, TimeoutFlight
<1> QED
  BY <1>1, <1>2, <1>3, <1>4, <1>5, <1>6, <1>7, <1>8, <1>9, <1>10 DEF Next, Step

\* Reconciler.Run, DeployManager.handler, the receiver and the timeout worker
\* together: whatever is on its way belongs to the batch of the loop or to the
\* current row of its key.  The inductive invariant of the two theorems below.
THEOREM SerialInvariant == Spec => []SerialInv
<1>1. Init => SerialInv
  BY FlightInit DEF SerialInv
<1>2. RolloutInv /\ SerialInv /\ [Next]_vars => SerialInv'
  BY NextFlight
<1> QED
  BY <1>1, <1>2, RolloutInvariant, PTL DEF Spec

\* computeAction's skip-in-progress: naisd never has two instructions for one
\* key, as long as no restart, Redeploy, redelivery or late answer intervenes.
THEOREM OneInstructionPerKey == Spec => []SingleFlight
<1>1. RolloutInv /\ SerialInv => SingleFlight
  <2> SUFFICES ASSUME RolloutInv, SerialInv, Serial, NEW k \in Key,
                      NEW c \in Live(k), NEW d \in Live(k)
               PROVE  c = d
    BY DEF SingleFlight
  <2>1. /\ c \in Diid /\ InFlight(c) /\ instr[c].key = k
        /\ d \in Diid /\ InFlight(d) /\ instr[d].key = k
    BY DEF Live, InFlight
  <2> QED
    BY <2>1, FlightUnique DEF SerialInv
<1> QED
  BY <1>1, RolloutInvariant, SerialInvariant, PTL

\* computeAction's skip-unchanged: a key that is settled as deployed with the
\* desired hash, and has nothing on its way, runs what is desired.
THEOREM InSyncMeansInstalled == Spec => []InSyncIsInstalled
<1>1. RolloutInv /\ SerialInv => InSyncIsInstalled
  <2> SUFFICES ASSUME RolloutInv, SerialInv, Serial, NEW k \in Key, Quiet(k),
                      deployCurrent[k].status = "deployed",
                      computeAction(desired[k], deployCurrent[k]) = "skip-unchanged"
               PROVE  installed[k] = desired[k]
    BY DEF InSyncIsInstalled
  <2>1. deployCurrent[k].hash = desired[k]
    BY DEF computeAction
  <2>2. worker[Loop].sent = {}
    BY FlightTypes DEF Quiet, SerialInv, FlightInv, BatchInv
  <2> QED
    BY <2>1, <2>2 DEF SerialInv, FlightInv, InstalledInv
<1> QED
  BY <1>1, RolloutInvariant, SerialInvariant, PTL

=============================================================================
