--------------------------- MODULE DecisionProofs ----------------------------
(***************************************************************************)
(* Proofs about Decision, for any tables the system starts with, any       *)
(* charts and changes and any bound on them: what holds although a cycle   *)
(* reads its snapshot from tables that change under it.                    *)
(***************************************************************************)
EXTENDS Decision, FiniteSetTheorems, TLAPS

-----------------------------------------------------------------------------
(* Facts about the operators *)

\* SetToSeq lists a finite set, each member once.
LEMMA SetToSeqFacts ==
    ASSUME NEW S, IsFiniteSet(S)
    PROVE  /\ SetToSeq(S) \in Seq(S)
           /\ DOMAIN SetToSeq(S) = 1 .. Len(SetToSeq(S))
           /\ \A i \in DOMAIN SetToSeq(S) : SetToSeq(S)[i] \in S
           /\ \A i, j \in DOMAIN SetToSeq(S) : SetToSeq(S)[i] = SetToSeq(S)[j] => i = j
<1> DEFINE n == Cardinality(S)
           seq == SetToSeq(S)
<1>1. n \in Nat /\ ExistsBijection(1 .. n, S)
  BY FS_CardinalityType
<1>2. \E f \in [1 .. n -> S] : IsInjective(f)
  BY <1>1 DEF ExistsBijection, Bijection, Injection
<1>3. seq \in [1 .. n -> S] /\ IsInjective(seq)
  BY <1>2 DEF SetToSeq
<1> HIDE DEF seq
<1>4. seq \in Seq(S) /\ DOMAIN seq = 1 .. Len(seq)
  BY <1>1, <1>3
<1>5. /\ \A i \in DOMAIN seq : seq[i] \in S
      /\ \A i, j \in DOMAIN seq : seq[i] = seq[j] => i = j
  BY <1>3 DEF IsInjective
<1> QED
  BY <1>4, <1>5 DEF seq

\* A set of positions has a first one.
LEMMA MinFacts == ASSUME NEW S \in SUBSET Nat, S # {} PROVE Min(S) \in S
<1> DEFINE R == {p \in Nat \X Nat : p[1] < p[2]}
<1>1. IsWellFoundedOn(R, Nat)
  BY NatLessThanWellFounded DEF OpToRel
<1>2. \E x \in S : \A y \in S : x <= y
  <2> HIDE DEF R
  <2>1. \E x \in S : \A y \in S : <<y, x>> \notin R
    BY <1>1, WFMin
  <2>2. \A x, y \in S : <<y, x>> \notin R => x <= y
    BY DEF R
  <2> QED
    BY <2>1, <2>2
<1> QED
  BY <1>2 DEF Min

\* checkDependencies reports nothing only when every dependency is met.
LEMMA CheckedFacts ==
    ASSUME NEW chart, DOMAIN chart.dependencies \subseteq Nat, NEW e, NEW deployed,
           checkDependencies(chart, e, deployed) = {},
           NEW n \in DOMAIN chart.dependencies
    PROVE  LET dep == chart.dependencies[n]
           IN  /\ \A g \in dep.allOf : <<e, g>> \in deployed
               /\ dep.anyOf # {} => \E g \in dep.anyOf : <<e, g>> \in deployed
<1> DEFINE failing == {i \in DOMAIN chart.dependencies :
                         unmet(chart.dependencies[i], e, deployed) # {}}
<1>1. failing = {}
  <2> SUFFICES ASSUME failing # {} PROVE FALSE
    OBVIOUS
  <2>1. Min(failing) \in failing
    <3> HIDE DEF failing
    <3>1. failing \in SUBSET Nat
      BY DEF failing
    <3> QED
      BY <3>1, MinFacts
  <2>2. unmet(chart.dependencies[Min(failing)], e, deployed) = {}
    BY DEF checkDependencies
  <2> QED
    BY <2>1, <2>2
<1>2. unmet(chart.dependencies[n], e, deployed) = {}
  BY <1>1
<1> QED
  BY <1>2 DEF unmet

\* computeAction reports a missing dependency, or there is none.
LEMMA ActionFacts ==
    ASSUME NEW snap, NEW e, NEW d, NEW order
    PROVE  LET missing == checkDependencies(d.chart, e, snap["deployed"])
               r == computeAction(snap, e, d, order)
           IN  \/ r = Decided(e, d, "missing-deps", missing, NoHash)
               \/ missing = {} /\ \E action, names, hash : r = Decided(e, d, action, names, hash)
<1> DEFINE missing == checkDependencies(d.chart, e, snap["deployed"])
           rendered == Rendered(snap, e, d, order)
           latest == {s \in snap["latest"] : s.env = e /\ s.feature = d.feature}
           hash == generateHash(rendered.map, d.chart)
           r == computeAction(snap, e, d, order)
<1>1. r = IF missing # {} THEN Decided(e, d, "missing-deps", missing, NoHash)
          ELSE IF ~rendered.ok THEN Decided(e, d, rendered.err, rendered.fields, NoHash)
          ELSE IF \E s \in latest : IsInProgress(s.status)
          THEN Decided(e, d, "in-progress", {}, hash)
          ELSE IF \E s \in latest : s.hash = hash
          THEN Decided(e, d, "unchanged", {}, hash)
          ELSE Decided(e, d, "deploy", {}, hash)
  BY Zenon DEF computeAction
<1> HIDE DEF missing, rendered, latest, hash, r
<1>2. \/ r = Decided(e, d, "missing-deps", missing, NoHash)
      \/ missing = {} /\ \E action, names, h : r = Decided(e, d, action, names, h)
  BY <1>1, Zenon
<1> QED
  BY <1>2, Zenon DEF missing, r

\* A decision is about the environment and the assignment it was made for.
LEMMA DecideKeys ==
    ASSUME NEW snap, NEW e, NEW d, NEW r \in decide(snap, e, d)
    PROVE  r.env = e /\ r.feature = d.feature /\ r.version = d.version /\ r.fa = d.id
<1>1. \/ r = Decided(e, d, "unhealthy", {}, NoHash) \/ r = Decided(e, d, "disabled", {}, NoHash)
      \/ \E order : r = computeAction(snap, e, d, order)
  BY Zenon DEF decide
<1>2. \A order : \E action, names, hash :
         computeAction(snap, e, d, order) = Decided(e, d, action, names, hash)
  <2> SUFFICES ASSUME NEW order
               PROVE  \E action, names, hash :
                         computeAction(snap, e, d, order) = Decided(e, d, action, names, hash)
    OBVIOUS
  <2>1. PICK missing : \/ computeAction(snap, e, d, order) =
                             Decided(e, d, "missing-deps", missing, NoHash)
                       \/ \E action, names, hash :
                             computeAction(snap, e, d, order) =
                             Decided(e, d, action, names, hash)
    BY ActionFacts
  <2> QED
    BY <2>1, Zenon
<1>3. \E action, names, hash : r = Decided(e, d, action, names, hash)
  BY <1>1, <1>2, Zenon
<1> QED
  BY <1>3 DEF Decided

\* It is to deploy only behind the gates.
LEMMA DecideGates ==
    ASSUME NEW snap, NEW e, NEW d, NEW r \in decide(snap, e, d), r.action = "deploy"
    PROVE  /\ <<e, d.feature>> \notin snap["disabled"]
           /\ checkDependencies(d.chart, e, snap["deployed"]) = {}
<1>1. \A action, names, hash : Decided(e, d, action, names, hash).action = action
  BY DEF Decided
<1>2. r # Decided(e, d, "unhealthy", {}, NoHash) /\ r # Decided(e, d, "disabled", {}, NoHash)
  BY <1>1
<1>3. /\ <<e, d.feature>> \notin snap["disabled"]
      /\ \E order : r = computeAction(snap, e, d, order)
  BY <1>2, Zenon DEF decide
<1>4. r # Decided(e, d, "missing-deps", checkDependencies(d.chart, e, snap["deployed"]), NoHash)
  BY <1>1
<1> QED
  BY <1>3, <1>4, ActionFacts, Zenon

\* The winners come from the environments and the assignments of the snapshot.
LEMMA WinnersFacts ==
    ASSUME NEW snap, NEW w \in Winners(snap),
           NEW E, E = DOMAIN snap["envs"], NEW A, A = snap["assignments"]
    PROVE  w \in E \X A /\ w[1] \in E /\ w[2] \in A
<1> DEFINE Of(e) == mostSpecificPerFeature(
                       matchAssignments(snap["assignments"], snap["envs"][e].labels))
<1>1. PICK e \in Reconciled(snap["envs"]) : w \in {e} \X Of(e)
  BY Zenon DEF Winners
<1>2. Of(e) \subseteq A
  BY DEF mostSpecificPerFeature, matchAssignments
<1>3. e \in E
  BY DEF Reconciled
<1>4. PICK of : w \in {e} \X of /\ of \subseteq A
  BY <1>1, <1>2, Zenon
<1>5. PICK d \in of : w = <<e, d>>
  BY <1>4
<1> QED
  BY <1>3, <1>4, <1>5

\* computeActions: finitely many decisions, one for a feature in an environment.
LEMMA ResultsFacts ==
    ASSUME NEW snap, IsFiniteSet(DOMAIN snap["envs"]), IsFiniteSet(snap["assignments"]),
           NEW results \in Results(snap)
    PROVE  /\ IsFiniteSet(results)
           /\ \A r, s \in results : r.env = s.env /\ r.feature = s.feature => r = s
           /\ \A r \in results : \E e, d : d \in snap["assignments"] /\ r \in decide(snap, e, d)
<1> DEFINE winners == Winners(snap)
           options == UNION {decide(snap, w[1], w[2]) : w \in winners}
           keys == {<<w[1], w[2].feature>> : w \in winners}
           KeyOf == [w \in winners |-> <<w[1], w[2].feature>>]
           Rank == [r \in results |-> <<r.env, r.feature>>]
<1>1. /\ results \subseteq options
      /\ \A r \in options : \E s \in results :
            \A t \in results : (t.env = r.env /\ t.feature = r.feature) <=> t = s
  BY DEF Results
<1>2. \A r \in results : \E w \in winners : r \in decide(snap, w[1], w[2])
  BY <1>1
<1>3. \A r, s \in results : r.env = s.env /\ r.feature = s.feature => r = s
  <2> HIDE DEF options
  <2> QED
    BY <1>1
<1> HIDE DEF options
<1>4. IsFiniteSet(keys)
  <2>1. PICK E, A : E = DOMAIN snap["envs"] /\ A = snap["assignments"]
    BY Zenon
  <2>2. winners \in SUBSET (E \X A)
    BY <2>1, WinnersFacts
  <2>3. IsFiniteSet(winners)
    <3> HIDE DEF winners
    <3>1. IsFiniteSet(E) /\ IsFiniteSet(A)
      BY <2>1, Zenon
    <3>2. IsFiniteSet(E \X A)
      BY <3>1, FS_Product
    <3> QED
      BY <2>2, <3>2, FS_Subset
  <2>4. KeyOf \in Surjection(winners, keys)
    BY DEF Surjection
  <2> QED
    BY <2>3, <2>4, FS_Surjection
<1>5. \A r \in results : <<r.env, r.feature>> \in keys
  <2> SUFFICES ASSUME NEW r \in results PROVE <<r.env, r.feature>> \in keys
    OBVIOUS
  <2>1. PICK w \in winners : r \in decide(snap, w[1], w[2])
    BY <1>2
  <2>2. r.env = w[1] /\ r.feature = w[2].feature
    <3> HIDE DEF winners
    <3> QED
      BY <2>1, DecideKeys
  <2> QED
    BY <2>2
<1>6. Rank \in Injection(results, keys)
  <2> HIDE DEF keys
  <2> QED
    BY <1>3, <1>5 DEF Injection, IsInjective
<1>7. IsFiniteSet(results)
  BY <1>4, <1>6, FS_Injection
<1>8. \A r \in results : \E e, d : d \in snap["assignments"] /\ r \in decide(snap, e, d)
  BY <1>2, WinnersFacts
<1> QED
  BY <1>3, <1>7, <1>8

-----------------------------------------------------------------------------
(* A log that grows and a table that keeps its rows *)

Grows(log, more) ==
    /\ Len(log) \in Nat /\ DOMAIN log = 1 .. Len(log)
    /\ Len(more) \in Nat /\ DOMAIN more = 1 .. Len(more)
    /\ Len(log) <= Len(more)
    /\ \A i \in 1 .. Len(log) : more[i] = log[i]
Keeps(table, more) == \A k \in DOMAIN table : k \in DOMAIN more /\ more[k] = table[k]

LEMMA LogGrows ==
    ASSUME NEW S, NEW log \in Seq(S), NEW T, NEW rows \in Seq(T)
    PROVE  /\ Grows(log, log) /\ Grows(log, log \o rows)
           /\ log \o rows \in Seq(S \cup T)
           /\ Len(log \o rows) = Len(log) + Len(rows)
           /\ \A i \in 1 .. Len(rows) : (log \o rows)[Len(log) + i] = rows[i]
BY DEF Grows

\* What has been deployed before a row has been before any later one.
LEMMA DeployedGrows ==
    ASSUME NEW log, NEW more, Grows(log, more), NEW i \in Nat, NEW j \in Nat,
           i <= Len(log) + 1, i <= j, NEW e, NEW g, DeployedBefore(log, i, e, g)
    PROVE  DeployedBefore(more, j, e, g)
BY DEF Grows, DeployedBefore

LEMMA MetGrows ==
    ASSUME NEW log, NEW more, Grows(log, more), NEW i \in Nat, NEW j \in Nat,
           i <= Len(log) + 1, i <= j, NEW charts, NEW kept, Keeps(charts, kept),
           NEW r, <<r.feature, r.version>> \in DOMAIN charts,
           DependenciesMet(log, i, charts, r)
    PROVE  DependenciesMet(more, j, kept, r)
<1>1. kept[<<r.feature, r.version>>] = charts[<<r.feature, r.version>>]
  BY DEF Keeps
<1>2. \A g : DeployedBefore(log, i, r.env, g) => DeployedBefore(more, j, r.env, g)
  BY DeployedGrows
<1> QED
  BY <1>1, <1>2, Zenon DEF DependenciesMet

\* What a cycle has read stays true.
LEMMA SnapshotGrows ==
    ASSUME NEW log, NEW more, Grows(log, more), NEW charts, NEW kept, Keeps(charts, kept),
           NEW c, SnapshotOK(c, log, charts)
    PROVE  SnapshotOK(c, more, kept)
<1>1. Len(log) + 1 \in Nat /\ Len(more) + 1 \in Nat /\ Len(log) + 1 <= Len(more) + 1
  BY DEF Grows
<1>2. HasRead(c, "assignments") =>
          /\ IsFiniteSet(c.snap["assignments"])
          /\ \A d \in c.snap["assignments"] :
                /\ <<d.feature, d.version>> \in DOMAIN kept
                /\ d.chart = kept[<<d.feature, d.version>>]
  BY DEF SnapshotOK, Keeps
<1>3. ASSUME HasRead(c, "deployed"), NEW k \in c.snap["deployed"]
      PROVE  DeployedBefore(more, Len(more) + 1, k[1], k[2])
  <2>1. DeployedBefore(log, Len(log) + 1, k[1], k[2])
    BY <1>3, Zenon DEF SnapshotOK
  <2> QED
    BY <1>1, <2>1, DeployedGrows
<1>4. ASSUME c.pc = "deploy"
      PROVE  /\ IsFiniteSet(c.results)
             /\ \A r \in c.results : /\ <<r.feature, r.version>> \in DOMAIN kept
                                     /\ DependenciesMet(more, Len(more) + 1, kept, r)
  <2>1. /\ IsFiniteSet(c.results)
        /\ \A r \in c.results : /\ <<r.feature, r.version>> \in DOMAIN charts
                                /\ DependenciesMet(log, Len(log) + 1, charts, r)
    BY <1>4, Zenon DEF SnapshotOK
  <2>2. ASSUME NEW r \in c.results PROVE DependenciesMet(more, Len(more) + 1, kept, r)
    <3>1. PICK i \in Nat, j \in Nat : /\ i = Len(log) + 1 /\ j = Len(more) + 1
                                     /\ i <= Len(log) + 1 /\ i <= j
      BY <1>1
    <3>2. <<r.feature, r.version>> \in DOMAIN charts /\ DependenciesMet(log, i, charts, r)
      BY <2>1, <3>1
    <3>3. DependenciesMet(more, j, kept, r)
      BY <3>1, <3>2, MetGrows, ZenonT(60)
    <3> QED
      BY <3>1, <3>3
  <2>3. \A r \in c.results : <<r.feature, r.version>> \in DOMAIN kept
    BY <2>1 DEF Keeps
  <2> QED
    BY <2>1, <2>2, <2>3
<1>5. c.pc = "fetch" => DOMAIN c.snap["envs"] = DOMAIN InitEnvironments
  BY DEF SnapshotOK
<1> QED
  BY <1>2, <1>3, <1>4, <1>5, Zenon DEF SnapshotOK

\* A row that is sent has to have its dependencies; the rows before it had.
LEMMA DependencyFirstGrows ==
    ASSUME DependencyFirst, Grows(deployLog, deployLog'), Keeps(featureData, featureData'),
           \A i \in DOMAIN deployLog :
              <<deployLog[i].feature, deployLog[i].version>> \in DOMAIN featureData,
           \A i \in DOMAIN deployLog' : i > Len(deployLog) /\ deployLog'[i].status = "sent" =>
              DependenciesMet(deployLog', i, featureData', deployLog'[i])
    PROVE  DependencyFirst'
<1> SUFFICES ASSUME NEW i \in DOMAIN deployLog', deployLog'[i].status = "sent"
             PROVE  DependenciesMet(deployLog', i, featureData', deployLog'[i])
  BY DEF DependencyFirst
<1>1. CASE i > Len(deployLog)
  BY <1>1
<1>2. CASE ~(i > Len(deployLog))
  <2>1. i \in DOMAIN deployLog /\ deployLog'[i] = deployLog[i] /\ i \in Nat /\ i <= Len(deployLog) + 1
    BY <1>2 DEF Grows
  <2>2. DependenciesMet(deployLog, i, featureData, deployLog[i])
    BY <2>1 DEF DependencyFirst
  <2>3. <<deployLog[i].feature, deployLog[i].version>> \in DOMAIN featureData /\ i <= i
    BY <2>1
  <2>4. DependenciesMet(deployLog', i, featureData', deployLog[i])
    BY <2>1, <2>2, <2>3, MetGrows, Zenon
  <2> QED
    BY <2>1, <2>4
<1> QED
  BY <1>1, <1>2

-----------------------------------------------------------------------------
(* The queries of a cycle *)

LEMMA ReadAssignments ==
    ASSUME TablesInv
    PROVE  /\ IsFiniteSet(ListLatestFeatureAssignments)
           /\ \A d \in ListLatestFeatureAssignments :
                 /\ <<d.feature, d.version>> \in DOMAIN featureData
                 /\ d.chart = featureData[<<d.feature, d.version>>]
<1> DEFINE rows == Range(featureAssignments)
           picked == DistinctOnTarget(ActiveAssignments)
           Joined(d) == [id |-> d.id, feature |-> d.feature, version |-> d.version,
                         target |-> d.target, created |-> d.created, chart |-> ChartOf(d)]
           answer == {Joined(d) : d \in picked}
           Join == [d \in picked |-> Joined(d)]
<1>1. ListLatestFeatureAssignments = answer
  BY Zenon DEF ListLatestFeatureAssignments
<1>2. IsFiniteSet(rows)
  <2>1. featureAssignments \in [1 .. Len(featureAssignments) -> AssignmentType]
    BY DEF TablesInv
  <2>2. featureAssignments \in Surjection(1 .. Len(featureAssignments), rows)
    BY <2>1 DEF Surjection, Range
  <2>3. IsFiniteSet(1 .. Len(featureAssignments))
    BY FS_Interval DEF TablesInv
  <2> QED
    BY <2>2, <2>3, FS_Surjection
<1>3. picked \subseteq rows /\ IsFiniteSet(picked)
  <2>1. picked \subseteq rows
    BY DEF DistinctOnTarget, ActiveAssignments, AssignmentRows
  <2> QED
    BY <1>2, <2>1, FS_Subset
<1>4. IsFiniteSet(answer)
  <2> HIDE DEF picked, Joined
  <2>1. Join \in Surjection(picked, answer)
    BY DEF Surjection
  <2> HIDE DEF Join, answer
  <2> QED
    BY <1>3, <2>1, FS_Surjection
<1>5. ASSUME NEW a \in answer
      PROVE  /\ <<a.feature, a.version>> \in DOMAIN featureData
             /\ a.chart = featureData[<<a.feature, a.version>>]
  <2>1. PICK d \in picked : a = Joined(d)
    OBVIOUS
  <2>2. a.feature = d.feature /\ a.version = d.version /\ a.chart = ChartOf(d)
    BY <2>1
  <2>3. <<d.feature, d.version>> \in DOMAIN featureData
    <3> HIDE DEF picked
    <3> QED
      BY <1>3 DEF TablesInv
  <2> QED
    BY <2>2, <2>3 DEF ChartOf
<1> QED
  BY <1>1, <1>4, <1>5

\* deploy_status and decision_status are rows of the log.
LEMMA ViewFacts ==
    ASSUME NEW log, NEW r \in View(log)
    PROVE  \E i \in DOMAIN log : r = log[i]
BY DEF View

LEMMA ReadDeployed ==
    ASSUME TablesInv, NEW k \in ListDeployedFeatures
    PROVE  DeployedBefore(deployLog, Len(deployLog) + 1, k[1], k[2])
<1>1. PICK r \in View(deployLog) : k = <<r.env, r.feature>> /\ r.status = "deployed"
  BY Zenon DEF ListDeployedFeatures, deploy_status
<1>2. PICK i \in DOMAIN deployLog : r = deployLog[i]
  BY ViewFacts
<1>3. i \in 1 .. (Len(deployLog) + 1) - 1
  BY DEF TablesInv
<1>4. deployLog[i].env = k[1] /\ deployLog[i].feature = k[2] /\ deployLog[i].status = "deployed"
  BY <1>1, <1>2
<1> QED
  BY <1>3, <1>4, Zenon DEF DeployedBefore

\* Queries that return find what the invariant says of them.
LEMMA Reading ==
    ASSUME TablesInv, CycleInv, SnapshotOK(cycle, deployLog, featureData),
           LateOK(cycle, disabledFeatures, lateDeploys),
           cycle.pc = "fetch", NEW before \in SUBSET cycle.todo,
           NEW c, c = Returned(before)
    PROVE  /\ DOMAIN c = {"pc", "todo", "snap", "results"}
           /\ DOMAIN c.snap = Queries \cup {"envs"}
           /\ c.pc = "fetch" /\ c.todo = cycle.todo \ before
           /\ SnapshotOK(c, deployLog, featureData)
           /\ LateOK(c, disabledFeatures, lateDeploys)
<1> DEFINE read == [q \in DOMAIN cycle.snap |-> IF q \in before THEN Query(q) ELSE cycle.snap[q]]
<1>1. c = [cycle EXCEPT !.todo = cycle.todo \ before, !.snap = read]
  BY Zenon DEF Returned
<1> HIDE DEF read
<1>2. /\ DOMAIN c = {"pc", "todo", "snap", "results"}
      /\ c.pc = "fetch" /\ c.todo = cycle.todo \ before /\ c.snap = read
      /\ c.results = cycle.results
  BY <1>1 DEF CycleInv
<1>3. /\ DOMAIN c.snap = Queries \cup {"envs"}
      /\ \A q \in Queries \cup {"envs"} :
            c.snap[q] = IF q \in before THEN Query(q) ELSE cycle.snap[q]
  BY <1>2 DEF read, CycleInv
<1>4. "envs" \notin before /\ {"assignments", "deployed", "disabled"} \subseteq Queries
  BY DEF CycleInv, Queries
<1>5. \A q \in Queries : q \notin c.todo => q \in before \/ q \notin cycle.todo
  BY <1>2
<1>6. DOMAIN c.snap["envs"] = DOMAIN InitEnvironments
  <2>1. c.snap["envs"] = cycle.snap["envs"]
    BY <1>3, <1>4
  <2> QED
    BY <2>1, Zenon DEF SnapshotOK
<1>7. ASSUME HasRead(c, "assignments")
      PROVE  /\ IsFiniteSet(c.snap["assignments"])
             /\ \A d \in c.snap["assignments"] :
                   /\ <<d.feature, d.version>> \in DOMAIN featureData
                   /\ d.chart = featureData[<<d.feature, d.version>>]
  <2>1. CASE "assignments" \in before
    <3>1. c.snap["assignments"] = ListLatestFeatureAssignments
      BY <1>3, <1>4, <2>1 DEF Query
    <3> QED
      BY <3>1, ReadAssignments, Zenon
  <2>2. CASE "assignments" \notin before
    <3>1. c.snap["assignments"] = cycle.snap["assignments"] /\ HasRead(cycle, "assignments")
      BY <1>3, <1>4, <1>5, <1>7, <2>2 DEF HasRead
    <3> QED
      BY <3>1, Zenon DEF SnapshotOK
  <2> QED
    BY <2>1, <2>2
<1>8. ASSUME HasRead(c, "deployed"), NEW k \in c.snap["deployed"]
      PROVE  DeployedBefore(deployLog, Len(deployLog) + 1, k[1], k[2])
  <2>1. CASE "deployed" \in before
    <3>1. c.snap["deployed"] = ListDeployedFeatures
      BY <1>3, <1>4, <2>1 DEF Query
    <3> QED
      BY <3>1, ReadDeployed, Zenon
  <2>2. CASE "deployed" \notin before
    <3>1. c.snap["deployed"] = cycle.snap["deployed"] /\ HasRead(cycle, "deployed")
      BY <1>3, <1>4, <1>5, <1>8, <2>2 DEF HasRead
    <3> QED
      BY <3>1, <1>8, Zenon DEF SnapshotOK
  <2> QED
    BY <2>1, <2>2
<1>9. ASSUME HasRead(c, "disabled"), NEW k \in disabledFeatures, lateDeploys[k] = 1
      PROVE  k \in c.snap["disabled"]
  <2>1. CASE "disabled" \in before
    BY <1>3, <1>4, <2>1 DEF Query, ListDisabledFeatures
  <2>2. CASE "disabled" \notin before
    <3>1. c.snap["disabled"] = cycle.snap["disabled"] /\ HasRead(cycle, "disabled")
      BY <1>3, <1>4, <1>5, <1>9, <2>2 DEF HasRead
    <3> QED
      BY <3>1, <1>9, Zenon DEF LateOK
  <2> QED
    BY <2>1, <2>2
<1>10. c.pc # "deploy"
  BY <1>2
<1>11. SnapshotOK(c, deployLog, featureData)
  BY <1>6, <1>7, <1>8, <1>10, Zenon DEF SnapshotOK
<1>12. LateOK(c, disabledFeatures, lateDeploys)
  BY <1>9, <1>10, Zenon DEF LateOK
<1> QED
  BY <1>2, <1>3, <1>11, <1>12

\* A cycle that reads while a table changes has read the table as it was.
LEMMA WhileFacts ==
    ASSUME DecisionInv, NEW qs, While(qs)
    PROVE  /\ CycleInv'
           /\ SnapshotOK(cycle', deployLog, featureData)
           /\ LateOK(cycle', disabledFeatures, lateDeploys)
<1>1. CASE cycle' = cycle
  BY <1>1 DEF DecisionInv, CycleInv
<1>2. CASE cycle.pc = "fetch" /\ \E before \in SUBSET (qs \cap cycle.todo) : cycle' = Returned(before)
  <2>1. PICK before \in SUBSET cycle.todo : cycle' = Returned(before)
    BY <1>2
  <2>2. PICK c : c = cycle'
    BY Zenon
  <2>3. /\ DOMAIN c = {"pc", "todo", "snap", "results"}
        /\ DOMAIN c.snap = Queries \cup {"envs"}
        /\ c.pc = "fetch" /\ c.todo = cycle.todo \ before
        /\ SnapshotOK(c, deployLog, featureData)
        /\ LateOK(c, disabledFeatures, lateDeploys)
    BY <1>2, <2>1, <2>2, Reading DEF DecisionInv
  <2>4. CycleInv'
    BY <2>2, <2>3 DEF DecisionInv, CycleInv
  <2> QED
    BY <2>2, <2>3, <2>4
<1> QED
  BY <1>1, <1>2 DEF While

LEMMA KeysStored ==
    ASSUME TablesInv
    PROVE  \A i \in DOMAIN deployLog :
              <<deployLog[i].feature, deployLog[i].version>> \in DOMAIN featureData
BY DEF TablesInv, Range

\* A step that leaves the logs and the disabled features alone.
LEMMA TableChange ==
    ASSUME DecisionInv, TablesInv', CycleInv', SnapshotOK(cycle', deployLog, featureData),
           LateOK(cycle', disabledFeatures, lateDeploys), Keeps(featureData, featureData'),
           UNCHANGED <<logs, disabledFeatures, lateDeploys>>
    PROVE  DecisionInv'
<1>1. deployLog' = deployLog /\ decisionLog' = decisionLog
  BY DEF logs
<1>2. Grows(deployLog, deployLog')
  BY <1>1 DEF DecisionInv, TablesInv, Grows
<1>3. SnapshotOK(cycle', deployLog', featureData')
  BY <1>2, SnapshotGrows
<1>4. DependencyFirst'
  <2>1. \A i \in DOMAIN deployLog' : ~(i > Len(deployLog))
    BY <1>1 DEF DecisionInv, TablesInv
  <2> QED
    BY <1>2, <2>1, KeysStored, DependencyFirstGrows DEF DecisionInv
<1>5. LateInv' /\ LateOK(cycle', disabledFeatures', lateDeploys')
  BY DEF DecisionInv, LateInv
<1>6. DecisionLogIsTransitions'
  BY <1>1 DEF DecisionInv, DecisionLogIsTransitions, SameDecision
<1> QED
  BY <1>3, <1>4, <1>5, <1>6, Zenon DEF DecisionInv

\* The tables and the logs a step leaves alone stay well formed.
LEMMA TablesKept ==
    ASSUME TablesInv, UNCHANGED <<featureData, featureAssignments, logs>>,
           DOMAIN environments' = DOMAIN environments
    PROVE  TablesInv'
BY DEF TablesInv, logs

-----------------------------------------------------------------------------
(* The cycle *)

LEMMA StartCycleStep == ASSUME DecisionInv, StartCycle PROVE DecisionInv'
<1> USE DEF StartCycle, tables
<1>1. TablesInv'
  BY TablesKept DEF DecisionInv, logs
<1>2. PICK c : c = cycle'
  BY Zenon
<1>3. /\ DOMAIN c = {"pc", "todo", "snap", "results"}
      /\ DOMAIN c.snap = Queries \cup {"envs"}
      /\ c.pc = "fetch" /\ c.todo = Queries /\ c.snap["envs"] = environments
  BY <1>2 DEF DecisionInv, CycleInv, ListAllTenantEnvironments
<1>4. CycleInv'
  BY <1>2, <1>3 DEF CycleInv
<1>5. DOMAIN c.snap["envs"] = DOMAIN InitEnvironments
  BY <1>3 DEF DecisionInv, TablesInv
<1>6. /\ ~HasRead(c, "assignments") /\ ~HasRead(c, "deployed") /\ ~HasRead(c, "disabled")
      /\ c.pc # "deploy"
  BY <1>3 DEF HasRead, Queries
<1>7. SnapshotOK(c, deployLog, featureData) /\ LateOK(c, disabledFeatures, lateDeploys)
  BY <1>5, <1>6, Zenon DEF SnapshotOK, LateOK
<1> QED
  BY <1>1, <1>2, <1>4, <1>7, TableChange DEF Keeps, logs

LEMMA FetchStep == ASSUME DecisionInv, Fetch PROVE DecisionInv'
<1> USE DEF Fetch, tables
<1>1. TablesInv'
  BY TablesKept DEF DecisionInv, logs
<1>2. While(cycle.todo)
  BY DEF While
<1>3. /\ CycleInv' /\ SnapshotOK(cycle', deployLog, featureData)
      /\ LateOK(cycle', disabledFeatures, lateDeploys)
  BY <1>2, WhileFacts
<1> QED
  BY <1>1, <1>3, TableChange DEF Keeps, logs

\* Between cycles nothing has been read.
LEMMA IdleFacts ==
    ASSUME NEW log, NEW charts, NEW disabled, NEW late
    PROVE  /\ DOMAIN Idle = {"pc", "todo", "snap", "results"}
           /\ DOMAIN Idle.snap = Queries \cup {"envs"}
           /\ Idle.pc = "idle" /\ Idle.todo = {}
           /\ SnapshotOK(Idle, log, charts) /\ LateOK(Idle, disabled, late)
<1>1. /\ DOMAIN Idle = {"pc", "todo", "snap", "results"}
      /\ DOMAIN Idle.snap = Queries \cup {"envs"}
      /\ Idle.pc = "idle" /\ Idle.todo = {}
  BY DEF Idle, NoSnapshot
<1>2. Idle.pc # "fetch" /\ Idle.pc # "deploy"
  BY <1>1
<1> QED
  BY <1>1, <1>2, Zenon DEF SnapshotOK, LateOK, HasRead

LEMMA CycleFailsStep == ASSUME DecisionInv, CycleFails PROVE DecisionInv'
<1> USE DEF CycleFails, tables
<1>1. TablesInv'
  BY TablesKept DEF DecisionInv, logs
<1>2. /\ CycleInv' /\ SnapshotOK(cycle', deployLog, featureData)
      /\ LateOK(cycle', disabledFeatures, lateDeploys)
  BY IdleFacts DEF CycleInv
<1> QED
  BY <1>1, <1>2, TableChange DEF Keeps, logs

-----------------------------------------------------------------------------
(* The changes of the tables *)

\* An assignment replaces an active row and appends one.
LEMMA AssignedRows ==
    ASSUME TablesInv, NEW chart \in Charts, NEW target \in Targets
    PROVE  LET row == AssignmentRow(Len(featureAssignments) + 1, chart, target)
               rows == Append(Deactivated(featureAssignments, chart.name, target), row)
           IN  /\ rows \in Seq(AssignmentType)
               /\ \A d \in Range(rows) :
                     \/ d.feature = chart.name /\ d.version = chart.version
                     \/ \E x \in Range(featureAssignments) :
                           d.feature = x.feature /\ d.version = x.version
<1> DEFINE fa == featureAssignments
           n == Len(featureAssignments)
           old == Deactivated(featureAssignments, chart.name, target)
           row == AssignmentRow(n + 1, chart, target)
<1>1. n \in Nat /\ DOMAIN fa = 1 .. n /\ fa \in Seq(AssignmentType)
  BY DEF TablesInv
<1>2. row \in AssignmentType /\ row.feature = chart.name /\ row.version = chart.version
  BY <1>1 DEF AssignmentRow, AssignmentType
<1>3. DOMAIN old = 1 .. n
  BY <1>1 DEF Deactivated
<1>4. ASSUME NEW id \in 1 .. n
      PROVE  /\ old[id] \in AssignmentType
             /\ old[id].feature = fa[id].feature /\ old[id].version = fa[id].version
  <2>1. fa[id] \in AssignmentType
    BY <1>1
  <2>2. old[id] = fa[id] \/ old[id] = [fa[id] EXCEPT !.active = FALSE]
    BY <1>1 DEF Deactivated
  <2> QED
    BY <2>1, <2>2 DEF AssignmentType
<1> HIDE DEF old, row, n, fa
<1>5. old \in Seq(AssignmentType) /\ Len(old) = n
  <2>1. old = [id \in 1 .. n |-> old[id]]
    BY <1>1 DEF fa, n, old, Deactivated
  <2> QED
    BY <1>1, <1>4, <2>1
<1>6. Append(old, row) \in Seq(AssignmentType)
  BY <1>2, <1>5
<1>7. ASSUME NEW d \in Range(Append(old, row))
      PROVE  \/ d.feature = chart.name /\ d.version = chart.version
             \/ \E x \in Range(fa) : d.feature = x.feature /\ d.version = x.version
  <2>1. d = row \/ \E id \in 1 .. n : d = old[id]
    BY <1>1, <1>2, <1>5 DEF Range
  <2>2. \A id \in 1 .. n : fa[id] \in Range(fa)
    BY <1>1 DEF Range
  <2> QED
    BY <1>2, <1>4, <2>1, <2>2
<1> QED
  BY <1>6, <1>7, Zenon DEF old, row, n, fa

LEMMA AssignStep ==
    ASSUME DecisionInv, NEW chart \in Charts, NEW target \in Targets, Assign(chart, target)
    PROVE  DecisionInv'
<1> DEFINE stored == <<chart.name, chart.version>>
<1>1. /\ featureData' = IF stored \in DOMAIN featureData THEN featureData
                        ELSE Put(featureData, stored, chart)
      /\ UNCHANGED <<environments, logs, disabledFeatures, lateDeploys>>
      /\ While({"assignments"})
  BY DEF Assign
<1>2. /\ featureAssignments' \in Seq(AssignmentType)
      /\ \A d \in Range(featureAssignments)' :
            \/ d.feature = chart.name /\ d.version = chart.version
            \/ \E x \in Range(featureAssignments) :
                  d.feature = x.feature /\ d.version = x.version
  BY AssignedRows DEF Assign, DecisionInv
<1>3. /\ Keeps(featureData, featureData') /\ stored \in DOMAIN featureData'
      /\ \A k \in DOMAIN featureData' : featureData'[k] \in Charts
  BY <1>1 DEF Keeps, Put, DecisionInv, TablesInv
<1>4. TablesInv'
  <2>1. \A d \in Range(featureAssignments)' : <<d.feature, d.version>> \in DOMAIN featureData'
    BY <1>2, <1>3 DEF DecisionInv, TablesInv, Keeps
  <2>2. \A r \in Range(deployLog) : <<r.feature, r.version>> \in DOMAIN featureData'
    BY <1>3 DEF DecisionInv, TablesInv, Keeps
  <2> QED
    BY <1>1, <1>2, <1>3, <2>1, <2>2 DEF DecisionInv, TablesInv, logs
<1> QED
  BY <1>1, <1>3, <1>4, WhileFacts, TableChange

LEMMA DeactivateStep ==
    ASSUME DecisionInv, NEW id \in DOMAIN featureAssignments, Deactivate(id)
    PROVE  DecisionInv'
<1> DEFINE fa == featureAssignments
           row == [fa[id] EXCEPT !.active = FALSE]
<1>1. /\ fa' = [fa EXCEPT ![id] = row]
      /\ UNCHANGED <<environments, featureData, logs, disabledFeatures, lateDeploys>>
      /\ While({"assignments"})
  BY DEF Deactivate
<1>2. fa \in Seq(AssignmentType) /\ fa[id] \in AssignmentType
  BY DEF DecisionInv, TablesInv
<1>3. row \in AssignmentType /\ row.feature = fa[id].feature /\ row.version = fa[id].version
  BY <1>2 DEF AssignmentType
<1> HIDE DEF row
<1>4. fa' \in Seq(AssignmentType)
  BY <1>1, <1>2, <1>3
<1>5. \A d \in Range(fa)' : <<d.feature, d.version>> \in DOMAIN featureData
  <2>1. \A i \in DOMAIN fa : <<fa[i].feature, fa[i].version>> \in DOMAIN featureData
    BY DEF DecisionInv, TablesInv, Range
  <2>2. \A i \in DOMAIN fa' : fa'[i] = row \/ (i \in DOMAIN fa /\ fa'[i] = fa[i])
    BY <1>1, <1>2
  <2> QED
    BY <1>3, <2>1, <2>2 DEF Range
<1>6. TablesInv'
  BY <1>1, <1>4, <1>5 DEF DecisionInv, TablesInv, logs
<1>7. Keeps(featureData, featureData')
  BY <1>1 DEF Keeps
<1> QED
  BY <1>1, <1>6, <1>7, WhileFacts, TableChange

\* SetConfig, ReportHealth and SetLabels change tables no invariant is about.
LEMMA OtherChangeStep ==
    ASSUME DecisionInv, NEW qs, While(qs), DOMAIN environments' = DOMAIN environments,
           UNCHANGED <<featureData, featureAssignments, logs, disabledFeatures, lateDeploys>>
    PROVE  DecisionInv'
<1>1. TablesInv'
  BY TablesKept DEF DecisionInv
<1> QED
  BY <1>1, WhileFacts, TableChange DEF Keeps

\* A feature that is disabled has had no late deploy yet; one that is enabled
\* again has none that counts.
LEMMA DisabledChange ==
    ASSUME DecisionInv, NEW qs, While(qs),
           UNCHANGED <<environments, featureData, featureAssignments, logs>>,
           DOMAIN lateDeploys' = disabledFeatures',
           \A k \in disabledFeatures' : \/ k \in disabledFeatures /\ lateDeploys'[k] = lateDeploys[k]
                                       \/ lateDeploys'[k] = 0
    PROVE  DecisionInv'
<1>1. TablesInv'
  BY TablesKept DEF DecisionInv
<1>2. /\ CycleInv' /\ SnapshotOK(cycle', deployLog, featureData)
      /\ LateOK(cycle', disabledFeatures, lateDeploys)
  BY WhileFacts
<1>3. LateInv'
  BY DEF DecisionInv, LateInv
<1>4. LateOK(cycle', disabledFeatures', lateDeploys')
  <2>1. \A k \in disabledFeatures' : lateDeploys'[k] = 1 =>
            k \in disabledFeatures /\ lateDeploys[k] = 1
    OBVIOUS
  <2> QED
    BY <1>2, <2>1, Zenon DEF LateOK
<1>5. SnapshotOK(cycle', deployLog', featureData')
  BY <1>2 DEF logs
<1>6. DependencyFirst' /\ DecisionLogIsTransitions'
  BY DEF DecisionInv, logs, DependencyFirst, DecisionLogIsTransitions, SameDecision
<1> QED
  BY <1>1, <1>2, <1>3, <1>4, <1>5, <1>6, Zenon DEF DecisionInv

LEMMA ChangeSteps == ASSUME DecisionInv, ChangeStep PROVE DecisionInv'
<1>1. CASE \E a \in Assignable : Assign(a[1], a[2])
  <2>1. PICK a \in Assignable : Assign(a[1], a[2])
    BY <1>1
  <2>2. a[1] \in Charts /\ a[2] \in Targets
    BY TablesAssumption
  <2> QED
    BY <2>1, <2>2, AssignStep
<1>2. CASE \E id \in DOMAIN featureAssignments : Deactivate(id)
  BY <1>2, DeactivateStep
<1>3. CASE \E c \in Configs : SetConfig(c[1], c[2], c[3])
  BY <1>3, OtherChangeStep DEF SetConfig
<1>4. CASE \E e \in Touched, f \in FeatureNames : DisableFeature(e, f)
  <2>1. PICK e \in Touched, f \in FeatureNames : DisableFeature(e, f)
    BY <1>4
  <2> QED
    BY <2>1, DisabledChange DEF DisableFeature, Put, DecisionInv, LateInv
<1>5. CASE \E e \in Touched, f \in FeatureNames : EnableFeature(e, f)
  <2>1. PICK e \in Touched, f \in FeatureNames : EnableFeature(e, f)
    BY <1>5
  <2> QED
    BY <2>1, DisabledChange DEF EnableFeature, Drop, Restrict, DecisionInv, LateInv
<1>6. CASE \E e \in Touched, age \in {"fresh", "stale"} : ReportHealth(e, age)
  BY <1>6, OtherChangeStep DEF ReportHealth
<1>7. CASE \E e \in Touched, labels \in LabelSets : SetLabels(e, labels)
  BY <1>7, OtherChangeStep DEF SetLabels
<1> QED
  BY <1>1, <1>2, <1>3, <1>4, <1>5, <1>6, <1>7 DEF ChangeStep

-----------------------------------------------------------------------------
(* The deploy log *)

LEMMA LogOfItsRows ==
    ASSUME NEW S, NEW s \in Seq(S)
    PROVE  s \in Seq(Range(s))
<1> DEFINE R == Range(s)
<1>1. R = Range(s)
  OBVIOUS
<1> HIDE DEF R
<1>2. PICK n \in Nat : n = Len(s) /\ DOMAIN s = 1 .. n
  OBVIOUS
<1>3. \A i \in 1 .. n : s[i] \in R
  BY <1>1, <1>2 DEF Range
<1>4. s = [i \in 1 .. n |-> s[i]]
  BY <1>2
<1>5. s \in [1 .. n -> R]
  BY <1>3, <1>4
<1>6. s \in Seq(R)
  BY <1>5
<1> QED
  BY <1>1, <1>6

Appended(log, rows, more) ==
    /\ Grows(log, more) /\ more \in Seq(Range(more))
    /\ Len(log) \in Nat
    /\ \A i \in DOMAIN more : i \in Nat /\
          (i > Len(log) => i - Len(log) \in 1 .. Len(rows) /\ more[i] = rows[i - Len(log)])

LEMMA AppendedLog ==
    ASSUME NEW S, NEW log \in Seq(S), NEW T, NEW rows \in Seq(T)
    PROVE  Appended(log, rows, log \o rows)
<1>1. PICK more : more = log \o rows
  BY Zenon
<1>2. more \in Seq(S \cup T) /\ Grows(log, more) /\ Len(more) = Len(log) + Len(rows)
  BY <1>1, LogGrows
<1>3. more \in Seq(Range(more))
  BY <1>2, LogOfItsRows, Zenon
<1>4. \A i \in DOMAIN more : i \in Nat /\
         (i > Len(log) => i - Len(log) \in 1 .. Len(rows) /\ more[i] = rows[i - Len(log)])
  BY <1>1, <1>2
<1>5. Appended(log, rows, more)
  BY <1>2, <1>3, <1>4 DEF Appended
<1> QED
  BY <1>1, <1>5

LEMMA SameKeyMet ==
    ASSUME NEW log, NEW i, NEW charts, NEW r, NEW s, DependenciesMet(log, i, charts, r),
           s.env = r.env, s.feature = r.feature, s.version = r.version
    PROVE  DependenciesMet(log, i, charts, s)
BY Zenon DEF DependenciesMet

\* Rows are appended to deploy_log, those that are sent with their dependencies
\* deployed.
LEMMA DeployLogChange ==
    ASSUME DecisionInv, CycleInv', SnapshotOK(cycle', deployLog, featureData),
           LateInv', LateOK(cycle', disabledFeatures', lateDeploys'),
           UNCHANGED <<environments, featureData, featureAssignments, decisionLog>>,
           NEW T, NEW rows \in Seq(T), deployLog' = deployLog \o rows,
           \A i \in 1 .. Len(rows) :
              /\ DOMAIN rows[i] = {"diid", "env", "feature", "fa", "version", "status", "hash"}
              /\ <<rows[i].feature, rows[i].version>> \in DOMAIN featureData
              /\ rows[i].status = "sent" =>
                    DependenciesMet(deployLog, Len(deployLog) + 1, featureData, rows[i])
    PROVE  DecisionInv'
<1>1. /\ Grows(deployLog, deployLog') /\ deployLog' \in Seq(Range(deployLog'))
      /\ Len(deployLog) \in Nat
      /\ \A i \in DOMAIN deployLog' : i \in Nat
      /\ \A i \in DOMAIN deployLog' : i > Len(deployLog) =>
            /\ i - Len(deployLog) \in 1 .. Len(rows)
            /\ deployLog'[i] = rows[i - Len(deployLog)]
  <2>1. Appended(deployLog, rows, deployLog')
    BY AppendedLog DEF DecisionInv, TablesInv
  <2> QED
    BY <2>1, Zenon DEF Appended
<1>2. Keeps(featureData, featureData')
  BY DEF Keeps
<1>3. ASSUME NEW i \in DOMAIN deployLog'
      PROVE  \/ \E n \in 1 .. Len(rows) : deployLog'[i] = rows[n]
             \/ i \in DOMAIN deployLog /\ deployLog'[i] = deployLog[i]
  <2>1. CASE i > Len(deployLog)
    BY <1>1, <2>1
  <2>2. CASE ~(i > Len(deployLog))
    BY <1>1, <2>2 DEF Grows
  <2> QED
    BY <2>1, <2>2
<1>4. ASSUME NEW r \in Range(deployLog')
      PROVE  /\ DOMAIN r = {"diid", "env", "feature", "fa", "version", "status", "hash"}
             /\ <<r.feature, r.version>> \in DOMAIN featureData
  <2>1. PICK i \in DOMAIN deployLog' : r = deployLog'[i]
    BY DEF Range
  <2>2. CASE \E n \in 1 .. Len(rows) : r = rows[n]
    BY <2>2
  <2>3. CASE r \in Range(deployLog)
    BY <2>3 DEF DecisionInv, TablesInv
  <2> QED
    BY <1>3, <2>1, <2>2, <2>3 DEF Range
<1>5. TablesInv'
  BY <1>1, <1>4 DEF DecisionInv, TablesInv
<1>6. ASSUME NEW i \in DOMAIN deployLog', i > Len(deployLog), deployLog'[i].status = "sent"
      PROVE  DependenciesMet(deployLog', i, featureData', deployLog'[i])
  <2>1. PICK n \in 1 .. Len(rows) : deployLog'[i] = rows[n]
    BY <1>1, <1>6
  <2>2. PICK first \in Nat : /\ first = Len(deployLog) + 1
                             /\ first <= Len(deployLog) + 1 /\ first <= i /\ i \in Nat
    BY <1>1, <1>6
  <2>3. PICK r : r = deployLog'[i]
    BY Zenon
  <2>4. /\ <<r.feature, r.version>> \in DOMAIN featureData
        /\ DependenciesMet(deployLog, first, featureData, r)
    BY <1>6, <2>1, <2>2, <2>3
  <2>5. DependenciesMet(deployLog', i, featureData', r)
    BY <1>1, <1>2, <2>2, <2>4, MetGrows, Zenon
  <2> QED
    BY <2>3, <2>5
<1>7. DependencyFirst'
  BY <1>1, <1>2, <1>6, KeysStored, DependencyFirstGrows DEF DecisionInv
<1>8. SnapshotOK(cycle', deployLog', featureData')
  BY <1>1, <1>2, SnapshotGrows
<1>9. DecisionLogIsTransitions'
  BY DEF DecisionInv, DecisionLogIsTransitions, SameDecision
<1> QED
  BY <1>5, <1>7, <1>8, <1>9, Zenon DEF DecisionInv

LEMMA LatestFacts ==
    ASSUME NEW log, NEW e, NEW f, LatestOf(log, e, f) # NoRow
    PROVE  \E i \in DOMAIN log : LatestOf(log, e, f) = log[i]
<1> DEFINE rows == {r \in View(log) : r.env = e /\ r.feature = f}
<1>1. LatestOf(log, e, f) \in rows
  <2> HIDE DEF rows
  <2>1. One(rows) # NoRow
    BY Zenon DEF LatestOf, rows
  <2>2. One(rows) \in rows
    BY <2>1 DEF One
  <2> QED
    BY <2>2, Zenon DEF LatestOf, rows
<1>2. LatestOf(log, e, f) \in View(log)
  BY <1>1
<1> QED
  BY <1>2, ViewFacts

LEMMA AnswerStep ==
    ASSUME DecisionInv, NEW e, NEW f, NEW outcome \in Outcomes, Answer(e, f, outcome)
    PROVE  DecisionInv'
<1>1. PICK i \in DOMAIN deployLog : LatestOf(deployLog, e, f) = deployLog[i]
  BY LatestFacts DEF Answer
<1> DEFINE row == [deployLog[i] EXCEPT !.status = outcome]
<1>2. /\ While({"latest", "deployed"}) /\ deployLog' = Append(deployLog, row)
      /\ UNCHANGED <<environments, featureData, featureAssignments, decisionLog,
                     disabledFeatures, lateDeploys>>
  BY <1>1 DEF Answer, inputTables
<1>3. /\ DOMAIN deployLog[i] = {"diid", "env", "feature", "fa", "version", "status", "hash"}
      /\ <<deployLog[i].feature, deployLog[i].version>> \in DOMAIN featureData
  BY DEF DecisionInv, TablesInv, Range
<1>4. /\ DOMAIN row = {"diid", "env", "feature", "fa", "version", "status", "hash"}
      /\ row.feature = deployLog[i].feature /\ row.version = deployLog[i].version
      /\ row.status = outcome
  BY <1>3
<1>5. outcome # "sent"
  BY DecisionAssumption
<1> HIDE DEF row
<1>6. PICK rows : rows = <<row>>
  BY Zenon
<1>7. rows \in Seq({row}) /\ Len(rows) = 1 /\ rows[1] = row
  BY <1>6
<1>8. deployLog' = deployLog \o rows
  <2>1. deployLog \in Seq(Range(deployLog))
    BY DEF DecisionInv, TablesInv
  <2> QED
    BY <1>2, <1>6, <2>1
<1>9. \A n \in 1 .. Len(rows) :
         /\ DOMAIN rows[n] = {"diid", "env", "feature", "fa", "version", "status", "hash"}
         /\ <<rows[n].feature, rows[n].version>> \in DOMAIN featureData
         /\ rows[n].status # "sent"
  BY <1>3, <1>4, <1>5, <1>7
<1>10. /\ CycleInv' /\ SnapshotOK(cycle', deployLog, featureData)
       /\ LateInv' /\ LateOK(cycle', disabledFeatures', lateDeploys')
  BY <1>2, WhileFacts DEF DecisionInv, LateInv
<1> QED
  BY <1>2, <1>7, <1>8, <1>9, <1>10, DeployLogChange

LEMMA DeployStep == ASSUME DecisionInv, Deploy PROVE DecisionInv'
<1> DEFINE results == cycle.results
           sent == SetToSeq(results)
           rows == [n \in DOMAIN sent |-> SentRow(sent[n], n)]
<1>1. /\ cycle.pc = "deploy" /\ cycle' = Idle /\ deployLog' = deployLog \o rows
      /\ lateDeploys' = [k \in DOMAIN lateDeploys |->
            IF \E r \in results : k = <<r.env, r.feature>>
            THEN lateDeploys[k] + 1 ELSE lateDeploys[k]]
      /\ UNCHANGED <<environments, featureData, featureAssignments, decisionLog, disabledFeatures>>
  BY DEF Deploy, inputTables
<1>2. /\ IsFiniteSet(results)
      /\ \A r \in results : /\ <<r.feature, r.version>> \in DOMAIN featureData
                            /\ DependenciesMet(deployLog, Len(deployLog) + 1, featureData, r)
  BY <1>1, Zenon DEF DecisionInv, SnapshotOK
<1>3. \A k \in disabledFeatures : lateDeploys[k] = 1 =>
         \A r \in results : <<r.env, r.feature>> # k
  BY <1>1, Zenon DEF DecisionInv, LateOK
<1> HIDE DEF results
<1>4. /\ Len(sent) \in Nat /\ DOMAIN sent = 1 .. Len(sent)
      /\ \A n \in 1 .. Len(sent) : sent[n] \in results
  BY <1>2, SetToSeqFacts
<1> HIDE DEF sent
<1>5. ASSUME NEW r, NEW n
      PROVE  LET s == SentRow(r, n)
             IN  /\ DOMAIN s = {"diid", "env", "feature", "fa", "version", "status", "hash"}
                 /\ s.env = r.env /\ s.feature = r.feature /\ s.version = r.version
  BY DEF SentRow
<1>6. PICK T : rows \in Seq(T) /\ Len(rows) = Len(sent)
  <2>1. rows \in Seq({SentRow(sent[n], n) : n \in 1 .. Len(sent)}) /\ Len(rows) = Len(sent)
    BY <1>4
  <2> QED
    BY <2>1
<1>7. ASSUME NEW n \in 1 .. Len(rows)
      PROVE  /\ DOMAIN rows[n] = {"diid", "env", "feature", "fa", "version", "status", "hash"}
             /\ <<rows[n].feature, rows[n].version>> \in DOMAIN featureData
             /\ DependenciesMet(deployLog, Len(deployLog) + 1, featureData, rows[n])
  <2>1. PICK r \in results : r = sent[n]
    BY <1>4, <1>6
  <2>2. rows[n] = SentRow(r, n)
    BY <1>4, <1>6, <2>1
  <2>3. PICK s : s = rows[n]
    BY Zenon
  <2> HIDE DEF rows
  <2>4. /\ DOMAIN s = {"diid", "env", "feature", "fa", "version", "status", "hash"}
        /\ s.env = r.env /\ s.feature = r.feature /\ s.version = r.version
    BY <1>5, <2>2, <2>3
  <2>5. DependenciesMet(deployLog, Len(deployLog) + 1, featureData, s)
    BY <1>2, <2>4, SameKeyMet, Zenon
  <2>6. <<s.feature, s.version>> \in DOMAIN featureData
    BY <1>2, <2>4
  <2> QED
    BY <2>3, <2>4, <2>5, <2>6
<1>8. LateInv'
  BY <1>1, <1>3 DEF DecisionInv, LateInv
<1>9. /\ CycleInv' /\ SnapshotOK(cycle', deployLog, featureData)
      /\ LateOK(cycle', disabledFeatures', lateDeploys')
  BY <1>1, IdleFacts DEF CycleInv
<1> HIDE DEF rows
<1> QED
  BY <1>1, <1>6, <1>7, <1>8, <1>9, DeployLogChange

-----------------------------------------------------------------------------
(* computeActions and the decision log *)

\* The decisions to deploy of a snapshot that has been read: their charts are
\* stored, and what they depend on has been deployed.
LEMMA DecidedFacts ==
    ASSUME TablesInv, NEW c, c.pc = "fetch", c.todo = {},
           SnapshotOK(c, deployLog, featureData),
           LateOK(c, disabledFeatures, lateDeploys),
           NEW d \in c.snap["assignments"], NEW e, NEW r \in decide(c.snap, e, d),
           r.action = "deploy"
    PROVE  /\ <<r.feature, r.version>> \in DOMAIN featureData
           /\ DependenciesMet(deployLog, Len(deployLog) + 1, featureData, r)
           /\ \A k \in disabledFeatures : lateDeploys[k] = 1 => <<r.env, r.feature>> # k
<1>1. HasRead(c, "assignments") /\ HasRead(c, "deployed") /\ HasRead(c, "disabled")
  BY DEF HasRead
<1>2. r.env = e /\ r.feature = d.feature /\ r.version = d.version
  BY DecideKeys
<1>3. <<e, d.feature>> \notin c.snap["disabled"]
  BY DecideGates
<1>4. checkDependencies(d.chart, e, c.snap["deployed"]) = {}
  BY DecideGates
<1>5. <<d.feature, d.version>> \in DOMAIN featureData /\ d.chart = featureData[<<d.feature, d.version>>]
  BY <1>1, Zenon DEF SnapshotOK
<1>6. DOMAIN d.chart.dependencies \subseteq Nat
  BY <1>5, TablesAssumption DEF TablesInv
<1>7. \A g : <<e, g>> \in c.snap["deployed"] =>
         DeployedBefore(deployLog, Len(deployLog) + 1, e, g)
  <2>1. \A k \in c.snap["deployed"] : DeployedBefore(deployLog, Len(deployLog) + 1, k[1], k[2])
    BY <1>1, Zenon DEF SnapshotOK
  <2> SUFFICES ASSUME NEW g, <<e, g>> \in c.snap["deployed"]
               PROVE  DeployedBefore(deployLog, Len(deployLog) + 1, e, g)
    OBVIOUS
  <2>2. PICK k \in c.snap["deployed"] : k = <<e, g>>
    BY Zenon
  <2>3. k[1] = e /\ k[2] = g
    BY <2>2
  <2> QED
    BY <2>1, <2>3
<1>8. ASSUME NEW n \in DOMAIN d.chart.dependencies
      PROVE  LET dep == d.chart.dependencies[n]
             IN  /\ \A g \in dep.allOf : DeployedBefore(deployLog, Len(deployLog) + 1, e, g)
                 /\ dep.anyOf # {} => \E g \in dep.anyOf :
                       DeployedBefore(deployLog, Len(deployLog) + 1, e, g)
  <2> DEFINE dep == d.chart.dependencies[n]
  <2>1. /\ \A g \in dep.allOf : <<e, g>> \in c.snap["deployed"]
        /\ dep.anyOf # {} => \E g \in dep.anyOf : <<e, g>> \in c.snap["deployed"]
    BY <1>4, <1>6, CheckedFacts, Zenon
  <2> QED
    BY <1>7, <2>1, Zenon
<1>9. DependenciesMet(deployLog, Len(deployLog) + 1, featureData, r)
  <2>1. featureData[<<r.feature, r.version>>] = d.chart
    BY <1>2, <1>5
  <2>2. r.env = e
    BY <1>2
  <2> QED
    BY <1>8, <2>1, <2>2, Zenon DEF DependenciesMet
<1>10. \A k \in disabledFeatures : lateDeploys[k] = 1 => <<r.env, r.feature>> # k
  <2>1. \A k \in disabledFeatures : lateDeploys[k] = 1 => k \in c.snap["disabled"]
    BY <1>1, Zenon DEF LateOK
  <2> QED
    BY <1>2, <1>3, <2>1
<1> QED
  BY <1>2, <1>5, <1>9, <1>10

\* Rows that differ from the latest rows and from each other are transitions.
LEMMA TransitionsGrow ==
    ASSUME DecisionLogIsTransitions, NEW S, decisionLog \in Seq(S),
           NEW results, IsFiniteSet(results),
           \A r, s \in results : r.env = s.env /\ r.feature = s.feature => r = s,
           AppendDecisions(Changed(results, View(decisionLog)))
    PROVE  DecisionLogIsTransitions' /\ decisionLog' \in Seq(Range(decisionLog'))
<1> DEFINE new == Changed(results, View(decisionLog))
           rows == SetToSeq(new)
<1>1. /\ new \subseteq results
      /\ \A r \in new : \A p \in View(decisionLog) : ~SameDecision(p, r)
  BY Zenon DEF Changed
<1>2. IsFiniteSet(new)
  <2> HIDE DEF new
  <2> QED
    BY <1>1, FS_Subset
<1> HIDE DEF new
<1>3. /\ rows \in Seq(new) /\ DOMAIN rows = 1 .. Len(rows)
      /\ \A i \in DOMAIN rows : rows[i] \in new
      /\ \A i, j \in DOMAIN rows : rows[i] = rows[j] => i = j
  BY <1>2, SetToSeqFacts
<1>4. decisionLog' = decisionLog \o rows
  BY DEF AppendDecisions, new
<1> HIDE DEF rows
<1>5. Appended(decisionLog, rows, decisionLog')
  BY <1>3, <1>4, AppendedLog
<1> DEFINE L == Len(decisionLog)
<1>6. /\ L \in Nat /\ DOMAIN decisionLog = 1 .. L
      /\ DOMAIN decisionLog' = 1 .. Len(decisionLog') /\ Len(decisionLog') \in Nat
      /\ \A i \in 1 .. L : decisionLog'[i] = decisionLog[i] /\ i \in DOMAIN decisionLog'
      /\ \A i \in DOMAIN decisionLog' : i \in Nat /\
            (i > L => i - L \in 1 .. Len(rows) /\ decisionLog'[i] = rows[i - L])
  BY <1>5 DEF Appended, Grows
<1>7. ASSUME NEW j \in DOMAIN decisionLog', NEW i \in 1 .. j - 1,
             SameDecision(decisionLog'[i], decisionLog'[j])
      PROVE  \E n \in i + 1 .. j - 1 : /\ decisionLog'[n].env = decisionLog'[j].env
                                      /\ decisionLog'[n].feature = decisionLog'[j].feature
  <2>1. j \in Nat /\ i \in Nat /\ i < j /\ i \in DOMAIN decisionLog'
    BY <1>6
  <2>2. CASE j <= L
    <3>1. j \in DOMAIN decisionLog /\ decisionLog'[j] = decisionLog[j] /\ decisionLog'[i] = decisionLog[i]
      BY <1>6, <2>1, <2>2
    <3>2. PICK n \in i + 1 .. j - 1 : /\ decisionLog[n].env = decisionLog[j].env
                                     /\ decisionLog[n].feature = decisionLog[j].feature
      BY <1>7, <3>1 DEF DecisionLogIsTransitions
    <3>3. decisionLog'[n] = decisionLog[n]
      BY <1>6, <2>1, <2>2
    <3> QED
      BY <3>1, <3>2, <3>3
  <2>3. CASE j > L /\ i > L
    <3>1. PICK r \in new : r = decisionLog'[i] /\ r = rows[i - L] /\ i - L \in DOMAIN rows
      BY <1>3, <1>6, <2>1, <2>3
    <3>2. PICK s \in new : s = decisionLog'[j] /\ s = rows[j - L] /\ j - L \in DOMAIN rows
      BY <1>3, <1>6, <2>1, <2>3
    <3>3. r = s
      BY <1>1, <1>7, <3>1, <3>2 DEF SameDecision
    <3>4. i - L = j - L
      BY <1>3, <3>1, <3>2, <3>3
    <3> QED
      BY <1>6, <2>1, <3>4
  <2>4. CASE j > L /\ i <= L
    <3>1. PICK s \in new : s = decisionLog'[j]
      BY <1>3, <1>6, <2>1, <2>4
    <3>2. PICK p : p = decisionLog[i] /\ p = decisionLog'[i]
      BY <1>6, <2>1, <2>4
    <3>3. SameDecision(p, s)
      BY <1>7, <3>1, <3>2
    <3>4. p \notin View(decisionLog)
      BY <1>1, <3>3
    <3>5. PICK n \in i + 1 .. L : /\ decisionLog[n].feature = decisionLog[i].feature
                                  /\ decisionLog[n].env = decisionLog[i].env
      BY <1>6, <2>1, <2>4, <3>2, <3>4, SMTT(30) DEF View
    <3>6. n \in i + 1 .. j - 1 /\ decisionLog'[n] = decisionLog[n]
      BY <1>6, <2>1, <2>4
    <3>7. p.env = s.env /\ p.feature = s.feature
      BY <3>3 DEF SameDecision
    <3> QED
      BY <3>1, <3>2, <3>5, <3>6, <3>7
  <2> QED
    BY <1>6, <2>1, <2>2, <2>3, <2>4
<1>8. DecisionLogIsTransitions'
  <2>1. \A j \in DOMAIN decisionLog' : \A i \in 1 .. j - 1 :
           SameDecision(decisionLog'[i], decisionLog'[j]) =>
           \E n \in i + 1 .. j - 1 : /\ decisionLog'[n].env = decisionLog'[j].env
                                    /\ decisionLog'[n].feature = decisionLog'[j].feature
    BY <1>7, Zenon
  <2> QED
    BY <2>1, Zenon DEF DecisionLogIsTransitions
<1>9. decisionLog' \in Seq(Range(decisionLog'))
  BY <1>5 DEF Appended
<1> QED
  BY <1>8, <1>9

LEMMA WriteResultLogsStep == ASSUME DecisionInv, WriteResultLogs PROVE DecisionInv'
<1>1. PICK snap : snap = cycle.snap
  BY Zenon
<1>2. PICK results \in Results(snap) :
         /\ AppendDecisions(Changed(results, ListLatestDecisions))
         /\ cycle' = [cycle EXCEPT !.pc = "deploy", !.snap = NoSnapshot,
                                   !.results = {r \in results : r.action = "deploy"}]
  BY <1>1, Zenon DEF WriteResultLogs
<1>3. /\ cycle.pc = "fetch" /\ cycle.todo = {}
      /\ UNCHANGED <<environments, featureData, featureAssignments, deployLog,
                     disabledFeatures, lateDeploys>>
  BY DEF WriteResultLogs, inputTables
<1> DEFINE chosen == {r \in results : r.action = "deploy"}
<1>4. PICK c : c = cycle'
  BY Zenon
<1>5. /\ DOMAIN c = {"pc", "todo", "snap", "results"}
      /\ c.pc = "deploy" /\ c.todo = {} /\ c.snap = NoSnapshot /\ c.results = chosen
  <2> HIDE DEF chosen
  <2>1. cycle' = [cycle EXCEPT !.pc = "deploy", !.snap = NoSnapshot, !.results = chosen]
    BY <1>2, Zenon DEF chosen
  <2> QED
    BY <1>3, <1>4, <2>1 DEF DecisionInv, CycleInv
<1>6. CycleInv'
  <2>1. DOMAIN NoSnapshot = Queries \cup {"envs"}
    BY DEF NoSnapshot
  <2> QED
    BY <1>4, <1>5, <2>1 DEF CycleInv
<1>7. IsFiniteSet(DOMAIN snap["envs"]) /\ IsFiniteSet(snap["assignments"])
  <2>1. HasRead(cycle, "assignments")
    BY <1>3 DEF HasRead
  <2>2. DOMAIN snap["envs"] = DOMAIN InitEnvironments /\ IsFiniteSet(snap["assignments"])
    BY <1>1, <1>3, <2>1, Zenon DEF DecisionInv, SnapshotOK
  <2> QED
    BY <2>2, TablesAssumption, Zenon
<1>8. /\ IsFiniteSet(results)
      /\ \A r, s \in results : r.env = s.env /\ r.feature = s.feature => r = s
      /\ \A r \in results : \E e, d : d \in snap["assignments"] /\ r \in decide(snap, e, d)
  BY <1>7, ResultsFacts
<1>9. ASSUME NEW r \in chosen
      PROVE  /\ <<r.feature, r.version>> \in DOMAIN featureData
             /\ DependenciesMet(deployLog, Len(deployLog) + 1, featureData, r)
             /\ \A k \in disabledFeatures : lateDeploys[k] = 1 => <<r.env, r.feature>> # k
  <2>1. PICK e, d : d \in snap["assignments"] /\ r \in decide(snap, e, d)
    BY <1>8
  <2>2. r.action = "deploy"
    OBVIOUS
  <2>3. PICK b : b = cycle
    BY Zenon
  <2>4. /\ b.pc = "fetch" /\ b.todo = {} /\ b.snap = snap
        /\ SnapshotOK(b, deployLog, featureData)
        /\ LateOK(b, disabledFeatures, lateDeploys)
        /\ d \in b.snap["assignments"] /\ r \in decide(b.snap, e, d)
    BY <1>1, <1>3, <2>1, <2>3 DEF DecisionInv
  <2> QED
    BY <2>2, <2>4, DecidedFacts, Zenon DEF DecisionInv
<1>10. SnapshotOK(c, deployLog, featureData) /\ LateOK(c, disabledFeatures, lateDeploys)
  <2>1. IsFiniteSet(chosen)
    BY <1>8, FS_Subset
  <2>2. c.pc # "fetch"
    BY <1>5
  <2> HIDE DEF chosen
  <2>3. SnapshotOK(c, deployLog, featureData)
    BY <1>5, <1>9, <2>1, <2>2, Zenon DEF SnapshotOK, HasRead
  <2>4. LateOK(c, disabledFeatures, lateDeploys)
    BY <1>5, <1>9, <2>2, Zenon DEF LateOK, HasRead
  <2> QED
    BY <2>3, <2>4
<1>11. DecisionLogIsTransitions' /\ decisionLog' \in Seq(Range(decisionLog'))
  BY <1>2, <1>8, TransitionsGrow, Zenon
     DEF DecisionInv, TablesInv, ListLatestDecisions, decision_status
<1>12. TablesInv'
  BY <1>3, <1>11 DEF DecisionInv, TablesInv
<1>13. LateInv' /\ DependencyFirst'
  BY <1>3 DEF DecisionInv, LateInv, DependencyFirst
<1>14. SnapshotOK(cycle', deployLog', featureData') /\ LateOK(cycle', disabledFeatures', lateDeploys')
  BY <1>3, <1>4, <1>10
<1> QED
  BY <1>6, <1>11, <1>12, <1>13, <1>14, Zenon DEF DecisionInv

-----------------------------------------------------------------------------
(* The specification *)

LEMMA InitFacts == ASSUME Init PROVE DecisionInv
<1> USE DEF Init
<1> DEFINE n == Len(InitAssigned)
<1>1. /\ n \in Nat /\ DOMAIN InitAssigned = 1 .. n
      /\ \A id \in 1 .. n : InitAssigned[id] \in Range(InitAssigned)
      /\ \A id \in 1 .. n : InitAssigned[id] \in Charts \X Targets
  BY TablesAssumption DEF Range
<1>2. \A a \in Range(InitAssigned) : a[1] \in Charts /\ a[2] \in Targets
  BY <1>1 DEF Range
<1>3. \A k \in DOMAIN featureData : featureData[k] \in Charts
  BY <1>2
<1>4. \A id \in 1 .. n :
         /\ AssignmentRow(id, InitAssigned[id][1], InitAssigned[id][2]) \in AssignmentType
         /\ featureAssignments[id] =
               AssignmentRow(id, InitAssigned[id][1], InitAssigned[id][2])
  BY <1>1, <1>2 DEF AssignmentRow, AssignmentType
<1>5. featureAssignments \in Seq(AssignmentType) /\ DOMAIN featureAssignments = 1 .. n
  BY <1>1, <1>4
<1>6. ASSUME NEW id \in 1 .. n
      PROVE  <<featureAssignments[id].feature, featureAssignments[id].version>> \in DOMAIN featureData
  <2>1. PICK a \in Range(InitAssigned) : a = InitAssigned[id]
    BY <1>1
  <2>2. /\ featureAssignments[id].feature = a[1].name
        /\ featureAssignments[id].version = a[1].version
    BY <1>4, <2>1 DEF AssignmentRow
  <2> QED
    BY <2>2
<1>7. TablesInv
  <2>1. \A d \in Range(featureAssignments) : <<d.feature, d.version>> \in DOMAIN featureData
    <3>1. \A d \in Range(featureAssignments) : \E id \in 1 .. n : d = featureAssignments[id]
      BY <1>5 DEF Range
    <3> QED
      BY <1>6, <3>1
  <2>2. deployLog = <<>> /\ decisionLog = <<>> /\ Range(<<>>) = {}
    BY DEF Range
  <2>3. <<>> \in Seq({})
    OBVIOUS
  <2>4. /\ deployLog \in Seq(Range(deployLog)) /\ decisionLog \in Seq(Range(decisionLog))
        /\ Range(deployLog) = {}
    BY <2>2, <2>3
  <2>5. environments = InitEnvironments
    OBVIOUS
  <2> HIDE DEF Init
  <2> QED
    BY <1>3, <1>5, <2>1, <2>4, <2>5 DEF TablesInv
<1>8. CycleInv /\ SnapshotOK(cycle, deployLog, featureData)
  BY IdleFacts DEF CycleInv
<1>9. /\ LateInv /\ LateOK(cycle, disabledFeatures, lateDeploys)
      /\ DependencyFirst /\ DecisionLogIsTransitions
  BY DEF LateInv, LateOK, DependencyFirst, DecisionLogIsTransitions, EmptyTable
<1> QED
  BY <1>7, <1>8, <1>9 DEF DecisionInv

LEMMA NextFacts == ASSUME DecisionInv, [Next]_vars PROVE DecisionInv'
<1>1. CASE LoopStep
  BY <1>1, StartCycleStep, FetchStep, WriteResultLogsStep, DeployStep DEF LoopStep
<1>2. CASE CycleFails
  BY <1>2, CycleFailsStep
<1>3. CASE AgentStep
  BY <1>3, AnswerStep DEF AgentStep
<1>4. CASE ChangeStep
  BY <1>4, ChangeSteps
<1>5. CASE UNCHANGED vars
  <2>1. TablesInv'
    BY <1>5, TablesKept DEF DecisionInv, vars, tables, logs
  <2>2. CycleInv'
    BY <1>5 DEF DecisionInv, vars, CycleInv
  <2> QED
    BY <1>5, <2>1, <2>2, TableChange DEF DecisionInv, vars, tables, logs, Keeps
<1> QED
  BY <1>1, <1>2, <1>3, <1>4, <1>5 DEF Next

\* The tables refer to each other the way the schema says, and what a cycle has
\* read stays true of them while operators and agents change them.
THEOREM DecisionInvariant == Spec => []DecisionInv
<1>1. Init => DecisionInv
  BY InitFacts
<1>2. DecisionInv /\ [Next]_vars => DecisionInv'
  BY NextFacts
<1> QED
  BY <1>1, <1>2, PTL DEF Spec

\* checkDependencies: no instruction is sent before every feature that its chart
\* depends on has been deployed in that environment, although the cycle that
\* decides reads the assignments and the deployed features at different moments
\* and sends later still.
THEOREM DependenciesComeFirst == Spec => []DependencyFirst
<1>1. DecisionInv => DependencyFirst
  BY DEF DecisionInv
<1> QED
  BY <1>1, DecisionInvariant, PTL

\* writeResultLogs: the decision log has a row only where a decision changed.
THEOREM DecisionLogHasTransitions == Spec => []DecisionLogIsTransitions
<1>1. DecisionInv => DecisionLogIsTransitions
  BY DEF DecisionInv
<1> QED
  BY <1>1, DecisionInvariant, PTL

\* DisableFeature: after a feature is disabled at most one deploy of it is sent,
\* by the cycle that had decided before, however many cycles follow.
THEOREM AtMostOneLateDeploy == Spec => []OneLateDeploy
<1>1. DecisionInv => OneLateDeploy
  BY DEF DecisionInv, LateInv, OneLateDeploy
<1> QED
  BY <1>1, DecisionInvariant, PTL

-----------------------------------------------------------------------------
(* The preview of the values *)

LEMMA InitStored == ASSUME Init PROVE StoredInv
<1>1. /\ DOMAIN InitAssigned = 1 .. Len(InitAssigned)
      /\ \A id \in DOMAIN InitAssigned : InitAssigned[id] \in Charts \X Targets
  BY TablesAssumption
<1>2. DOMAIN featureData = {<<a[1].name, a[1].version>> : a \in Range(InitAssigned)}
  BY DEF Init
<1>3. ASSUME NEW k \in DOMAIN featureData
      PROVE  k = <<featureData[k].name, featureData[k].version>>
  <2>1. \E c \in Charts : k = <<c.name, c.version>>
    BY <1>1, <1>2 DEF Range
  <2>2. featureData[k] = CHOOSE c \in Charts : k = <<c.name, c.version>>
    BY <1>2 DEF Init
  <2> QED
    BY <2>1, <2>2
<1> QED
  BY <1>3 DEF StoredInv, Init

LEMMA StoredStep == ASSUME StoredInv, [Next]_vars PROVE StoredInv'
<1>1. CASE UNCHANGED <<featureData, environmentValues>>
  BY <1>1 DEF StoredInv
<1>2. ASSUME NEW a \in Assignable, Assign(a[1], a[2]) PROVE StoredInv'
  <2>1. PICK chart, stored : chart = a[1] /\ stored = <<chart.name, chart.version>>
    OBVIOUS
  <2>2. /\ featureData' = IF stored \in DOMAIN featureData THEN featureData
                          ELSE Put(featureData, stored, chart)
        /\ environmentValues' = environmentValues
    BY <1>2, <2>1 DEF Assign
  <2> QED
    BY <2>1, <2>2 DEF StoredInv, Put
<1>3. CASE LoopStep
  BY <1>1, <1>3 DEF LoopStep, StartCycle, Fetch, WriteResultLogs, Deploy, tables, inputTables
<1>4. CASE CycleFails
  BY <1>1, <1>4 DEF CycleFails, tables
<1>5. CASE AgentStep
  BY <1>1, <1>5 DEF AgentStep, Answer, inputTables
<1>6. CASE ChangeStep
  BY <1>1, <1>2, <1>6 DEF ChangeStep, Deactivate, SetConfig, DisableFeature, EnableFeature,
     ReportHealth, SetLabels
<1>7. CASE UNCHANGED vars
  BY <1>1, <1>7 DEF vars, tables
<1> QED
  BY <1>3, <1>4, <1>5, <1>6, <1>7 DEF Next

\* Both ways give templates the same values of an environment.
LEMMA SameValues ==
    ASSUME StoredInv, NoReservedValues, NEW e
    PROVE  MappingValues(e, TRUE) = SnapshotValues(environments, environmentValues, e)
<1> DEFINE keys == ValueKeys(environmentValues, e) \cup ReservedKeys
           shown == [k \in keys |->
                       IF k \in ReservedKeys THEN Identity(e, environments[e].kind, k)
                       ELSE MappingValue(environmentValues[<<e, k>>], TRUE)]
           read == [k \in keys |->
                       IF <<e, k>> \in DOMAIN environmentValues
                       THEN environmentValues[<<e, k>>].value
                       ELSE Identity(e, environments[e].kind, k)]
<1>1. /\ \A y \in DOMAIN environmentValues : y = <<y[1], y[2]>> /\ y[2] \notin ReservedKeys
  BY TablesAssumption DEF StoredInv, NoReservedValues
<1>2. ASSUME NEW k \in keys PROVE shown[k] = read[k]
  <2>1. CASE k \in ReservedKeys
    <3>1. <<e, k>> \notin DOMAIN environmentValues
      BY <1>1, <2>1
    <3> QED
      BY <1>2, <2>1, <3>1
  <2>2. CASE k \notin ReservedKeys
    <3>1. <<e, k>> \in DOMAIN environmentValues
      BY <1>1, <1>2, <2>2 DEF ValueKeys
    <3>2. \A row : MappingValue(row, TRUE) = row.value
      BY DEF MappingValue
    <3> QED
      BY <1>2, <2>2, <3>1, <3>2
  <2> QED
    BY <2>1, <2>2
<1>3. shown = read
  BY <1>2
<1>4. MappingValues(e, TRUE) = shown /\ SnapshotValues(environments, environmentValues, e) = read
  BY Zenon DEF MappingValues, SnapshotValues
<1> QED
  BY <1>3, <1>4, Zenon

LEMMA SameMapping ==
    ASSUME StoredInv, NoReservedValues, NEW e
    PROVE  MappingValuesForEnvironment(e, TRUE)
             = buildEnvValues(environments, environmentValues, e)
<1>1. \A x : MappingValues(x, TRUE) = SnapshotValues(environments, environmentValues, x)
  BY SameValues, Zenon
<1>2. {MappingValues(x, TRUE) : x \in TenantEnvs(environments, e) \ ManagementOf(environments, e)}
        = {SnapshotValues(environments, environmentValues, x) :
             x \in TenantEnvs(environments, e) \ ManagementOf(environments, e)}
  BY <1>1, Zenon
<1> QED
  BY <1>1, <1>2, Zenon DEF MappingValuesForEnvironment, buildEnvValues

\* The page and the loop render one assignment from the same arguments.
LEMMA SameRendering ==
    ASSUME DecisionInv, StoredInv, NoReservedValues, NEW w \in Winners(Now), NEW order
    PROVE  helmValues(ChartOf(w[2]), w[1], order) = Rendered(Now, w[1], w[2], order)
<1>1. PICK e, d : e = w[1] /\ d = w[2]
  BY Zenon
<1>2. /\ Now["envs"] = environments /\ Now["assignments"] = ListLatestFeatureAssignments
      /\ Now["values"] = environmentValues /\ Now["global"] = globalConfig
      /\ Now["env"] = envConfig
  BY DEF Now, Query, Queries, ListAllTenantEnvironments, ListAllEnvironmentValues,
     ListAllGlobalConfigs, ListAllEnvConfigs
<1>3. d \in ListLatestFeatureAssignments
  BY <1>1, <1>2, WinnersFacts
<1>4. /\ d.chart = ChartOf(d) /\ <<d.feature, d.version>> \in DOMAIN featureData
  BY <1>3, ReadAssignments DEF DecisionInv, ChartOf
<1>5. ChartOf(d).name = d.feature
  BY <1>4 DEF StoredInv, ChartOf
<1>6. PICK chart : chart = ChartOf(d)
  BY Zenon
<1>7. PICK rows : rows = mergeConfigRows(buildGlobalConfigMap(globalConfig, d.feature),
                                         buildEnvConfigMap(envConfig, e, d.feature),
                                         configIncludeKeys(chart, environments[e].kind))
  BY Zenon
<1>8. MergeConfigs(ListGlobalConfigByFeature(d.feature), ListEnvConfigByFeature(e, d.feature),
                   configIncludeKeys(chart, environments[e].kind)) = rows
  <2>1. ListGlobalConfigByFeature(d.feature) = buildGlobalConfigMap(globalConfig, d.feature)
    BY Zenon DEF ListGlobalConfigByFeature, buildGlobalConfigMap
  <2>2. ListEnvConfigByFeature(e, d.feature) = buildEnvConfigMap(envConfig, e, d.feature)
    BY Zenon DEF ListEnvConfigByFeature, buildEnvConfigMap
  <2>3. \A g, h, keys : MergeConfigs(g, h, keys) = mergeConfigRows(g, h, keys)
    BY Zenon DEF MergeConfigs, mergeConfigRows
  <2> QED
    BY <1>7, <2>1, <2>2, <2>3, Zenon
<1>9. PICK mv : /\ mv = MappingValuesForEnvironment(e, TRUE)
                /\ mv = buildEnvValues(environments, environmentValues, e)
  BY SameMapping, Zenon
<1>10. helmValues(chart, e, order) = RenderHelmValues(chart, mv, rows, order)
  <2>1. PICK data : data = fetchHelmRenderData(chart, e)
    BY Zenon
  <2>2. data.mv = mv /\ data.merged = rows
    <3>1. chart.name = d.feature
      BY <1>5, <1>6
    <3>2. PICK secret : secret = ListSecretKeysForTenant(e)
      BY Zenon
    <3>3. data = [mv |-> mv, merged |-> rows, secretEnvKeys |-> secret]
      BY <1>8, <1>9, <2>1, <3>1, <3>2, Zenon DEF fetchHelmRenderData
    <3> QED
      BY <3>3
  <2>3. helmValues(chart, e, order) = RenderHelmValues(chart, data.mv, data.merged, order)
    BY <2>1, Zenon DEF helmValues
  <2> QED
    BY <2>2, <2>3, Zenon
<1>11. Rendered(Now, e, d, order) = RenderHelmValues(chart, mv, rows, order)
  BY <1>2, <1>4, <1>6, <1>7, <1>9, Zenon DEF Rendered
<1> QED
  BY <1>1, <1>6, <1>10, <1>11, Zenon

\* The values a page previews for a winning assignment are the ones the loop
\* would deploy, for any charts, templates, configuration and range order,
\* unless an environment has a value called name or kind.
THEOREM PreviewIsDeployed == NoReservedValues => (Spec => []PreviewIsWhatIsDeployed)
<1> SUFFICES ASSUME NoReservedValues PROVE Spec => []PreviewIsWhatIsDeployed
  OBVIOUS
<1>1. DecisionInv /\ StoredInv => PreviewIsWhatIsDeployed
  BY SameRendering, Zenon DEF PreviewIsWhatIsDeployed
<1>2. Init => StoredInv
  BY InitStored
<1>3. StoredInv /\ [Next]_vars => StoredInv'
  BY StoredStep
<1> QED
  BY <1>1, <1>2, <1>3, DecisionInvariant, PTL DEF Spec
-----------------------------------------------------------------------------
(* Instructions *)

\* A log of n instructions, by their numbers.
LEMMA Numbers ==
    ASSUME NEW S, NEW log \in Seq(S), InstructionsOK(log)
    PROVE  \E n \in Nat : n = Cardinality(Diids(log)) /\ Diids(log) = 1 .. n
<1>1. PICK D : D = Diids(log)
  BY Zenon
<1>2. PICK L \in Nat : DOMAIN log = 1 .. L
  OBVIOUS
<1>3. PICK f : f = [i \in 1 .. L |-> log[i].diid]
  BY Zenon
<1>4. f \in Surjection(1 .. L, D)
  BY <1>1, <1>2, <1>3 DEF Surjection, Diids, Range
<1>5. IsFiniteSet(D)
  BY <1>4, FS_Interval, FS_Surjection
<1> QED
  BY <1>1, <1>5, FS_CardinalityType DEF InstructionsOK

\* The latest row of a feature in an environment is the last one about it.
LEMMA LatestIsLast ==
    ASSUME NEW S, NEW log \in Seq(S), NEW e, NEW f, LatestOf(log, e, f) # NoRow
    PROVE  \E i \in DOMAIN log :
             /\ LatestOf(log, e, f) = log[i] /\ log[i].env = e /\ log[i].feature = f
             /\ \A n \in DOMAIN log : log[n].env = e /\ log[n].feature = f => n <= i
<1>1. PICK rows : rows = {r \in View(log) : r.env = e /\ r.feature = f}
  BY Zenon
<1>2. LatestOf(log, e, f) = One(rows)
  BY <1>1 DEF LatestOf
<1>3. PICK r \in rows : LatestOf(log, e, f) = r
  BY <1>2 DEF One
<1>4. PICK i \in DOMAIN log :
         /\ r = log[i]
         /\ \A n \in i + 1 .. Len(log) : log[n].feature # log[i].feature \/ log[n].env # log[i].env
  BY <1>1, <1>3 DEF View
<1>5. r.env = e /\ r.feature = f
  BY <1>1, <1>3
<1>6. ASSUME NEW n \in DOMAIN log, log[n].env = e, log[n].feature = f PROVE n <= i
  <2>1. n \in Nat /\ i \in Nat /\ Len(log) \in Nat /\ n <= Len(log)
    OBVIOUS
  <2>2. n \notin i + 1 .. Len(log)
    BY <1>4, <1>5, <1>6
  <2> QED
    BY <2>1, <2>2
<1> QED
  BY <1>3, <1>4, <1>5, <1>6

\* An answer is one more row of the latest instruction.
LEMMA AnswerNumbers ==
    ASSUME NEW S, NEW log \in Seq(S), InstructionsOK(log), NEW e, NEW f,
           NEW latest, latest = LatestOf(log, e, f), latest # NoRow,
           IsInProgress(latest.status),
           DOMAIN latest = {"diid", "env", "feature", "fa", "version", "status", "hash"},
           NEW outcome, NEW more, more = Append(log, [latest EXCEPT !.status = outcome])
    PROVE  InstructionsOK(more)
<1>1. PICK i \in DOMAIN log :
         /\ latest = log[i] /\ log[i].env = e /\ log[i].feature = f
         /\ \A n \in DOMAIN log : log[n].env = e /\ log[n].feature = f => n <= i
  BY LatestIsLast
<1>2. PICK row : row = [latest EXCEPT !.status = outcome]
  BY Zenon
<1>3. row.diid = log[i].diid /\ SameInstruction(row, log[i])
  BY <1>1, <1>2 DEF SameInstruction
<1>4. PICK L \in Nat : L = Len(log) /\ DOMAIN log = 1 .. L
  OBVIOUS
<1>5. /\ DOMAIN more = 1 .. L + 1 /\ more[L + 1] = row
      /\ \A n \in 1 .. L : more[n] = log[n]
  BY <1>2, <1>4
<1>6. Diids(more) = Diids(log)
  <2>1. \A n \in DOMAIN more : \E m \in DOMAIN log : more[n].diid = log[m].diid
    BY <1>3, <1>4, <1>5
  <2>2. \A m \in DOMAIN log : \E n \in DOMAIN more : more[n].diid = log[m].diid
    BY <1>4, <1>5
  <2>3. /\ Diids(more) = {more[n].diid : n \in DOMAIN more}
        /\ Diids(log) = {log[n].diid : n \in DOMAIN log}
    BY DEF Diids, Range
  <2>4. ASSUME NEW x \in Diids(more) PROVE x \in Diids(log)
    <3>1. PICK n \in DOMAIN more : x = more[n].diid
      BY <2>3, Zenon
    <3> QED
      BY <2>1, <2>3, <3>1, Zenon
  <2>5. ASSUME NEW x \in Diids(log) PROVE x \in Diids(more)
    <3>1. PICK n \in DOMAIN log : x = log[n].diid
      BY <2>3, Zenon
    <3> QED
      BY <2>2, <2>3, <3>1, Zenon
  <2> QED
    BY <2>4, <2>5, Zenon
<1>7. \A n \in 1 .. L + 1 : \E m \in 1 .. L :
         /\ more[n].diid = log[m].diid /\ SameInstruction(more[n], log[m])
         /\ n \in 1 .. L => n = m
         /\ n = L + 1 => m = i
  <2>1. \A m \in 1 .. L : SameInstruction(log[m], log[m])
    BY DEF SameInstruction
  <2> QED
    BY <1>3, <1>4, <1>5, <2>1
<1>8. ASSUME NEW a \in DOMAIN more, NEW b \in DOMAIN more
      PROVE  /\ more[a].diid = more[b].diid => SameInstruction(more[a], more[b])
             /\ (a < b /\ more[a].diid = more[b].diid) => IsInProgress(more[a].status)
             /\ (a < b /\ more[a].env = more[b].env /\ more[a].feature = more[b].feature)
                   => more[a].diid <= more[b].diid
  <2>1. PICK x \in 1 .. L : /\ more[a].diid = log[x].diid /\ SameInstruction(more[a], log[x])
                            /\ a \in 1 .. L => a = x
                            /\ a = L + 1 => x = i
    BY <1>5, <1>7
  <2>2. PICK y \in 1 .. L : /\ more[b].diid = log[y].diid /\ SameInstruction(more[b], log[y])
                            /\ b \in 1 .. L => b = y
                            /\ b = L + 1 => y = i
    BY <1>5, <1>7
  <2>3. more[a].diid = more[b].diid => SameInstruction(more[a], more[b])
    <3>1. log[x].diid = log[y].diid => SameInstruction(log[x], log[y])
      BY <1>4, Zenon DEF InstructionsOK
    <3> QED
      BY <2>1, <2>2, <3>1, Zenon DEF SameInstruction
  <2>4. ASSUME a < b, more[a].env = more[b].env, more[a].feature = more[b].feature
        PROVE  more[a].diid <= more[b].diid
    <3>1. a = x /\ log[x].env = log[y].env /\ log[x].feature = log[y].feature
      BY <1>5, <2>1, <2>2, <2>4 DEF SameInstruction
    <3>2. x < y \/ x = y
      <4>1. CASE b = L + 1
        BY <1>1, <1>4, <2>2, <3>1, <4>1
      <4>2. CASE b \in 1 .. L
        BY <2>2, <2>4, <3>1, <4>2
      <4>3. b \in 1 .. L + 1
        BY <1>5, Zenon
      <4>4. \A n \in 1 .. L + 1 : n = L + 1 \/ n \in 1 .. L
        OBVIOUS
      <4> QED
        BY <4>1, <4>2, <4>3, <4>4, Zenon
    <3>3. log[x].diid \in Nat /\ log[y].diid \in Nat
      <4>1. log[x].diid \in Diids(log) /\ log[y].diid \in Diids(log)
        BY <1>4 DEF Diids, Range
      <4>2. PICK d \in Nat : Diids(log) = 1 .. d
        BY Numbers, Zenon
      <4> QED
        BY <4>1, <4>2, SMTT(30)
    <3>4. x < y => log[x].diid <= log[y].diid
      BY <1>4, <3>1, Zenon DEF InstructionsOK
    <3>5. log[x].diid <= log[y].diid
      BY <3>2, <3>3, <3>4
    <3> QED
      BY <2>1, <2>2, <3>5, Zenon
  <2>5. ASSUME a < b, more[a].diid = more[b].diid PROVE IsInProgress(more[a].status)
    <3>1. a = x /\ a \in 1 .. L /\ more[a] = log[a] /\ log[x].diid = log[y].diid
      BY <1>5, <2>1, <2>2, <2>5
    <3>2. CASE b \in 1 .. L
      BY <1>4, <2>2, <2>5, <3>1, <3>2 DEF InstructionsOK
    <3>3. CASE b = L + 1
      <4>1. y = i /\ i \in DOMAIN log /\ x \in DOMAIN log
        BY <1>4, <2>2, <3>3
      <4>2. SameInstruction(log[x], log[i])
        BY <3>1, <4>1, Zenon DEF InstructionsOK
      <4>3. x <= i
        BY <1>1, <4>1, <4>2 DEF SameInstruction
      <4>4. CASE x = i
        BY <1>1, <3>1, <4>4, Zenon
      <4>5. CASE x < i
        BY <3>1, <4>1, <4>5, Zenon DEF InstructionsOK
      <4> QED
        BY <1>4, <4>1, <4>3, <4>4, <4>5
    <3> QED
      BY <1>5, <3>2, <3>3
  <2> QED
    BY <2>3, <2>4, <2>5
<1> QED
  BY <1>6, <1>8 DEF InstructionsOK

\* What is sent gets the next numbers: m rows after L rows of n instructions.
SentAfter(log, more, L, m, n) ==
    /\ L \in Nat /\ m \in Nat /\ n \in Nat
    /\ DOMAIN log = 1 .. L /\ DOMAIN more = 1 .. L + m
    /\ \A a \in 1 .. L : more[a] = log[a]
    /\ \A a \in 1 .. m : more[L + a].diid = n + a
    /\ Diids(log) = 1 .. n

LEMMA MoreNumbers ==
    ASSUME NEW log, NEW more, NEW L, NEW m, NEW n,
           SentAfter(log, more, L, m, n), InstructionsOK(log)
    PROVE  InstructionsOK(more)
<1> USE DEF SentAfter
<1>1. \A a \in L + 1 .. L + m : more[a].diid = n + (a - L)
  <2>1. \A a \in L + 1 .. L + m : a - L \in 1 .. m /\ L + (a - L) = a
    OBVIOUS
  <2> QED
    BY <2>1
<1>2. /\ Diids(more) = {more[a].diid : a \in DOMAIN more}
      /\ Diids(log) = {log[a].diid : a \in DOMAIN log}
  BY DEF Diids, Range
<1>3. \A a \in 1 .. L : more[a].diid \in 1 .. n
  BY <1>2, Zenon
<1>4. Diids(more) = 1 .. n + m
  <2>1. \A a \in DOMAIN more : more[a].diid \in 1 .. n + m
    BY <1>1, <1>3
  <2>2. ASSUME NEW d \in 1 .. n + m PROVE \E a \in DOMAIN more : more[a].diid = d
    <3>1. CASE d \in 1 .. n
      <4>1. PICK a \in 1 .. L : log[a].diid = d
        BY <1>2, <3>1, Zenon
      <4>2. a \in DOMAIN more
        OBVIOUS
      <4> QED
        BY <4>1, <4>2
    <3>2. CASE d \notin 1 .. n
      <4>1. d - n \in 1 .. m /\ n + (d - n) = d
        BY <3>2
      <4>2. more[L + (d - n)].diid = d /\ L + (d - n) \in 1 .. L + m
        BY <4>1
      <4> QED
        BY <4>2
    <3> QED
      BY <3>1, <3>2
  <2>3. PICK all : all = 1 .. n + m
    BY Zenon
  <2>4. ASSUME NEW d \in Diids(more) PROVE d \in all
    <3>1. PICK a \in DOMAIN more : d = more[a].diid
      BY <1>2, Zenon
    <3> QED
      BY <2>1, <2>3, <3>1, Zenon
  <2>5. ASSUME NEW d \in all PROVE d \in Diids(more)
    <3>1. PICK a \in DOMAIN more : more[a].diid = d
      BY <2>2, <2>3, Zenon
    <3> QED
      BY <1>2, <3>1, Zenon
  <2> QED
    BY <2>3, <2>4, <2>5, Zenon
<1>5. Cardinality(Diids(more)) = n + m
  <2>1. Cardinality(1 .. n + m) = n + m
    <3>1. PICK k \in Nat : k = n + m
      OBVIOUS
    <3>2. Cardinality(1 .. k) = IF 1 > k THEN 0 ELSE k - 1 + 1
      BY <3>1, FS_Interval
    <3> QED
      BY <3>1, <3>2
  <2> QED
    BY <1>4, <2>1, Zenon
<1>6. ASSUME NEW a \in DOMAIN more, NEW b \in DOMAIN more
      PROVE  /\ more[a].diid = more[b].diid => SameInstruction(more[a], more[b])
             /\ (a < b /\ more[a].diid = more[b].diid) => IsInProgress(more[a].status)
             /\ (a < b /\ more[a].env = more[b].env /\ more[a].feature = more[b].feature)
                   => more[a].diid <= more[b].diid
  <2>1. CASE a \in 1 .. L /\ b \in 1 .. L
    BY <2>1, Zenon DEF InstructionsOK
  <2>2. CASE a \in L + 1 .. L + m /\ b \in L + 1 .. L + m
    <3>1. more[a].diid = n + (a - L) /\ more[b].diid = n + (b - L)
      BY <1>1, <2>2
    <3>2. SameInstruction(more[a], more[a])
      BY Zenon DEF SameInstruction
    <3> QED
      BY <2>2, <3>1, <3>2
  <2>3. CASE a \in 1 .. L /\ b \in L + 1 .. L + m
    <3>1. more[a].diid \in 1 .. n /\ more[b].diid = n + (b - L)
      BY <1>1, <1>3, <2>3
    <3> QED
      BY <2>3, <3>1
  <2>4. CASE a \in L + 1 .. L + m /\ b \in 1 .. L
    <3>1. more[b].diid \in 1 .. n /\ more[a].diid = n + (a - L)
      BY <1>1, <1>3, <2>4
    <3> QED
      BY <2>4, <3>1
  <2> QED
    BY <2>1, <2>2, <2>3, <2>4
<1> QED
  BY <1>4, <1>5, <1>6 DEF InstructionsOK

LEMMA SentNumbers ==
    ASSUME NEW S, NEW log \in Seq(S), InstructionsOK(log), NEW T, NEW rows \in Seq(T),
           NEW n, n = Cardinality(Diids(log)),
           \A k \in 1 .. Len(rows) : rows[k].diid = n + k
    PROVE  InstructionsOK(log \o rows)
<1>1. n \in Nat /\ Diids(log) = 1 .. n
  BY Numbers
<1>2. PICK L \in Nat, m \in Nat : L = Len(log) /\ m = Len(rows)
  OBVIOUS
<1>3. PICK more : more = log \o rows
  BY Zenon
<1>4. /\ DOMAIN log = 1 .. L /\ DOMAIN more = 1 .. L + m
      /\ \A a \in 1 .. L : more[a] = log[a]
      /\ \A a \in 1 .. m : more[L + a] = rows[a]
  BY <1>2, <1>3
<1>5. \A a \in 1 .. m : more[L + a].diid = n + a
  BY <1>2, <1>4, Zenon
<1>6. SentAfter(log, more, L, m, n)
  BY <1>1, <1>4, <1>5 DEF SentAfter
<1> QED
  BY <1>3, <1>6, MoreNumbers, Zenon

\* Only Deploy and Answer append to deploy_log.
LEMMA LogKept ==
    ASSUME [Next]_vars, ~Deploy, ~AgentStep
    PROVE  deployLog' = deployLog
BY DEF Next, LoopStep, StartCycle, Fetch, WriteResultLogs, CycleFails, ChangeStep, Assign,
       Deactivate, SetConfig, DisableFeature, EnableFeature, ReportHealth, SetLabels,
       tables, logs, vars

LEMMA InstructionsStep ==
    ASSUME DecisionInv, InstructionsInv, [Next]_vars PROVE InstructionsInv'
<1>1. deployLog \in Seq(Range(deployLog)) /\ InstructionsOK(deployLog)
  BY DEF DecisionInv, TablesInv, InstructionsInv
<1>2. CASE Deploy
  <2>1. PICK sent : sent = SetToSeq(cycle.results)
    BY Zenon
  <2>2. PICK rows : rows = [n \in DOMAIN sent |-> SentRow(sent[n], n)]
    BY Zenon
  <2>3. deployLog' = deployLog \o rows /\ cycle.pc = "deploy"
    BY <1>2, <2>1, <2>2, Zenon DEF Deploy
  <2>4. IsFiniteSet(cycle.results)
    BY <2>3, Zenon DEF DecisionInv, SnapshotOK
  <2>5. PICK m \in Nat : DOMAIN sent = 1 .. m
    BY <2>1, <2>4, SetToSeqFacts
  <2>6. PICK T : T = {SentRow(sent[n], n) : n \in 1 .. m}
    BY Zenon
  <2>7. rows \in Seq(T) /\ Len(rows) = m /\ \A n \in 1 .. m : rows[n] = SentRow(sent[n], n)
    BY <2>2, <2>5, <2>6
  <2>8. PICK n \in Nat : n = Cardinality(Diids(deployLog))
    BY <1>1, Numbers
  <2>9. NextDiid = n + 1
    BY <2>8 DEF NextDiid, Diids
  <2>10. ASSUME NEW k \in 1 .. m PROVE rows[k].diid = n + k
    <3>1. rows[k].diid = NextDiid + k - 1
      BY <2>7 DEF SentRow
    <3> QED
      BY <2>9, <3>1
  <2>11. InstructionsOK(deployLog \o rows)
    BY <1>1, <2>7, <2>8, <2>10, SentNumbers
  <2> QED
    BY <2>3, <2>11 DEF InstructionsInv
<1>3. CASE AgentStep
  <2>1. PICK e, f, outcome : Answer(e, f, outcome)
    BY <1>3 DEF AgentStep
  <2>2. PICK latest : latest = LatestOf(deployLog, e, f)
    BY Zenon
  <2>3. /\ latest # NoRow /\ IsInProgress(latest.status)
        /\ deployLog' = Append(deployLog, [latest EXCEPT !.status = outcome])
    BY <2>1, <2>2, Zenon DEF Answer
  <2>4. DOMAIN latest = {"diid", "env", "feature", "fa", "version", "status", "hash"}
    <3>1. PICK i \in DOMAIN deployLog : latest = deployLog[i]
      BY <2>2, <2>3, LatestFacts
    <3> QED
      BY <3>1 DEF DecisionInv, TablesInv, Range
  <2>5. InstructionsOK(Append(deployLog, [latest EXCEPT !.status = outcome]))
    BY <1>1, <2>2, <2>3, <2>4, AnswerNumbers
  <2> QED
    BY <2>3, <2>5 DEF InstructionsInv
<1> QED
  BY <1>2, <1>3, LogKept DEF InstructionsInv

\* Instructions are numbered as they are sent, and no later row of one says
\* anything else of it than another status.
LEMMA InstructionsInvariant == Spec => [](DecisionInv /\ InstructionsInv)
<1>1. Init => InstructionsInv
  <2> SUFFICES ASSUME Init PROVE InstructionsInv
    OBVIOUS
  <2>1. deployLog = <<>>
    BY DEF Init
  <2>2. DOMAIN deployLog = {}
    BY <2>1
  <2>3. Diids(deployLog) = {}
    BY <2>2 DEF Diids, Range
  <2>4. Cardinality(Diids(deployLog)) = 0
    BY <2>3, FS_EmptySet
  <2> QED
    BY <2>2, <2>3, <2>4 DEF InstructionsInv, InstructionsOK
<1>2. DecisionInv /\ InstructionsInv /\ [Next]_vars => InstructionsInv'
  BY InstructionsStep
<1> QED
  BY <1>1, <1>2, DecisionInvariant, PTL DEF Spec

-----------------------------------------------------------------------------
(* Recent deploys *)

\* Some positions have a first one.
LEMMA FirstPosition ==
    ASSUME NEW S \in SUBSET Nat, S # {}
    PROVE  \E i \in S : \A j \in S : i <= j
<1> DEFINE R == {p \in Nat \X Nat : p[1] < p[2]}
<1>1. IsWellFoundedOn(R, Nat)
  BY NatLessThanWellFounded DEF OpToRel
<1>2. \A x, y \in S : <<y, x>> \notin R => x <= y
  OBVIOUS
<1> HIDE DEF R
<1>3. \E x \in S : \A y \in S : <<y, x>> \notin R
  BY <1>1, WFMin
<1> QED
  BY <1>2, <1>3

\* Each row of R is at one of the positions I: there are as many.
EachOnce(rows, I, R) ==
    /\ IsFiniteSet(I)
    /\ \A i \in I : rows[i] \in R
    /\ \A r \in R : \E i \in I : rows[i] = r
    /\ \A i, j \in I : rows[i] = rows[j] => i = j

LEMMA CountRows ==
    ASSUME NEW I, NEW R, NEW rows, EachOnce(rows, I, R)
    PROVE  IsFiniteSet(R) /\ Cardinality(I) = Cardinality(R) /\ Cardinality(I) \in Nat
<1> USE DEF EachOnce
<1>1. PICK f : f = [i \in I |-> rows[i]]
  BY Zenon
<1>2. f \in [I -> R] /\ \A i \in I : f[i] = rows[i]
  BY <1>1
<1>3. f \in Surjection(I, R)
  BY <1>2 DEF Surjection
<1>4. f \in Injection(I, R)
  BY <1>2 DEF Injection, IsInjective
<1> QED
  BY <1>3, <1>4, FS_Surjection, FS_CardinalityType

\* ListRecentDeploys: the last lim rows of the log, from its end.
Recent(log, L, rows, lim) ==
    /\ L \in Nat /\ DOMAIN log = 1 .. L /\ lim \in 1 .. L
    /\ DOMAIN rows = 1 .. lim
    /\ \A i \in 1 .. lim : rows[i] = log[L + 1 - i]

LEMMA RecentRows ==
    ASSUME DecisionInv, NEW lim \in 1 .. Len(deployLog)
    PROVE  Recent(deployLog, Len(deployLog), ListRecentDeploys(lim), lim)
<1>1. PICK log : log = deployLog
  BY Zenon
<1>2. PICK L : L = Len(log)
  BY Zenon
<1>3. log \in Seq(Range(log)) /\ L \in Nat /\ DOMAIN log = 1 .. L /\ lim \in 1 .. L
  BY <1>1, <1>2 DEF DecisionInv, TablesInv
<1>4. Min({lim, L}) = lim
  BY <1>3 DEF Min
<1>5. PICK part : part = SubSeq(log, L - lim + 1, L)
  BY Zenon
<1>6. /\ Len(part) = lim /\ DOMAIN part = 1 .. lim
      /\ \A i \in 1 .. lim : part[i] = log[L - lim + 1 + i - 1]
  BY <1>2, <1>3, <1>5
<1>7. ListRecentDeploys(lim) = [i \in 1 .. lim |-> part[(lim - i) + 1]]
  BY <1>1, <1>2, <1>4, <1>5, <1>6 DEF ListRecentDeploys, Reverse
<1>8. ASSUME NEW i \in 1 .. lim PROVE part[(lim - i) + 1] = log[L + 1 - i]
  <2>1. (lim - i) + 1 \in 1 .. lim /\ L - lim + 1 + ((lim - i) + 1) - 1 = L + 1 - i
    BY <1>3
  <2> QED
    BY <1>6, <2>1
<1> QED
  BY <1>1, <1>2, <1>3, <1>7, <1>8 DEF Recent

\* The first row of an instruction in them is its last one in the log.
LEMMA FirstIsLatest ==
    ASSUME NEW L, NEW rows, NEW lim, Recent(deployLog, L, rows, lim), NEW i \in FirstOfDiid(rows)
    PROVE  rows[i] = LatestOfDiid(rows[i].diid)
<1>1. L \in Nat /\ lim \in 1 .. L /\ DOMAIN deployLog = 1 .. L
  BY DEF Recent
<1>2. i \in 1 .. lim /\ \A j \in 1 .. i - 1 : rows[j].diid # rows[i].diid
  BY DEF FirstOfDiid, Recent
<1>3. PICK d, p : d = rows[i].diid /\ p = L + 1 - i
  BY Zenon
<1>4. p \in 1 .. L /\ rows[i] = deployLog[p]
  BY <1>1, <1>2, <1>3 DEF Recent
<1>5. ASSUME NEW q \in 1 .. L, deployLog[q].diid = d PROVE q <= p
  <2> SUFFICES ASSUME q > p PROVE FALSE
    BY <1>4
  <2>1. PICK j : j = L + 1 - q
    BY Zenon
  <2>2. j \in 1 .. i - 1 /\ j \in 1 .. lim /\ L + 1 - j = q
    BY <1>1, <1>2, <1>3, <1>4, <2>1
  <2>3. rows[j] = deployLog[q]
    BY <2>2 DEF Recent
  <2> QED
    BY <1>2, <1>3, <1>5, <2>2, <2>3
<1>6. PICK S : S = {q \in DOMAIN deployLog : deployLog[q].diid = d}
  BY Zenon
<1>7. p \in S /\ \A q \in S : p >= q
  <2>1. deployLog[p].diid = d
    BY <1>3, <1>4
  <2> QED
    BY <1>1, <1>4, <1>5, <1>6, <2>1
<1>8. Max(S) = p
  <2>1. S \in SUBSET Nat
    BY <1>1, <1>6
  <2>2. PICK m : m = CHOOSE x \in S : \A y \in S : x >= y
    BY Zenon
  <2>3. m \in S /\ \A y \in S : m >= y
    BY <1>7, <2>2
  <2>4. Max(S) = m
    BY <2>2 DEF Max
  <2> QED
    BY <1>7, <2>1, <2>3, <2>4
<1> QED
  BY <1>3, <1>4, <1>6, <1>8 DEF LatestOfDiid

\* The instructions of a version among some rows: the positions where they are
\* counted, and their latest rows.
CountedAt(rows, g) == {i \in FirstOfDiid(rows) : <<rows[i].feature, rows[i].version>> = g}
LatestRowsOf(rows, g) ==
    {LatestOfDiid(d) : d \in {rows[i].diid : i \in {j \in DOMAIN rows :
                                <<rows[j].feature, rows[j].version>> = g}}}

LEMMA GroupRows ==
    ASSUME InstructionsInv, NEW L, NEW rows, NEW lim, Recent(deployLog, L, rows, lim), NEW g,
           NEW I, I = CountedAt(rows, g), NEW R, R = LatestRowsOf(rows, g)
    PROVE  EachOnce(rows, I, R)
<1> USE DEF CountedAt, LatestRowsOf
<1>1. L \in Nat /\ lim \in 1 .. L /\ DOMAIN rows = 1 .. lim /\ DOMAIN deployLog = 1 .. L
  BY DEF Recent
<1>2. I \in SUBSET (1 .. lim) /\ \A i \in I : i \in FirstOfDiid(rows) /\ i \in DOMAIN rows
  BY <1>1 DEF FirstOfDiid
<1>3. IsFiniteSet(I)
  <2>1. IsFiniteSet(1 .. lim)
    BY <1>1, FS_Interval
  <2> QED
    BY <1>2, <2>1, FS_Subset
<1>4. \A i \in I : rows[i] \in R
  <2> SUFFICES ASSUME NEW i \in I PROVE rows[i] \in R
    OBVIOUS
  <2>1. rows[i] = LatestOfDiid(rows[i].diid)
    BY <1>2, FirstIsLatest
  <2>2. i \in DOMAIN rows /\ <<rows[i].feature, rows[i].version>> = g
    BY <1>2
  <2> QED
    BY <2>1, <2>2, Zenon
<1>5. ASSUME NEW r \in R PROVE \E i \in I : rows[i] = r
  <2>1. PICK j \in DOMAIN rows : <<rows[j].feature, rows[j].version>> = g
                                 /\ r = LatestOfDiid(rows[j].diid)
    BY Zenon
  <2>2. PICK S : S = {k \in 1 .. lim : rows[k].diid = rows[j].diid}
    BY Zenon
  <2>3. S \in SUBSET Nat /\ j \in S
    BY <1>1, <2>2
  <2>4. PICK i \in S : \A k \in S : i <= k
    BY <2>3, FirstPosition
  <2>5. i \in 1 .. lim /\ rows[i].diid = rows[j].diid
    BY <2>2
  <2>6. i \in FirstOfDiid(rows)
    <3>1. ASSUME NEW k \in 1 .. i - 1 PROVE rows[k].diid # rows[i].diid
      <4>1. k \in 1 .. lim /\ ~(i <= k)
        BY <1>1, <2>5
      <4> QED
        BY <2>2, <2>4, <2>5, <4>1
    <3> QED
      BY <1>1, <2>5, <3>1 DEF FirstOfDiid
  <2>7. <<rows[i].feature, rows[i].version>> = g
    <3>1. PICK a \in DOMAIN deployLog, b \in DOMAIN deployLog :
             rows[i] = deployLog[a] /\ rows[j] = deployLog[b]
      <4>1. \A k \in 1 .. lim : L + 1 - k \in 1 .. L /\ rows[k] = deployLog[L + 1 - k]
        BY <1>1 DEF Recent
      <4> QED
        BY <1>1, <2>5, <4>1
    <3>2. SameInstruction(rows[i], rows[j])
      BY <2>5, <3>1 DEF InstructionsInv, InstructionsOK
    <3> QED
      BY <2>1, <3>2 DEF SameInstruction
  <2>8. rows[i] = r
    BY <2>1, <2>5, <2>6, FirstIsLatest
  <2> QED
    BY <2>6, <2>7, <2>8
<1>6. ASSUME NEW i \in I, NEW j \in I, rows[i] = rows[j] PROVE i = j
  <2>1. i \in 1 .. lim /\ j \in 1 .. lim /\ rows[i].diid = rows[j].diid
    BY <1>2, <1>6
  <2>2. ~(j \in 1 .. i - 1) /\ ~(i \in 1 .. j - 1)
    BY <1>2, <2>1 DEF FirstOfDiid
  <2> QED
    BY <1>1, <2>1, <2>2
<1> QED
  BY <1>3, <1>4, <1>5, <1>6 DEF EachOnce

\* The instructions with some status are counted as well.
PositionsIn(rows, I, A) == {i \in I : rows[i].status \in A}
RowsIn(R, A) == {r \in R : r.status \in A}
LEMMA SomeOnce ==
    ASSUME NEW rows, NEW I, NEW R, EachOnce(rows, I, R), NEW A,
           NEW J, J = PositionsIn(rows, I, A), NEW Q, Q = RowsIn(R, A)
    PROVE  Cardinality(J) = Cardinality(Q) /\ Cardinality(Q) \in Nat
<1>1. IsFiniteSet(J)
  <2>1. J \in SUBSET I /\ IsFiniteSet(I)
    BY DEF EachOnce, PositionsIn
  <2> QED
    BY <2>1, FS_Subset
<1>2. EachOnce(rows, J, Q)
  BY <1>1 DEF EachOnce, PositionsIn, RowsIn
<1> QED
  BY <1>2, CountRows

\* What the page says of a version.
GroupIsExact(group, R) ==
    /\ group.total = Cardinality(R)
    /\ group.deployed = Cardinality({r \in R : r.status = "deployed"})
    /\ group.pending = Cardinality({r \in R : IsInProgress(r.status)})
    /\ deployRollupStatus(group) = "deployed" <=> \A r \in R : r.status = "deployed"

LEMMA GroupCounts ==
    ASSUME NEW rows, NEW g \in DOMAIN aggregateRecentDeploys(rows), NEW R, R # {},
           EachOnce(rows, CountedAt(rows, g), R)
    PROVE  GroupIsExact(aggregateRecentDeploys(rows)[g], R)
<1>1. PICK I, J, P, Q, W :
        /\ I = CountedAt(rows, g)
        /\ J = {i \in I : rows[i].status = "deployed"}
        /\ P = {i \in I : IsInProgress(rows[i].status)}
        /\ Q = {r \in R : r.status = "deployed"}
        /\ W = {r \in R : IsInProgress(r.status)}
  BY Zenon
<1>2. EachOnce(rows, I, R)
  BY <1>1
<1>3. IsFiniteSet(R) /\ Cardinality(I) = Cardinality(R) /\ Cardinality(R) \in Nat
  BY <1>2, CountRows
<1>4. PICK group : group = aggregateRecentDeploys(rows)[g]
  BY Zenon
<1>5. /\ group.total = Cardinality(I) /\ group.deployed = Cardinality(J)
      /\ group.pending = Cardinality(P)
  BY <1>1, <1>4 DEF aggregateRecentDeploys, CountedAt
<1>6. Cardinality(J) = Cardinality(Q) /\ Cardinality(Q) \in Nat
  <2>1. PICK A : A = {"deployed"}
    BY Zenon
  <2>2. J = PositionsIn(rows, I, A) /\ Q = RowsIn(R, A)
    BY <1>1, <2>1, Zenon DEF PositionsIn, RowsIn
  <2> QED
    BY <1>2, <2>2, SomeOnce
<1>7. Cardinality(P) = Cardinality(W)
  <2>1. PICK A : A = {"sent", "installing"}
    BY Zenon
  <2>2. P = PositionsIn(rows, I, A) /\ W = RowsIn(R, A)
    BY <1>1, <2>1, Zenon DEF PositionsIn, RowsIn, IsInProgress
  <2> QED
    BY <1>2, <2>2, SomeOnce
<1>8. Cardinality(R) # 0
  BY <1>3, FS_EmptySet
<1>9. Cardinality(Q) = Cardinality(R) <=> \A r \in R : r.status = "deployed"
  <2>1. Q \in SUBSET R /\ (Q = R <=> \A r \in R : r.status = "deployed")
    BY <1>1
  <2> QED
    BY <1>3, <2>1, FS_Subset
<1>10. deployRollupStatus(group) = "deployed" <=> Cardinality(Q) = Cardinality(R)
  BY <1>3, <1>5, <1>6, <1>8 DEF deployRollupStatus
<1>11. /\ group.total = Cardinality(R) /\ group.deployed = Cardinality(Q)
       /\ group.pending = Cardinality(W)
  BY <1>3, <1>5, <1>6, <1>7, Zenon
<1>12. GroupIsExact(group, R)
  BY <1>1, <1>9, <1>10, <1>11, Zenon DEF GroupIsExact
<1> QED
  BY <1>4, <1>12, Zenon

\* aggregateRecentDeploys counts every instruction among the newest rows once,
\* with its latest status, wherever the scan is cut off, and the home page calls
\* a version deployed exactly where each of them is: for any log that the loop
\* and the agents write.
THEOREM RecentDeploysAreCounted == Spec => []RecentDeploysAreExact
<1>1. DecisionInv /\ InstructionsInv => RecentDeploysAreExact
  <2> SUFFICES ASSUME DecisionInv, InstructionsInv PROVE RecentDeploysAreExact
    OBVIOUS
  <2>1. ASSUME NEW lim \in 1 .. Len(deployLog),
               NEW g \in DOMAIN aggregateRecentDeploys(ListRecentDeploys(lim))
        PROVE  GroupIsExact(aggregateRecentDeploys(ListRecentDeploys(lim))[g],
                            LatestRowsOf(ListRecentDeploys(lim), g))
    <3>1. PICK rows, R : rows = ListRecentDeploys(lim) /\ R = LatestRowsOf(rows, g)
      BY Zenon
    <3>2. PICK L : Recent(deployLog, L, rows, lim)
      BY <3>1, RecentRows, Zenon
    <3>3. EachOnce(rows, CountedAt(rows, g), R)
      BY <3>1, <3>2, GroupRows, Zenon
    <3>4. PICK i \in DOMAIN rows : g = <<rows[i].feature, rows[i].version>>
      BY <3>1 DEF aggregateRecentDeploys
    <3>5. R # {}
      BY <3>1, <3>4, Zenon DEF LatestRowsOf
    <3> QED
      BY <3>1, <3>3, <3>5, GroupCounts, Zenon
  <2> QED
    BY <2>1, Zenon DEF RecentDeploysAreExact, GroupIsExact, LatestRowsOf
<1> QED
  BY <1>1, InstructionsInvariant, PTL
-----------------------------------------------------------------------------
(* Assignments and what names them *)

LEMMA NamesKept ==
    ASSUME NEW c, NEW log, NEW rows, NEW more, NamesOK(c, log, rows),
           \A id \in DOMAIN rows : id \in DOMAIN more /\ more[id].feature = rows[id].feature
    PROVE  NamesOK(c, log, more)
BY Zenon DEF NamesOK, OfAssignment

\* What the query for the assignments returns names them.
LEMMA ReadNames ==
    ASSUME AssignmentsOK(featureAssignments), NEW d \in ListLatestFeatureAssignments
    PROVE  OfAssignment(featureAssignments, d.id, d.feature)
<1>1. PICK x \in DistinctOnTarget(ActiveAssignments) :
         d = [id |-> x.id, feature |-> x.feature, version |-> x.version, target |-> x.target,
              created |-> x.created, chart |-> ChartOf(x)]
  BY Zenon DEF ListLatestFeatureAssignments
<1>2. x \in Range(featureAssignments)
  BY DEF DistinctOnTarget, ActiveAssignments, AssignmentRows
<1>3. PICK id \in DOMAIN featureAssignments : x = featureAssignments[id]
  BY <1>2 DEF Range
<1>4. d.id = x.id /\ d.feature = x.feature
  BY <1>1
<1> QED
  BY <1>3, <1>4 DEF AssignmentsOK, OfAssignment

LEMMA WhileNames ==
    ASSUME DecisionInv, AssignedInv, NEW qs, While(qs)
    PROVE  NamesOK(cycle', deployLog, featureAssignments)
<1>1. CASE cycle' = cycle
  BY <1>1 DEF AssignedInv
<1>2. CASE cycle.pc = "fetch" /\ \E before \in SUBSET (qs \cap cycle.todo) : cycle' = Returned(before)
  <2>1. PICK before \in SUBSET cycle.todo : cycle' = Returned(before)
    BY <1>2
  <2>2. PICK c : c = cycle'
    BY Zenon
  <2>3. PICK read :
          read = [q \in DOMAIN cycle.snap |-> IF q \in before THEN Query(q) ELSE cycle.snap[q]]
    BY Zenon
  <2>4. c = [cycle EXCEPT !.todo = cycle.todo \ before, !.snap = read]
    BY <2>1, <2>2, <2>3, Zenon DEF Returned
  <2>5. /\ DOMAIN cycle = {"pc", "todo", "snap", "results"}
        /\ DOMAIN cycle.snap = Queries \cup {"envs"} /\ "assignments" \in Queries
    BY DEF DecisionInv, CycleInv, Queries
  <2>6. c.pc = "fetch" /\ c.todo = cycle.todo \ before /\ c.snap = read
    BY <1>2, <2>4, <2>5
  <2>7. read["assignments"] = IF "assignments" \in before THEN Query("assignments")
                              ELSE cycle.snap["assignments"]
    BY <2>3, <2>5
  <2>8. ASSUME HasRead(c, "assignments"), NEW d \in c.snap["assignments"]
        PROVE  OfAssignment(featureAssignments, d.id, d.feature)
    <3>1. CASE "assignments" \in before
      <4>1. c.snap["assignments"] = ListLatestFeatureAssignments
        BY <2>6, <2>7, <3>1 DEF Query
      <4> QED
        BY <2>8, <4>1, ReadNames DEF AssignedInv
    <3>2. CASE "assignments" \notin before
      <4>1. c.snap["assignments"] = cycle.snap["assignments"] /\ HasRead(cycle, "assignments")
        BY <1>2, <2>6, <2>7, <2>8, <3>2 DEF HasRead
      <4> QED
        BY <2>8, <4>1, Zenon DEF AssignedInv, NamesOK
    <3> QED
      BY <3>1, <3>2
  <2>9. c.pc # "deploy"
    BY <2>6
  <2> QED
    BY <2>2, <2>8, <2>9, Zenon DEF NamesOK, AssignedInv
<1> QED
  BY <1>1, <1>2 DEF While

\* A step of the loop that leaves the tables alone.
LEMMA LoopNames ==
    ASSUME DecisionInv, AssignedInv, StartCycle \/ Fetch \/ CycleFails
    PROVE  AssignedInv'
<1>1. UNCHANGED <<featureAssignments, deployLog, disabledFeatures>>
  BY DEF StartCycle, Fetch, CycleFails, tables
<1>2. NamesOK(cycle', deployLog, featureAssignments)
  <2>1. CASE StartCycle
    <3>1. PICK c : c = cycle'
      BY Zenon
    <3>2. c.pc = "fetch" /\ c.todo = Queries
      BY <2>1, <3>1 DEF StartCycle, DecisionInv, CycleInv
    <3>3. c.pc # "deploy" /\ ~HasRead(c, "assignments")
      BY <3>2 DEF HasRead, Queries
    <3> QED
      BY <3>1, <3>3, Zenon DEF NamesOK, AssignedInv
  <2>2. CASE Fetch
    <3>1. While(cycle.todo)
      BY <2>2 DEF Fetch, While
    <3> QED
      BY <3>1, WhileNames
  <2>3. CASE CycleFails
    <3>1. cycle' = Idle /\ Idle.pc # "deploy" /\ ~HasRead(Idle, "assignments")
      BY <2>3 DEF CycleFails, Idle, HasRead
    <3> QED
      BY <3>1, Zenon DEF NamesOK, AssignedInv
  <2> QED
    BY <2>1, <2>2, <2>3
<1> QED
  BY <1>1, <1>2 DEF AssignedInv

LEMMA ResultsNames ==
    ASSUME DecisionInv, AssignedInv, WriteResultLogs
    PROVE  AssignedInv'
<1>1. PICK results \in Results(cycle.snap) :
         cycle' = [cycle EXCEPT !.pc = "deploy", !.snap = NoSnapshot,
                                !.results = {r \in results : r.action = "deploy"}]
  BY Zenon DEF WriteResultLogs
<1>2. UNCHANGED <<featureAssignments, deployLog, disabledFeatures>>
  BY DEF WriteResultLogs, inputTables
<1>3. cycle.pc = "fetch" /\ HasRead(cycle, "assignments")
  BY DEF WriteResultLogs, HasRead
<1>4. ASSUME NEW r \in results PROVE OfAssignment(featureAssignments, r.fa, r.feature)
  <2>1. PICK w \in Winners(cycle.snap) : r \in decide(cycle.snap, w[1], w[2])
    BY Zenon DEF Results
  <2>2. w[2] \in cycle.snap["assignments"]
    BY WinnersFacts
  <2>3. r.fa = w[2].id /\ r.feature = w[2].feature
    BY <2>1, DecideKeys
  <2> QED
    BY <1>3, <2>2, <2>3, Zenon DEF AssignedInv, NamesOK
<1>5. PICK c : c = cycle'
  BY Zenon
<1>6. c.pc = "deploy" /\ c.results = {r \in results : r.action = "deploy"}
  BY <1>1, <1>5 DEF DecisionInv, CycleInv
<1>7. ~HasRead(c, "assignments")
  BY <1>6 DEF HasRead
<1>8. \A r \in c.results : OfAssignment(featureAssignments, r.fa, r.feature)
  BY <1>4, <1>6
<1> QED
  BY <1>2, <1>5, <1>7, <1>8, Zenon DEF AssignedInv, NamesOK

LEMMA JoinedLogs ==
    ASSUME NEW S, NEW log \in Seq(S), NEW T, NEW rows \in Seq(T), NEW m, m = Len(rows),
           NEW more, more = log \o rows
    PROVE  \A i \in DOMAIN more : (i \in DOMAIN log /\ more[i] = log[i])
                                  \/ \E n \in 1 .. m : more[i] = rows[n]
<1>1. PICK L \in Nat : L = Len(log) /\ m \in Nat
  OBVIOUS
<1>2. /\ DOMAIN log = 1 .. L /\ DOMAIN more = 1 .. L + m
      /\ \A i \in 1 .. L : more[i] = log[i]
      /\ \A n \in 1 .. m : more[L + n] = rows[n]
  BY <1>1
<1>3. \A i \in 1 .. L + m : i \in 1 .. L \/ (i - L \in 1 .. m /\ L + (i - L) = i)
  BY <1>1
<1>4. ASSUME NEW i \in 1 .. L + m, i \notin 1 .. L
      PROVE  \E n \in 1 .. m : more[i] = rows[n]
  <2>1. PICK n \in 1 .. m : L + n = i
    BY <1>3, <1>4
  <2> QED
    BY <1>2, <2>1, Zenon
<1> QED
  BY <1>2, <1>4, Zenon

LEMMA DeployNames ==
    ASSUME DecisionInv, AssignedInv, Deploy
    PROVE  AssignedInv'
<1>1. PICK sent : sent = SetToSeq(cycle.results)
  BY Zenon
<1>2. PICK rows : rows = [n \in DOMAIN sent |-> SentRow(sent[n], n)]
  BY Zenon
<1>3. deployLog' = deployLog \o rows /\ cycle.pc = "deploy" /\ cycle' = Idle
  BY <1>1, <1>2, Zenon DEF Deploy
<1>4. UNCHANGED <<featureAssignments, disabledFeatures>>
  BY DEF Deploy, inputTables
<1>5. IsFiniteSet(cycle.results)
  BY <1>3, Zenon DEF DecisionInv, SnapshotOK
<1>6. PICK m \in Nat : DOMAIN sent = 1 .. m /\ \A n \in 1 .. m : sent[n] \in cycle.results
  BY <1>1, <1>5, SetToSeqFacts
<1>7. ASSUME NEW n \in 1 .. m
      PROVE  IsDeployRow(rows[n]) /\ OfAssignment(featureAssignments, rows[n].fa, rows[n].feature)
  <2>1. rows[n].fa = sent[n].fa /\ rows[n].feature = sent[n].feature /\ IsDeployRow(rows[n])
    BY <1>2, <1>6 DEF SentRow, IsDeployRow
  <2> QED
    BY <1>3, <1>6, <2>1, Zenon DEF AssignedInv, NamesOK
<1>8. PICK T : rows \in Seq(T) /\ Len(rows) = m
  <2>1. rows \in Seq({SentRow(sent[n], n) : n \in 1 .. m}) /\ Len(rows) = m
    BY <1>2, <1>6
  <2> QED
    BY <2>1, Zenon
<1>9. \A i \in DOMAIN deployLog' : (i \in DOMAIN deployLog /\ deployLog'[i] = deployLog[i])
                                   \/ \E n \in 1 .. m : deployLog'[i] = rows[n]
  <2>1. deployLog \in Seq(Range(deployLog))
    BY DEF DecisionInv, TablesInv
  <2> QED
    BY <1>3, <1>8, <2>1, JoinedLogs
<1>10. \A i \in DOMAIN deployLog' :
          /\ IsDeployRow(deployLog'[i])
          /\ OfAssignment(featureAssignments, deployLog'[i].fa, deployLog'[i].feature)
  BY <1>7, <1>9, Zenon DEF AssignedInv, NamesOK
<1>11. Idle.pc # "deploy" /\ ~HasRead(Idle, "assignments")
  BY DEF Idle, HasRead
<1> QED
  BY <1>3, <1>4, <1>10, <1>11, Zenon DEF AssignedInv, NamesOK

LEMMA AnswerNames ==
    ASSUME DecisionInv, AssignedInv, NEW e, NEW f, NEW outcome, Answer(e, f, outcome)
    PROVE  AssignedInv'
<1>1. PICK latest : latest = LatestOf(deployLog, e, f)
  BY Zenon
<1>2. /\ latest # NoRow /\ deployLog' = Append(deployLog, [latest EXCEPT !.status = outcome])
      /\ While({"latest", "deployed"}) /\ UNCHANGED <<featureAssignments, disabledFeatures>>
  BY <1>1, Zenon DEF Answer, inputTables
<1>3. PICK k \in DOMAIN deployLog : latest = deployLog[k]
  BY <1>1, <1>2, LatestFacts
<1>4. DOMAIN latest = {"diid", "env", "feature", "fa", "version", "status", "hash"}
  BY <1>3 DEF DecisionInv, TablesInv, Range
<1>5. PICK row : row = [latest EXCEPT !.status = outcome]
  BY Zenon
<1>6. row.fa = deployLog[k].fa /\ row.feature = deployLog[k].feature /\ IsDeployRow(row)
  <2>1. IsDeployRow(latest)
    BY <1>3 DEF AssignedInv, NamesOK
  <2> QED
    BY <1>3, <1>4, <1>5, <2>1 DEF IsDeployRow
<1>7. \A i \in DOMAIN deployLog' : (i \in DOMAIN deployLog /\ deployLog'[i] = deployLog[i])
                                   \/ deployLog'[i] = row
  <2>1. deployLog \in Seq(Range(deployLog)) /\ deployLog' = Append(deployLog, row)
    BY <1>2, <1>5 DEF DecisionInv, TablesInv
  <2> QED
    BY <2>1
<1>8. \A i \in DOMAIN deployLog' :
          /\ IsDeployRow(deployLog'[i])
          /\ OfAssignment(featureAssignments, deployLog'[i].fa, deployLog'[i].feature)
  BY <1>6, <1>7, Zenon DEF AssignedInv, NamesOK
<1>9. NamesOK(cycle', deployLog, featureAssignments)
  BY <1>2, WhileNames
<1> QED
  BY <1>2, <1>8, <1>9, Zenon DEF AssignedInv, NamesOK

LEMMA AssignNames ==
    ASSUME DecisionInv, AssignedInv, NEW chart \in Charts, NEW target \in Targets,
           Assign(chart, target)
    PROVE  AssignedInv'
<1>1. PICK fa : fa = featureAssignments
  BY Zenon
<1>2. PICK n \in Nat : n = Len(fa) /\ DOMAIN fa = 1 .. n
  BY <1>1 DEF DecisionInv, TablesInv
<1>3. PICK old, row : old = Deactivated(fa, chart.name, target) /\ row = AssignmentRow(n + 1, chart, target)
  BY Zenon
<1>4. PICK rows : rows = Append(old, row)
  BY Zenon
<1>5. /\ featureAssignments' = rows /\ While({"assignments"})
      /\ UNCHANGED <<deployLog, disabledFeatures>>
  BY <1>1, <1>2, <1>3, <1>4, Zenon DEF Assign, logs
<1>6. DOMAIN old = 1 .. n /\ \A id \in 1 .. n :
         /\ old[id].id = fa[id].id /\ old[id].created = fa[id].created
         /\ old[id].feature = fa[id].feature /\ old[id].target = fa[id].target
         /\ old[id].active => fa[id].active
         /\ ~(old[id].active /\ old[id].feature = chart.name /\ old[id].target = target)
  <2>1. DOMAIN old = 1 .. n
    BY <1>2, <1>3 DEF Deactivated
  <2>2. ASSUME NEW id \in 1 .. n
        PROVE  /\ old[id].id = fa[id].id /\ old[id].created = fa[id].created
               /\ old[id].feature = fa[id].feature /\ old[id].target = fa[id].target
               /\ old[id].active => fa[id].active
               /\ ~(old[id].active /\ old[id].feature = chart.name /\ old[id].target = target)
    <3>1. fa[id] \in AssignmentType
      BY <1>1, <1>2 DEF DecisionInv, TablesInv
    <3>2. old[id] = IF fa[id].feature = chart.name /\ fa[id].target = target /\ fa[id].active
                    THEN [fa[id] EXCEPT !.active = FALSE] ELSE fa[id]
      BY <1>2, <1>3 DEF Deactivated
    <3> QED
      BY <3>1, <3>2 DEF AssignmentType
  <2> QED
    BY <2>1, <2>2
<1>7. /\ row.id = n + 1 /\ row.created = n + 1 /\ row.feature = chart.name
      /\ row.target = target
  BY <1>3 DEF AssignmentRow
<1>8. /\ DOMAIN rows = 1 .. n + 1 /\ rows[n + 1] = row
      /\ \A id \in 1 .. n : rows[id] = old[id]
  <2>1. PICK S : old \in Seq(S) /\ Len(old) = n
    <3>1. old = [id \in 1 .. n |-> old[id]]
      BY <1>2, <1>3 DEF Deactivated
    <3>2. old \in Seq({old[id] : id \in 1 .. n}) /\ Len(old) = n
      BY <3>1
    <3> QED
      BY <3>2, Zenon
  <2> QED
    BY <1>4, <2>1
<1>9. AssignmentsOK(rows)
  <2>1. AssignmentsOK(fa)
    BY <1>1 DEF AssignedInv
  <2>2. ASSUME NEW id \in 1 .. n + 1 PROVE rows[id].id = id /\ rows[id].created = id
    BY <1>2, <1>6, <1>7, <1>8, <2>1 DEF AssignmentsOK
  <2>3. ASSUME NEW i \in 1 .. n + 1, NEW j \in 1 .. n + 1, rows[i].active, rows[j].active,
               rows[i].feature = rows[j].feature, rows[i].target = rows[j].target
        PROVE  i = j
    <3>1. CASE i \in 1 .. n /\ j \in 1 .. n
      BY <1>2, <1>6, <1>8, <2>1, <2>3, <3>1 DEF AssignmentsOK
    <3>2. CASE i = n + 1 /\ j \in 1 .. n
      BY <1>6, <1>7, <1>8, <2>3, <3>2
    <3>3. CASE j = n + 1 /\ i \in 1 .. n
      BY <1>6, <1>7, <1>8, <2>3, <3>3
    <3> QED
      BY <3>1, <3>2, <3>3
  <2> QED
    BY <1>8, <2>2, <2>3 DEF AssignmentsOK
<1>10. \A id \in DOMAIN fa : id \in DOMAIN rows /\ rows[id].feature = fa[id].feature
  BY <1>2, <1>6, <1>8
<1>11. NamesOK(cycle', deployLog, fa)
  BY <1>1, <1>5, WhileNames
<1>12. NamesOK(cycle', deployLog, rows)
  BY <1>10, <1>11, NamesKept
<1> QED
  BY <1>5, <1>9, <1>12 DEF AssignedInv

LEMMA DeactivateNames ==
    ASSUME DecisionInv, AssignedInv, NEW k \in DOMAIN featureAssignments, Deactivate(k)
    PROVE  AssignedInv'
<1>1. PICK fa : fa = featureAssignments
  BY Zenon
<1>2. PICK rows : rows = [fa EXCEPT ![k].active = FALSE]
  BY Zenon
<1>3. /\ featureAssignments' = rows /\ While({"assignments"})
      /\ UNCHANGED <<deployLog, disabledFeatures>>
  BY <1>1, <1>2, Zenon DEF Deactivate, logs
<1>4. \A id \in DOMAIN fa : fa[id] \in AssignmentType
  BY <1>1 DEF DecisionInv, TablesInv
<1>5. DOMAIN rows = DOMAIN fa /\ \A id \in DOMAIN fa :
         /\ rows[id].id = fa[id].id /\ rows[id].created = fa[id].created
         /\ rows[id].feature = fa[id].feature /\ rows[id].target = fa[id].target
         /\ rows[id].active => fa[id].active
  BY <1>1, <1>2, <1>4 DEF AssignmentType
<1>6. AssignmentsOK(rows)
  BY <1>1, <1>5 DEF AssignedInv, AssignmentsOK
<1>7. NamesOK(cycle', deployLog, fa)
  BY <1>1, <1>3, WhileNames
<1>8. NamesOK(cycle', deployLog, rows)
  BY <1>5, <1>7, NamesKept
<1> QED
  BY <1>3, <1>6, <1>8 DEF AssignedInv

LEMMA AssignedStep == ASSUME DecisionInv, AssignedInv, [Next]_vars PROVE AssignedInv'
<1>1. CASE AgentStep
  BY <1>1, AnswerNames DEF AgentStep
<1>2. ASSUME NEW a \in Assignable, Assign(a[1], a[2]) PROVE AssignedInv'
  <2>1. a[1] \in Charts /\ a[2] \in Targets
    BY TablesAssumption
  <2> QED
    BY <1>2, <2>1, AssignNames
<1>3. ASSUME NEW e \in Touched, NEW f \in FeatureNames, DisableFeature(e, f) \/ EnableFeature(e, f)
      PROVE  AssignedInv'
  <2>1. /\ disabledFeatures' \subseteq disabledFeatures \cup {<<e, f>>}
        /\ While({"disabled"}) /\ UNCHANGED <<featureAssignments, deployLog>>
    BY <1>3 DEF DisableFeature, EnableFeature, logs
  <2>2. disabledFeatures' \subseteq Touched \X FeatureNames
    BY <2>1 DEF AssignedInv
  <2> QED
    BY <2>1, <2>2, WhileNames DEF AssignedInv
<1>4. ASSUME NEW qs, While(qs), UNCHANGED <<featureAssignments, deployLog, disabledFeatures>>
      PROVE  AssignedInv'
  BY <1>4, WhileNames DEF AssignedInv
<1>5. CASE ChangeStep
  <2>1. ASSUME NEW f, NEW k, NEW v, SetConfig(f, k, v) PROVE AssignedInv'
    BY <2>1, <1>4 DEF SetConfig, logs
  <2>2. ASSUME NEW e, NEW age, ReportHealth(e, age) PROVE AssignedInv'
    BY <2>2, <1>4 DEF ReportHealth, logs
  <2>3. ASSUME NEW e, NEW labels, SetLabels(e, labels) PROVE AssignedInv'
    BY <2>3, <1>4 DEF SetLabels, logs
  <2> QED
    BY <1>2, <1>3, <1>5, <2>1, <2>2, <2>3, DeactivateNames DEF ChangeStep
<1>6. CASE UNCHANGED vars
  BY <1>6 DEF vars, tables, AssignedInv
<1> QED
  BY <1>1, <1>5, <1>6, LoopNames, ResultsNames, DeployNames DEF Next, LoopStep

LEMMA InitAssigns == ASSUME Init PROVE AssignedInv
<1>1. PICK n \in Nat : DOMAIN InitAssigned = 1 .. n
  BY TablesAssumption
<1>2. PICK rows : rows = featureAssignments
  BY Zenon
<1>3. /\ DOMAIN rows = 1 .. n
      /\ \A id \in 1 .. n : rows[id] = AssignmentRow(id, InitAssigned[id][1], InitAssigned[id][2])
  BY <1>1, <1>2 DEF Init
<1>4. \A id \in 1 .. n :
         /\ rows[id].id = id /\ rows[id].created = id
         /\ rows[id].feature = InitAssigned[id][1].name /\ rows[id].target = InitAssigned[id][2]
  BY <1>3 DEF AssignmentRow
<1>5. AssignmentsOK(rows)
  BY <1>1, <1>3, <1>4, AssignedAssumption DEF AssignmentsOK
<1>6. deployLog = <<>> /\ cycle = Idle /\ disabledFeatures = {}
  BY DEF Init
<1>7. DOMAIN deployLog = {} /\ Idle.pc # "deploy" /\ ~HasRead(Idle, "assignments")
  BY <1>6 DEF Idle, HasRead
<1>8. NamesOK(cycle, deployLog, rows)
  BY <1>6, <1>7, Zenon DEF NamesOK
<1> QED
  BY <1>2, <1>5, <1>6, <1>8 DEF AssignedInv

LEMMA AssignedInvariant == Spec => [](DecisionInv /\ InstructionsInv /\ AssignedInv)
<1>1. DecisionInv /\ AssignedInv /\ [Next]_vars => AssignedInv'
  BY AssignedStep
<1> QED
  BY <1>1, InitAssigns, InstructionsInvariant, PTL DEF Spec

-----------------------------------------------------------------------------
(* Positions and their order *)

LEMMA LastPosition ==
    ASSUME NEW L \in Nat, NEW S \in SUBSET (1 .. L), S # {}
    PROVE  Max(S) \in S /\ \A y \in S : y <= Max(S)
<1>1. PICK B : B = {m \in Nat : \A y \in S : y <= m}
  BY Zenon
<1>2. B \in SUBSET Nat /\ L \in B
  BY <1>1
<1>3. PICK m \in B : \A k \in B : m <= k
  BY <1>2, FirstPosition
<1>4. m \in Nat /\ \A y \in S : y <= m
  BY <1>1, <1>3
<1>5. m \in S
  <2> SUFFICES ASSUME m \notin S PROVE FALSE
    OBVIOUS
  <2>1. \A y \in S : y < m
    BY <1>4
  <2>2. m > 0
    <3>1. PICK y \in S : y \in 1 .. L
      OBVIOUS
    <3> QED
      BY <1>4, <2>1, <3>1
  <2>3. m - 1 \in B
    BY <1>1, <1>4, <2>1, <2>2
  <2> QED
    BY <1>3, <1>4, <2>3
<1>6. PICK x : x = CHOOSE a \in S : \A y \in S : a >= y
  BY Zenon
<1>7. x \in S /\ \A y \in S : x >= y
  BY <1>4, <1>5, <1>6
<1>8. Max(S) = x
  BY <1>6 DEF Max
<1> QED
  BY <1>7, <1>8

\* Elements of a finite set that happened at different times: by how many later
\* ones there are, every rank is taken.
Above(S, time, d) == {x \in S : time[x] > time[d]}
LEMMA Ranks ==
    ASSUME NEW S, IsFiniteSet(S), NEW time, \A d \in S : time[d] \in Nat,
           \A a, b \in S : time[a] = time[b] => a = b
    PROVE  /\ Cardinality(S) \in Nat
           /\ \A d \in S : /\ Cardinality(Above(S, time, d)) \in Nat
                           /\ Cardinality(Above(S, time, d)) < Cardinality(S)
           /\ \A a, b \in S : time[a] > time[b] =>
                 Cardinality(Above(S, time, a)) < Cardinality(Above(S, time, b))
           /\ \A n \in 1 .. Cardinality(S) : \E d \in S : Cardinality(Above(S, time, d)) = n - 1
<1>1. PICK n : n = Cardinality(S)
  BY Zenon
<1>2. n \in Nat
  BY <1>1, FS_CardinalityType
<1>3. ASSUME NEW d \in S
      PROVE  Cardinality(Above(S, time, d)) \in Nat /\ Cardinality(Above(S, time, d)) < n
  <2>1. PICK A : A = Above(S, time, d)
    BY Zenon
  <2>2. A \in SUBSET S /\ A # S
    BY <2>1 DEF Above
  <2>3. IsFiniteSet(A) /\ Cardinality(A) <= n /\ Cardinality(A) # n
    BY <1>1, <2>2, FS_Subset
  <2> QED
    BY <1>2, <2>1, <2>3, FS_CardinalityType
<1>4. ASSUME NEW a \in S, NEW b \in S, time[a] > time[b]
      PROVE  Cardinality(Above(S, time, a)) < Cardinality(Above(S, time, b))
  <2>1. PICK A, B : A = Above(S, time, a) /\ B = Above(S, time, b)
    BY Zenon
  <2>2. A \in SUBSET B /\ a \in B /\ a \notin A /\ B \in SUBSET S
    BY <1>4, <2>1 DEF Above
  <2>3. IsFiniteSet(B)
    BY <2>2, FS_Subset
  <2>4. Cardinality(A) <= Cardinality(B) /\ Cardinality(A) # Cardinality(B)
    BY <2>2, <2>3, FS_Subset
  <2>5. Cardinality(A) \in Nat /\ Cardinality(B) \in Nat
    BY <1>3, <2>1
  <2> QED
    BY <2>1, <2>4, <2>5
<1>5. PICK rank : rank = [d \in S |-> Cardinality(Above(S, time, d)) + 1]
  BY Zenon
<1>6. \A d \in S : rank[d] = Cardinality(Above(S, time, d)) + 1
  BY <1>5
<1>7. rank \in [S -> 1 .. n]
  BY <1>2, <1>3, <1>5
<1>8. ASSUME NEW a \in S, NEW b \in S, rank[a] = rank[b] PROVE a = b
  <2> SUFFICES ASSUME a # b PROVE FALSE
    OBVIOUS
  <2>1. time[a] # time[b] /\ time[a] \in Nat /\ time[b] \in Nat
    BY Zenon
  <2>2. time[a] > time[b] \/ time[b] > time[a]
    BY <2>1
  <2>3. PICK p, q : p = Cardinality(Above(S, time, a)) /\ q = Cardinality(Above(S, time, b))
    BY Zenon
  <2>4. p \in Nat /\ q \in Nat /\ p + 1 = q + 1
    BY <1>3, <1>6, <1>8, <2>3
  <2>5. p < q \/ q < p
    BY <1>4, <2>2, <2>3
  <2> QED
    BY <2>4, <2>5
<1>9. rank \in Injection(S, 1 .. n)
  BY <1>7, <1>8 DEF Injection, IsInjective
<1>10. IsFiniteSet(1 .. n) /\ Cardinality(1 .. n) = n
  BY <1>2, FS_Interval
<1>11. rank \in Surjection(S, 1 .. n)
  BY <1>1, <1>9, <1>10, FS_Injection
<1>12. ASSUME NEW i \in 1 .. n PROVE \E d \in S : Cardinality(Above(S, time, d)) = i - 1
  <2>1. PICK d \in S : rank[d] = i
    BY <1>11 DEF Surjection
  <2>2. PICK p : p = Cardinality(Above(S, time, d))
    BY Zenon
  <2>3. p \in Nat /\ p + 1 = i
    BY <1>3, <1>6, <2>1, <2>2
  <2>4. p = i - 1
    BY <2>3
  <2> QED
    BY <2>2, <2>4
<1> QED
  BY <1>1, <1>2, <1>3, <1>4, <1>12

-----------------------------------------------------------------------------
(* The history of a feature in an environment *)

\* The rows of a log about a feature in an environment, and of these the first
\* and the last ones of the instructions.
RowsAbout(log, e, f) == {i \in DOMAIN log : log[i].env = e /\ log[i].feature = f}
IsFirst(log, rows, i) == i \in rows /\ \A j \in rows : j < i => log[j].diid # log[i].diid
IsLast(log, rows, i) == i \in rows /\ \A j \in rows : log[j].diid = log[i].diid => j <= i

\* s lists the elements of S from the last one to the first one.
Descends(s, N, S) ==
    /\ N \in Nat /\ DOMAIN s = 1 .. N
    /\ \A n \in 1 .. N : s[n] \in S
    /\ \A i \in S : \E n \in 1 .. N : s[n] = i
    /\ \A m, n \in 1 .. N : m < n => s[m] > s[n]

\* A log of instructions in the order of their numbers.
Numbered(log, L, rows) ==
    /\ L \in Nat /\ rows \subseteq 1 .. L
    /\ \A i \in rows : log[i].diid \in Nat
    /\ \A i, j \in rows : i < j => log[i].diid <= log[j].diid

LEMMA AboutNumbered ==
    ASSUME NEW S, NEW log \in Seq(S), InstructionsOK(log), NEW e, NEW f,
           NEW rows, rows = RowsAbout(log, e, f)
    PROVE  Numbered(log, Len(log), rows)
<1>1. rows \subseteq 1 .. Len(log) /\ Len(log) \in Nat
  BY DEF RowsAbout
<1>2. PICK d \in Nat : Diids(log) = 1 .. d
  BY Numbers, Zenon
<1>3. ASSUME NEW i \in rows PROVE log[i].diid \in Nat
  <2>1. log[i].diid \in Diids(log)
    BY DEF Diids, Range, RowsAbout
  <2> QED
    BY <1>2, <2>1
<1>4. ASSUME NEW i \in rows, NEW j \in rows, i < j PROVE log[i].diid <= log[j].diid
  <2>1. i \in DOMAIN log /\ j \in DOMAIN log /\ log[i].env = log[j].env /\ log[i].feature = log[j].feature
    BY DEF RowsAbout
  <2> QED
    BY <1>4, <2>1, Zenon DEF InstructionsOK
<1> QED
  BY <1>1, <1>3, <1>4 DEF Numbered

\* Every instruction has a first and a last row.
LEMMA FirstAndLast ==
    ASSUME NEW log, NEW L, NEW rows, Numbered(log, L, rows), NEW i \in rows
    PROVE  /\ \E p : IsFirst(log, rows, p) /\ log[p].diid = log[i].diid
           /\ \E p : IsLast(log, rows, p) /\ log[p].diid = log[i].diid
                     /\ p = Max({j \in rows : log[j].diid = log[i].diid})
<1>1. PICK S : S = {j \in rows : log[j].diid = log[i].diid}
  BY Zenon
<1>2. S \in SUBSET (1 .. L) /\ S \in SUBSET Nat /\ S # {} /\ L \in Nat
  <2>1. L \in Nat /\ rows \subseteq 1 .. L
    BY DEF Numbered
  <2>2. S \subseteq rows /\ i \in S
    BY <1>1
  <2> QED
    BY <2>1, <2>2
<1>3. PICK p \in S : \A j \in S : p <= j
  BY <1>2, FirstPosition
<1>4. IsFirst(log, rows, p)
  <2>1. ASSUME NEW j \in rows, j < p, log[j].diid = log[p].diid PROVE FALSE
    <3>1. j \in S
      BY <1>1, <1>3, <2>1
    <3> QED
      BY <1>2, <1>3, <2>1, <3>1
  <2> QED
    BY <1>1, <1>3, <2>1 DEF IsFirst
<1>5. PICK q : q = Max(S)
  BY Zenon
<1>6. q \in S /\ \A j \in S : j <= q
  BY <1>2, <1>5, LastPosition
<1>7. IsLast(log, rows, q)
  BY <1>1, <1>6 DEF IsLast
<1> QED
  BY <1>1, <1>3, <1>4, <1>5, <1>6, <1>7

\* With the first rows in descending order, so are the last ones.
LEMMA LastsDescend ==
    ASSUME NEW log, NEW L, NEW rows, Numbered(log, L, rows),
           NEW s, NEW N, NEW F, F = {i \in rows : IsFirst(log, rows, i)}, Descends(s, N, F),
           NEW p, DOMAIN p = 1 .. N,
           \A n \in 1 .. N : IsLast(log, rows, p[n]) /\ log[p[n]].diid = log[s[n]].diid,
           NEW Z, Z = {i \in rows : IsLast(log, rows, i)}
    PROVE  Descends(p, N, Z)
<1>1. \A n \in 1 .. N : p[n] \in Z /\ s[n] \in F
  BY DEF IsLast, Descends
<1>2. ASSUME NEW i \in Z PROVE \E n \in 1 .. N : p[n] = i
  <2>1. i \in rows /\ IsLast(log, rows, i) /\ i \in Nat
    BY DEF Numbered
  <2>2. PICK q : IsFirst(log, rows, q) /\ log[q].diid = log[i].diid
    BY <2>1, FirstAndLast
  <2>3. q \in F
    BY <2>2 DEF IsFirst
  <2>4. PICK n \in 1 .. N : s[n] = q
    BY <2>3 DEF Descends
  <2>5. /\ p[n] \in rows /\ p[n] \in Nat /\ log[p[n]].diid = log[i].diid
        /\ IsLast(log, rows, p[n])
    BY <1>1, <2>2, <2>4 DEF Numbered
  <2>6. p[n] <= i /\ i <= p[n]
    BY <2>1, <2>5 DEF IsLast
  <2> QED
    BY <2>1, <2>5, <2>6
<1>3. ASSUME NEW m \in 1 .. N, NEW n \in 1 .. N, m < n PROVE p[m] > p[n]
  <2>1. PICK a, b, x, y : a = s[m] /\ b = s[n] /\ x = p[m] /\ y = p[n]
    BY Zenon
  <2>2. a > b /\ IsFirst(log, rows, a) /\ a \in rows /\ b \in rows
    BY <1>1, <1>3, <2>1 DEF Descends
  <2>3. x \in rows /\ y \in rows
    BY <1>1, <2>1
  <2>4. a \in Nat /\ b \in Nat /\ x \in Nat /\ y \in Nat
    BY <2>2, <2>3 DEF Numbered
  <2>5. log[b].diid <= log[a].diid /\ log[b].diid # log[a].diid
    BY <2>2, <2>4 DEF Numbered, IsFirst
  <2>6. log[y].diid = log[b].diid /\ log[x].diid = log[a].diid
    BY <2>1
  <2>7. log[a].diid \in Nat /\ log[b].diid \in Nat
    BY <2>2 DEF Numbered
  <2>8. ~(log[x].diid <= log[y].diid)
    BY <2>5, <2>6, <2>7
  <2>9. ~(x < y) /\ x # y
    BY <2>3, <2>6, <2>7, <2>8 DEF Numbered
  <2> QED
    BY <2>1, <2>4, <2>9
<1> QED
  BY <1>1, <1>2, <1>3 DEF Descends

\* What is at rank n among some positions.
NewerCounts(F) == [i \in F |-> Cardinality({j \in F : j > i})]
IsRanking(C, F, N) ==
    /\ N \in Nat
    /\ \A d \in F : C[d] \in Nat /\ C[d] < N
    /\ \A a, b \in F : a > b => C[a] < C[b]
    /\ \A n \in 1 .. N : \E d \in F : C[d] = n - 1
LEMMA Counted ==
    ASSUME NEW L \in Nat, NEW F \in SUBSET (1 .. L), NEW C, C = NewerCounts(F), NEW N, N = Cardinality(F)
    PROVE  IsRanking(C, F, N)
<1>1. PICK time : time = [i \in F |-> i]
  BY Zenon
<1>2. IsFiniteSet(F)
  <2>1. IsFiniteSet(1 .. L)
    BY FS_Interval
  <2> QED
    BY <2>1, FS_Subset
<1>3. /\ \A d \in F : time[d] \in Nat /\ d \in Nat /\ time[d] = d
      /\ \A a, b \in F : time[a] = time[b] => a = b
  BY <1>1
<1>4. /\ N \in Nat
      /\ \A d \in F : Cardinality(Above(F, time, d)) \in Nat /\ Cardinality(Above(F, time, d)) < N
      /\ \A a, b \in F : time[a] > time[b] =>
            Cardinality(Above(F, time, a)) < Cardinality(Above(F, time, b))
      /\ \A n \in 1 .. N : \E d \in F : Cardinality(Above(F, time, d)) = n - 1
  BY <1>2, <1>3, Ranks
<1>5. \A i \in F : C[i] = Cardinality(Above(F, time, i))
  <2> SUFFICES ASSUME NEW i \in F PROVE {j \in F : j > i} = Above(F, time, i)
    BY DEF NewerCounts
  <2> QED
    BY <1>3 DEF Above
<1> QED
  BY <1>3, <1>4, <1>5 DEF IsRanking

LEMMA Ordered ==
    ASSUME NEW L \in Nat, NEW F \in SUBSET (1 .. L), NEW N, N = Cardinality(F),
           NEW s, s = [n \in 1 .. N |-> NthNewest(F, n)]
    PROVE  Descends(s, N, F)
<1>1. PICK C : C = NewerCounts(F)
  BY Zenon
<1>2. /\ N \in Nat
      /\ \A d \in F : C[d] \in Nat /\ C[d] < N
      /\ \A a, b \in F : a > b => C[a] < C[b]
      /\ \A n \in 1 .. N : \E d \in F : C[d] = n - 1
  <2>1. IsRanking(C, F, N)
    BY <1>1, Counted
  <2> QED
    BY <2>1 DEF IsRanking
<1>3. ASSUME NEW n \in 1 .. N PROVE s[n] \in F /\ C[s[n]] = n - 1
  <2>1. \A i \in F : C[i] = Cardinality({j \in F : j > i})
    BY <1>1 DEF NewerCounts
  <2>2. s[n] = CHOOSE i \in F : Cardinality({j \in F : j > i}) = n - 1
    BY DEF NthNewest
  <2>3. \E i \in F : Cardinality({j \in F : j > i}) = n - 1
    BY <1>2, <2>1
  <2>4. s[n] \in F /\ Cardinality({j \in F : j > s[n]}) = n - 1
    BY <2>2, <2>3, Zenon
  <2> QED
    BY <2>1, <2>4, Zenon
<1>4. DOMAIN s = 1 .. N
  OBVIOUS
<1>5. \A i \in F : i \in Nat
  OBVIOUS
<1>6. ASSUME NEW i \in F PROVE \E n \in 1 .. N : s[n] = i
  <2>1. PICK n : n = C[i] + 1
    BY Zenon
  <2>2. n \in 1 .. N /\ C[i] = n - 1
    BY <1>2, <2>1, SMTT(30)
  <2>3. PICK k : k = s[n]
    BY Zenon
  <2>4. k \in F /\ C[k] = C[i]
    BY <1>3, <2>2, <2>3
  <2>5. C[k] \in Nat /\ k \in Nat /\ i \in Nat
    BY <1>2, <1>5, <2>4
  <2>6. ~(k > i) /\ ~(i > k)
    BY <1>2, <2>4, <2>5
  <2> QED
    BY <2>2, <2>3, <2>5, <2>6
<1>7. ASSUME NEW m \in 1 .. N, NEW n \in 1 .. N, m < n PROVE s[m] > s[n]
  <2>1. PICK a, b : a = s[m] /\ b = s[n]
    BY Zenon
  <2>2. a \in F /\ b \in F /\ a \in Nat /\ b \in Nat /\ C[a] = m - 1 /\ C[b] = n - 1
    BY <1>3, <1>5, <2>1
  <2>3. ~(b > a) /\ b # a
    BY <1>2, <1>7, <2>2
  <2> QED
    BY <2>1, <2>2, <2>3
<1> QED
  BY <1>2, <1>3, <1>4, <1>6, <1>7 DEF Descends

\* The history: the last rows of the instructions, from the newest one on.
Tells(history, log, rows, p, N) ==
    /\ Descends(p, N, {i \in rows : IsLast(log, rows, i)})
    /\ DOMAIN history = {n \in 1 .. N : n <= HistoryLimit}
    /\ \A n \in DOMAIN history : history[n] = log[p[n]]

\* The row of the last status and the first row, with that status.
LEMMA EntryIsLast ==
    ASSUME InstructionsInv, AssignedInv, NEW i \in DOMAIN deployLog, NEW j \in DOMAIN deployLog,
           deployLog[i].diid = deployLog[j].diid
    PROVE  [deployLog[i] EXCEPT !.status = deployLog[j].status] = deployLog[j]
<1>1. PICK r, q : r = deployLog[i] /\ q = deployLog[j]
  BY Zenon
<1>2. SameInstruction(r, q) /\ r.diid = q.diid
  BY <1>1, Zenon DEF InstructionsInv, InstructionsOK
<1>3. IsDeployRow(r) /\ IsDeployRow(q)
  BY <1>1, Zenon DEF AssignedInv, NamesOK
<1>4. [r EXCEPT !.status = q.status] = q
  BY <1>2, <1>3 DEF SameInstruction, IsDeployRow
<1> QED
  BY <1>1, <1>4

LEMMA HistoryTells ==
    ASSUME DecisionInv, InstructionsInv, AssignedInv, NEW e, NEW f,
           NEW rows, rows = RowsAbout(deployLog, e, f),
           NEW history, history = ListRecentDeployInstructions(e, f, HistoryLimit)
    PROVE  \E p, N : Tells(history, deployLog, rows, p, N)
<1>1. PICK L : L = Len(deployLog)
  BY Zenon
<1>2. Numbered(deployLog, L, rows)
  BY <1>1, AboutNumbered DEF DecisionInv, TablesInv, InstructionsInv
<1>3. L \in Nat /\ rows \in SUBSET (1 .. L) /\ rows \subseteq DOMAIN deployLog
  BY <1>2 DEF Numbered, RowsAbout
<1>4. PICK F, N : F = FirstRows(rows) /\ N = Cardinality(F)
  BY Zenon
<1>5. F = {i \in rows : IsFirst(deployLog, rows, i)} /\ F \in SUBSET (1 .. L)
  BY <1>3, <1>4 DEF IsFirst, FirstRows
<1>6. PICK s : s = [n \in 1 .. N |-> NthNewest(F, n)]
  BY Zenon
<1>7. Descends(s, N, F)
  BY <1>3, <1>4, <1>5, <1>6, Ordered
<1>8. PICK p : p = [n \in 1 .. N |-> LastRow(rows, s[n])]
  BY Zenon
<1>9. ASSUME NEW n \in 1 .. N
      PROVE  /\ IsLast(deployLog, rows, p[n]) /\ deployLog[p[n]].diid = deployLog[s[n]].diid
             /\ s[n] \in rows
  <2>1. PICK i : i = s[n]
    BY Zenon
  <2>2. i \in rows
    BY <1>5, <1>7, <2>1 DEF Descends
  <2>3. p[n] = Max({j \in rows : deployLog[j].diid = deployLog[i].diid})
    BY <1>8, <2>1 DEF LastRow
  <2>4. PICK q : /\ IsLast(deployLog, rows, q) /\ deployLog[q].diid = deployLog[i].diid
                 /\ q = Max({j \in rows : deployLog[j].diid = deployLog[i].diid})
    BY <1>2, <2>2, FirstAndLast
  <2> QED
    BY <2>1, <2>2, <2>3, <2>4, Zenon
<1>10. PICK Z : Z = {i \in rows : IsLast(deployLog, rows, i)}
  BY Zenon
<1>11. Descends(p, N, Z)
  <2>1. DOMAIN p = 1 .. N
    BY <1>8
  <2> QED
    BY <1>2, <1>5, <1>7, <1>9, <1>10, <2>1, LastsDescend
<1>12. PICK K : K = Min({HistoryLimit, N})
  BY Zenon
<1>13. \A n : n \in 1 .. K <=> n \in 1 .. N /\ n <= HistoryLimit
  <2>1. N \in Nat /\ HistoryLimit \in Nat
    BY <1>7 DEF Descends, HistoryLimit
  <2>2. PICK S : S = {HistoryLimit, N}
    BY Zenon
  <2>3. S \in SUBSET Nat /\ S # {}
    BY <2>1, <2>2
  <2>4. K \in S /\ \A y \in S : K <= y
    <3>1. PICK x \in S : \A y \in S : x <= y
      BY <2>3, FirstPosition
    <3>2. PICK m : m = CHOOSE a \in S : \A y \in S : a <= y
      BY Zenon
    <3>3. m \in S /\ \A y \in S : m <= y
      BY <3>1, <3>2
    <3>4. K = m
      BY <1>12, <2>2, <3>2 DEF Min
    <3> QED
      BY <3>3, <3>4
  <2> QED
    BY <2>1, <2>2, <2>4
<1>14. history = [n \in 1 .. K |->
          [deployLog[NthNewest(F, n)] EXCEPT !.status =
             deployLog[LastRow(rows, NthNewest(F, n))].status]]
  <2>1. rows = ListDeployLog(e, f)
    BY Zenon DEF ListDeployLog, RowsAbout
  <2> QED
    BY <1>4, <1>12, <2>1, Zenon DEF ListRecentDeployInstructions
<1>15. ASSUME NEW n \in 1 .. K PROVE history[n] = deployLog[p[n]]
  <2>1. n \in 1 .. N
    BY <1>13
  <2>2. history[n] = [deployLog[s[n]] EXCEPT !.status = deployLog[p[n]].status]
    <3>1. history[n] = [deployLog[NthNewest(F, n)] EXCEPT !.status =
                          deployLog[LastRow(rows, NthNewest(F, n))].status]
      BY <1>14
    <3>2. NthNewest(F, n) = s[n] /\ LastRow(rows, s[n]) = p[n]
      BY <1>6, <1>8, <2>1
    <3> QED
      BY <3>1, <3>2, Zenon
  <2>3. p[n] \in DOMAIN deployLog /\ s[n] \in DOMAIN deployLog
    BY <1>3, <1>9, <2>1 DEF IsLast
  <2> QED
    BY <1>9, <2>1, <2>2, <2>3, EntryIsLast
<1>16. DOMAIN history = 1 .. K
  BY <1>14
<1>17. DOMAIN history = {n \in 1 .. N : n <= HistoryLimit}
  BY <1>13, <1>16, Zenon
<1> QED
  BY <1>10, <1>11, <1>15, <1>16, <1>17, Zenon DEF Tells

LEMMA FeatureLookup ==
    ASSUME NEW S, NEW k
    PROVE  Lookup(ByFeature(S), k) = One({r \in S : r.feature = k})
<1>1. PICK K : K = {r.feature : r \in S}
  BY Zenon
<1>2. ByFeature(S) = [x \in K |-> One({r \in S : r.feature = x})]
  BY <1>1, Zenon DEF ByFeature
<1>3. CASE k \in K
  <2>1. k \in DOMAIN ByFeature(S) /\ ByFeature(S)[k] = One({r \in S : r.feature = k})
    BY <1>2, <1>3, Zenon
  <2> QED
    BY <2>1, Zenon DEF Lookup
<1>4. CASE k \notin K
  <2>1. k \notin DOMAIN ByFeature(S)
    BY <1>2, <1>4, Zenon
  <2>2. PICK T : T = {r \in S : r.feature = k}
    BY Zenon
  <2>3. T = {}
    BY <1>1, <1>4, <2>2
  <2>4. One(T) = NoRow
    BY <2>3, Zenon DEF One
  <2> QED
    BY <2>1, <2>2, <2>4, Zenon DEF Lookup
<1> QED
  BY <1>3, <1>4

LEMMA EnvironmentLookup ==
    ASSUME NEW S, NEW k
    PROVE  Lookup(ByEnvironment(S), k) = One({r \in S : r.env = k})
<1>1. PICK K : K = {r.env : r \in S}
  BY Zenon
<1>2. ByEnvironment(S) = [x \in K |-> One({r \in S : r.env = x})]
  BY <1>1, Zenon DEF ByEnvironment
<1>3. CASE k \in K
  <2>1. k \in DOMAIN ByEnvironment(S) /\ ByEnvironment(S)[k] = One({r \in S : r.env = k})
    BY <1>2, <1>3, Zenon
  <2> QED
    BY <2>1, Zenon DEF Lookup
<1>4. CASE k \notin K
  <2>1. k \notin DOMAIN ByEnvironment(S)
    BY <1>2, <1>4, Zenon
  <2>2. PICK T : T = {r \in S : r.env = k}
    BY Zenon
  <2>3. T = {}
    BY <1>1, <1>4, <2>2
  <2>4. One(T) = NoRow
    BY <2>3, Zenon DEF One
  <2> QED
    BY <2>1, <2>2, <2>4, Zenon DEF Lookup
<1> QED
  BY <1>3, <1>4

LEMMA OneOf == ASSUME NEW x PROVE One({x}) = x /\ One({}) = NoRow
BY DEF One

\* The last of some rows, if there are any.
LastOf(S) == IF S = {} THEN {} ELSE {deployLog[Max(S)]}

\* The row of deploy_status is the last row about the feature in the environment.
LEMMA LatestRow ==
    ASSUME DecisionInv, NEW e, NEW f, NEW rows, rows = RowsAbout(deployLog, e, f)
    PROVE  {r \in deploy_status : r.env = e /\ r.feature = f} = LastOf(rows)
<1>1. PICK L \in Nat : L = Len(deployLog) /\ DOMAIN deployLog = 1 .. L
  BY DEF DecisionInv, TablesInv
<1>2. rows \in SUBSET (1 .. L)
  BY <1>1 DEF RowsAbout
<1>3. \A r : (r \in deploy_status /\ r.env = e /\ r.feature = f) <=>
         \E i \in rows : r = deployLog[i] /\ \A n \in rows : ~(n > i)
  <2>1. ASSUME NEW r \in deploy_status, r.env = e, r.feature = f
        PROVE  \E i \in rows : r = deployLog[i] /\ \A n \in rows : ~(n > i)
    <3>1. PICK i \in 1 .. L :
            /\ r = deployLog[i]
            /\ \A n \in i + 1 .. L :
                  deployLog[n].feature # deployLog[i].feature \/ deployLog[n].env # deployLog[i].env
      BY <1>1 DEF deploy_status, View
    <3>2. i \in rows
      BY <1>1, <2>1, <3>1 DEF RowsAbout
    <3>3. ASSUME NEW n \in rows, n > i PROVE FALSE
      <4>1. n \in i + 1 .. L
        BY <1>2, <3>3
      <4>2. deployLog[n].env = e /\ deployLog[n].feature = f
        BY DEF RowsAbout
      <4> QED
        BY <2>1, <3>1, <4>1, <4>2
    <3> QED
      BY <3>1, <3>2, <3>3
  <2>2. ASSUME NEW i \in rows, \A n \in rows : ~(n > i)
        PROVE  deployLog[i] \in deploy_status /\ deployLog[i].env = e /\ deployLog[i].feature = f
    <3>1. i \in 1 .. L /\ deployLog[i].env = e /\ deployLog[i].feature = f
      BY <1>1 DEF RowsAbout
    <3>2. ASSUME NEW n \in i + 1 .. L
          PROVE  deployLog[n].feature # deployLog[i].feature \/ deployLog[n].env # deployLog[i].env
      <4>1. n \in 1 .. L /\ n > i
        BY <3>1
      <4>2. n \notin rows
        BY <2>2, <4>1
      <4> QED
        BY <1>1, <3>1, <4>1, <4>2 DEF RowsAbout
    <3> QED
      BY <1>1, <3>1, <3>2 DEF deploy_status, View
  <2> QED
    BY <2>1, <2>2
<1>4. CASE rows = {}
  BY <1>3, <1>4 DEF LastOf
<1>5. CASE rows # {}
  <2>1. PICK m : m = Max(rows)
    BY Zenon
  <2>2. m \in rows /\ \A n \in rows : n <= m
    BY <1>2, <1>5, <2>1, LastPosition
  <2>3. \A i \in rows : (\A n \in rows : ~(n > i)) <=> i = m
    BY <1>2, <2>2
  <2>4. \A r : (r \in deploy_status /\ r.env = e /\ r.feature = f) <=> r = deployLog[m]
    BY <1>3, <2>2, <2>3, Zenon
  <2> QED
    BY <1>5, <2>1, <2>4, Zenon DEF LastOf
<1> QED
  BY <1>4, <1>5

\* The latest successful one, by either query.
IdsAbout(ids, e, f) == {i \in ids : deployLog[i].env = e /\ deployLog[i].feature = f}
OnesAbout(T, e, f) == {r \in T : r.env = e /\ r.feature = f}
LEMMA LatestAmongRows ==
    ASSUME DecisionInv, NEW ids \in SUBSET DOMAIN deployLog, NEW e, NEW f,
           NEW S, S = IdsAbout(ids, e, f), NEW T, T = LatestAmong(ids)
    PROVE  OnesAbout(T, e, f) = LastOf(S)
<1> USE DEF IdsAbout, OnesAbout
<1>1. PICK L \in Nat : L = Len(deployLog) /\ DOMAIN deployLog = 1 .. L
  BY DEF DecisionInv, TablesInv
<1>2. S \in SUBSET (1 .. L) /\ ids \in SUBSET (1 .. L)
  BY <1>1
<1>3. \A r : (r \in LatestAmong(ids) /\ r.env = e /\ r.feature = f) <=>
         \E i \in S : r = deployLog[i] /\ \A n \in S : ~(n > i)
  <2>1. ASSUME NEW r \in LatestAmong(ids), r.env = e, r.feature = f
        PROVE  \E i \in S : r = deployLog[i] /\ \A n \in S : ~(n > i)
    <3>1. PICK i \in ids :
            /\ r = deployLog[i]
            /\ \A n \in ids : n > i =>
                  deployLog[n].feature # deployLog[i].feature \/ deployLog[n].env # deployLog[i].env
      BY Zenon DEF LatestAmong
    <3> QED
      BY <2>1, <3>1
  <2>2. ASSUME NEW i \in S, \A n \in S : ~(n > i)
        PROVE  deployLog[i] \in LatestAmong(ids) /\ deployLog[i].env = e /\ deployLog[i].feature = f
    <3>1. i \in ids /\ deployLog[i].env = e /\ deployLog[i].feature = f
      OBVIOUS
    <3>2. \A n \in ids : n > i =>
            deployLog[n].feature # deployLog[i].feature \/ deployLog[n].env # deployLog[i].env
      BY <2>2, <3>1
    <3> QED
      BY <3>1, <3>2, Zenon DEF LatestAmong
  <2> QED
    BY <2>1, <2>2
<1>4. CASE S = {}
  BY <1>3, <1>4 DEF LastOf
<1>5. CASE S # {}
  <2>1. PICK m : m = Max(S)
    BY Zenon
  <2>2. m \in S /\ \A n \in S : n <= m
    BY <1>2, <1>5, <2>1, LastPosition
  <2>3. \A i \in S : (\A n \in S : ~(n > i)) <=> i = m
    BY <1>2, <2>2
  <2>4. \A r : (r \in LatestAmong(ids) /\ r.env = e /\ r.feature = f) <=> r = deployLog[m]
    BY <1>3, <2>2, <2>3, Zenon
  <2> QED
    BY <1>5, <2>1, <2>4, Zenon DEF LastOf
<1> QED
  BY <1>4, <1>5

\* The newest entry of the history is the last row, and its newest deployed entry
\* the last row that says so.
LEMMA NewestEntry ==
    ASSUME NEW log, NEW L, NEW rows, Numbered(log, L, rows), NEW history, NEW p, NEW N,
           Tells(history, log, rows, p, N)
    PROVE  /\ rows = {} => DOMAIN history = {}
           /\ rows # {} => 1 \in DOMAIN history /\ history[1] = log[Max(rows)]
<1>1. PICK Z : Z = {i \in rows : IsLast(log, rows, i)}
  BY Zenon
<1>2. /\ Descends(p, N, Z) /\ DOMAIN history = {n \in 1 .. N : n <= HistoryLimit}
      /\ \A n \in DOMAIN history : history[n] = log[p[n]]
  BY <1>1 DEF Tells
<1>3. L \in Nat /\ rows \in SUBSET (1 .. L) /\ N \in Nat
  BY <1>2 DEF Numbered, Descends
<1>4. ASSUME rows = {} PROVE DOMAIN history = {}
  <2>1. Z = {}
    BY <1>1, <1>4
  <2>2. ~\E n \in 1 .. N : TRUE
    BY <1>2, <2>1 DEF Descends
  <2> QED
    BY <1>2, <2>2
<1>5. ASSUME rows # {} PROVE 1 \in DOMAIN history /\ history[1] = log[Max(rows)]
  <2>1. PICK m : m = Max(rows)
    BY Zenon
  <2>2. m \in rows /\ \A n \in rows : n <= m
    BY <1>3, <1>5, <2>1, LastPosition
  <2>3. m \in Z
    BY <1>1, <2>2 DEF IsLast
  <2>4. PICK n \in 1 .. N : p[n] = m
    BY <1>2, <2>3 DEF Descends
  <2>5. 1 \in 1 .. N
    BY <1>3
  <2>6. p[1] \in rows /\ p[1] \in Nat /\ m \in Nat
    <3>1. p[1] \in Z
      BY <1>2, <2>5 DEF Descends
    <3>2. p[1] \in rows
      BY <1>1, <3>1
    <3>3. \A i \in rows : i \in Nat
      BY <1>3
    <3> QED
      BY <2>2, <3>2, <3>3, Zenon
  <2>7. ~(1 < n)
    <3> SUFFICES ASSUME 1 < n PROVE FALSE
      OBVIOUS
    <3>1. p[1] > p[n]
      BY <1>2, <2>5 DEF Descends
    <3> QED
      BY <2>2, <2>4, <2>6, <3>1
  <2>8. n = 1
    BY <1>3, <2>7
  <2>9. 1 \in DOMAIN history
    BY <1>2, <2>5 DEF HistoryLimit
  <2> QED
    BY <1>2, <2>1, <2>4, <2>8, <2>9
<1> QED
  BY <1>4, <1>5

LEMMA NewestDeployed ==
    ASSUME NEW log, NEW L, NEW rows, Numbered(log, L, rows), NEW history, NEW p, NEW N,
           Tells(history, log, rows, p, N),
           NEW D, D = {i \in rows : log[i].status = "deployed"},
           \A i \in D : IsLast(log, rows, i),
           NEW deployed, deployed = {n \in DOMAIN history : history[n].status = "deployed"}
    PROVE  /\ deployed # {} => D # {} /\ history[Min(deployed)] = log[Max(D)]
           /\ deployed = {} => D = {} \/ HistoryLimit \in DOMAIN history
<1>1. PICK Z : Z = {i \in rows : IsLast(log, rows, i)}
  BY Zenon
<1>2. /\ Descends(p, N, Z) /\ DOMAIN history = {n \in 1 .. N : n <= HistoryLimit}
      /\ \A n \in DOMAIN history : history[n] = log[p[n]]
  BY <1>1 DEF Tells
<1>3. L \in Nat /\ rows \in SUBSET (1 .. L) /\ N \in Nat /\ D \in SUBSET (1 .. L)
  BY <1>2 DEF Numbered, Descends
<1>4. ASSUME NEW n \in deployed PROVE n \in 1 .. N /\ p[n] \in D /\ history[n] = log[p[n]]
  <2>1. n \in 1 .. N /\ history[n] = log[p[n]] /\ history[n].status = "deployed"
    BY <1>2
  <2>2. p[n] \in rows
    BY <1>1, <1>2, <2>1 DEF Descends
  <2> QED
    BY <2>1, <2>2
<1>5. CASE D = {}
  BY <1>4, <1>5
<1>6. CASE D # {}
  <2>1. PICK m : m = Max(D)
    BY Zenon
  <2>2. m \in D /\ m \in Nat /\ \A n \in D : n <= m
    <3>1. Max(D) \in D /\ \A n \in D : n <= Max(D)
      BY <1>3, <1>6, LastPosition
    <3> QED
      BY <1>3, <2>1, <3>1
  <2>3. m \in Z
    BY <1>1, <2>2
  <2>4. PICK k \in 1 .. N : p[k] = m
    BY <1>2, <2>3 DEF Descends
  <2>5. k \in DOMAIN history => k \in deployed
    BY <1>2, <2>2, <2>4
  <2>6. ASSUME deployed # {} PROVE history[Min(deployed)] = log[m]
    <3>1. deployed \in SUBSET Nat
      BY <1>3, <1>4
    <3>2. PICK n : n = Min(deployed)
      BY Zenon
    <3>3. n \in deployed /\ \A y \in deployed : n <= y
      <4>1. PICK x \in deployed : \A y \in deployed : x <= y
        BY <2>6, <3>1, FirstPosition
      <4>2. PICK a : a = CHOOSE b \in deployed : \A y \in deployed : b <= y
        BY Zenon
      <4>3. a \in deployed /\ \A y \in deployed : a <= y
        BY <4>1, <4>2
      <4>4. n = a
        BY <3>2, <4>2 DEF Min
      <4> QED
        BY <4>3, <4>4
    <3>4. n \in 1 .. N /\ p[n] \in D /\ history[n] = log[p[n]] /\ n <= HistoryLimit
      BY <1>2, <1>4, <3>3
    <3>5. ~(n < k)
      <4> SUFFICES ASSUME n < k PROVE FALSE
        OBVIOUS
      <4>1. p[n] > m
        BY <1>2, <2>4, <3>4 DEF Descends
      <4>2. p[n] <= m /\ p[n] \in Nat
        BY <1>3, <2>2, <3>4
      <4> QED
        BY <2>2, <4>1, <4>2
    <3>6. k <= n /\ k \in Nat /\ n \in Nat
      BY <1>3, <3>4, <3>5
    <3>7. k \in DOMAIN history
      BY <1>2, <3>4, <3>6 DEF HistoryLimit
    <3>8. k = n
      BY <2>5, <3>3, <3>6, <3>7
    <3> QED
      BY <2>4, <3>2, <3>4, <3>8
  <2>7. ASSUME deployed = {} PROVE HistoryLimit \in DOMAIN history
    <3>1. k \notin DOMAIN history
      BY <2>5, <2>7
    <3>2. k > HistoryLimit
      BY <1>2, <1>3, <3>1 DEF HistoryLimit
    <3> QED
      BY <1>2, <1>3, <3>2 DEF HistoryLimit
  <2> QED
    BY <1>6, <2>1, <2>6, <2>7
<1> QED
  BY <1>5, <1>6

\* What each query for the deploys of a feature in an environment finds.
LatestRowOf(e, f) == One(LastOf(RowsAbout(deployLog, e, f)))
DeployedRows(e, f) == {i \in RowsAbout(deployLog, e, f) : deployLog[i].status = "deployed"}
SuccessfulRowOf(e, f) == One(LastOf(DeployedRows(e, f)))

LEMMA LatestQueries ==
    ASSUME DecisionInv, NEW e, NEW f
    PROVE  /\ GetLatestDeployInstruction(e, f) = LatestRowOf(e, f)
           /\ Lookup(LatestDeployInstructionsForEnvironment(e), f) = LatestRowOf(e, f)
           /\ Lookup(LatestDeployInstructionsForFeature(f), e) = LatestRowOf(e, f)
<1>1. PICK S : S = {r \in deploy_status : r.env = e /\ r.feature = f}
  BY Zenon
<1>2. LatestRowOf(e, f) = One(S)
  BY <1>1, LatestRow, Zenon DEF LatestRowOf
<1>3. GetLatestDeployInstruction(e, f) = One(S)
  BY <1>1, Zenon DEF GetLatestDeployInstruction
<1>4. Lookup(LatestDeployInstructionsForEnvironment(e), f) = One(S)
  <2>1. PICK T : T = {r \in deploy_status : r.env = e}
    BY Zenon
  <2>2. {r \in T : r.feature = f} = S
    BY <1>1, <2>1, Zenon
  <2>3. LatestDeployInstructionsForEnvironment(e) = ByFeature(T)
    BY <2>1, Zenon DEF LatestDeployInstructionsForEnvironment, ListLatestDeployInstructionsForEnvironment
  <2>4. Lookup(ByFeature(T), f) = One({r \in T : r.feature = f})
    BY FeatureLookup, Zenon
  <2> QED
    BY <2>2, <2>3, <2>4, Zenon
<1>5. Lookup(LatestDeployInstructionsForFeature(f), e) = One(S)
  <2>1. PICK T : T = {r \in deploy_status : r.feature = f}
    BY Zenon
  <2>2. {r \in T : r.env = e} = S
    BY <1>1, <2>1, Zenon
  <2>3. LatestDeployInstructionsForFeature(f) = ByEnvironment(T)
    BY <2>1, Zenon DEF LatestDeployInstructionsForFeature, ListLatestDeployInstructionsForFeature
  <2>4. Lookup(ByEnvironment(T), e) = One({r \in T : r.env = e})
    BY EnvironmentLookup, Zenon
  <2> QED
    BY <2>2, <2>3, <2>4, Zenon
<1> QED
  BY <1>2, <1>3, <1>4, <1>5, Zenon

LEMMA SuccessfulQueries ==
    ASSUME DecisionInv, NEW e, NEW f
    PROVE  /\ Lookup(LatestDeployedForEnvironment(e), f) = SuccessfulRowOf(e, f)
           /\ Lookup(LatestDeployedForFeature(f), e) = SuccessfulRowOf(e, f)
<1>1. PICK D : D = DeployedRows(e, f)
  BY Zenon
<1>2. SuccessfulRowOf(e, f) = One(LastOf(D))
  BY <1>1, Zenon DEF SuccessfulRowOf
<1>3. Lookup(LatestDeployedForEnvironment(e), f) = One(LastOf(D))
  <2>1. PICK ids : ids = {i \in DOMAIN deployLog : deployLog[i].env = e /\ deployLog[i].status = "deployed"}
    BY Zenon
  <2>2. PICK T : T = LatestAmong(ids)
    BY Zenon
  <2>3. /\ ids \in SUBSET DOMAIN deployLog
        /\ D = IdsAbout(ids, e, f)
    BY <1>1, <2>1, Zenon DEF DeployedRows, RowsAbout, IdsAbout
  <2>4. OnesAbout(T, e, f) = LastOf(D)
    BY <2>2, <2>3, LatestAmongRows
  <2>5. \A r \in T : r.env = e
    BY <2>1, <2>2, Zenon DEF LatestAmong
  <2>6. {r \in T : r.feature = f} = LastOf(D)
    BY <2>4, <2>5, Zenon DEF OnesAbout
  <2>7. LatestDeployedForEnvironment(e) = ByFeature(T)
    BY <2>1, <2>2, Zenon DEF LatestDeployedForEnvironment, ListLatestDeployedForEnvironment
  <2>8. Lookup(ByFeature(T), f) = One({r \in T : r.feature = f})
    BY FeatureLookup, Zenon
  <2> QED
    BY <2>6, <2>7, <2>8, Zenon
<1>4. Lookup(LatestDeployedForFeature(f), e) = One(LastOf(D))
  <2>1. PICK ids : ids = {i \in DOMAIN deployLog : deployLog[i].feature = f /\ deployLog[i].status = "deployed"}
    BY Zenon
  <2>2. PICK T : T = LatestAmong(ids)
    BY Zenon
  <2>3. /\ ids \in SUBSET DOMAIN deployLog
        /\ D = IdsAbout(ids, e, f)
    BY <1>1, <2>1, Zenon DEF DeployedRows, RowsAbout, IdsAbout
  <2>4. OnesAbout(T, e, f) = LastOf(D)
    BY <2>2, <2>3, LatestAmongRows
  <2>5. \A r \in T : r.feature = f
    BY <2>1, <2>2, Zenon DEF LatestAmong
  <2>6. {r \in T : r.env = e} = LastOf(D)
    BY <2>4, <2>5, Zenon DEF OnesAbout
  <2>7. LatestDeployedForFeature(f) = ByEnvironment(T)
    BY <2>1, <2>2, Zenon DEF LatestDeployedForFeature, ListLatestDeployedForFeature
  <2>8. Lookup(ByEnvironment(T), e) = One({r \in T : r.env = e})
    BY EnvironmentLookup, Zenon
  <2> QED
    BY <2>6, <2>7, <2>8, Zenon
<1> QED
  BY <1>2, <1>3, <1>4, Zenon

\* The lines of the latest instruction are found through its assignment, which
\* is of one feature.
LEMMA LogLinesShown ==
    ASSUME DecisionInv, AssignedInv, NEW e, NEW f, NEW latest, latest = LatestRowOf(e, f),
           latest # NoRow
    PROVE  latest \in ListDeployInstructions(latest.fa) /\ GetFeatureLog(latest.fa, e) = latest
<1>1. PICK S : S = {r \in deploy_status : r.env = e /\ r.feature = f}
  BY Zenon
<1>2. latest = One(S)
  BY <1>1, LatestRow, Zenon DEF LatestRowOf
<1>3. latest \in S
  BY <1>2, Zenon DEF One
<1>4. latest \in deploy_status /\ latest.env = e /\ latest.feature = f
  BY <1>1, <1>3
<1>5. \A r \in deploy_status : OfAssignment(featureAssignments, r.fa, r.feature)
  <2> SUFFICES ASSUME NEW r \in deploy_status PROVE OfAssignment(featureAssignments, r.fa, r.feature)
    OBVIOUS
  <2>1. PICK i \in DOMAIN deployLog : r = deployLog[i]
    BY ViewFacts DEF deploy_status
  <2> QED
    BY <2>1, Zenon DEF AssignedInv, NamesOK
<1>6. {r \in deploy_status : r.fa = latest.fa /\ r.env = e} = S
  <2>1. \A r \in deploy_status : r.fa = latest.fa => r.feature = f
    BY <1>4, <1>5, Zenon DEF OfAssignment
  <2>2. \A r \in S : r = latest
    <3>1. S = LastOf(RowsAbout(deployLog, e, f))
      BY <1>1, LatestRow
    <3> QED
      BY <1>3, <3>1 DEF LastOf
  <2> QED
    BY <1>1, <1>4, <2>1, <2>2, Zenon
<1>7. GetFeatureLog(latest.fa, e) = One(S)
  BY <1>6, Zenon DEF GetFeatureLog, GetDeployInstructionByFeatureAssignmentAndEnvironmentID
<1>8. latest \in ListDeployInstructions(latest.fa)
  BY <1>4, Zenon DEF ListDeployInstructions
<1> QED
  BY <1>2, <1>7, <1>8, Zenon

\* A row that says deployed is the last one of its instruction.
LEMMA DeployedIsLast ==
    ASSUME DecisionInv, InstructionsInv, NEW e, NEW f, NEW rows, rows = RowsAbout(deployLog, e, f),
           NEW i \in rows, deployLog[i].status = "deployed"
    PROVE  IsLast(deployLog, rows, i)
<1>1. ASSUME NEW j \in rows, deployLog[j].diid = deployLog[i].diid PROVE j <= i
  <2> SUFFICES ASSUME ~(j <= i) PROVE FALSE
    OBVIOUS
  <2>1. i \in DOMAIN deployLog /\ j \in DOMAIN deployLog /\ i \in Nat /\ j \in Nat
    BY DEF RowsAbout, DecisionInv, TablesInv
  <2>2. i < j
    BY <2>1
  <2>3. IsInProgress(deployLog[i].status)
    BY <1>1, <2>1, <2>2, Zenon DEF InstructionsInv, InstructionsOK
  <2> QED
    BY <2>3 DEF IsInProgress
<1> QED
  BY <1>1 DEF IsLast

DeployPagesOf(e, f, history, deployed, latest, successful) ==
    /\ latest = IF DOMAIN history = {} THEN NoRow ELSE history[1]
    /\ Lookup(LatestDeployInstructionsForEnvironment(e), f) = latest
    /\ Lookup(LatestDeployInstructionsForFeature(f), e) = latest
    /\ deployed # {} => successful = history[Min(deployed)]
    /\ deployed = {} => successful = NoRow \/ HistoryLimit \in DOMAIN history
    /\ Lookup(LatestDeployedForFeature(f), e) = successful
    /\ loadFeatureLog(e, f) = latest
    /\ latest # NoRow => /\ latest \in ListDeployInstructions(latest.fa)
                         /\ GetFeatureLog(latest.fa, e) = latest
LEMMA DeployPagesOfOne ==
    ASSUME DecisionInv, InstructionsInv, AssignedInv,
           NEW e, NEW f, NEW history, NEW deployed, NEW latest, NEW successful,
           history = ListRecentDeployInstructions(e, f, HistoryLimit),
           deployed = {n \in DOMAIN history : history[n].status = "deployed"},
           latest = GetLatestDeployInstruction(e, f),
           successful = Lookup(LatestDeployedForEnvironment(e), f)
    PROVE  DeployPagesOf(e, f, history, deployed, latest, successful)
<1>1. PICK rows, D : rows = RowsAbout(deployLog, e, f) /\ D = DeployedRows(e, f)
  BY Zenon
<1>2. PICK p, N : Tells(history, deployLog, rows, p, N)
  BY <1>1, HistoryTells
<1>3. PICK L : Numbered(deployLog, L, rows)
  BY <1>1, AboutNumbered DEF DecisionInv, TablesInv, InstructionsInv
<1>4. latest = One(LastOf(rows)) /\ successful = One(LastOf(D))
  BY <1>1, LatestQueries, SuccessfulQueries, Zenon DEF LatestRowOf, SuccessfulRowOf
<1>5. latest = IF DOMAIN history = {} THEN NoRow ELSE history[1]
  <2>1. CASE rows = {}
    BY <1>2, <1>3, <1>4, <2>1, NewestEntry, OneOf DEF LastOf
  <2>2. CASE rows # {}
    BY <1>2, <1>3, <1>4, <2>2, NewestEntry, OneOf DEF LastOf
  <2> QED
    BY <2>1, <2>2
<1>6. D = {i \in rows : deployLog[i].status = "deployed"} /\ \A i \in D : IsLast(deployLog, rows, i)
  BY <1>1, DeployedIsLast DEF DeployedRows
<1>7. /\ deployed # {} => D # {} /\ history[Min(deployed)] = deployLog[Max(D)]
      /\ deployed = {} => D = {} \/ HistoryLimit \in DOMAIN history
  BY <1>2, <1>3, <1>6, NewestDeployed
<1>8. /\ D = {} => successful = NoRow
      /\ D # {} => successful = deployLog[Max(D)]
  BY <1>4, OneOf DEF LastOf
<1>9. loadFeatureLog(e, f) = latest
  BY DEF loadFeatureLog
<1> QED
  BY <1>1, <1>4, <1>5, <1>7, <1>8, <1>9, LatestQueries, SuccessfulQueries, LogLinesShown, ZenonT(60)
     DEF LatestRowOf, SuccessfulRowOf, DeployPagesOf

LEMMA DeployPages ==
    ASSUME DecisionInv, InstructionsInv, AssignedInv PROVE DeployPagesAgree
<1>1. ASSUME NEW e, NEW f
      PROVE  LET history == ListRecentDeployInstructions(e, f, HistoryLimit)
             IN  DeployPagesOf(e, f, history, {n \in DOMAIN history : history[n].status = "deployed"},
                    GetLatestDeployInstruction(e, f), Lookup(LatestDeployedForEnvironment(e), f))
  <2>1. PICK history, latest, successful :
          /\ history = ListRecentDeployInstructions(e, f, HistoryLimit)
          /\ latest = GetLatestDeployInstruction(e, f)
          /\ successful = Lookup(LatestDeployedForEnvironment(e), f)
    BY Zenon
  <2>2. PICK deployed : deployed = {n \in DOMAIN history : history[n].status = "deployed"}
    BY Zenon
  <2>3. DeployPagesOf(e, f, history, deployed, latest, successful)
    BY <2>1, <2>2, DeployPagesOfOne
  <2> QED
    BY <2>1, <2>2, <2>3, Zenon
<1> QED
  BY <1>1, Zenon DEF DeployPagesAgree, DeployPagesOf

-----------------------------------------------------------------------------
(* The assignment that wins *)

\* ORDER BY created DESC lists every row once, newer ones first.
CreatedAt(S) == [d \in S |-> d.created]
LEMMA OrderedRows ==
    ASSUME NEW S, IsFiniteSet(S), \A d \in S : d.created \in Nat,
           \A a, b \in S : a.created = b.created => a = b,
           NEW s, s = NewestFirst(S)
    PROVE  /\ \A i \in DOMAIN s : s[i] \in S /\ i \in Nat
           /\ \A x \in S : \E i \in DOMAIN s : s[i] = x
           /\ \A i, j \in DOMAIN s : s[i] = s[j] => i = j
           /\ \E n \in Nat : DOMAIN s = 1 .. n
<1>1. PICK time, N : time = CreatedAt(S) /\ N = Cardinality(S)
  BY Zenon
<1>2. \A d \in S : time[d] = d.created
  BY <1>1 DEF CreatedAt
<1>3. /\ \A d \in S : time[d] \in Nat
      /\ \A a, b \in S : time[a] = time[b] => a = b
  BY <1>2, Zenon
<1>4. /\ N \in Nat
      /\ \A d \in S : Cardinality(Above(S, time, d)) \in Nat /\ Cardinality(Above(S, time, d)) < N
      /\ \A a, b \in S : time[a] > time[b] =>
            Cardinality(Above(S, time, a)) < Cardinality(Above(S, time, b))
      /\ \A n \in 1 .. N : \E d \in S : Cardinality(Above(S, time, d)) = n - 1
  BY <1>1, <1>3, Ranks
<1>5. PICK C : C = [d \in S |-> Cardinality(Above(S, time, d))]
  BY Zenon
<1>6. /\ \A d \in S : C[d] \in Nat /\ C[d] < N
      /\ \A a, b \in S : time[a] > time[b] => C[a] < C[b]
      /\ \A n \in 1 .. N : \E d \in S : C[d] = n - 1
  BY <1>4, <1>5
<1>7. DOMAIN s = 1 .. N
  BY <1>1 DEF NewestFirst
<1>8. \A d \in S : C[d] = Cardinality({x \in S : x.created > d.created})
  <2> SUFFICES ASSUME NEW d \in S PROVE Above(S, time, d) = {x \in S : x.created > d.created}
    BY <1>5
  <2> QED
    BY <1>2, Zenon DEF Above
<1>9. ASSUME NEW n \in 1 .. N PROVE s[n] \in S /\ C[s[n]] = n - 1
  <2>1. s[n] = CHOOSE d \in S : Cardinality({x \in S : x.created > d.created}) = n - 1
    BY <1>1 DEF NewestFirst
  <2>2. \E d \in S : Cardinality({x \in S : x.created > d.created}) = n - 1
    BY <1>6, <1>8, Zenon
  <2>3. s[n] \in S /\ Cardinality({x \in S : x.created > s[n].created}) = n - 1
    BY <2>1, <2>2, Zenon
  <2> QED
    BY <1>8, <2>3, Zenon
<1>10. ASSUME NEW x \in S PROVE \E i \in DOMAIN s : s[i] = x
  <2>1. PICK n : n = C[x] + 1
    BY Zenon
  <2>2. n \in 1 .. N /\ C[x] = n - 1
    BY <1>4, <1>6, <2>1
  <2>3. PICK y : y = s[n]
    BY Zenon
  <2>4. y \in S /\ C[y] = C[x]
    BY <1>9, <2>2, <2>3
  <2>5. C[y] \in Nat /\ time[x] \in Nat /\ time[y] \in Nat
    BY <1>3, <1>6, <2>4
  <2>6. ~(time[y] > time[x]) /\ ~(time[x] > time[y])
    BY <1>6, <2>4, <2>5
  <2>7. time[x] = time[y]
    BY <2>5, <2>6
  <2> QED
    BY <1>3, <1>7, <2>2, <2>3, <2>4, <2>7, Zenon
<1>11. ASSUME NEW i \in 1 .. N, NEW j \in 1 .. N, s[i] = s[j] PROVE i = j
  <2>1. i - 1 = j - 1
    BY <1>9, <1>11, Zenon
  <2> QED
    BY <1>4, <2>1
<1>12. \A i \in DOMAIN s : s[i] \in S /\ i \in Nat
  BY <1>4, <1>7, <1>9
<1> QED
  BY <1>4, <1>7, <1>10, <1>11, <1>12, Zenon

\* The rows of the table.
LEMMA RowFacts ==
    ASSUME DecisionInv, AssignedInv
    PROVE  /\ IsFiniteSet(AssignmentRows)
           /\ \A d \in AssignmentRows :
                 /\ d # NoRow /\ d.target \in Targets /\ d.created \in Nat /\ d.feature \in FeatureNames
                 /\ Cardinality(DOMAIN d.target) \in Nat
           /\ \A a, b \in AssignmentRows : (a.created = b.created \/ a.id = b.id) => a = b
           /\ \A a, b \in ActiveAssignments : a.feature = b.feature /\ a.target = b.target => a = b
           /\ \A d \in ActiveAssignments : d \in AssignmentRows /\ d.active
<1>1. PICK D : D = featureAssignments
  BY Zenon
<1>2. D \in Seq(AssignmentType) /\ AssignmentRows = {D[id] : id \in DOMAIN D}
  BY <1>1 DEF DecisionInv, TablesInv, AssignmentRows, Range
<1>3. PICK n \in Nat : DOMAIN D = 1 .. n
  BY <1>2
<1>4. IsFiniteSet(AssignmentRows)
  <2>1. IsFiniteSet(1 .. n)
    BY FS_Interval
  <2>2. D = [id \in 1 .. n |-> D[id]]
    BY <1>2, <1>3
  <2>3. D \in Surjection(1 .. n, AssignmentRows)
    BY <1>2, <1>3, <2>2 DEF Surjection
  <2> QED
    BY <2>1, <2>3, FS_Surjection
<1>5. ASSUME NEW d \in AssignmentRows
      PROVE  /\ d # NoRow /\ d.target \in Targets /\ d.created \in Nat /\ d.feature \in FeatureNames
             /\ Cardinality(DOMAIN d.target) \in Nat
  <2>1. d \in AssignmentType
    BY <1>2
  <2>2. d # NoRow /\ d.target \in Targets /\ d.created \in Nat /\ d.feature \in FeatureNames
    BY <2>1, AssignedAssumption DEF AssignmentType, FeatureNames
  <2>3. IsFiniteSet(DOMAIN d.target)
    BY <2>2, AssignedAssumption
  <2> QED
    BY <2>2, <2>3, FS_CardinalityType
<1>6. AssignmentsOK(D)
  BY <1>1 DEF AssignedInv
<1>7. ASSUME NEW a \in AssignmentRows, NEW b \in AssignmentRows, a.created = b.created \/ a.id = b.id
      PROVE  a = b
  <2>1. PICK i \in DOMAIN D, j \in DOMAIN D : a = D[i] /\ b = D[j]
    BY <1>2
  <2>2. D[i].id = i /\ D[i].created = i /\ D[j].id = j /\ D[j].created = j
    BY <1>6 DEF AssignmentsOK
  <2>3. i = j
    BY <1>7, <2>1, <2>2
  <2> QED
    BY <2>1, <2>3
<1>8. ASSUME NEW a \in ActiveAssignments, NEW b \in ActiveAssignments,
             a.feature = b.feature, a.target = b.target
      PROVE  a = b
  <2>1. a \in AssignmentRows /\ b \in AssignmentRows /\ a.active /\ b.active
    BY DEF ActiveAssignments
  <2>2. PICK i \in DOMAIN D, j \in DOMAIN D : a = D[i] /\ b = D[j]
    BY <1>2, <2>1
  <2>3. i = j
    BY <1>6, <1>8, <2>1, <2>2 DEF AssignmentsOK
  <2> QED
    BY <2>2, <2>3
<1>9. \A d \in ActiveAssignments : d \in AssignmentRows /\ d.active
  BY DEF ActiveAssignments
<1> QED
  BY <1>4, <1>5, <1>7, <1>8, <1>9

\* The two matches agree.
LEMMA SameMatch ==
    ASSUME DecisionInv, AssignedInv, TargetsHaveValues, NEW labels, NEW d \in AssignmentRows
    PROVE  jsonbContains(labels, d.target) <=> labelsContain(labels, d.target)
<1>1. \A k \in DOMAIN d.target : d.target[k] # EmptyValue
  BY RowFacts DEF TargetsHaveValues
<1> QED
  BY <1>1 DEF jsonbContains, labelsContain, LabelAt

\* With one active row per feature and target, DISTINCT ON leaves out none of them.
LEMMA NothingIsHidden ==
    ASSUME DecisionInv, AssignedInv, NEW S \in SUBSET ActiveAssignments
    PROVE  DistinctOnTarget(S) = S
<1>1. \A d \in S : d.created \in Nat
  BY RowFacts
<1>2. \A a, b \in S : a.feature = b.feature /\ a.target = b.target => a = b
  BY RowFacts
<1> QED
  BY <1>1, <1>2 DEF DistinctOnTarget

\* What the pages of a feature list: every active row.
ActiveOf(f) == {d \in ActiveAssignments : d.feature = f}
LEMMA FeatureListing ==
    ASSUME DecisionInv, AssignedInv, NEW f
    PROVE  latestAssignmentPerTarget(ListByFeature(f)) = ActiveOf(f)
<1>1. PICK rows, s : rows = ActiveOf(f) /\ s = ListByFeature(f)
  BY Zenon
<1>2. /\ IsFiniteSet(rows) /\ \A d \in rows : d.created \in Nat
      /\ \A a, b \in rows : a.created = b.created => a = b
      /\ \A a, b \in rows : a.target = b.target => a = b
  <2>1. rows \in SUBSET AssignmentRows
    BY <1>1, RowFacts DEF ActiveOf
  <2> QED
    BY <1>1, <2>1, RowFacts, FS_Subset DEF ActiveOf
<1>3. s = NewestFirst(rows)
  BY <1>1 DEF ListByFeature, ActiveOf
<1>4. /\ \A i \in DOMAIN s : s[i] \in rows /\ i \in Nat
      /\ \A x \in rows : \E i \in DOMAIN s : s[i] = x
      /\ \A i, j \in DOMAIN s : s[i] = s[j] => i = j
      /\ \E n \in Nat : DOMAIN s = 1 .. n
  BY <1>2, <1>3, OrderedRows
<1>5. \A j \in DOMAIN s : \A i \in 1 .. j - 1 : s[i].target # s[j].target
  <2>1. \A j \in DOMAIN s : \A i \in 1 .. j - 1 : i \in DOMAIN s /\ i # j
    BY <1>4
  <2> QED
    BY <1>2, <1>4, <2>1
<1>6. latestAssignmentPerTarget(s) = {s[i] : i \in DOMAIN s}
  BY <1>5 DEF latestAssignmentPerTarget
<1> QED
  BY <1>1, <1>4, <1>6

\* Of some rows one is more specific than none.
MoreSpecific(S, d) == {x \in S : IsMoreSpecific(x, d)}
LEMMA MostSpecificExists ==
    ASSUME DecisionInv, AssignedInv, NEW S \in SUBSET AssignmentRows, S # {}
    PROVE  \E d \in S : \A x \in S : ~IsMoreSpecific(x, d)
<1>1. \A d \in S : IsFiniteSet(MoreSpecific(S, d)) /\ Cardinality(MoreSpecific(S, d)) \in Nat
  <2>1. IsFiniteSet(S)
    BY RowFacts, FS_Subset
  <2>2. \A d \in S : MoreSpecific(S, d) \in SUBSET S
    BY DEF MoreSpecific
  <2> QED
    BY <2>1, <2>2, FS_Subset, FS_CardinalityType
<1>2. PICK N : N = {Cardinality(MoreSpecific(S, d)) : d \in S}
  BY Zenon
<1>3. N \in SUBSET Nat /\ N # {}
  BY <1>1, <1>2
<1>4. PICK m \in N : \A y \in N : m <= y
  BY <1>3, FirstPosition
<1>5. PICK d \in S : m = Cardinality(MoreSpecific(S, d))
  BY <1>2
<1>6. ASSUME NEW x \in S, IsMoreSpecific(x, d) PROVE FALSE
  <2>1. x \in MoreSpecific(S, d) /\ x \notin MoreSpecific(S, x)
    BY <1>6, RowFacts DEF IsMoreSpecific, MoreSpecific
  <2>2. MoreSpecific(S, x) \in SUBSET MoreSpecific(S, d)
    <3> SUFFICES ASSUME NEW y \in S, IsMoreSpecific(y, x) PROVE IsMoreSpecific(y, d)
      BY DEF MoreSpecific
    <3>1. \A z \in {x, y, d} : z.created \in Nat /\ Cardinality(DOMAIN z.target) \in Nat
      BY RowFacts
    <3> QED
      BY <1>6, <3>1 DEF IsMoreSpecific
  <2>3. PICK A, B : A = MoreSpecific(S, x) /\ B = MoreSpecific(S, d)
    BY Zenon
  <2>4. Cardinality(A) <= Cardinality(B) /\ Cardinality(A) # Cardinality(B)
    BY <1>1, <2>1, <2>2, <2>3, FS_Subset
  <2>5. m <= Cardinality(A)
    BY <1>2, <1>4, <2>3
  <2> QED
    BY <1>1, <1>5, <2>3, <2>4, <2>5
<1> QED
  BY <1>6

\* The assignments of a feature that match an environment, and the one that
\* wins: the pages, the REST API and the SQL of an environment all choose it.
Candidates(e, f) ==
    {d \in ActiveAssignments : d.feature = f /\ labelsContain(environments[e].labels, d.target)}
WinnerIn(e, f) == winnerOf(Candidates(e, f))

LEMMA Winner ==
    ASSUME DecisionInv, AssignedInv, NEW e, NEW f
    PROVE  /\ \A d : d \in mostSpecificPerFeature(Candidates(e, f))
                       <=> WinnerIn(e, f) # NoRow /\ d = WinnerIn(e, f)
           /\ WinnerIn(e, f) # NoRow => WinnerIn(e, f) \in Candidates(e, f)
           /\ WinnerIn(e, f) = NoRow => Candidates(e, f) = {}
<1>1. PICK C, S, w : C = Candidates(e, f) /\ S = mostSpecificPerFeature(C) /\ w = WinnerIn(e, f)
  BY Zenon
<1>2. C \in SUBSET AssignmentRows /\ \A d \in C : d.feature = f /\ d # NoRow
  BY <1>1, RowFacts DEF Candidates, ActiveAssignments
<1>3. \A d : d \in S <=> d \in C /\ \A x \in C : ~IsMoreSpecific(x, d)
  BY <1>1, <1>2 DEF mostSpecificPerFeature
<1>4. ASSUME NEW a \in S, NEW b \in S PROVE a = b
  <2>1. a \in C /\ b \in C /\ ~IsMoreSpecific(a, b) /\ ~IsMoreSpecific(b, a)
    BY <1>3
  <2>2. /\ a.created \in Nat /\ b.created \in Nat
        /\ Cardinality(DOMAIN a.target) \in Nat /\ Cardinality(DOMAIN b.target) \in Nat
    BY <1>2, <2>1, RowFacts
  <2>3. a.created = b.created
    BY <2>1, <2>2 DEF IsMoreSpecific
  <2> QED
    BY <1>2, <2>1, <2>3, RowFacts
<1>5. C # {} => S # {}
  BY <1>2, <1>3, MostSpecificExists
<1>6. w = One(S)
  BY <1>1 DEF winnerOf, WinnerIn
<1>7. (S = {} => w = NoRow) /\ (S # {} => w \in S)
  BY <1>6 DEF One
<1>8. \A d : d \in S <=> w # NoRow /\ d = w
  BY <1>2, <1>3, <1>4, <1>7
<1>9. (w # NoRow => w \in C) /\ (w = NoRow => C = {})
  BY <1>2, <1>3, <1>5, <1>7
<1> QED
  BY <1>1, <1>8, <1>9

LEMMA BothChoose ==
    ASSUME DecisionInv, AssignedInv, TargetsHaveValues, NEW e, NEW f
    PROVE  /\ WinningAssignment(e, f) = WinnerIn(e, f)
           /\ winningAssignment(ActiveOf(f), e) = WinnerIn(e, f)
<1>1. ListFeatureAssignmentsForFeatureInEnvironment(e, f) = Candidates(e, f)
  <2>1. {d \in ActiveAssignments : d.feature = f /\ jsonbContains(environments[e].labels, d.target)}
          = Candidates(e, f)
    BY SameMatch DEF Candidates, ActiveAssignments
  <2>2. Candidates(e, f) \in SUBSET ActiveAssignments
    BY DEF Candidates
  <2> QED
    BY <2>1, <2>2, NothingIsHidden DEF ListFeatureAssignmentsForFeatureInEnvironment
<1>2. {fa \in ActiveOf(f) : targetMatchesLabels(fa.target, environments[e].labels)} = Candidates(e, f)
  BY DEF targetMatchesLabels, labelsContain, Candidates, ActiveOf
<1> QED
  BY <1>1, <1>2 DEF WinningAssignment, mostSpecificAssignment, winningAssignment, WinnerIn

LEMMA ListedWinners ==
    ASSUME DecisionInv, AssignedInv, TargetsHaveValues, NEW e
    PROVE  \A d : d \in ListForEnvironment(e)
                    <=> WinnerIn(e, d.feature) # NoRow /\ d = WinnerIn(e, d.feature)
<1>1. PICK S : S = {d \in ActiveAssignments : labelsContain(environments[e].labels, d.target)}
  BY Zenon
<1>2. ListFeatureAssignmentsForEnvironment(e) = S
  <2>1. {d \in ActiveAssignments : jsonbContains(environments[e].labels, d.target)} = S
    BY <1>1, SameMatch DEF ActiveAssignments
  <2>2. S \in SUBSET ActiveAssignments
    BY <1>1
  <2> QED
    BY <2>1, <2>2, NothingIsHidden DEF ListFeatureAssignmentsForEnvironment
<1>3. \A d : d \in mostSpecificPerFeature(S)
               <=> d \in mostSpecificPerFeature(Candidates(e, d.feature))
  BY <1>1 DEF mostSpecificPerFeature, Candidates
<1> QED
  BY <1>2, <1>3, Winner DEF ListForEnvironment

-----------------------------------------------------------------------------
(* The status of an assignment in an environment *)

\* The rows of either log about an assignment.
DecidedFor(fa) == {r \in decision_status : r.fa = fa}
DeployedFor(fa) == {r \in deploy_status : r.fa = fa}
LEMMA JoinedStatuses ==
    ASSUME NEW fa
    PROVE  /\ ReconcileStatuses(fa) = joinReconcileSignals(DecidedFor(fa), DeployedFor(fa))
           /\ fa \in DOMAIN AllReconcileStatuses =>
                 AllReconcileStatuses[fa] = ReconcileStatuses(fa)
           /\ fa \notin DOMAIN AllReconcileStatuses => DecidedFor(fa) = {} /\ DeployedFor(fa) = {}
<1>1. ReconcileStatuses(fa) = joinReconcileSignals(DecidedFor(fa), DeployedFor(fa))
  BY Zenon DEF ReconcileStatuses, ListDecisionStatuses, ListDeployStatuses, DecidedFor, DeployedFor
<1>2. AllReconcileStatuses =
        [x \in {r.fa : r \in decision_status \cup deploy_status} |->
            joinReconcileSignals(DecidedFor(x), DeployedFor(x))]
  BY Zenon DEF AllReconcileStatuses, ListAllDecisionStatuses, ListAllDeployStatuses,
               DecidedFor, DeployedFor
<1>3. DOMAIN AllReconcileStatuses = {r.fa : r \in decision_status \cup deploy_status}
  BY <1>2, Zenon
<1>4. fa \notin DOMAIN AllReconcileStatuses => DecidedFor(fa) = {} /\ DeployedFor(fa) = {}
  BY <1>3 DEF DecidedFor, DeployedFor
<1>5. fa \in DOMAIN AllReconcileStatuses =>
         AllReconcileStatuses[fa] = joinReconcileSignals(DecidedFor(fa), DeployedFor(fa))
  BY <1>2, <1>3, Zenon
<1> QED
  BY <1>1, <1>4, <1>5, Zenon

\* No derived status is the absence of one, or says that an assignment is overridden.
LEMMA DerivedStatuses ==
    ASSUME NEW fa
    PROVE  /\ DOMAIN ReconcileStatuses(fa)
                = {r.env : r \in DecidedFor(fa)} \cup {r.env : r \in DeployedFor(fa)}
           /\ \A e \in DOMAIN ReconcileStatuses(fa) :
                 ReconcileStatuses(fa)[e] \notin {NoSignal, Overridden}
<1>1. \A deploy, action : deriveState(deploy, action) \notin {NoSignal, Overridden}
  BY DEF deriveState, IsInProgress, Blockers, NoSignal, Overridden
<1>2. ASSUME NEW decisions, NEW deploys
      PROVE  /\ DOMAIN joinReconcileSignals(decisions, deploys)
                  = {r.env : r \in decisions} \cup {r.env : r \in deploys}
             /\ \A e \in DOMAIN joinReconcileSignals(decisions, deploys) :
                   joinReconcileSignals(decisions, deploys)[e] \notin {NoSignal, Overridden}
  <2>1. DOMAIN joinReconcileSignals(decisions, deploys)
          = {r.env : r \in decisions} \cup {r.env : r \in deploys}
    BY Zenon DEF joinReconcileSignals
  <2>2. ASSUME NEW e \in DOMAIN joinReconcileSignals(decisions, deploys)
        PROVE  \E deploy, action :
                  joinReconcileSignals(decisions, deploys)[e] = deriveState(deploy, action)
    BY <2>1, Zenon DEF joinReconcileSignals
  <2> QED
    BY <1>1, <2>1, <2>2, Zenon
<1> QED
  BY <1>2, JoinedStatuses, Zenon

\* The two ways to look a status up.
StatusIn(e, fa) == IF e \in DOMAIN ReconcileStatuses(fa) THEN ReconcileStatuses(fa)[e] ELSE NoSignal
LEMMA SameStatus ==
    ASSUME NEW d, NEW e
    PROVE  /\ StatusOf(AllReconcileStatuses, d, e) = StatusIn(e, d.id)
           /\ NormalizeStatus(StatusIn(e, d.id)) # Overridden
           /\ d.id \in DOMAIN AllReconcileStatuses /\ e \in DOMAIN AllReconcileStatuses[d.id]
                 <=> e \in DOMAIN ReconcileStatuses(d.id)
<1>1. d.id \notin DOMAIN AllReconcileStatuses => DOMAIN ReconcileStatuses(d.id) = {}
  <2> SUFFICES ASSUME d.id \notin DOMAIN AllReconcileStatuses PROVE DOMAIN ReconcileStatuses(d.id) = {}
    OBVIOUS
  <2>1. DecidedFor(d.id) = {} /\ DeployedFor(d.id) = {}
    BY JoinedStatuses
  <2> QED
    BY <2>1, DerivedStatuses, ZenonT(60)
<1>2. d.id \in DOMAIN AllReconcileStatuses => AllReconcileStatuses[d.id] = ReconcileStatuses(d.id)
  BY JoinedStatuses
<1>3. StatusOf(AllReconcileStatuses, d, e) = StatusIn(e, d.id)
  BY <1>1, <1>2, Zenon DEF StatusOf, StatusIn
<1>4. StatusIn(e, d.id) # Overridden
  BY DerivedStatuses DEF StatusIn, NoSignal, Overridden
<1>5. NormalizeStatus(StatusIn(e, d.id)) # Overridden
  BY <1>4 DEF NormalizeStatus, Overridden
<1> QED
  BY <1>1, <1>2, <1>3, <1>5, Zenon

LEMMA DisabledListing ==
    ASSUME AssignedInv, NEW e, NEW f
    PROVE  e \in ListDisabledEnvironmentsForFeature(f) <=> <<e, f>> \in disabledFeatures
<1>1. \A k \in disabledFeatures : k = <<k[1], k[2]>>
  BY DEF AssignedInv
<1> QED
  BY <1>1 DEF ListDisabledEnvironmentsForFeature

\* The status of a feature in an environment, of the assignment that wins.
ShownStatus(e, f) ==
    IF ~environments[e].reconcile \/ <<e, f>> \in disabledFeatures THEN "disabled"
    ELSE NormalizeStatus(StatusIn(e, WinnerIn(e, f).id))
LEMMA ShownIsNotOverridden ==
    ASSUME NEW e, NEW f
    PROVE  ShownStatus(e, f) # Overridden
<1>1. NormalizeStatus(StatusIn(e, WinnerIn(e, f).id)) # Overridden
  BY SameStatus
<1>2. "disabled" # Overridden
  BY DEF Overridden
<1> QED
  BY <1>1, <1>2, Zenon DEF ShownStatus

-----------------------------------------------------------------------------
(* The rows of the pages *)

\* A row of the environments of a feature.
HomeRow(f, e, fa) ==
    [env |-> e, fa |-> fa.id, version |-> fa.version,
     enabled |-> e \notin ListDisabledEnvironmentsForFeature(f),
     status |-> IF ~environments[e].reconcile \/ e \in ListDisabledEnvironmentsForFeature(f)
                THEN "disabled"
                ELSE NormalizeStatus(StatusOf(AllReconcileStatuses, fa, e))]
LEMMA HomeRows ==
    ASSUME DecisionInv, AssignedInv, TargetsHaveValues, NEW f
    PROVE  LoadEnvironments(f) =
             {HomeRow(f, e, WinnerIn(e, f)) : e \in {x \in DOMAIN environments : WinnerIn(x, f) # NoRow}}
<1>1. PICK fas : fas = latestAssignmentPerTarget(ListByFeature(f))
  BY Zenon
<1>2. LoadEnvironments(f) =
        {HomeRow(f, e, winningAssignment(fas, e)) :
            e \in {x \in ListTenantEnvironments(FALSE) : winningAssignment(fas, x) # NoRow}}
  BY <1>1, Zenon DEF LoadEnvironments, HomeRow
<1>3. \A e : winningAssignment(fas, e) = WinnerIn(e, f)
  BY <1>1, BothChoose, FeatureListing
<1>4. ListTenantEnvironments(FALSE) = DOMAIN environments
  BY DEF ListTenantEnvironments
<1>5. {x \in ListTenantEnvironments(FALSE) : winningAssignment(fas, x) # NoRow}
        = {x \in DOMAIN environments : WinnerIn(x, f) # NoRow}
  <2>1. PICK A : A = {x \in ListTenantEnvironments(FALSE) : winningAssignment(fas, x) # NoRow}
    BY Zenon
  <2>2. PICK B : B = {x \in DOMAIN environments : WinnerIn(x, f) # NoRow}
    BY Zenon
  <2>3. \A x : x \in A <=> x \in DOMAIN environments /\ WinnerIn(x, f) # NoRow
    BY <1>3, <1>4, <2>1
  <2>4. \A x : x \in B <=> x \in DOMAIN environments /\ WinnerIn(x, f) # NoRow
    BY <2>2
  <2>5. A = B
    BY <2>3, <2>4, Zenon
  <2> QED
    BY <2>1, <2>2, <2>5, Zenon
<1>6. PICK E : E = {x \in DOMAIN environments : WinnerIn(x, f) # NoRow}
  BY Zenon
<1>7. {HomeRow(f, e, winningAssignment(fas, e)) : e \in E} = {HomeRow(f, e, WinnerIn(e, f)) : e \in E}
  BY <1>3, Zenon
<1> QED
  BY <1>2, <1>5, <1>6, <1>7, Zenon

LEMMA HomeRowShows ==
    ASSUME AssignedInv, NEW f, NEW e
    PROVE  LET r == HomeRow(f, e, WinnerIn(e, f))
           IN  r.env = e /\ r.fa = WinnerIn(e, f).id /\ r.status = ShownStatus(e, f)
<1>1. PICK w : w = WinnerIn(e, f)
  BY Zenon
<1>2. /\ HomeRow(f, e, w).env = e /\ HomeRow(f, e, w).fa = w.id
      /\ HomeRow(f, e, w).status =
           IF ~environments[e].reconcile \/ e \in ListDisabledEnvironmentsForFeature(f)
           THEN "disabled" ELSE NormalizeStatus(StatusOf(AllReconcileStatuses, w, e))
  BY DEF HomeRow
<1>3. StatusOf(AllReconcileStatuses, w, e) = StatusIn(e, w.id)
  BY SameStatus
<1>4. HomeRow(f, e, w).status = ShownStatus(e, f)
  BY <1>1, <1>2, <1>3, DisabledListing, Zenon DEF ShownStatus
<1> QED
  BY <1>1, <1>2, <1>4, Zenon

\* A row of the assignments page of a feature.
PageRow(f, e, fa, winner) ==
    [env |-> e, fa |-> fa.id, version |-> fa.version,
     enabled |-> e \notin ListDisabledEnvironmentsForFeature(f),
     status |-> IF winner.id # fa.id THEN Overridden
                ELSE IF ~environments[e].reconcile \/ e \in ListDisabledEnvironmentsForFeature(f)
                THEN "disabled"
                ELSE NormalizeStatus(StatusOf(AllReconcileStatuses, fa, e)),
     by |-> winner.id, lastDeployed |-> Lookup(LatestDeployedForFeature(f), e),
     instruction |-> Lookup(LatestDeployInstructionsForFeature(f), e)]
LEMMA PageRows ==
    ASSUME DecisionInv, AssignedInv, TargetsHaveValues, NEW f
    PROVE  \A r : r \in featureAssignmentEnvStatuses(f)
                    <=> \E e \in DOMAIN environments : \E d \in Candidates(e, f) :
                           r = PageRow(f, e, d, WinnerIn(e, f))
<1>1. PICK fas : fas = latestAssignmentPerTarget(ListByFeature(f))
  BY Zenon
<1>2. featureAssignmentEnvStatuses(f) =
        {PageRow(f, k[1], k[2], winningAssignment(fas, k[1])) :
            k \in {x \in ListTenantEnvironments(FALSE) \X fas :
                     targetMatchesLabels(x[2].target, environments[x[1]].labels)}}
  BY <1>1, Zenon DEF featureAssignmentEnvStatuses, PageRow
<1>3. \A e : winningAssignment(fas, e) = WinnerIn(e, f)
  BY <1>1, BothChoose, FeatureListing
<1>4. ListTenantEnvironments(FALSE) = DOMAIN environments
  BY DEF ListTenantEnvironments
<1>5. PICK K : K = {x \in ListTenantEnvironments(FALSE) \X fas :
                      targetMatchesLabels(x[2].target, environments[x[1]].labels)}
  BY Zenon
<1>6. fas = ActiveOf(f)
  BY <1>1, FeatureListing
<1>7. \A e, d : d \in Candidates(e, f)
                  <=> d \in fas /\ targetMatchesLabels(d.target, environments[e].labels)
  BY <1>6 DEF Candidates, ActiveOf, labelsContain, targetMatchesLabels
<1>8. featureAssignmentEnvStatuses(f) =
        {PageRow(f, k[1], k[2], winningAssignment(fas, k[1])) : k \in K}
  BY <1>2, <1>5, Zenon
<1>9. ASSUME NEW r \in featureAssignmentEnvStatuses(f)
      PROVE  \E e \in DOMAIN environments : \E d \in Candidates(e, f) :
                r = PageRow(f, e, d, WinnerIn(e, f))
  <2>1. PICK k \in K : r = PageRow(f, k[1], k[2], winningAssignment(fas, k[1]))
    BY <1>8, Zenon
  <2>2. PICK e, d : e = k[1] /\ d = k[2]
    BY Zenon
  <2>3. e \in DOMAIN environments /\ d \in fas /\ targetMatchesLabels(d.target, environments[e].labels)
    BY <1>4, <1>5, <2>2
  <2>4. r = PageRow(f, e, d, WinnerIn(e, f))
    BY <1>3, <2>1, <2>2, Zenon
  <2> QED
    BY <1>7, <2>3, <2>4, Zenon
<1>10. ASSUME NEW e \in DOMAIN environments, NEW d \in Candidates(e, f),
              NEW r, r = PageRow(f, e, d, WinnerIn(e, f))
       PROVE  r \in featureAssignmentEnvStatuses(f)
  <2>1. PICK k : k = <<e, d>>
    BY Zenon
  <2>2. k \in ListTenantEnvironments(FALSE) \X fas /\ k[1] = e /\ k[2] = d
    BY <1>4, <1>7, <2>1
  <2>3. k \in K
    BY <1>5, <1>7, <2>2, Zenon
  <2>4. r = PageRow(f, k[1], k[2], winningAssignment(fas, k[1]))
    BY <1>3, <1>10, <2>2, Zenon
  <2> QED
    BY <1>8, <2>3, <2>4, Zenon
<1> QED
  BY <1>9, <1>10, Zenon

LEMMA PageRowShows ==
    ASSUME AssignedInv, NEW f, NEW e, NEW d, NEW r, r = PageRow(f, e, d, WinnerIn(e, f))
    PROVE  /\ r.env = e /\ r.fa = d.id
           /\ r.status = IF WinnerIn(e, f).id # d.id THEN Overridden ELSE ShownStatus(e, f)
           /\ r.lastDeployed = Lookup(LatestDeployedForFeature(f), e)
           /\ r.instruction = Lookup(LatestDeployInstructionsForFeature(f), e)
<1>1. PICK w : w = WinnerIn(e, f)
  BY Zenon
<1>2. r = PageRow(f, e, d, w)
  BY <1>1, Zenon
<1>3. /\ r.env = e /\ r.fa = d.id
      /\ r.lastDeployed = Lookup(LatestDeployedForFeature(f), e)
      /\ r.instruction = Lookup(LatestDeployInstructionsForFeature(f), e)
      /\ r.status = IF w.id # d.id THEN Overridden
                    ELSE IF ~environments[e].reconcile \/ e \in ListDisabledEnvironmentsForFeature(f)
                    THEN "disabled"
                    ELSE NormalizeStatus(StatusOf(AllReconcileStatuses, d, e))
  BY <1>2 DEF PageRow
<1>4. StatusOf(AllReconcileStatuses, d, e) = StatusIn(e, d.id)
  BY SameStatus
<1>5. r.status = IF w.id # d.id THEN Overridden ELSE ShownStatus(e, f)
  BY <1>1, <1>3, <1>4, DisabledListing, Zenon DEF ShownStatus
<1> QED
  BY <1>1, <1>3, <1>5, Zenon

\* The rows that are not overridden are those of the winners.
LEMMA CurrentRows ==
    ASSUME DecisionInv, AssignedInv, TargetsHaveValues, NEW f
    PROVE  \A r : r \in currentAssignmentEnvStatuses(featureAssignmentEnvStatuses(f))
                    <=> \E e \in DOMAIN environments :
                           /\ WinnerIn(e, f) # NoRow
                           /\ r = PageRow(f, e, WinnerIn(e, f), WinnerIn(e, f))
<1>1. ASSUME NEW r, r \in currentAssignmentEnvStatuses(featureAssignmentEnvStatuses(f))
      PROVE  \E e \in DOMAIN environments :
                WinnerIn(e, f) # NoRow /\ r = PageRow(f, e, WinnerIn(e, f), WinnerIn(e, f))
  <2>1. r \in featureAssignmentEnvStatuses(f) /\ r.status # Overridden
    BY <1>1 DEF currentAssignmentEnvStatuses
  <2>2. PICK e \in DOMAIN environments : \E d \in Candidates(e, f) : r = PageRow(f, e, d, WinnerIn(e, f))
    BY <2>1, PageRows
  <2>3. PICK d \in Candidates(e, f) : r = PageRow(f, e, d, WinnerIn(e, f))
    BY <2>2
  <2>4. WinnerIn(e, f).id = d.id
    BY <2>1, <2>3, PageRowShows
  <2>5. WinnerIn(e, f) # NoRow /\ WinnerIn(e, f) \in Candidates(e, f)
    BY Winner
  <2>6. d \in AssignmentRows /\ WinnerIn(e, f) \in AssignmentRows
    BY <2>5 DEF Candidates, ActiveAssignments
  <2>7. WinnerIn(e, f) = d
    BY <2>4, <2>6, RowFacts
  <2> QED
    BY <2>3, <2>5, <2>7
<1>2. ASSUME NEW r, NEW e \in DOMAIN environments, WinnerIn(e, f) # NoRow,
             r = PageRow(f, e, WinnerIn(e, f), WinnerIn(e, f))
      PROVE  r \in currentAssignmentEnvStatuses(featureAssignmentEnvStatuses(f))
  <2>1. WinnerIn(e, f) \in Candidates(e, f)
    BY <1>2, Winner
  <2>2. r \in featureAssignmentEnvStatuses(f)
    BY <1>2, <2>1, PageRows
  <2>3. r.status = ShownStatus(e, f)
    BY <1>2, PageRowShows
  <2> QED
    BY <2>2, <2>3, ShownIsNotOverridden DEF currentAssignmentEnvStatuses
<1> QED
  BY <1>1, <1>2, Zenon

\* The home of a feature and its assignments page.
LEMMA HomeAgrees ==
    ASSUME DecisionInv, AssignedInv, TargetsHaveValues, NEW f, NEW current,
           current = currentAssignmentEnvStatuses(featureAssignmentEnvStatuses(f))
    PROVE  {<<r.env, r.fa, r.status>> : r \in LoadEnvironments(f)}
             = {<<r.env, r.fa, r.status>> : r \in current}
<1>1. PICK home : home = LoadEnvironments(f)
  BY Zenon
<1>2. ASSUME NEW r \in home
      PROVE  \E x \in current : x.env = r.env /\ x.fa = r.fa /\ x.status = r.status
  <2>1. PICK e \in DOMAIN environments : WinnerIn(e, f) # NoRow /\ r = HomeRow(f, e, WinnerIn(e, f))
    BY <1>1, HomeRows
  <2>2. PICK x : x = PageRow(f, e, WinnerIn(e, f), WinnerIn(e, f))
    BY Zenon
  <2>3. x \in current
    BY <2>1, <2>2, CurrentRows
  <2>4. x.env = e /\ x.fa = WinnerIn(e, f).id /\ x.status = ShownStatus(e, f)
    BY <2>2, PageRowShows
  <2>5. r.env = e /\ r.fa = WinnerIn(e, f).id /\ r.status = ShownStatus(e, f)
    BY <2>1, HomeRowShows
  <2> QED
    BY <2>3, <2>4, <2>5
<1>3. ASSUME NEW x \in current
      PROVE  \E r \in home : x.env = r.env /\ x.fa = r.fa /\ x.status = r.status
  <2>1. PICK e \in DOMAIN environments :
           WinnerIn(e, f) # NoRow /\ x = PageRow(f, e, WinnerIn(e, f), WinnerIn(e, f))
    BY CurrentRows
  <2>2. PICK r : r = HomeRow(f, e, WinnerIn(e, f))
    BY Zenon
  <2>3. r \in home
    BY <1>1, <2>1, <2>2, HomeRows
  <2>4. x.env = e /\ x.fa = WinnerIn(e, f).id /\ x.status = ShownStatus(e, f)
    BY <2>1, PageRowShows
  <2>5. r.env = e /\ r.fa = WinnerIn(e, f).id /\ r.status = ShownStatus(e, f)
    BY <2>2, HomeRowShows
  <2> QED
    BY <2>3, <2>4, <2>5
<1>4. {<<r.env, r.fa, r.status>> : r \in home} = {<<r.env, r.fa, r.status>> : r \in current}
  BY <1>2, <1>3
<1> QED
  BY <1>1, <1>4

\* The page of a feature in an environment.
LEMMA FeaturePage ==
    ASSUME DecisionInv, AssignedInv, TargetsHaveValues, NEW f, NEW e, WinnerIn(e, f) # NoRow
    PROVE  NormalizeStatus(FeaturePageStatus(e, f)) = ShownStatus(e, f)
<1>1. WinningAssignment(e, f) = WinnerIn(e, f)
  BY BothChoose
<1>2. FeatureStatusForEnvironment(e, f) = StatusIn(e, WinnerIn(e, f).id)
  BY <1>1, Zenon DEF FeatureStatusForEnvironment, StatusIn
<1>3. NormalizeStatus("disabled") = "disabled"
  BY DEF NormalizeStatus, NoSignal
<1> QED
  BY <1>2, <1>3, Zenon DEF FeaturePageStatus, ShownStatus

\* The statuses an environment's page looks up, by feature.
WinnersWithStatus(e) ==
    {d \in ListForEnvironment(e) : d.id \in DOMAIN AllReconcileStatuses
                                  /\ e \in DOMAIN AllReconcileStatuses[d.id]}
LEMMA EnvironmentStatuses ==
    ASSUME DecisionInv, AssignedInv, TargetsHaveValues, NEW f, NEW e, WinnerIn(e, f) # NoRow,
           NEW statuses, statuses = FeatureStatusesForEnvironment(e)
    PROVE  /\ f \in DOMAIN statuses => statuses[f] = StatusIn(e, WinnerIn(e, f).id)
           /\ f \notin DOMAIN statuses => StatusIn(e, WinnerIn(e, f).id) = NoSignal
<1>1. PICK all, w : all = AllReconcileStatuses /\ w = WinnerIn(e, f)
  BY Zenon
<1>2. PICK winners : winners = WinnersWithStatus(e)
  BY Zenon
<1>3. statuses = [x \in {d.feature : d \in WinnersWithStatus(e)} |->
         AllReconcileStatuses[(CHOOSE d \in WinnersWithStatus(e) : d.feature = x).id][e]]
  BY Zenon DEF FeatureStatusesForEnvironment, WinnersWithStatus
<1>4. w \in Candidates(e, f) /\ w.feature = f
  BY <1>1, Winner DEF Candidates
<1>5. w \in ListForEnvironment(e) /\ \A d \in ListForEnvironment(e) : d.feature = f => d = w
  BY <1>1, <1>4, ListedWinners
<1>6. w.id \in DOMAIN all /\ e \in DOMAIN all[w.id] <=> e \in DOMAIN ReconcileStatuses(w.id)
  BY <1>1, SameStatus
<1>7. \A d \in winners : d.feature = f => d = w
  BY <1>2, <1>5 DEF WinnersWithStatus
<1>8. w \in winners <=> e \in DOMAIN ReconcileStatuses(w.id)
  BY <1>1, <1>2, <1>5, <1>6 DEF WinnersWithStatus
<1>9. DOMAIN statuses = {d.feature : d \in winners}
  BY <1>2, <1>3, Zenon
<1>10. f \in DOMAIN statuses <=> w \in winners
  BY <1>4, <1>7, <1>9
<1>11. CASE w \in winners
  <2>1. (CHOOSE d \in winners : d.feature = f) = w
    BY <1>4, <1>7, <1>11
  <2>2. statuses[f] =
          AllReconcileStatuses[(CHOOSE d \in WinnersWithStatus(e) : d.feature = f).id][e]
    BY <1>2, <1>3, <1>9, <1>10, <1>11, Zenon
  <2>3. w.id \in DOMAIN all /\ all[w.id] = ReconcileStatuses(w.id)
    BY <1>1, <1>2, <1>11, JoinedStatuses DEF WinnersWithStatus
  <2>4. statuses[f] = ReconcileStatuses(w.id)[e]
    BY <1>1, <1>2, <2>1, <2>2, <2>3, Zenon
  <2> QED
    BY <1>1, <1>8, <1>10, <1>11, <2>4, Zenon DEF StatusIn
<1>12. CASE w \notin winners
  BY <1>1, <1>8, <1>10, <1>12, Zenon DEF StatusIn
<1> QED
  BY <1>11, <1>12

\* The page of an environment lists the feature, with its status and deploys.
EnvironmentRow(e, statuses, r) ==
    [feature |-> r.feature,
     status |-> IF ~environments[e].reconcile \/ r.disabled THEN "disabled"
                ELSE IF r.feature \in DOMAIN statuses
                THEN NormalizeStatus(statuses[r.feature]) ELSE "unknown",
     instruction |-> Lookup(LatestDeployInstructionsForEnvironment(e), r.feature),
     lastSuccessful |-> Lookup(LatestDeployedForEnvironment(e), r.feature)]
LEMMA EnvironmentPage ==
    ASSUME DecisionInv, AssignedInv, TargetsHaveValues, NEW f, NEW e, WinnerIn(e, f) # NoRow
    PROVE  \E row \in loadEnvironmentFeatureRows(e) :
              /\ row.feature = f /\ row.status = ShownStatus(e, f)
              /\ row.instruction = Lookup(LatestDeployInstructionsForEnvironment(e), f)
              /\ row.lastSuccessful = Lookup(LatestDeployedForEnvironment(e), f)
<1>1. PICK statuses, w : statuses = FeatureStatusesForEnvironment(e) /\ w = WinnerIn(e, f)
  BY Zenon
<1>2. loadEnvironmentFeatureRows(e) = {EnvironmentRow(e, statuses, r) : r \in ListEnvironmentFeatures(e)}
  BY <1>1, Zenon DEF loadEnvironmentFeatureRows, EnvironmentRow
<1>3. w.feature = f
  BY <1>1, Winner DEF Candidates
<1>4. w \in ListForEnvironment(e)
  BY <1>1, <1>3, ListedWinners
<1>5. PICK r : r = [feature |-> w.feature, disabled |-> <<e, w.feature>> \in disabledFeatures]
  BY Zenon
<1>6. r \in ListEnvironmentFeatures(e)
  BY <1>4, <1>5, Zenon DEF ListEnvironmentFeatures
<1>7. r.feature = f /\ (r.disabled <=> <<e, f>> \in disabledFeatures)
  BY <1>3, <1>5
<1>8. PICK row : row = EnvironmentRow(e, statuses, r)
  BY Zenon
<1>9. row \in loadEnvironmentFeatureRows(e)
  BY <1>2, <1>6, <1>8, Zenon
<1>10. /\ row.feature = r.feature
       /\ row.status = IF ~environments[e].reconcile \/ r.disabled THEN "disabled"
                       ELSE IF r.feature \in DOMAIN statuses
                       THEN NormalizeStatus(statuses[r.feature]) ELSE "unknown"
       /\ row.instruction = Lookup(LatestDeployInstructionsForEnvironment(e), r.feature)
       /\ row.lastSuccessful = Lookup(LatestDeployedForEnvironment(e), r.feature)
  BY <1>8 DEF EnvironmentRow
<1>11. /\ f \in DOMAIN statuses => statuses[f] = StatusIn(e, w.id)
       /\ f \notin DOMAIN statuses => StatusIn(e, w.id) = NoSignal
  BY <1>1, EnvironmentStatuses
<1>12. NormalizeStatus(NoSignal) = "unknown"
  BY DEF NormalizeStatus
<1>13. row.status = ShownStatus(e, f)
  BY <1>1, <1>7, <1>10, <1>11, <1>12, Zenon DEF ShownStatus
<1>14. /\ row.feature = f
       /\ row.instruction = Lookup(LatestDeployInstructionsForEnvironment(e), f)
       /\ row.lastSuccessful = Lookup(LatestDeployedForEnvironment(e), f)
  BY <1>7, <1>10, Zenon
<1> QED
  BY <1>9, <1>13, <1>14, Zenon

\* The page of an assignment.
LEMMA DetailShows ==
    ASSUME DecisionInv, AssignedInv, TargetsHaveValues, NEW f, NEW d \in ActiveAssignments,
           NEW r \in featureAssignmentEnvStatuses(f), r.fa = d.id,
           r.status \notin {"disabled", "unknown"},
           NEW detail, detail = AssignmentDetail(d, featureAssignmentEnvStatuses(f))
    PROVE  r.env \in DOMAIN detail /\ (r.status # Overridden => detail[r.env] = r.status)
<1>1. PICK rows, statuses : rows = featureAssignmentEnvStatuses(f) /\ statuses = ReconcileStatuses(d.id)
  BY Zenon
<1>2. PICK O : O = {x.env : x \in {y \in rows : y.fa = d.id /\ y.status = Overridden}}
  BY Zenon
<1>3. detail = [e \in DOMAIN statuses \cup O |->
                  IF e \in DOMAIN statuses THEN NormalizeStatus(statuses[e]) ELSE Overridden]
  BY <1>1, <1>2, Zenon DEF AssignmentDetail
<1>4. PICK e \in DOMAIN environments : \E x \in Candidates(e, f) : r = PageRow(f, e, x, WinnerIn(e, f))
  BY PageRows
<1>5. PICK x \in Candidates(e, f) : r = PageRow(f, e, x, WinnerIn(e, f))
  BY <1>4
<1>6. /\ r.env = e /\ x.id = d.id
      /\ r.status = IF WinnerIn(e, f).id # d.id THEN Overridden ELSE ShownStatus(e, f)
  BY <1>5, PageRowShows
<1>7. CASE r.status = Overridden
  <2>1. e \in O
    BY <1>1, <1>2, <1>6, <1>7
  <2> QED
    BY <1>3, <1>6, <1>7, <2>1
<1>8. CASE r.status # Overridden
  <2>1. r.status = ShownStatus(e, f) /\ WinnerIn(e, f).id = d.id
    BY <1>6, <1>8
  <2>2. r.status = NormalizeStatus(StatusIn(e, d.id))
    BY <2>1 DEF ShownStatus
  <2>3. e \in DOMAIN statuses /\ StatusIn(e, d.id) = statuses[e]
    BY <1>1, <2>2 DEF StatusIn, NormalizeStatus
  <2> QED
    BY <1>3, <1>6, <2>2, <2>3
<1> QED
  BY <1>7, <1>8

\* The list of assignments and GET /feature-assignments.
LEMMA ListShows ==
    ASSUME NEW d \in ActiveAssignments
    PROVE  AssignmentsPageStatus(d) = GetFeatureAssignment(d.id)
<1>1. PICK all, s : all = AllReconcileStatuses /\ s = ReconcileStatuses(d.id)
  BY Zenon
<1>2. d.active
  BY DEF ActiveAssignments
<1>3. AssignmentsPageStatus(d) = Aggregate(IF d.id \in DOMAIN all THEN all[d.id] ELSE EmptyTable)
  BY <1>1, <1>2, Zenon DEF AssignmentsPageStatus
<1>4. GetFeatureAssignment(d.id) = Aggregate(s)
  BY <1>1, Zenon DEF GetFeatureAssignment
<1>5. CASE d.id \in DOMAIN all
  BY <1>1, <1>3, <1>4, <1>5, JoinedStatuses
<1>6. CASE d.id \notin DOMAIN all
  <2>1. DecidedFor(d.id) = {} /\ DeployedFor(d.id) = {}
    BY <1>1, <1>6, JoinedStatuses
  <2>2. DOMAIN s = {}
    BY <1>1, <2>1, DerivedStatuses, ZenonT(60)
  <2>3. DOMAIN EmptyTable = {}
    BY DEF EmptyTable
  <2>4. \A states : DOMAIN states = {} => Aggregate(states) = "unknown"
    BY Zenon DEF Aggregate
  <2>5. AssignmentsPageStatus(d) = Aggregate(EmptyTable)
    BY <1>3, <1>6, Zenon
  <2> QED
    BY <1>4, <2>2, <2>3, <2>4, <2>5, Zenon
<1> QED
  BY <1>5, <1>6

\* What the pages say of a feature, given the rows of its assignments page and
\* those that are not overridden.
StatusPagesOf(f, rows, current) ==
    /\ {<<r.env, r.fa, r.status>> : r \in LoadEnvironments(f)} =
          {<<r.env, r.fa, r.status>> : r \in current}
    /\ \A r \in current :
          /\ r.status = NormalizeStatus(FeaturePageStatus(r.env, f))
          /\ \E row \in loadEnvironmentFeatureRows(r.env) :
                /\ row.feature = f /\ row.status = r.status
                /\ row.instruction = r.instruction
                /\ row.lastSuccessful = r.lastDeployed
    /\ \A d \in {x \in ActiveAssignments : x.feature = f} :
          \A r \in rows :
             (r.fa = d.id /\ r.status \notin {"disabled", "unknown"}) =>
                 /\ r.env \in DOMAIN AssignmentDetail(d, rows)
                 /\ r.status # Overridden => AssignmentDetail(d, rows)[r.env] = r.status
LEMMA PagesAgreeAlways ==
    ASSUME DecisionInv, InstructionsInv, AssignedInv, TargetsHaveValues
    PROVE  PagesAgree
<1>1. DeployPagesAgree
  BY DeployPages
<1>2. \A d \in ActiveAssignments : AssignmentsPageStatus(d) = GetFeatureAssignment(d.id)
  BY ListShows
<1>3. ASSUME NEW f \in FeatureNames, NEW rows, rows = featureAssignmentEnvStatuses(f),
             NEW current, current = currentAssignmentEnvStatuses(rows)
      PROVE  StatusPagesOf(f, rows, current)
  <2>1. {<<r.env, r.fa, r.status>> : r \in LoadEnvironments(f)} =
           {<<r.env, r.fa, r.status>> : r \in current}
    BY <1>3, HomeAgrees
  <2>2. ASSUME NEW r \in current
        PROVE  /\ r.status = NormalizeStatus(FeaturePageStatus(r.env, f))
               /\ \E row \in loadEnvironmentFeatureRows(r.env) :
                     /\ row.feature = f /\ row.status = r.status
                     /\ row.instruction = r.instruction
                     /\ row.lastSuccessful = r.lastDeployed
    <3>1. PICK e \in DOMAIN environments :
             WinnerIn(e, f) # NoRow /\ r = PageRow(f, e, WinnerIn(e, f), WinnerIn(e, f))
      BY <1>3, CurrentRows
    <3>2. /\ r.env = e /\ r.status = ShownStatus(e, f)
          /\ r.lastDeployed = Lookup(LatestDeployedForFeature(f), e)
          /\ r.instruction = Lookup(LatestDeployInstructionsForFeature(f), e)
      BY <3>1, PageRowShows
    <3>3. r.status = NormalizeStatus(FeaturePageStatus(e, f))
      BY <3>1, <3>2, FeaturePage
    <3>4. PICK row \in loadEnvironmentFeatureRows(e) :
              /\ row.feature = f /\ row.status = ShownStatus(e, f)
              /\ row.instruction = Lookup(LatestDeployInstructionsForEnvironment(e), f)
              /\ row.lastSuccessful = Lookup(LatestDeployedForEnvironment(e), f)
      BY <3>1, EnvironmentPage
    <3>5. Lookup(LatestDeployInstructionsForEnvironment(e), f)
            = Lookup(LatestDeployInstructionsForFeature(f), e)
      BY LatestQueries
    <3>6. Lookup(LatestDeployedForEnvironment(e), f) = Lookup(LatestDeployedForFeature(f), e)
      BY SuccessfulQueries
    <3> QED
      BY <3>2, <3>3, <3>4, <3>5, <3>6, Zenon
  <2>3. ASSUME NEW d \in {x \in ActiveAssignments : x.feature = f}, NEW r \in rows,
               r.fa = d.id, r.status \notin {"disabled", "unknown"}
        PROVE  /\ r.env \in DOMAIN AssignmentDetail(d, rows)
               /\ r.status # Overridden => AssignmentDetail(d, rows)[r.env] = r.status
    <3>1. d \in ActiveAssignments
      BY <2>3
    <3>2. PICK detail : detail = AssignmentDetail(d, rows)
      BY Zenon
    <3> QED
      BY <1>3, <2>3, <3>1, <3>2, DetailShows
  <2> QED
    BY <2>1, <2>2, <2>3, Zenon DEF StatusPagesOf
<1>4. \A f \in FeatureNames :
         StatusPagesOf(f, featureAssignmentEnvStatuses(f),
                       currentAssignmentEnvStatuses(featureAssignmentEnvStatuses(f)))
  BY <1>3, Zenon
<1> QED
  BY <1>1, <1>2, <1>4, Zenon DEF PagesAgree, StatusPagesOf

\* Every page and the REST API tell the same story of a feature in an
\* environment, at every moment and over every history of decisions, deploys,
\* assignments, deactivations and changes of labels, as long as no target asks
\* for an empty value: the copies of the rule that chooses an assignment, of
\* the status lookup and of the queries for the latest deploys all agree.
THEOREM PagesTellOneStory == TargetsHaveValues => (Spec => []PagesAgree)
<1> SUFFICES ASSUME TargetsHaveValues PROVE Spec => []PagesAgree
  OBVIOUS
<1>1. DecisionInv /\ InstructionsInv /\ AssignedInv => PagesAgree
  BY PagesAgreeAlways
<1> QED
  BY <1>1, AssignedInvariant, PTL
=============================================================================
