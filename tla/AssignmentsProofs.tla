-------------------------- MODULE AssignmentsProofs --------------------------
(***************************************************************************)
(* What holds of the assignments for any number of requests, any charts,   *)
(* targets and operations, and any number of failing statements.           *)
(***************************************************************************)
EXTENDS Assignments, FiniteSetTheorems, TLAPS

\* What an operation holds.
LEMMA OperationFields ==
    ASSUME NEW op \in Operations
    PROVE  /\ op.kind \in {"create", "deactivate", "matching"}
           /\ op.kind = "create" => /\ op.chart \in Charts /\ op.target \in Targets
                                    /\ op.chart.name \in FeatureNames
                                    /\ op.chart.version \in {c.version : c \in Charts}
           /\ op.kind # "create" => op.fa \in Nat \ {0}
<1>1. op \in Operation BY AssignmentsAssumption
<1>2. CASE op \in [kind : {"create"}, chart : Charts, target : Targets] BY <1>2 DEF FeatureNames
<1>3. CASE op \in [kind : {"deactivate", "matching"}, fa : Nat \ {0}] BY <1>3
<1> QED BY <1>1, <1>2, <1>3 DEF Operation

\* What a request inserts is a row of the key of its operation.
LEMMA InsertedRow ==
    ASSUME NEW r \in Requests, req[r].op \in Operations, req[r].op.kind = "create",
           req[r].start \in Nat
    PROVE  /\ NewRow(r) \in Row /\ NewRow(r) # NoRow
           /\ Key(NewRow(r)) = KeyOf(req[r].op) /\ NewRow(r).active
<1>1. /\ req[r].op.chart.name \in FeatureNames /\ req[r].op.target \in Targets
      /\ req[r].op.chart.version \in {c.version : c \in Charts}
  BY OperationFields
<1>2. NewRow(r) \in Row BY <1>1 DEF NewRow, Row, NoFA
<1>3. Key(NewRow(r)) = KeyOf(req[r].op) /\ NewRow(r).active BY DEF Key, KeyOf, NewRow
<1> QED BY <1>2, <1>3, AssignmentsAssumption

\* What a request holds.
LEMMA RequestFields ==
    ASSUME AssignmentsInv, NEW r \in Requests
    PROVE  /\ req[r] \in Request /\ RequestInv(r)
           /\ req[r].start \in Nat /\ req[r].snap \subseteq Nat /\ req[r].off \subseteq Nat
           /\ req[r].fa \in Nat
<1>1. req[r] \in Request BY DEF AssignmentsInv
<1> QED BY <1>1 DEF Request, AssignmentsInv

\* A transaction that is over holds nothing.
LEMMA EndedFields ==
    ASSUME AssignmentsInv, NEW r \in Requests, NEW pc \in {"audit", "done", "failed"}
    PROVE  /\ Ended(r, pc) \in Request /\ Ended(r, pc).pc = pc /\ Ended(r, pc).op = req[r].op
           /\ Ended(r, pc).snap = {} /\ Ended(r, pc).off = {} /\ Ended(r, pc).row = NoRow
           /\ \A id \in Nat : [Ended(r, pc) EXCEPT !.fa = id] \in Request
                              /\ [Ended(r, pc) EXCEPT !.fa = id].pc = pc
                              /\ [Ended(r, pc) EXCEPT !.fa = id].op = req[r].op
                              /\ [Ended(r, pc) EXCEPT !.fa = id].snap = {}
                              /\ [Ended(r, pc) EXCEPT !.fa = id].off = {}
                              /\ [Ended(r, pc) EXCEPT !.fa = id].row = NoRow
<1>1. req[r] \in Request BY RequestFields
<1>2. Ended(r, pc) \in Request /\ Ended(r, pc).pc = pc /\ Ended(r, pc).op = req[r].op
      /\ Ended(r, pc).snap = {} /\ Ended(r, pc).off = {} /\ Ended(r, pc).row = NoRow
  BY <1>1 DEF Ended, Request
<1> HIDE DEF Ended
<1>3. ASSUME NEW x \in Request, NEW id \in Nat
      PROVE  /\ [x EXCEPT !.fa = id] \in Request
             /\ [x EXCEPT !.fa = id].pc = x.pc /\ [x EXCEPT !.fa = id].op = x.op
             /\ [x EXCEPT !.fa = id].snap = x.snap /\ [x EXCEPT !.fa = id].off = x.off
             /\ [x EXCEPT !.fa = id].row = x.row
  BY DEF Request
<1> QED BY <1>2, <1>3

-----------------------------------------------------------------------------
(* Steps that commit nothing *)

\* The request r changes and holds no inserted row after that.
LEMMA RequestMoves ==
    ASSUME AssignmentsInv, NEW r \in Requests, NEW x \in Request,
           req' = [req EXCEPT ![r] = x], featureAssignments' = featureAssignments,
           clock' \in Nat, audits' \in Seq(Audit), Range(audits) \subseteq Range(audits'),
           RequestInv(r)', ~Inserted(r)'
    PROVE  AssignmentsInv'
<1> USE DEF AssignmentsInv
<1>1. req' \in [Requests -> Request] /\ \A o \in Requests \ {r} : req'[o] = req[o] OBVIOUS
<1>2. AssignedInv' BY DEF AssignedInv, Audit
<1>3. \A o \in Requests \ {r} : (Inserted(o)' <=> Inserted(o)) BY <1>1 DEF Inserted
<1>4. \A o \in Requests \ {r} : RequestInv(o)'
  BY <1>1 DEF RequestInv, Inserted, NewRow, Key, KeyOf
<1>5. AloneInv' BY <1>1, <1>3, ZenonT(60) DEF AloneInv, Key, KeyOf
<1>6. OneActive' BY DEF OneActive, Key
<1>7. EveryLossIsExplained' BY DEF EveryLossIsExplained, Key
<1> QED BY <1>1, <1>2, <1>4, <1>5, <1>6, <1>7

\* An audit row is added.
LEMMA AuditAppended ==
    ASSUME audits \in Seq(Audit), NEW a \in Audit
    PROVE  /\ Append(audits, a) \in Seq(Audit) /\ Range(audits) \subseteq Range(Append(audits, a))
           /\ a \in Range(Append(audits, a))
<1>1. /\ DOMAIN Append(audits, a) = 1 .. Len(audits) + 1 /\ DOMAIN audits = 1 .. Len(audits)
      /\ \A i \in 1 .. Len(audits) : Append(audits, a)[i] = audits[i]
      /\ Append(audits, a)[Len(audits) + 1] = a /\ Len(audits) \in Nat
  OBVIOUS
<1>2. Len(audits) + 1 \in DOMAIN Append(audits, a) BY <1>1
<1> QED BY <1>1, <1>2 DEF Range

\* The key of an operation.
LEMMA KeyOfType ==
    ASSUME AssignedInv, NEW op \in Operations,
           op.kind # "create" => op.fa \in DOMAIN featureAssignments
    PROVE  KeyOf(op) \in FeatureNames \X Targets
<1>1. CASE op.kind = "create" BY <1>1, OperationFields DEF KeyOf
<1>2. CASE op.kind # "create"
  <2>1. featureAssignments[op.fa] \in Row BY <1>2 DEF AssignedInv
  <2> QED BY <1>2, <2>1 DEF KeyOf, Key, Row
<1> QED BY <1>1, <1>2

\* A request before its COMMIT and after it.
LEMMA ReceiveKeeps ==
    ASSUME AssignmentsInv, NEW r \in Requests, NEW op \in Operations, Receive(r, op)
    PROVE  AssignmentsInv'
<1> DEFINE x == [req[r] EXCEPT !.op = op, !.pc = IF op.kind = "create" THEN "data" ELSE "begin"]
<1>1. /\ req' = [req EXCEPT ![r] = x] /\ req[r].pc = "idle"
      /\ op.kind # "create" => op.fa \in DOMAIN featureAssignments
      /\ UNCHANGED <<featureAssignments, clock, audits>>
  BY DEF Receive, AssignmentsInv, tables
<1>2. req[r] \in Request /\ RequestInv(r) BY RequestFields
<1>3. /\ x \in Request /\ x.op = op /\ x.pc \in {"data", "begin"} /\ x.snap = req[r].snap
      /\ x.off = req[r].off /\ x.row = req[r].row
  BY <1>2 DEF Request
<1>4. req'[r] = x BY <1>1 DEF AssignmentsInv
<1> HIDE DEF x
<1>5. ~Inserted(r) /\ ~Inserted(r)' BY <1>1, <1>3, <1>4 DEF Inserted
<1>6. RequestInv(r)' BY <1>1, <1>2, <1>3, <1>4, <1>5 DEF RequestInv
<1>7. clock' \in Nat /\ audits' \in Seq(Audit) /\ Range(audits) \subseteq Range(audits')
  BY <1>1 DEF AssignmentsInv, AssignedInv, Audit
<1> QED BY <1>1, <1>3, <1>5, <1>6, <1>7, RequestMoves

LEMMA HandlerKeeps ==
    ASSUME AssignmentsInv, NEW r \in Requests, CreateFeatureData(r) \/ Begin(r) \/ AuditCreated(r)
    PROVE  AssignmentsInv'
<1>1. req[r] \in Request /\ RequestInv(r) BY RequestFields
<1>2. /\ featureAssignments' = featureAssignments /\ clock' \in Nat
      /\ req[r].pc \in {"data", "begin", "audit"}
      /\ \E pc \in {"begin", "update", "done"} : \E n \in Nat :
            req' = [req EXCEPT ![r] = [req[r] EXCEPT !.pc = pc, !.start = n]]
  <2>1. CASE CreateFeatureData(r)
    <3>1. req' = [req EXCEPT ![r] = [req[r] EXCEPT !.pc = "begin", !.start = req[r].start]]
      BY <1>1, <2>1 DEF CreateFeatureData, AssignmentsInv, Request
    <3> QED BY <2>1, <3>1, RequestFields DEF CreateFeatureData, AssignmentsInv, AssignedInv
  <2>2. CASE Begin(r)
    <3>1. req' = [req EXCEPT ![r] = [req[r] EXCEPT !.pc = "update", !.start = clock + 1]]
      BY <2>2 DEF Begin, AssignmentsInv
    <3>2. clock + 1 \in Nat BY DEF AssignmentsInv, AssignedInv
    <3>3. featureAssignments' = featureAssignments /\ clock' = clock + 1 /\ req[r].pc = "begin"
      BY <2>2 DEF Begin, tables
    <3> QED BY <3>1, <3>2, <3>3
  <2>3. CASE AuditCreated(r)
    <3>1. req' = [req EXCEPT ![r] = [req[r] EXCEPT !.pc = "done", !.start = req[r].start]]
      BY <1>1, <2>3 DEF AuditCreated, AssignmentsInv, Request
    <3> QED BY <2>3, <3>1, RequestFields DEF AuditCreated, AssignmentsInv, AssignedInv
  <2> QED BY <2>1, <2>2, <2>3
<1>3. PICK pc \in {"begin", "update", "done"}, n \in Nat :
         req' = [req EXCEPT ![r] = [req[r] EXCEPT !.pc = pc, !.start = n]]
  BY <1>2
<1> DEFINE x == [req[r] EXCEPT !.pc = pc, !.start = n]
<1>4. /\ x \in Request /\ x.op = req[r].op /\ x.pc \in {"begin", "update", "done"}
      /\ x.snap = req[r].snap /\ x.off = req[r].off /\ x.row = req[r].row
  BY <1>1 DEF Request
<1>5. req'[r] = x BY <1>3 DEF AssignmentsInv
<1> HIDE DEF x
<1>6. ~Inserted(r) /\ ~Inserted(r)' BY <1>2, <1>4, <1>5 DEF Inserted
<1>7. RequestInv(r)' BY <1>1, <1>2, <1>4, <1>5, <1>6 DEF RequestInv, Key, KeyOf
<1>8. audits' \in Seq(Audit) /\ Range(audits) \subseteq Range(audits')
  <2>1. CASE AuditCreated(r)
    <3> DEFINE a == [action |-> "created", fa |-> req[r].fa, key |-> KeyOf(req[r].op)]
    <3>1. audits' = Append(audits, a) BY <2>1 DEF AuditCreated
    <3>2. KeyOf(req[r].op) \in FeatureNames \X Targets
      BY <1>1, <1>2, KeyOfType DEF RequestInv, AssignmentsInv
    <3>3. a \in Audit BY <3>2, RequestFields DEF Audit
    <3> HIDE DEF a
    <3> QED BY <3>1, <3>3, AuditAppended DEF AssignmentsInv, AssignedInv, Audit
  <2>2. CASE audits' = audits BY <2>2 DEF AssignmentsInv, AssignedInv, Audit
  <2> QED BY <2>1, <2>2 DEF CreateFeatureData, Begin, tables
<1> QED BY <1>2, <1>3, <1>4, <1>6, <1>7, <1>8, RequestMoves DEF x

\* The UPDATE finds rows of the key of the request.
LEMMA UpdateKeeps ==
    ASSUME AssignmentsInv, NEW r \in Requests, StartUpdate(r) \/ FinishUpdate(r)
    PROVE  AssignmentsInv'
<1> DEFINE op == req[r].op
           found == {id \in DOMAIN featureAssignments : Matches(op, featureAssignments[id])}
<1>1. req[r] \in Request /\ RequestInv(r) BY RequestFields
<1>2. UNCHANGED <<featureAssignments, clock, audits>> /\ req[r].pc \in {"update", "lock"}
  BY DEF StartUpdate, FinishUpdate, tables
<1>3. op \in Operations /\ (op.kind # "create" => op.fa \in DOMAIN featureAssignments)
  BY <1>1, <1>2 DEF RequestInv
<1>4. \A id \in found : /\ id \in DOMAIN featureAssignments
                        /\ Key(featureAssignments[id]) = KeyOf(op)
                        /\ op.kind = "deactivate" => id = op.fa
  <2>1. \A id \in DOMAIN featureAssignments : featureAssignments[id].id = id
    BY DEF AssignmentsInv, AssignedInv
  <2> QED BY <1>3, <2>1 DEF Matches, KeyOf
<1>5. found \subseteq Nat BY DEF AssignmentsInv, AssignedInv
<1> HIDE DEF found
<1>6. \E pc \in {"lock", "insert", "commit"} : \E snap \in SUBSET (req[r].snap \cup found) :
      \E off \in SUBSET (req[r].off \cup found \cup req[r].snap) :
         /\ req' = [req EXCEPT ![r] = [req[r] EXCEPT !.pc = pc, !.snap = snap, !.off = off]]
         /\ (pc = "commit" => op.kind # "create") /\ (pc = "insert" => op.kind = "create")
  <2>1. CASE StartUpdate(r)
    <3>1. req' = [req EXCEPT ![r] = [req[r] EXCEPT !.pc = "lock", !.snap = found]]
      BY <2>1 DEF StartUpdate, found, AssignmentsInv
    <3>2. [req[r] EXCEPT !.pc = "lock", !.snap = found]
            = [req[r] EXCEPT !.pc = "lock", !.snap = found, !.off = req[r].off]
      BY <1>1 DEF Request
    <3> QED BY <3>1, <3>2
  <2>2. CASE FinishUpdate(r)
    <3> DEFINE off == {id \in req[r].snap : Matches(req[r].op, featureAssignments[id])}
               pc == IF req[r].op.kind = "create" THEN "insert" ELSE "commit"
    <3>1. req' = [req EXCEPT ![r] = [req[r] EXCEPT !.pc = pc, !.off = off]]
      BY <2>2 DEF FinishUpdate, AssignmentsInv
    <3>2. off \subseteq req[r].snap OBVIOUS
    <3> HIDE DEF off
    <3>3. [req[r] EXCEPT !.pc = pc, !.off = off]
            = [req[r] EXCEPT !.pc = pc, !.snap = req[r].snap, !.off = off]
      BY <1>1 DEF Request
    <3> QED BY <3>1, <3>2, <3>3
  <2> QED BY <2>1, <2>2
<1>7. PICK pc \in {"lock", "insert", "commit"}, snap \in SUBSET (req[r].snap \cup found),
           off \in SUBSET (req[r].off \cup found \cup req[r].snap) :
         /\ req' = [req EXCEPT ![r] = [req[r] EXCEPT !.pc = pc, !.snap = snap, !.off = off]]
         /\ (pc = "commit" => op.kind # "create") /\ (pc = "insert" => op.kind = "create")
  BY <1>6
<1> DEFINE x == [req[r] EXCEPT !.pc = pc, !.snap = snap, !.off = off]
<1>8. /\ x \in Request /\ x.op = op /\ x.pc = pc /\ x.snap = snap /\ x.off = off
      /\ x.row = req[r].row
  <2>1. snap \subseteq Nat /\ off \subseteq Nat BY <1>5, <1>7, RequestFields
  <2> QED BY <1>1, <2>1 DEF Request
<1>9. req'[r] = x BY <1>7 DEF AssignmentsInv
<1> HIDE DEF x
<1>10. ~Inserted(r) /\ ~Inserted(r)' BY <1>2, <1>7, <1>8, <1>9 DEF Inserted
<1>11. \A id \in snap \cup off : /\ id \in DOMAIN featureAssignments
                                 /\ Key(featureAssignments[id]) = KeyOf(op)
                                 /\ op.kind = "deactivate" => id = op.fa
  BY <1>1, <1>4 DEF RequestInv
<1>12. RequestInv(r)'
  BY <1>1, <1>2, <1>3, <1>7, <1>8, <1>9, <1>10, <1>11 DEF RequestInv, Key, KeyOf
<1>13. clock' \in Nat /\ audits' \in Seq(Audit) /\ Range(audits) \subseteq Range(audits')
  BY <1>2 DEF AssignmentsInv, AssignedInv, Audit
<1> QED BY <1>2, <1>7, <1>8, <1>10, <1>12, <1>13, RequestMoves DEF x

\* The transaction is rolled back.
LEMMA FailKeeps ==
    ASSUME AssignmentsInv, NEW r \in Requests, Fail(r)
    PROVE  AssignmentsInv'
<1>1. RequestInv(r) BY RequestFields
<1>2. PICK pc \in {"done", "failed"} : req' = [req EXCEPT ![r] = Ended(r, pc)]
  BY DEF Fail, AssignmentsInv
<1>3. UNCHANGED <<featureAssignments, clock, audits>> /\ req[r].pc # "idle" BY DEF Fail, tables
<1>4. req'[r] = Ended(r, pc) BY <1>2 DEF AssignmentsInv
<1>5. /\ req'[r] \in Request /\ req'[r].pc = pc /\ req'[r].op = req[r].op
      /\ req'[r].snap = {} /\ req'[r].off = {} /\ req'[r].row = NoRow
  BY <1>4, EndedFields
<1>6. ~Inserted(r)' BY <1>5 DEF Inserted
<1>7. RequestInv(r)' BY <1>1, <1>3, <1>5, <1>6 DEF RequestInv
<1>8. clock' \in Nat /\ audits' \in Seq(Audit) /\ Range(audits) \subseteq Range(audits')
  BY <1>3 DEF AssignmentsInv, AssignedInv, Audit
<1> QED BY <1>2, <1>3, <1>4, <1>5, <1>6, <1>7, <1>8, RequestMoves

\* All transactions are rolled back.
LEMMA CrashKeeps ==
    ASSUME AssignmentsInv, Crash
    PROVE  AssignmentsInv'
<1> USE DEF AssignmentsInv
<1>1. /\ req' = [r \in Requests |-> IF req[r].pc \in {"idle", "done"} THEN req[r]
                                    ELSE Ended(r, "failed")]
      /\ UNCHANGED <<featureAssignments, clock, audits>>
  BY DEF Crash, tables
<1>2. ASSUME NEW r \in Requests
      PROVE  req'[r] \in Request /\ RequestInv(r)' /\ ~Inserted(r)'
  <2>1. RequestInv(r) /\ req[r] \in Request BY RequestFields
  <2>2. CASE req[r].pc \in {"idle", "done"}
    <3>1. req'[r] = req[r] BY <1>1, <2>2
    <3> QED BY <1>1, <2>1, <2>2, <3>1 DEF RequestInv, Inserted, Key, KeyOf
  <2>3. CASE req[r].pc \notin {"idle", "done"}
    <3>1. req'[r] = Ended(r, "failed") BY <1>1, <2>3
    <3>2. /\ req'[r] \in Request /\ req'[r].pc = "failed" /\ req'[r].op = req[r].op
          /\ req'[r].snap = {} /\ req'[r].off = {} /\ req'[r].row = NoRow
      BY <3>1, EndedFields
    <3> QED BY <1>1, <2>1, <2>3, <3>2 DEF RequestInv, Inserted
  <2> QED BY <2>2, <2>3
<1>3. req' \in [Requests -> Request] BY <1>1, <1>2
<1>4. AssignedInv' /\ OneActive' BY <1>1 DEF AssignedInv, OneActive, Key
<1>5. EveryLossIsExplained' BY <1>1 DEF EveryLossIsExplained, Key
<1>6. AloneInv' BY <1>2 DEF AloneInv
<1> QED BY <1>2, <1>3, <1>4, <1>5, <1>6

\* The INSERT: the index and the rows that others have inserted leave the key
\* to this request alone, or the request fails.
LEMMA InsertKeeps ==
    ASSUME AssignmentsInv, NEW r \in Requests, CreateFeatureAssignment(r)
    PROVE  AssignmentsInv'
<1>1. RequestInv(r) /\ req[r] \in Request BY RequestFields
<1>2. UNCHANGED <<featureAssignments, clock, audits>> /\ req[r].pc = "insert"
  BY DEF CreateFeatureAssignment, tables
<1>3. clock' \in Nat /\ audits' \in Seq(Audit) /\ Range(audits) \subseteq Range(audits')
  BY <1>2 DEF AssignmentsInv, AssignedInv, Audit
<1>4. CASE Duplicate(r)
  <2>1. req' = [req EXCEPT ![r] = Ended(r, "failed")] BY <1>4 DEF CreateFeatureAssignment
  <2>2. req'[r] = Ended(r, "failed") BY <2>1 DEF AssignmentsInv
  <2>3. /\ req'[r] \in Request /\ req'[r].pc = "failed" /\ req'[r].op = req[r].op
        /\ req'[r].snap = {} /\ req'[r].off = {} /\ req'[r].row = NoRow
    BY <2>2, EndedFields
  <2>4. ~Inserted(r)' BY <2>3 DEF Inserted
  <2>5. RequestInv(r)' BY <1>1, <1>2, <2>3, <2>4 DEF RequestInv
  <2> QED BY <1>2, <1>3, <2>1, <2>2, <2>3, <2>4, <2>5, RequestMoves
<1>5. CASE ~Duplicate(r)
  <2> USE DEF AssignmentsInv
  <2> DEFINE op == req[r].op
             x == [req[r] EXCEPT !.pc = "commit", !.row = NewRow(r)]
  <2>1. req' = [req EXCEPT ![r] = x] BY <1>5 DEF CreateFeatureAssignment
  <2>2. op \in Operations /\ op.kind = "create" BY <1>1, <1>2 DEF RequestInv
  <2>3. NewRow(r) \in Row /\ Key(NewRow(r)) = KeyOf(op) /\ KeyOf(op) = <<op.chart.name, op.target>>
    BY <2>2, InsertedRow, RequestFields DEF KeyOf
  <2>4. /\ x \in Request /\ x.op = op /\ x.pc = "commit" /\ x.snap = req[r].snap
        /\ x.off = req[r].off /\ x.row = NewRow(r) /\ x.start = req[r].start
    BY <1>1, <2>3 DEF Request
  <2>5. req'[r] = x /\ req' \in [Requests -> Request] /\ \A o \in Requests \ {r} : req'[o] = req[o]
    BY <2>1, <2>4
  <2> HIDE DEF x
  <2>6. Inserted(r)' /\ \A o \in Requests \ {r} : (Inserted(o)' <=> Inserted(o))
    BY <2>2, <2>4, <2>5 DEF Inserted
  <2>7. NewRow(r)' = NewRow(r) BY <2>4, <2>5 DEF NewRow
  <2>8. RequestInv(r)'
    BY <1>1, <1>2, <2>2, <2>4, <2>5, <2>6, <2>7 DEF RequestInv, Key, KeyOf
  <2>9. \A o \in Requests \ {r} : RequestInv(o)'
    BY <1>2, <2>5 DEF RequestInv, Inserted, NewRow, Key, KeyOf
  <2>10. /\ \A o \in Requests : KeyOf(req[o].op)' = KeyOf(req[o].op)
         /\ \A id \in DOMAIN featureAssignments :
               Key(featureAssignments[id])' = Key(featureAssignments[id])
    BY <1>2, <2>4, <2>5 DEF KeyOf, Key
  <2>11. \A id \in DOMAIN featureAssignments :
            featureAssignments[id].active /\ Key(featureAssignments[id]) = KeyOf(op)
            => id \in req[r].off
    BY <1>5 DEF Duplicate
  <2>12. \A o \in Requests \ {r} : Inserted(o) => KeyOf(req[o].op) # KeyOf(op)
    <3> SUFFICES ASSUME NEW o \in Requests \ {r}, Inserted(o) PROVE KeyOf(req[o].op) # KeyOf(op)
      OBVIOUS
    <3>1. req[o].row = NewRow(o) /\ req[o].op \in Operations /\ req[o].op.kind = "create"
      BY RequestFields DEF RequestInv, Inserted
    <3>2. req[o].row # NoRow /\ Key(req[o].row) = KeyOf(req[o].op)
      BY <3>1, InsertedRow, RequestFields
    <3> QED BY <3>2 DEF CreateFeatureAssignment, KeyIsBusy
  <2>13. AloneInv'
    <3> SUFFICES ASSUME NEW o \in Requests, Inserted(o)'
                 PROVE  (/\ \A id \in DOMAIN featureAssignments :
                              /\ featureAssignments[id].active
                              /\ Key(featureAssignments[id]) = KeyOf(req[o].op)
                              => id \in req[o].off
                         /\ \A other \in Requests :
                              Inserted(other) /\ KeyOf(req[other].op) = KeyOf(req[o].op)
                              => other = o)'
      BY DEF AloneInv
    <3>1. \A id \in DOMAIN featureAssignments :
             featureAssignments[id].active /\ Key(featureAssignments[id]) = KeyOf(req[o].op)
             => id \in req'[o].off
      BY <2>4, <2>5, <2>6, <2>11 DEF AloneInv
    <3>2. \A other \in Requests :
             Inserted(other)' /\ KeyOf(req[other].op) = KeyOf(req[o].op) => other = o
      BY <2>6, <2>12 DEF AloneInv
    <3> QED BY <1>2, <2>10, <3>1, <3>2
  <2>14. AssignedInv' /\ OneActive' BY <1>2 DEF AssignedInv, OneActive, Key
  <2>15. EveryLossIsExplained' BY <1>2 DEF EveryLossIsExplained, Key
  <2> QED BY <2>5, <2>8, <2>9, <2>13, <2>14, <2>15
<1> QED BY <1>4, <1>5

-----------------------------------------------------------------------------
(* Commits *)

\* What the rows are after the UPDATE of a request: the same, fewer active.
LEMMA DeactivatedRows ==
    ASSUME AssignmentsInv, NEW r \in Requests
    PROVE  /\ Deactivations(r) \in Seq(Row) /\ Len(Deactivations(r)) = Len(featureAssignments)
           /\ DOMAIN Deactivations(r) = DOMAIN featureAssignments
           /\ \A id \in DOMAIN featureAssignments :
                 /\ Deactivations(r)[id].id = id
                 /\ Key(Deactivations(r)[id]) = Key(featureAssignments[id])
                 /\ Deactivations(r)[id].active <=> featureAssignments[id].active /\ id \notin req[r].off
<1> DEFINE D == Deactivations(r)
<1>1. featureAssignments \in Seq(Row) BY DEF AssignmentsInv, AssignedInv
<1>2. DOMAIN featureAssignments = 1 .. Len(featureAssignments) /\ Len(featureAssignments) \in Nat
  BY <1>1
<1>3. ASSUME NEW id \in DOMAIN featureAssignments
      PROVE  /\ D[id] \in Row /\ D[id].id = id /\ Key(D[id]) = Key(featureAssignments[id])
             /\ D[id].active <=> featureAssignments[id].active /\ id \notin req[r].off
  <2>1. featureAssignments[id] \in Row /\ featureAssignments[id].id = id
    BY <1>1 DEF AssignmentsInv, AssignedInv
  <2>2. CASE id \in req[r].off
    <3>1. D[id] = [featureAssignments[id] EXCEPT !.active = FALSE] BY <2>2 DEF Deactivations
    <3> HIDE DEF D
    <3> QED BY <2>1, <2>2, <3>1 DEF Row, Key
  <2>3. CASE id \notin req[r].off
    <3>1. D[id] = featureAssignments[id] BY <2>3 DEF Deactivations
    <3> HIDE DEF D
    <3> QED BY <2>1, <2>3, <3>1
  <2> QED BY <2>2, <2>3
<1>4. D = [id \in 1 .. Len(featureAssignments) |-> D[id]] BY <1>2 DEF Deactivations
<1> HIDE DEF D
<1>5. D \in Seq(Row) /\ Len(D) = Len(featureAssignments)
  <2>1. D \in [1 .. Len(featureAssignments) -> Row] BY <1>2, <1>3, <1>4
  <2> QED BY <1>2, <2>1
<1>6. DOMAIN D = DOMAIN featureAssignments BY <1>2, <1>4
<1> QED BY <1>3, <1>5, <1>6 DEF D

\* The other requests do not notice: rows keep their keys.
LEMMA OthersKeep ==
    ASSUME AssignmentsInv, NEW r \in Requests, req[r].pc = "commit", NEW x \in Request,
           req' = [req EXCEPT ![r] = x], x.pc \in {"audit", "done"}, x.op = req[r].op,
           x.snap = {}, x.off = {}, x.row = NoRow,
           DOMAIN featureAssignments \subseteq DOMAIN featureAssignments',
           \A id \in DOMAIN featureAssignments :
              Key(featureAssignments'[id]) = Key(featureAssignments[id])
    PROVE  /\ req' \in [Requests -> Request] /\ \A o \in Requests : RequestInv(o)'
           /\ \A o \in Requests : Inserted(o)' => o # r /\ Inserted(o) /\ req'[o] = req[o]
           /\ \A o \in Requests : Inserted(o)' => KeyOf(req[o].op)' = KeyOf(req[o].op)
<1>1. /\ req'[r] = x /\ req' \in [Requests -> Request]
      /\ \A o \in Requests \ {r} : req'[o] = req[o]
  BY DEF AssignmentsInv
<1>2. ~Inserted(r)' BY <1>1 DEF Inserted
<1>3. RequestInv(r)'
  <2>1. RequestInv(r) BY RequestFields
  <2> QED BY <1>1, <1>2, <2>1 DEF RequestInv
<1>4. ASSUME NEW o \in Requests \ {r}
      PROVE  RequestInv(o)' /\ (Inserted(o)' => Inserted(o) /\ KeyOf(req[o].op)' = KeyOf(req[o].op))
  <2>1. RequestInv(o) /\ req'[o] = req[o] BY <1>1, RequestFields
  <2>2. Inserted(o)' <=> Inserted(o) BY <2>1 DEF Inserted
  <2>3. NewRow(o)' = NewRow(o) BY <2>1 DEF NewRow
  <2>4. req[o].pc # "idle" => KeyOf(req[o].op)' = KeyOf(req[o].op)
    BY <2>1 DEF KeyOf, RequestInv
  <2>5. \A id \in req[o].snap \cup req[o].off :
           /\ id \in DOMAIN featureAssignments'
           /\ Key(featureAssignments[id])' = KeyOf(req[o].op)'
           /\ req[o].op.kind = "deactivate" => id = req[o].op.fa
    <3>1. \A id \in DOMAIN featureAssignments :
             Key(featureAssignments[id])' = Key(featureAssignments[id])
      BY DEF Key
    <3> QED BY <2>1, <2>4, <3>1 DEF RequestInv
  <2>6. RequestInv(o)' BY <2>1, <2>2, <2>3, <2>5 DEF RequestInv
  <2>7. Inserted(o) => req[o].pc # "idle" BY DEF Inserted
  <2> QED BY <2>2, <2>4, <2>6, <2>7
<1> QED BY <1>1, <1>2, <1>3, <1>4

\* COMMIT of a deactivation: its audit row explains what it takes away.
LEMMA CommitDeactivateKeeps ==
    ASSUME AssignmentsInv, NEW r \in Requests, CommitDeactivate(r)
    PROVE  AssignmentsInv'
<1> USE DEF AssignmentsInv
<1> DEFINE op == req[r].op
           D == Deactivations(r)
           a == DeletedAudit(op)
<1>1. /\ req[r].pc = "commit" /\ op.kind # "create" /\ featureAssignments' = D
      /\ audits' = Append(audits, a) /\ req' = [req EXCEPT ![r] = Ended(r, "done")]
      /\ clock' = clock
  BY DEF CommitDeactivate
<1>2. RequestInv(r) BY RequestFields
<1>3. op \in Operations /\ op.fa \in DOMAIN featureAssignments /\ op.fa \in Nat \ {0}
  BY <1>1, <1>2, OperationFields DEF RequestInv
<1>4. /\ D \in Seq(Row) /\ DOMAIN D = DOMAIN featureAssignments
      /\ \A id \in DOMAIN featureAssignments :
            /\ D[id].id = id /\ Key(D[id]) = Key(featureAssignments[id])
            /\ D[id].active <=> featureAssignments[id].active /\ id \notin req[r].off
  BY DeactivatedRows
<1>5. /\ a \in Audit /\ a.action = "deleted" /\ a.key = KeyOf(op)
      /\ a.fa = IF op.kind = "deactivate" THEN op.fa ELSE NoFA
  <2>1. KeyOf(op) \in FeatureNames \X Targets BY <1>3, KeyOfType
  <2> QED BY <1>3, <2>1 DEF DeletedAudit, Audit, NoFA
<1> HIDE DEF D, a
<1>6. /\ audits' \in Seq(Audit) /\ Range(audits) \subseteq Range(audits') /\ a \in Range(audits')
  BY <1>1, <1>5, AuditAppended DEF AssignedInv, Audit
<1>7. /\ req' \in [Requests -> Request] /\ \A o \in Requests : RequestInv(o)'
      /\ \A o \in Requests : Inserted(o)' => o # r /\ Inserted(o) /\ req'[o] = req[o]
      /\ \A o \in Requests : Inserted(o)' => KeyOf(req[o].op)' = KeyOf(req[o].op)
  <2>1. /\ Ended(r, "done") \in Request /\ Ended(r, "done").pc = "done"
        /\ Ended(r, "done").op = op /\ Ended(r, "done").snap = {} /\ Ended(r, "done").off = {}
        /\ Ended(r, "done").row = NoRow
    BY EndedFields
  <2> QED BY <1>1, <1>4, <2>1, OthersKeep
<1>8. AssignedInv' BY <1>1, <1>4, <1>6 DEF AssignedInv, Audit
<1>9. \A id \in DOMAIN featureAssignments : Key(featureAssignments[id])' = Key(featureAssignments[id])
  BY <1>1, <1>4 DEF Key
<1>10. AloneInv' BY <1>1, <1>4, <1>7, <1>9 DEF AloneInv
<1>11. OneActive' BY <1>1, <1>4, <1>9 DEF OneActive
<1>12. EveryLossIsExplained'
  <2> SUFFICES ASSUME NEW id \in DOMAIN featureAssignments', ~featureAssignments'[id].active
               PROVE  \/ \E later \in DOMAIN featureAssignments' :
                            later > id /\ Key(featureAssignments'[later]) = Key(featureAssignments'[id])
                      \/ \E b \in Range(audits') :
                            /\ b.action = "deleted" /\ b.key = Key(featureAssignments'[id])
                            /\ b.fa \in {id, NoFA}
    BY DEF EveryLossIsExplained, Key
  <2>1. id \in DOMAIN featureAssignments /\ Key(featureAssignments'[id]) = Key(featureAssignments[id])
    BY <1>1, <1>4
  <2>2. CASE ~featureAssignments[id].active
    BY <1>1, <1>4, <1>6, <2>1, <2>2 DEF EveryLossIsExplained
  <2>3. CASE id \in req[r].off
    <3>1. Key(featureAssignments[id]) = KeyOf(op) /\ (op.kind = "deactivate" => id = op.fa)
      BY <1>2, <2>3 DEF RequestInv
    <3> QED BY <1>5, <1>6, <2>1, <3>1
  <2> QED BY <1>1, <1>4, <2>1, <2>2, <2>3
<1> QED BY <1>7, <1>8, <1>10, <1>11, <1>12

\* COMMIT of a create: its row replaces the ones its transaction deactivates,
\* which are all the active ones of the key.
LEMMA CommitCreateKeeps ==
    ASSUME AssignmentsInv, NEW r \in Requests, CommitCreate(r)
    PROVE  AssignmentsInv'
<1> USE DEF AssignmentsInv
<1> DEFINE op == req[r].op
           D == Deactivations(r)
           n == Len(featureAssignments) + 1
           d == [req[r].row EXCEPT !.id = n]
           x == [Ended(r, "audit") EXCEPT !.fa = n]
<1>1. /\ req[r].pc = "commit" /\ op.kind = "create" /\ featureAssignments' = Append(D, d)
      /\ req' = [req EXCEPT ![r] = x] /\ audits' = audits /\ clock' = clock
  BY DEF CommitCreate
<1>2. RequestInv(r) BY RequestFields
<1>3. Inserted(r) /\ op \in Operations /\ req[r].row = NewRow(r)
  BY <1>1, <1>2 DEF RequestInv, Inserted
<1>4. /\ D \in Seq(Row) /\ Len(D) = Len(featureAssignments)
      /\ DOMAIN D = DOMAIN featureAssignments
      /\ \A id \in DOMAIN featureAssignments :
            /\ D[id].id = id /\ Key(D[id]) = Key(featureAssignments[id])
            /\ D[id].active <=> featureAssignments[id].active /\ id \notin req[r].off
  BY DeactivatedRows
<1>5. n \in Nat /\ DOMAIN featureAssignments = 1 .. n - 1 BY DEF AssignedInv
<1>6. d \in Row /\ d.id = n /\ Key(d) = KeyOf(op) /\ d.active
  <2>1. NewRow(r) \in Row /\ Key(NewRow(r)) = KeyOf(op) /\ NewRow(r).active
    BY <1>1, <1>3, InsertedRow, RequestFields
  <2> HIDE DEF n
  <2> QED BY <1>3, <1>5, <2>1 DEF Row, Key
<1>7. /\ x \in Request /\ x.pc = "audit" /\ x.op = op /\ x.snap = {} /\ x.off = {} /\ x.row = NoRow
  BY <1>5, EndedFields
<1> HIDE DEF D, d, x
<1>8. /\ featureAssignments' \in Seq(Row) /\ DOMAIN featureAssignments' = 1 .. n
      /\ featureAssignments'[n] = d
      /\ \A id \in DOMAIN featureAssignments : featureAssignments'[id] = D[id]
  BY <1>1, <1>4, <1>5, <1>6
<1> HIDE DEF n
<1>9. \A id \in DOMAIN featureAssignments' : id = n \/ (id \in DOMAIN featureAssignments /\ id < n)
  BY <1>5, <1>8
<1>10. DOMAIN featureAssignments \subseteq DOMAIN featureAssignments' /\ n \in DOMAIN featureAssignments'
       /\ n \notin DOMAIN featureAssignments
  <2>1. n > 0 BY <1>5 DEF n, AssignedInv
  <2> QED BY <1>5, <1>8, <2>1
<1>11. /\ req' \in [Requests -> Request] /\ \A o \in Requests : RequestInv(o)'
       /\ \A o \in Requests : Inserted(o)' => o # r /\ Inserted(o) /\ req'[o] = req[o]
       /\ \A o \in Requests : Inserted(o)' => KeyOf(req[o].op)' = KeyOf(req[o].op)
  BY <1>1, <1>4, <1>7, <1>8, <1>10, OthersKeep, ZenonT(60)
<1>12. AssignedInv' BY <1>1, <1>4, <1>6, <1>8, <1>9 DEF AssignedInv
<1>13. /\ \A id \in DOMAIN featureAssignments : Key(featureAssignments'[id]) = Key(featureAssignments[id])
       /\ \A id \in DOMAIN featureAssignments : featureAssignments'[id].active =>
             featureAssignments[id].active /\ id \notin req[r].off
       /\ Key(featureAssignments'[n]) = KeyOf(op)
  BY <1>4, <1>6, <1>8
<1>14. AloneInv'
  <2>1. ASSUME NEW o \in Requests, Inserted(o)', NEW id \in DOMAIN featureAssignments',
               featureAssignments'[id].active, Key(featureAssignments'[id]) = KeyOf(req[o].op)
        PROVE  id \in req[o].off
    <3>1. o # r /\ Inserted(o) BY <1>11, <2>1
    <3>2. id # n BY <1>3, <1>13, <2>1, <3>1 DEF AloneInv
    <3>3. id \in DOMAIN featureAssignments BY <1>9, <3>2
    <3> QED BY <1>13, <2>1, <3>1, <3>3 DEF AloneInv
  <2>2. \A o, other \in Requests : Inserted(o)' /\ Inserted(other)'
           /\ KeyOf(req[other].op) = KeyOf(req[o].op) => other = o
    BY <1>11 DEF AloneInv
  <2>3. \A id \in DOMAIN featureAssignments' : Key(featureAssignments[id])' = Key(featureAssignments'[id])
    BY DEF Key
  <2> QED BY <1>11, <2>1, <2>2, <2>3 DEF AloneInv
<1>15. OneActive'
  <2> SUFFICES ASSUME NEW i \in DOMAIN featureAssignments', NEW j \in DOMAIN featureAssignments',
                      featureAssignments'[i].active, featureAssignments'[j].active,
                      Key(featureAssignments'[i]) = Key(featureAssignments'[j])
               PROVE  i = j
    BY DEF OneActive, Key
  <2>1. \A id \in DOMAIN featureAssignments :
           ~(featureAssignments'[id].active /\ Key(featureAssignments'[id]) = KeyOf(op))
    BY <1>3, <1>13 DEF AloneInv
  <2>2. CASE i = n \/ j = n BY <1>9, <1>13, <2>1, <2>2
  <2>3. CASE i # n /\ j # n BY <1>9, <1>13, <2>3 DEF OneActive
  <2> QED BY <2>2, <2>3
<1>16. EveryLossIsExplained'
  <2> SUFFICES ASSUME NEW id \in DOMAIN featureAssignments', ~featureAssignments'[id].active
               PROVE  \/ \E later \in DOMAIN featureAssignments' :
                            later > id /\ Key(featureAssignments'[later]) = Key(featureAssignments'[id])
                      \/ \E b \in Range(audits') :
                            /\ b.action = "deleted" /\ b.key = Key(featureAssignments'[id])
                            /\ b.fa \in {id, NoFA}
    BY DEF EveryLossIsExplained, Key
  <2>1. id \in DOMAIN featureAssignments /\ n > id BY <1>5, <1>6, <1>8, <1>9
  <2>2. CASE ~featureAssignments[id].active
    BY <1>1, <1>10, <1>13, <2>1, <2>2 DEF EveryLossIsExplained
  <2>3. CASE id \in req[r].off
    <3>1. Key(featureAssignments[id]) = KeyOf(op) BY <1>2, <2>3 DEF RequestInv
    <3> QED BY <1>10, <1>13, <2>1, <3>1
  <2>4. featureAssignments[id].active => id \in req[r].off BY <1>4, <1>8, <2>1
  <2> QED BY <2>2, <2>3, <2>4
<1> QED BY <1>11, <1>12, <1>14, <1>15, <1>16

-----------------------------------------------------------------------------
(* The theorems *)

LEMMA InitAssignments == Init => AssignmentsInv
<1> SUFFICES ASSUME Init PROVE AssignmentsInv OBVIOUS
<1> DEFINE D == featureAssignments
<1>1. /\ DOMAIN InitAssigned = 1 .. Len(InitAssigned) /\ Len(InitAssigned) \in Nat
      /\ \A i \in DOMAIN InitAssigned : InitAssigned[i] \in Charts \X Targets
  BY AssignmentsAssumption
<1>2. D = [id \in DOMAIN InitAssigned |->
             [id |-> id, feature |-> InitAssigned[id][1].name,
              version |-> InitAssigned[id][1].version, target |-> InitAssigned[id][2],
              created |-> id, active |-> TRUE]]
  BY DEF Init
<1>3. DOMAIN D = DOMAIN InitAssigned BY <1>2
<1>4. ASSUME NEW id \in DOMAIN InitAssigned
      PROVE  /\ D[id] \in Row /\ D[id].id = id /\ D[id].active = TRUE
             /\ Key(D[id]) = <<InitAssigned[id][1].name, InitAssigned[id][2]>>
  <2>1. /\ InitAssigned[id][1].name \in FeatureNames /\ InitAssigned[id][2] \in Targets
        /\ InitAssigned[id][1].version \in {c.version : c \in Charts} /\ id \in Nat
    BY <1>1 DEF FeatureNames
  <2>2. D[id] = [id |-> id, feature |-> InitAssigned[id][1].name,
                 version |-> InitAssigned[id][1].version, target |-> InitAssigned[id][2],
                 created |-> id, active |-> TRUE]
    BY <1>2
  <2> HIDE DEF D
  <2> QED BY <2>1, <2>2 DEF Row, Key
<1>5. D \in Seq(Row)
  <2>1. D = [id \in 1 .. Len(InitAssigned) |-> D[id]] BY <1>1, <1>2, <1>3
  <2>2. \A id \in 1 .. Len(InitAssigned) : D[id] \in Row BY <1>1, <1>4
  <2> HIDE DEF D
  <2>3. D \in [1 .. Len(InitAssigned) -> Row] BY <2>1, <2>2
  <2> QED BY <1>1, <2>3
<1>6. AssignedInv BY <1>1, <1>3, <1>4, <1>5 DEF AssignedInv, Init
<1>7. Waiting \in Request BY DEF Waiting, Request, NoFA
<1>8. \A r \in Requests : req[r] = Waiting BY DEF Init
<1>9. \A r \in Requests : RequestInv(r) /\ ~Inserted(r) BY <1>8 DEF RequestInv, Inserted, Waiting
<1>10. req \in [Requests -> Request] BY <1>7 DEF Init
<1>11. OneActive
  <2> SUFFICES ASSUME NEW i \in DOMAIN D, NEW j \in DOMAIN D, Key(D[i]) = Key(D[j]) PROVE i = j
    BY DEF OneActive
  <2>1. <<InitAssigned[i][1].name, InitAssigned[i][2]>> = <<InitAssigned[j][1].name, InitAssigned[j][2]>>
    BY <1>3, <1>4
  <2> QED BY <1>3, <2>1, IndexAssumption
<1>12. EveryLossIsExplained BY <1>3, <1>4 DEF EveryLossIsExplained
<1> QED BY <1>6, <1>9, <1>10, <1>11, <1>12 DEF AssignmentsInv, AloneInv

\* The invariant of the requests and the rows they hold.
THEOREM AssignmentsInvariant == Spec => []AssignmentsInv
<1>1. AssignmentsInv /\ [Next]_vars => AssignmentsInv'
  <2> SUFFICES ASSUME AssignmentsInv, [Next]_vars PROVE AssignmentsInv' OBVIOUS
  <2>1. ASSUME NEW r \in Requests, Handle(r) PROVE AssignmentsInv'
    BY <2>1, HandlerKeeps, UpdateKeeps, InsertKeeps, CommitCreateKeeps, CommitDeactivateKeeps
       DEF Handle
  <2>2. CASE UNCHANGED vars
    <3> USE <2>2 DEF vars, tables, AssignmentsInv
    <3>1. AssignedInv' /\ req' \in [Requests -> Request] BY DEF AssignedInv
    <3>2. \A r \in Requests : RequestInv(r)' BY DEF RequestInv, Inserted, NewRow, Key, KeyOf
    <3>3. AloneInv' BY DEF AloneInv, Inserted, Key, KeyOf
    <3>4. OneActive' /\ EveryLossIsExplained' BY DEF OneActive, EveryLossIsExplained, Key
    <3> QED BY <3>1, <3>2, <3>3, <3>4
  <2> QED BY <2>1, <2>2, FailKeeps, ReceiveKeeps, CrashKeeps DEF Next, AllEnded
<1> QED BY <1>1, InitAssignments, PTL DEF Spec

-----------------------------------------------------------------------------
(* Charts and times *)

\* Steps that create no row, store no chart and begin no transaction.
LEMMA NothingNew ==
    ASSUME ChartsInv, TimesInv, UNCHANGED <<featureData, clock>>,
           DOMAIN featureAssignments' = DOMAIN featureAssignments,
           \A id \in DOMAIN featureAssignments :
              /\ featureAssignments'[id].created = featureAssignments[id].created
              /\ featureAssignments'[id].feature = featureAssignments[id].feature
              /\ featureAssignments'[id].version = featureAssignments[id].version,
           \A r \in Requests :
              /\ InTx(r)' => InTx(r) /\ req'[r].start = req[r].start /\ req'[r].op = req[r].op
              /\ req'[r].pc = "begin" => \/ req'[r].op.kind # "create"
                                         \/ req[r].pc = "begin" /\ req'[r].op = req[r].op
              /\ req'[r].pc = "data" => req'[r].op.kind = "create"
    PROVE  ChartsInv' /\ TimesInv'
<1>1. ChartsInv' BY DEF ChartsInv, Stored
<1>2. TimesInv' BY DEF TimesInv
<1> QED BY <1>1, <1>2

\* What one request of the requests becomes.
LEMMA OneMoves ==
    ASSUME AssignmentsInv, NEW r \in Requests, NEW x, req' = [req EXCEPT ![r] = x]
    PROVE  req'[r] = x /\ \A o \in Requests \ {r} : req'[o] = req[o]
BY DEF AssignmentsInv

LEMMA QuietStepKeepsTimes ==
    ASSUME AssignmentsInv, ChartsInv, TimesInv, NEW r \in Requests,
           \/ \E op \in Operations : Receive(r, op)
           \/ StartUpdate(r) \/ FinishUpdate(r) \/ CreateFeatureAssignment(r)
           \/ AuditCreated(r) \/ Fail(r)
    PROVE  ChartsInv' /\ TimesInv'
<1>1. UNCHANGED <<featureAssignments, featureData, clock>>
  BY DEF Receive, StartUpdate, FinishUpdate, CreateFeatureAssignment, AuditCreated, Fail, tables
<1>2. req[r] \in Request BY RequestFields
<1>3. \E x : /\ req' = [req EXCEPT ![r] = x]
             /\ x.pc \in {"update", "lock", "insert", "commit"} =>
                   InTx(r) /\ x.start = req[r].start /\ x.op = req[r].op
             /\ x.pc = "begin" => x.op.kind # "create"
             /\ x.pc = "data" => x.op.kind = "create"
  <2>1. ASSUME NEW op \in Operations, Receive(r, op)
        PROVE  LET x == [req[r] EXCEPT !.op = op,
                                       !.pc = IF op.kind = "create" THEN "data" ELSE "begin"]
               IN  /\ req' = [req EXCEPT ![r] = x]
                   /\ x.pc \in {"data", "begin"} /\ (x.pc = "begin" => x.op.kind # "create")
                   /\ x.pc = "data" => x.op.kind = "create"
    BY <1>2, <2>1 DEF Receive, AssignmentsInv, Request
  <2>2. CASE StartUpdate(r)
    <3> DEFINE x == [req[r] EXCEPT !.pc = "lock",
                                   !.snap = {id \in DOMAIN featureAssignments :
                                               Matches(req[r].op, featureAssignments[id])}]
    <3>1. req' = [req EXCEPT ![r] = x] /\ InTx(r) BY <2>2 DEF StartUpdate, AssignmentsInv, InTx
    <3>2. x.pc = "lock" /\ x.start = req[r].start /\ x.op = req[r].op BY <1>2 DEF Request
    <3> QED BY <3>1, <3>2
  <2>3. CASE FinishUpdate(r)
    <3> DEFINE x == [req[r] EXCEPT
                       !.pc = IF req[r].op.kind = "create" THEN "insert" ELSE "commit",
                       !.off = {id \in req[r].snap :
                                  Matches(req[r].op, featureAssignments[id])}]
    <3>1. req' = [req EXCEPT ![r] = x] /\ InTx(r) BY <2>3 DEF FinishUpdate, AssignmentsInv, InTx
    <3>2. x.pc \in {"insert", "commit"} /\ x.start = req[r].start /\ x.op = req[r].op
      BY <1>2 DEF Request
    <3> QED BY <3>1, <3>2
  <2>4. CASE CreateFeatureAssignment(r)
    <3>1. CASE Duplicate(r)
      <4>1. req' = [req EXCEPT ![r] = Ended(r, "failed")]
        BY <2>4, <3>1 DEF CreateFeatureAssignment
      <4> QED BY <4>1, EndedFields
    <3>2. CASE ~Duplicate(r)
      <4> DEFINE x == [req[r] EXCEPT !.pc = "commit", !.row = NewRow(r)]
      <4>1. req' = [req EXCEPT ![r] = x] /\ InTx(r)
        BY <2>4, <3>2 DEF CreateFeatureAssignment, AssignmentsInv, InTx
      <4>2. x.pc = "commit" /\ x.start = req[r].start /\ x.op = req[r].op BY <1>2 DEF Request
      <4> QED BY <4>1, <4>2
    <3> QED BY <3>1, <3>2
  <2>5. CASE AuditCreated(r)
    <3> DEFINE x == [req[r] EXCEPT !.pc = "done"]
    <3>1. req' = [req EXCEPT ![r] = x] BY <2>5 DEF AuditCreated, AssignmentsInv
    <3>2. x.pc = "done" BY <1>2 DEF Request
    <3> QED BY <3>1, <3>2
  <2>6. CASE Fail(r)
    <3>1. PICK pc \in {"done", "failed"} : req' = [req EXCEPT ![r] = Ended(r, pc)]
      BY <2>6 DEF Fail, AssignmentsInv
    <3>2. Ended(r, pc).pc = pc BY EndedFields
    <3> QED BY <3>1, <3>2
  <2> QED BY <2>1, <2>2, <2>3, <2>4, <2>5, <2>6
<1>4. PICK x : /\ req' = [req EXCEPT ![r] = x]
               /\ x.pc \in {"update", "lock", "insert", "commit"} =>
                     InTx(r) /\ x.start = req[r].start /\ x.op = req[r].op
               /\ x.pc = "begin" => x.op.kind # "create"
               /\ x.pc = "data" => x.op.kind = "create"
  BY <1>3
<1>5. req'[r] = x /\ \A o \in Requests \ {r} : req'[o] = req[o] BY <1>4, OneMoves
<1> QED BY <1>1, <1>4, <1>5, NothingNew DEF InTx, ChartsInv

\* A chart is stored before the transaction that refers to it begins.
LEMMA StoreKeepsTimes ==
    ASSUME AssignmentsInv, ChartsInv, TimesInv, NEW r \in Requests, CreateFeatureData(r)
    PROVE  ChartsInv' /\ TimesInv'
<1> DEFINE chart == req[r].op.chart
           x == [req[r] EXCEPT !.pc = "begin"]
<1>1. /\ req' = [req EXCEPT ![r] = x] /\ UNCHANGED <<featureAssignments, clock>>
      /\ req[r].pc = "data"
  BY DEF CreateFeatureData, AssignmentsInv
<1>2. req[r] \in Request /\ RequestInv(r) BY RequestFields
<1>3. x.pc = "begin" /\ x.op = req[r].op BY <1>2 DEF Request
<1>4. req'[r] = x /\ \A o \in Requests \ {r} : req'[o] = req[o] BY <1>1, OneMoves
<1> HIDE DEF x
<1>5. \A o \in Requests : InTx(o)' => o # r /\ InTx(o) BY <1>3, <1>4 DEF InTx
<1>6. TimesInv' BY <1>1, <1>4, <1>5 DEF TimesInv
<1>7. req[r].op \in Operations BY <1>1, <1>2 DEF RequestInv
<1>8. req[r].op.kind = "create" BY <1>1 DEF ChartsInv
<1>9. chart \in Charts BY <1>7, <1>8, OperationFields
<1>10. /\ DOMAIN featureData' = DOMAIN featureData \cup {<<chart.name, chart.version>>}
       /\ \A k \in DOMAIN featureData' : featureData'[k] \in Charts
  BY <1>9 DEF CreateFeatureData, Put, ChartsInv
<1>11. Stored(chart)' BY <1>3, <1>4, <1>10 DEF Stored
<1>12. ASSUME NEW o \in Requests, (req'[o].pc = "begin" \/ InTx(o)'), req'[o].op.kind = "create"
       PROVE  Stored(req[o].op.chart)'
  <2>1. CASE o = r BY <1>3, <1>4, <1>11, <2>1
  <2>2. CASE o # r BY <1>4, <1>5, <1>10, <1>12, <2>2 DEF ChartsInv, Stored
  <2> QED BY <2>1, <2>2
<1>13. \A o \in Requests : req'[o].pc = "data" => req'[o].op.kind = "create"
  BY <1>3, <1>4 DEF ChartsInv
<1> QED BY <1>1, <1>6, <1>10, <1>12, <1>13 DEF ChartsInv

LEMMA BeginKeepsTimes ==
    ASSUME AssignmentsInv, ChartsInv, TimesInv, NEW r \in Requests, Begin(r)
    PROVE  ChartsInv' /\ TimesInv'
<1> DEFINE x == [req[r] EXCEPT !.pc = "update", !.start = clock + 1]
<1>1. /\ req' = [req EXCEPT ![r] = x] /\ UNCHANGED <<featureAssignments, featureData>>
      /\ req[r].pc = "begin" /\ clock' = clock + 1 /\ clock \in Nat
  BY DEF Begin, AssignmentsInv, AssignedInv, tables
<1>2. req[r] \in Request BY RequestFields
<1>3. x.pc = "update" /\ x.op = req[r].op /\ x.start = clock + 1 BY <1>2 DEF Request
<1>4. req'[r] = x /\ \A o \in Requests \ {r} : req'[o] = req[o] BY <1>1, OneMoves
<1> HIDE DEF x
<1>5. ChartsInv' BY <1>1, <1>3, <1>4 DEF ChartsInv, Stored, InTx
<1>6. /\ InTx(r)' /\ req'[r].start = clock'
      /\ \A o \in Requests \ {r} : InTx(o)' => InTx(o) /\ req'[o].start = req[o].start
  BY <1>1, <1>3, <1>4 DEF InTx
<1>7. /\ \A id \in DOMAIN featureAssignments :
            featureAssignments[id].created \in 1 .. clock' /\ featureAssignments[id].created # clock'
      /\ \A o \in Requests \ {r} : InTx(o)' =>
            req'[o].start \in 1 .. clock' /\ req'[o].start # clock'
  BY <1>1, <1>6 DEF TimesInv
<1>8. clock' \in 1 .. clock' BY <1>1
<1>9. TimesInv' BY <1>1, <1>6, <1>7, <1>8 DEF TimesInv
<1> QED BY <1>5, <1>9

\* A row gets the time at which its transaction began.
LEMMA CommitKeepsTimes ==
    ASSUME AssignmentsInv, ChartsInv, TimesInv, NEW r \in Requests,
           CommitCreate(r) \/ CommitDeactivate(r)
    PROVE  ChartsInv' /\ TimesInv'
<1> DEFINE D == Deactivations(r)
<1>1. req[r] \in Request /\ RequestInv(r) BY RequestFields
<1>2. /\ D \in Seq(Row) /\ Len(D) = Len(featureAssignments)
      /\ DOMAIN D = DOMAIN featureAssignments
  BY DeactivatedRows
<1>3. \A id \in DOMAIN featureAssignments :
         /\ D[id].created = featureAssignments[id].created
         /\ D[id].feature = featureAssignments[id].feature
         /\ D[id].version = featureAssignments[id].version
  <2> SUFFICES ASSUME NEW id \in DOMAIN featureAssignments
               PROVE  /\ D[id].created = featureAssignments[id].created
                      /\ D[id].feature = featureAssignments[id].feature
                      /\ D[id].version = featureAssignments[id].version
    OBVIOUS
  <2>1. featureAssignments[id] \in Row BY DEF AssignmentsInv, AssignedInv
  <2>2. D[id] = [featureAssignments[id] EXCEPT !.active = FALSE] \/ D[id] = featureAssignments[id]
    BY DEF Deactivations
  <2> HIDE DEF D
  <2> QED BY <2>1, <2>2 DEF Row
<1> HIDE DEF D
<1>4. CASE CommitDeactivate(r)
  <2>1. /\ featureAssignments' = D /\ UNCHANGED <<featureData, clock>>
        /\ req' = [req EXCEPT ![r] = Ended(r, "done")]
    BY <1>4 DEF CommitDeactivate, D
  <2>2. req'[r].pc = "done" /\ \A o \in Requests \ {r} : req'[o] = req[o]
    <3>1. req'[r] = Ended(r, "done") /\ \A o \in Requests \ {r} : req'[o] = req[o]
      BY <2>1, OneMoves, Zenon
    <3>2. Ended(r, "done").pc = "done" BY EndedFields
    <3> QED BY <3>1, <3>2
  <2> QED BY <1>2, <1>3, <2>1, <2>2, NothingNew DEF InTx, ChartsInv
<1>5. CASE CommitCreate(r)
  <2> DEFINE n == Len(featureAssignments) + 1
             d == [req[r].row EXCEPT !.id = n]
             x == [Ended(r, "audit") EXCEPT !.fa = n]
  <2>1. /\ featureAssignments' = Append(D, d) /\ UNCHANGED <<featureData, clock>>
        /\ req' = [req EXCEPT ![r] = x] /\ Inserted(r)
    BY <1>5 DEF CommitCreate, D, Inserted
  <2>2. n \in Nat /\ DOMAIN featureAssignments = 1 .. n - 1 BY DEF AssignmentsInv, AssignedInv
  <2>3. req'[r].pc = "audit" /\ \A o \in Requests \ {r} : req'[o] = req[o]
    <3>1. req'[r] = x /\ \A o \in Requests \ {r} : req'[o] = req[o]
      BY <2>1, OneMoves, Zenon
    <3>2. x.pc = "audit" BY <2>2, EndedFields
    <3> QED BY <3>1, <3>2
  <2>4. req[r].row = NewRow(r) /\ InTx(r) /\ req[r].op.kind = "create" /\ req[r].op \in Operations
    BY <1>1, <2>1 DEF RequestInv, Inserted, InTx
  <2>5. /\ d.created = req[r].start /\ d.feature = req[r].op.chart.name
        /\ d.version = req[r].op.chart.version
    BY <2>4 DEF NewRow
  <2>6. NewRow(r) \in Row BY <2>4, InsertedRow, RequestFields
  <2>7. d \in Row BY <2>2, <2>4, <2>6 DEF Row
  <2> HIDE DEF d, x
  <2>8. /\ DOMAIN featureAssignments' = 1 .. n /\ featureAssignments'[n] = d
        /\ \A id \in DOMAIN featureAssignments : featureAssignments'[id] = D[id]
    BY <1>2, <2>1, <2>2, <2>7
  <2> HIDE DEF n
  <2>9. \A id \in DOMAIN featureAssignments' : id = n \/ id \in DOMAIN featureAssignments
    BY <2>2, <2>8
  <2>10. Stored(req[r].op.chart) BY <2>4 DEF ChartsInv
  <2>11. ChartsInv'
    <3>1. \A id \in DOMAIN featureAssignments' :
             <<featureAssignments'[id].feature, featureAssignments'[id].version>>
               \in DOMAIN featureData
      BY <1>3, <2>5, <2>8, <2>9, <2>10 DEF ChartsInv, Stored
    <3> QED BY <2>1, <2>3, <3>1 DEF ChartsInv, Stored, InTx
  <2>12. TimesInv'
    <3>1. \A o \in Requests : InTx(o)' => o # r /\ InTx(o) /\ req'[o] = req[o]
      BY <2>3 DEF InTx
    <3>2. \A id \in DOMAIN featureAssignments :
             /\ featureAssignments'[id].created = featureAssignments[id].created
             /\ featureAssignments'[id].created # req[r].start
      BY <1>3, <2>4, <2>8 DEF TimesInv
    <3>3. featureAssignments'[n].created = req[r].start BY <2>5, <2>8
    <3>4. \A id \in DOMAIN featureAssignments' : featureAssignments'[id].created \in 1 .. clock
      BY <2>4, <2>9, <3>2, <3>3 DEF TimesInv
    <3>5. \A i, j \in DOMAIN featureAssignments' :
             featureAssignments'[i].created = featureAssignments'[j].created => i = j
      BY <2>9, <3>2, <3>3 DEF TimesInv
    <3>6. ASSUME NEW o \in Requests, InTx(o)'
          PROVE  /\ req'[o].start \in 1 .. clock
                 /\ \A id \in DOMAIN featureAssignments' :
                       featureAssignments'[id].created # req'[o].start
                 /\ \A other \in Requests :
                       InTx(other)' /\ req'[other].start = req'[o].start => other = o
      BY <2>4, <2>9, <3>1, <3>2, <3>3, <3>6 DEF TimesInv
    <3> QED BY <2>1, <3>4, <3>5, <3>6 DEF TimesInv
  <2> QED BY <2>11, <2>12
<1> QED BY <1>4, <1>5

LEMMA CrashKeepsTimes ==
    ASSUME AssignmentsInv, ChartsInv, TimesInv, Crash
    PROVE  ChartsInv' /\ TimesInv'
<1>1. UNCHANGED <<featureAssignments, featureData, clock>> BY DEF Crash, tables
<1>2. \A r \in Requests : req'[r] = req[r] \/ req'[r].pc = "failed" BY EndedFields DEF Crash
<1> QED BY <1>1, <1>2, NothingNew DEF InTx, ChartsInv

LEMMA InitTimes == Init => ChartsInv /\ TimesInv
<1> SUFFICES ASSUME Init PROVE ChartsInv /\ TimesInv OBVIOUS
<1>1. /\ DOMAIN InitAssigned = 1 .. Len(InitAssigned) /\ Len(InitAssigned) \in Nat
      /\ \A i \in DOMAIN InitAssigned : InitAssigned[i] \in Charts \X Targets
  BY AssignmentsAssumption
<1>2. \A r \in Requests : req[r].pc = "idle" BY DEF Init, Waiting
<1>3. \A r \in Requests : ~InTx(r) BY <1>2 DEF InTx
<1>4. DOMAIN featureAssignments = DOMAIN InitAssigned /\ clock = Len(InitAssigned) BY DEF Init
<1>5. \A id \in DOMAIN InitAssigned :
         /\ featureAssignments[id].created = id
         /\ featureAssignments[id].feature = InitAssigned[id][1].name
         /\ featureAssignments[id].version = InitAssigned[id][1].version
  BY DEF Init
<1>6. TimesInv BY <1>1, <1>3, <1>4, <1>5 DEF TimesInv
<1>7. DOMAIN featureData = {<<a[1].name, a[1].version>> : a \in Range(InitAssigned)} BY DEF Init
<1>8. \A k \in DOMAIN featureData : featureData[k] \in Charts
  <2> SUFFICES ASSUME NEW k \in DOMAIN featureData PROVE featureData[k] \in Charts OBVIOUS
  <2>1. \E c \in Charts : k = <<c.name, c.version>> BY <1>1, <1>7 DEF Range
  <2> QED BY <1>7, <2>1 DEF Init
<1>9. ASSUME NEW id \in DOMAIN InitAssigned
      PROVE  <<featureAssignments[id].feature, featureAssignments[id].version>>
               \in DOMAIN featureData
  <2>1. InitAssigned[id] \in Range(InitAssigned) BY DEF Range
  <2> QED BY <1>5, <1>7, <2>1
<1> QED BY <1>2, <1>3, <1>4, <1>6, <1>8, <1>9 DEF ChartsInv

\* Every row has its chart, and no two rows were created at the same instant.
LEMMA TimesInvariant == Spec => [](AssignmentsInv /\ ChartsInv /\ TimesInv)
<1> DEFINE Inv == AssignmentsInv /\ ChartsInv /\ TimesInv
<1>1. Init => Inv BY InitAssignments, InitTimes
<1>2. Inv /\ AssignmentsInv' /\ [Next]_vars => Inv'
  <2> SUFFICES ASSUME Inv, [Next]_vars PROVE ChartsInv' /\ TimesInv' OBVIOUS
  <2>1. ASSUME NEW r \in Requests, Handle(r) PROVE ChartsInv' /\ TimesInv'
    BY <2>1, QuietStepKeepsTimes, StoreKeepsTimes, BeginKeepsTimes, CommitKeepsTimes DEF Handle
  <2>2. CASE UNCHANGED vars
    BY <2>2, NothingNew DEF vars, tables, InTx, ChartsInv
  <2> QED BY <2>1, <2>2, QuietStepKeepsTimes, CrashKeepsTimes DEF Next, AllEnded
<1> QED BY <1>1, <1>2, AssignmentsInvariant, PTL DEF Spec

-----------------------------------------------------------------------------
(* The pages *)

\* ORDER BY created DESC lists every row once, newer ones first.
LEMMA OrderedRows ==
    ASSUME NEW S, IsFiniteSet(S), \A d \in S : d.created \in Nat,
           \A a, b \in S : a.created = b.created => a = b,
           NEW s, s = NewestFirst(S)
    PROVE  /\ DOMAIN s = 1 .. Cardinality(S) /\ Cardinality(S) \in Nat
           /\ \A i \in DOMAIN s : s[i] \in S
           /\ \A x \in S : \E i \in DOMAIN s : s[i] = x
           /\ \A i, j \in DOMAIN s : s[i] = s[j] => i = j
           /\ \A i, j \in DOMAIN s : i < j => s[i].created > s[j].created
<1> DEFINE newer(d) == {x \in S : x.created > d.created}
<1>1. PICK n : n = Cardinality(S) BY Zenon
<1>2. n \in Nat BY <1>1, FS_CardinalityType
<1>3. ASSUME NEW d \in S
      PROVE  Cardinality(newer(d)) \in Nat /\ Cardinality(newer(d)) < n
  <2>1. newer(d) \in SUBSET S /\ newer(d) # S OBVIOUS
  <2>2. IsFiniteSet(newer(d)) /\ Cardinality(newer(d)) <= n /\ Cardinality(newer(d)) # n
    BY <1>1, <2>1, FS_Subset
  <2> QED BY <1>2, <2>2, FS_CardinalityType
<1>4. ASSUME NEW a \in S, NEW b \in S, a.created > b.created
      PROVE  Cardinality(newer(a)) < Cardinality(newer(b))
  <2>1. newer(a) \in SUBSET newer(b) /\ a \in newer(b) /\ a \notin newer(a) BY <1>4
  <2>2. IsFiniteSet(newer(b))
    <3>1. newer(b) \in SUBSET S OBVIOUS
    <3> QED BY <3>1, FS_Subset
  <2>3. PICK A, B : A = newer(a) /\ B = newer(b) BY Zenon
  <2>4. Cardinality(A) <= Cardinality(B) /\ Cardinality(A) # Cardinality(B)
    BY <2>1, <2>2, <2>3, FS_Subset
  <2> QED BY <1>3, <2>3, <2>4
<1>5. PICK rank : rank = [d \in S |-> Cardinality(newer(d)) + 1] BY Zenon
<1>6. \A d \in S : rank[d] = Cardinality(newer(d)) + 1 BY <1>5
<1>7. rank \in [S -> 1 .. n] BY <1>2, <1>3, <1>5
<1>8. \A a, b \in S : a.created > b.created => rank[a] < rank[b]
  <2> SUFFICES ASSUME NEW a \in S, NEW b \in S, a.created > b.created PROVE rank[a] < rank[b]
    OBVIOUS
  <2>1. PICK p, q : p = Cardinality(newer(a)) /\ q = Cardinality(newer(b)) BY Zenon
  <2>2. p \in Nat /\ q \in Nat /\ p < q BY <1>3, <1>4, <2>1
  <2>3. rank[a] = p + 1 /\ rank[b] = q + 1 BY <1>6, <2>1
  <2> QED BY <2>2, <2>3
<1>9. \A a, b \in S : rank[a] = rank[b] => a = b
  <2> SUFFICES ASSUME NEW a \in S, NEW b \in S, rank[a] = rank[b], a # b PROVE FALSE
    BY Zenon
  <2>1. a.created > b.created \/ b.created > a.created
    <3>1. a.created # b.created BY Zenon
    <3>2. a.created \in Nat /\ b.created \in Nat BY Zenon
    <3> QED BY <3>1, <3>2
  <2>2. rank[a] \in Nat /\ rank[b] \in Nat BY <1>7
  <2> QED BY <1>8, <2>1, <2>2
<1>10. rank \in Injection(S, 1 .. n) BY <1>7, <1>9 DEF Injection, IsInjective
<1>11. IsFiniteSet(1 .. n) /\ Cardinality(1 .. n) = n BY <1>2, FS_Interval
<1>12. rank \in Surjection(S, 1 .. n) BY <1>1, <1>10, <1>11, FS_Injection
<1>13. ASSUME NEW i \in 1 .. n PROVE s[i] \in S /\ rank[s[i]] = i
  <2>1. s[i] = CHOOSE d \in S : Cardinality(newer(d)) = i - 1 BY <1>1 DEF NewestFirst
  <2>2. PICK d \in S : rank[d] = i BY <1>12 DEF Surjection
  <2>3. Cardinality(newer(d)) = i - 1 BY <1>2, <1>3, <1>6, <2>2
  <2>4. s[i] \in S /\ Cardinality(newer(s[i])) = i - 1 BY <2>1, <2>3
  <2> QED BY <1>2, <1>6, <2>4
<1>14. DOMAIN s = 1 .. n BY <1>1 DEF NewestFirst
<1>15. \A x \in S : \E i \in DOMAIN s : s[i] = x BY <1>7, <1>9, <1>13, <1>14
<1>16. \A i, j \in DOMAIN s : s[i] = s[j] => i = j BY <1>13, <1>14
<1>17. ASSUME NEW i \in DOMAIN s, NEW j \in DOMAIN s, i < j
       PROVE  s[i].created > s[j].created
  <2>1. s[i] \in S /\ s[j] \in S /\ rank[s[i]] = i /\ rank[s[j]] = j BY <1>13, <1>14
  <2>2. ~(s[j].created > s[i].created) BY <1>2, <1>8, <1>14, <1>17, <2>1
  <2>3. s[i].created # s[j].created BY <1>2, <1>14, <1>17, <2>1
  <2> QED BY <2>1, <2>2, <2>3
<1> QED BY <1>1, <1>2, <1>13, <1>14, <1>15, <1>16, <1>17

\* The rows of the table.
LEMMA RowFacts ==
    ASSUME AssignmentsInv, ChartsInv, TimesInv
    PROVE  /\ IsFiniteSet(AssignmentRows)
           /\ \A d \in AssignmentRows :
                 /\ d \in Row /\ d # NoRow /\ d.feature \in FeatureNames /\ d.target \in Targets
                 /\ d.created \in Nat /\ d.created > 0 /\ d.created <= clock
                 /\ <<d.feature, d.version>> \in DOMAIN featureData
                 /\ ChartOf(d) \in Charts /\ ChartOf(d) # NoRow
                 /\ Cardinality(DOMAIN d.target) \in Nat
           /\ \A a, b \in AssignmentRows : a.created = b.created => a = b
           /\ \A a, b \in ActiveAssignments : a.feature = b.feature /\ a.target = b.target => a = b
           /\ ActiveAssignments \subseteq AssignmentRows
<1> DEFINE D == featureAssignments
<1>1. D \in Seq(Row) /\ clock \in Nat BY DEF AssignmentsInv, AssignedInv
<1>2. /\ DOMAIN D = 1 .. Len(D) /\ Len(D) \in Nat /\ AssignmentRows = {D[id] : id \in DOMAIN D}
  BY <1>1 DEF AssignmentRows, Range
<1>3. IsFiniteSet(AssignmentRows)
  <2>1. IsFiniteSet(DOMAIN D) BY <1>2, FS_Interval
  <2>2. D \in Surjection(DOMAIN D, AssignmentRows)
    <3>1. D = [id \in DOMAIN D |-> D[id]] BY <1>1
    <3> HIDE DEF D
    <3> QED BY <1>2, <3>1 DEF Surjection
  <2> QED BY <2>1, <2>2, FS_Surjection
<1>4. ASSUME NEW d \in AssignmentRows
      PROVE  /\ d \in Row /\ d # NoRow /\ d.feature \in FeatureNames /\ d.target \in Targets
             /\ d.created \in Nat /\ d.created > 0 /\ d.created <= clock
             /\ <<d.feature, d.version>> \in DOMAIN featureData
             /\ ChartOf(d) \in Charts /\ ChartOf(d) # NoRow
             /\ Cardinality(DOMAIN d.target) \in Nat
  <2>1. PICK id \in DOMAIN D : d = D[id] BY <1>2
  <2>2. d \in Row /\ d # NoRow BY <1>1, <2>1, AssignmentsAssumption
  <2>3. d.feature \in FeatureNames /\ d.target \in Targets /\ d.created \in Nat BY <2>2 DEF Row
  <2>4. d.created \in 1 .. clock BY <2>1 DEF TimesInv
  <2>5. <<d.feature, d.version>> \in DOMAIN featureData BY <2>1 DEF ChartsInv
  <2>6. ChartOf(d) \in Charts BY <2>5 DEF ChartsInv, ChartOf
  <2>7. ChartOf(d) # NoRow BY <2>6, AssignmentsAssumption
  <2>8. Cardinality(DOMAIN d.target) \in Nat
    BY <2>3, AssignmentsAssumption, FS_CardinalityType
  <2>9. d.created > 0 /\ d.created <= clock BY <1>1, <2>4
  <2> QED BY <2>2, <2>3, <2>5, <2>6, <2>7, <2>8, <2>9
<1>5. \A a, b \in AssignmentRows : a.created = b.created => a = b BY <1>2 DEF TimesInv
<1>6. \A a, b \in ActiveAssignments : a.feature = b.feature /\ a.target = b.target => a = b
  BY <1>2 DEF ActiveAssignments, AssignmentsInv, OneActive, Key
<1> QED BY <1>3, <1>4, <1>5, <1>6 DEF ActiveAssignments

\* The two matches agree.
LEMMA SameMatch ==
    ASSUME AssignmentsInv, ChartsInv, TimesInv, TargetsHaveValues, NEW labels,
           NEW d \in AssignmentRows
    PROVE  jsonbContains(labels, d.target) <=> labelsContain(labels, d.target)
<1>1. \A k \in DOMAIN d.target : d.target[k] # EmptyValue BY RowFacts DEF TargetsHaveValues
<1> QED BY <1>1 DEF jsonbContains, labelsContain, LabelAt

\* With one active row per key, DISTINCT ON leaves out none of the active rows.
LEMMA NothingIsHidden ==
    ASSUME AssignmentsInv, ChartsInv, TimesInv, NEW S \in SUBSET ActiveAssignments
    PROVE  DistinctOnTarget(S) = S
<1>1. \A d \in S : d.created \in Nat BY RowFacts
<1>2. \A a, b \in S : a.feature = b.feature /\ a.target = b.target => a = b BY RowFacts
<1> QED BY <1>1, <1>2 DEF DistinctOnTarget

\* Of the rows of a feature one is the most specific.
LEMMA OneWins ==
    ASSUME AssignmentsInv, ChartsInv, TimesInv, NEW S \in SUBSET AssignmentRows,
           NEW a \in mostSpecificPerFeature(S), NEW b \in mostSpecificPerFeature(S),
           a.feature = b.feature
    PROVE  a = b
<1>1. a \in S /\ b \in S /\ ~IsMoreSpecific(a, b) /\ ~IsMoreSpecific(b, a)
  BY DEF mostSpecificPerFeature
<1>2. /\ a.created \in Nat /\ b.created \in Nat
      /\ Cardinality(DOMAIN a.target) \in Nat /\ Cardinality(DOMAIN b.target) \in Nat
  BY <1>1, RowFacts
<1>3. a.created = b.created BY <1>1, <1>2 DEF IsMoreSpecific
<1> QED BY <1>1, <1>3, RowFacts

\* What the pages of a feature list: every active row once, the newest first.
LEMMA FeatureListing ==
    ASSUME AssignmentsInv, ChartsInv, TimesInv, NEW f
    PROVE  LET rows == {d \in ActiveAssignments : d.feature = f}
               s == ListByFeature(f)
           IN  /\ Range(s) = rows /\ latestAssignmentPerTarget(s) = rows
               /\ rows = {} => FeatureByName(f) = NoRow
               /\ rows # {} => \E d \in rows : /\ FeatureByName(f) = ChartOf(d)
                                               /\ \A x \in rows : x.created <= d.created
<1>1. PICK rows : rows = {d \in ActiveAssignments : d.feature = f} BY Zenon
<1>2. PICK s : s = ListByFeature(f) BY Zenon
<1>3. /\ IsFiniteSet(rows) /\ rows \subseteq AssignmentRows /\ \A d \in rows : d.created \in Nat
      /\ \A a, b \in rows : a.created = b.created => a = b
      /\ \A a, b \in rows : a.target = b.target => a = b
  <2>1. rows \in SUBSET AssignmentRows BY <1>1, RowFacts
  <2> QED BY <1>1, <2>1, RowFacts, FS_Subset, ZenonT(60)
<1>4. PICK n \in Nat : n = Cardinality(rows) BY <1>3, FS_CardinalityType
<1>5. s = NewestFirst(rows) BY <1>1, <1>2 DEF ListByFeature
<1>6. /\ DOMAIN s = 1 .. n
      /\ \A i \in DOMAIN s : s[i] \in rows
      /\ \A x \in rows : \E i \in DOMAIN s : s[i] = x
      /\ \A i, j \in DOMAIN s : s[i] = s[j] => i = j
      /\ \A i, j \in DOMAIN s : i < j => s[i].created > s[j].created
  BY <1>3, <1>4, <1>5, OrderedRows
<1>7. Range(s) = rows BY <1>6 DEF Range
<1>8. latestAssignmentPerTarget(s) = rows
  <2>1. \A j \in DOMAIN s : \A i \in 1 .. j - 1 : i \in DOMAIN s /\ i # j BY <1>6
  <2>2. \A j \in DOMAIN s : \A i \in 1 .. j - 1 : s[i].target # s[j].target
    BY <1>3, <1>6, <2>1
  <2>3. latestAssignmentPerTarget(s) = {s[i] : i \in DOMAIN s}
    BY <2>2 DEF latestAssignmentPerTarget
  <2> QED BY <1>7, <2>3 DEF Range
<1>9. CASE rows = {}
  <2>1. n = 0 BY <1>4, <1>9, FS_EmptySet
  <2>2. s = <<>>
    <3>1. s = [i \in 1 .. Cardinality(rows) |->
                 CHOOSE d \in rows : Cardinality({x \in rows : x.created > d.created}) = i - 1]
      BY <1>5 DEF NewestFirst
    <3>2. 1 .. Cardinality(rows) = {} BY <1>4, <2>1
    <3> HIDE DEF NewestFirst
    <3> QED BY <3>1, <3>2
  <2>3. FeatureByName(f) = NoRow BY <1>2, <2>2 DEF FeatureByName
  <2> QED BY <1>1, <1>2, <1>7, <1>8, <1>9, <2>3
<1>10. CASE rows # {}
  <2>1. PICK x \in rows : TRUE BY <1>10
  <2>2. PICK i \in DOMAIN s : s[i] = x BY <1>6, <2>1
  <2>3. 1 \in DOMAIN s /\ s # <<>> BY <1>6, <2>2
  <2>4. FeatureByName(f) = ChartOf(s[1]) BY <1>2, <2>3 DEF FeatureByName
  <2>5. ASSUME NEW y \in rows PROVE y.created <= s[1].created
    <3>1. PICK j \in DOMAIN s : s[j] = y BY <1>6
    <3>2. j \in Nat /\ (j = 1 \/ 1 < j) BY <1>6, <3>1
    <3>3. y.created \in Nat /\ s[1].created \in Nat BY <1>3, <1>6, <2>3
    <3> QED BY <1>6, <2>3, <3>1, <3>2, <3>3
  <2>6. s[1] \in rows BY <1>6, <2>3
  <2> QED BY <1>1, <1>2, <1>7, <1>8, <1>10, <2>4, <2>5, <2>6
<1> QED BY <1>9, <1>10

\* The assignments of a feature that match an environment.
Candidates(e, f) ==
    {d \in ActiveAssignments : d.feature = f /\ labelsContain(environments[e].labels, d.target)}

\* Both rules choose among them.
LEMMA BothChoose ==
    ASSUME AssignmentsInv, ChartsInv, TimesInv, TargetsHaveValues, NEW e, NEW f
    PROVE  /\ WinningAssignment(e, f) = winnerOf(Candidates(e, f))
           /\ winningAssignment(latestAssignmentPerTarget(ListByFeature(f)), e)
                = winnerOf(Candidates(e, f))
<1>1. ListFeatureAssignmentsForFeatureInEnvironment(e, f) = Candidates(e, f)
  <2>1. {d \in ActiveAssignments : d.feature = f /\ jsonbContains(environments[e].labels, d.target)}
          = Candidates(e, f)
    BY SameMatch DEF Candidates, ActiveAssignments
  <2>2. Candidates(e, f) \in SUBSET ActiveAssignments BY DEF Candidates
  <2> QED BY <2>1, <2>2, NothingIsHidden DEF ListFeatureAssignmentsForFeatureInEnvironment
<1>2. {fa \in latestAssignmentPerTarget(ListByFeature(f)) :
         targetMatchesLabels(fa.target, environments[e].labels)} = Candidates(e, f)
  <2>1. latestAssignmentPerTarget(ListByFeature(f)) = {d \in ActiveAssignments : d.feature = f}
    BY FeatureListing
  <2> QED BY <2>1 DEF targetMatchesLabels, labelsContain, Candidates
<1> QED BY <1>1, <1>2 DEF WinningAssignment, mostSpecificAssignment, winningAssignment

\* Who wins, or that nobody does.
LEMMA Winner ==
    ASSUME AssignmentsInv, ChartsInv, TimesInv, NEW e, NEW f
    PROVE  /\ \A d \in mostSpecificPerFeature(Candidates(e, f)) : winnerOf(Candidates(e, f)) = d
           /\ winnerOf(Candidates(e, f)) # NoRow =>
                 winnerOf(Candidates(e, f)) \in mostSpecificPerFeature(Candidates(e, f))
<1>1. PICK S : S = mostSpecificPerFeature(Candidates(e, f)) BY Zenon
<1>2. Candidates(e, f) \in SUBSET AssignmentRows BY DEF Candidates, ActiveAssignments
<1>3. \A d \in S : d.feature = f BY <1>1 DEF mostSpecificPerFeature, Candidates
<1>4. \A a, b \in S : a = b BY <1>1, <1>2, <1>3, OneWins
<1>5. winnerOf(Candidates(e, f)) = One(S) BY <1>1 DEF winnerOf
<1>6. \A d \in S : One(S) = d BY <1>4 DEF One
<1>7. One(S) # NoRow => One(S) \in S BY DEF One
<1> QED BY <1>1, <1>5, <1>6, <1>7

\* The winners of an environment, feature by feature.
LEMMA ListedWinners ==
    ASSUME AssignmentsInv, ChartsInv, TimesInv, TargetsHaveValues, NEW e
    PROVE  \A d : d \in ListForEnvironment(e)
                    <=> d \in mostSpecificPerFeature(Candidates(e, d.feature))
<1>1. PICK S : S = {d \in ActiveAssignments : labelsContain(environments[e].labels, d.target)}
  BY Zenon
<1>2. ListFeatureAssignmentsForEnvironment(e) = S
  <2>1. {d \in ActiveAssignments : jsonbContains(environments[e].labels, d.target)} = S
    BY <1>1, SameMatch DEF ActiveAssignments
  <2>2. S \in SUBSET ActiveAssignments BY <1>1
  <2> QED BY <2>1, <2>2, NothingIsHidden DEF ListFeatureAssignmentsForEnvironment
<1>3. \A d : d \in mostSpecificPerFeature(S)
               <=> d \in mostSpecificPerFeature(Candidates(e, d.feature))
  BY <1>1 DEF mostSpecificPerFeature, Candidates
<1> QED BY <1>2, <1>3 DEF ListForEnvironment

\* The row of the loop for an assignment.
LoopRow(d) == [id |-> d.id, feature |-> d.feature, version |-> d.version, target |-> d.target,
               created |-> d.created, chart |-> ChartOf(d)]

LEMMA LoopWinners ==
    ASSUME AssignmentsInv, ChartsInv, TimesInv, NEW e,
           NEW winners, winners = mostSpecificPerFeature(
                           matchAssignments(ListLatestFeatureAssignments, environments[e].labels))
    PROVE  /\ \A d \in winners : \E x \in mostSpecificPerFeature(Candidates(e, d.feature)) :
                 x.id = d.id /\ x.feature = d.feature
           /\ \A f : \A x \in mostSpecificPerFeature(Candidates(e, f)) :
                 \E d \in winners : d.id = x.id /\ d.feature = x.feature
<1>1. ListLatestFeatureAssignments = {LoopRow(d) : d \in ActiveAssignments}
  <2>1. DistinctOnTarget(ActiveAssignments) = ActiveAssignments BY NothingIsHidden
  <2> QED BY <2>1 DEF ListLatestFeatureAssignments, LoopRow
<1>2. \A d : /\ LoopRow(d).id = d.id /\ LoopRow(d).feature = d.feature
             /\ LoopRow(d).target = d.target /\ LoopRow(d).created = d.created
  BY DEF LoopRow
<1>3. PICK L : L = matchAssignments(ListLatestFeatureAssignments, environments[e].labels)
  BY Zenon
<1>4. \A d : d \in L <=> \E x \in ActiveAssignments :
                d = LoopRow(x) /\ labelsContain(environments[e].labels, x.target)
  BY <1>1, <1>2, <1>3 DEF matchAssignments
<1>5. \A a, b : IsMoreSpecific(LoopRow(a), LoopRow(b)) <=> IsMoreSpecific(a, b)
  BY <1>2 DEF IsMoreSpecific
<1>6. ASSUME NEW d \in winners
      PROVE  \E x \in mostSpecificPerFeature(Candidates(e, d.feature)) :
                x.id = d.id /\ x.feature = d.feature
  <2>1. /\ d \in L
        /\ \A c \in L : c.feature = d.feature => ~IsMoreSpecific(c, d)
    BY <1>3 DEF mostSpecificPerFeature
  <2>2. PICK x \in ActiveAssignments :
              d = LoopRow(x) /\ labelsContain(environments[e].labels, x.target)
    BY <1>4, <2>1
  <2>3. x \in Candidates(e, d.feature) BY <1>2, <2>2 DEF Candidates
  <2>4. \A c \in Candidates(e, d.feature) : ~IsMoreSpecific(c, x)
    <3> SUFFICES ASSUME NEW c \in Candidates(e, d.feature) PROVE ~IsMoreSpecific(c, x) OBVIOUS
    <3>1. LoopRow(c) \in L /\ LoopRow(c).feature = d.feature BY <1>2, <1>4 DEF Candidates
    <3> QED BY <1>5, <2>1, <2>2, <3>1
  <2>5. x \in mostSpecificPerFeature(Candidates(e, d.feature))
    BY <2>3, <2>4 DEF mostSpecificPerFeature
  <2> QED BY <1>2, <2>2, <2>5
<1>7. ASSUME NEW f, NEW x \in mostSpecificPerFeature(Candidates(e, f))
      PROVE  LoopRow(x) \in winners
  <2>1. /\ x \in Candidates(e, f)
        /\ \A c \in Candidates(e, f) : c.feature = x.feature => ~IsMoreSpecific(c, x)
    BY DEF mostSpecificPerFeature
  <2>2. x.feature = f /\ LoopRow(x) \in L BY <1>4, <2>1 DEF Candidates
  <2>3. ASSUME NEW c \in L, c.feature = f PROVE ~IsMoreSpecific(c, LoopRow(x))
    <3>1. PICK y \in ActiveAssignments :
                c = LoopRow(y) /\ labelsContain(environments[e].labels, y.target)
      BY <1>4
    <3>2. y \in Candidates(e, f) /\ y.feature = f BY <1>2, <2>3, <3>1 DEF Candidates
    <3> QED BY <1>5, <2>1, <2>2, <3>1, <3>2
  <2> QED BY <1>2, <1>3, <2>2, <2>3 DEF mostSpecificPerFeature
<1> QED BY <1>2, <1>6, <1>7

\* A bounded set of times has a latest one.
LEMMA LatestTime ==
    ASSUME NEW S \in SUBSET Nat, S # {}, NEW n \in Nat, \A y \in S : y <= n
    PROVE  Max(S) \in S /\ \A y \in S : Max(S) >= y
<1> DEFINE R == {p \in Nat \X Nat : p[1] < p[2]}
           B == {m \in Nat : \A y \in S : y <= m}
<1>1. IsWellFoundedOn(R, Nat) BY NatLessThanWellFounded DEF OpToRel
<1>2. PICK m \in B : \A k \in B : m <= k
  <2>1. B \in SUBSET Nat /\ n \in B OBVIOUS
  <2> HIDE DEF R, B
  <2>2. \E x \in B : \A y \in B : <<y, x>> \notin R BY <1>1, <2>1, WFMin
  <2>3. \A x, y \in B : <<y, x>> \notin R => x <= y BY <2>1 DEF R
  <2> QED BY <2>2, <2>3
<1>3. m \in S
  <2> SUFFICES ASSUME m \notin S PROVE FALSE OBVIOUS
  <2>1. \A y \in S : y < m OBVIOUS
  <2>2. m > 0
    <3>1. PICK y \in S : TRUE OBVIOUS
    <3>2. y \in Nat /\ y < m /\ m \in Nat BY <2>1, <3>1
    <3> QED BY <3>2
  <2>3. m - 1 \in B BY <2>1, <2>2
  <2> QED BY <1>2, <2>3
<1>4. \A y \in S : m >= y OBVIOUS
<1> HIDE DEF B
<1> QED BY <1>3, <1>4 DEF Max

\* The environments of a target: the preview, the labels page and the loop.
LEMMA TargetPagesAgree ==
    ASSUME NEW d
    PROVE  LET matched == {e \in ListTenantEnvironments(FALSE) :
                             matchAssignments({d}, environments[e].labels) # {}}
           IN  PreviewTargets(d.target) = matched /\ LabelsPage(d.target) = matched
<1>1. \A labels : matchAssignments({d}, labels) # {} <=> labelsContain(labels, d.target)
  BY DEF matchAssignments
<1> QED BY <1>1 DEF PreviewTargets, LabelsPage, matchesLabels, matchesFilters, labelsContain

\* The list of features.
LEMMA FeatureListAgrees ==
    ASSUME AssignmentsInv, ChartsInv, TimesInv
    PROVE  ListActiveFeatures = {FeatureByName(f) : f \in FeatureNames} \ {NoRow}
<1> DEFINE Newest == {x \in ActiveAssignments :
                        \A y \in ActiveAssignments : y.feature = x.feature => y.created <= x.created}
<1>1. ListActiveFeatures = {ChartOf(d) : d \in Newest} BY DEF ListActiveFeatures
<1>2. ASSUME NEW d \in Newest
      PROVE  d.feature \in FeatureNames /\ FeatureByName(d.feature) = ChartOf(d) /\ ChartOf(d) # NoRow
  <2>1. PICK rows : rows = {x \in ActiveAssignments : x.feature = d.feature} BY Zenon
  <2>2. d \in rows /\ \A x \in rows : x.created <= d.created BY <2>1
  <2>3. PICK x \in rows : FeatureByName(d.feature) = ChartOf(x) /\ \A y \in rows : y.created <= x.created
    BY <2>1, <2>2, FeatureListing
  <2>4. x \in AssignmentRows /\ d \in AssignmentRows BY <2>1, <2>2, RowFacts
  <2>5. d.created \in Nat /\ x.created \in Nat BY <2>4, RowFacts
  <2>6. d.created = x.created BY <2>2, <2>3, <2>5
  <2>7. d = x BY <2>4, <2>6, RowFacts
  <2> QED BY <2>3, <2>4, <2>7, RowFacts
<1>3. ASSUME NEW f \in FeatureNames, FeatureByName(f) # NoRow
      PROVE  \E d \in Newest : ChartOf(d) = FeatureByName(f)
  <2>1. PICK rows : rows = {x \in ActiveAssignments : x.feature = f} BY Zenon
  <2>2. rows # {} BY <1>3, <2>1, FeatureListing
  <2>3. PICK d \in rows : FeatureByName(f) = ChartOf(d) /\ \A y \in rows : y.created <= d.created
    BY <2>1, <2>2, FeatureListing
  <2> QED BY <2>1, <2>3
<1> HIDE DEF Newest
<1> QED BY <1>1, <1>2, <1>3

\* The versions page of a feature.
LEMMA VersionsPageAgrees ==
    ASSUME AssignmentsInv, ChartsInv, TimesInv, TargetsHaveValues, NEW f
    PROVE  LET envs == envsByVersion(LoadEnvironments(f))
               versions == FeatureVersions(f)
           IN  \A v \in DOMAIN envs :
                  /\ v \in DOMAIN versions /\ versions[v] > 0
                  /\ envs[v] = {e \in DOMAIN environments :
                                  WinningAssignment(e, f) # NoRow
                                  /\ WinningAssignment(e, f).version = v}
<1>1. PICK rows : rows = LoadEnvironments(f) BY Zenon
<1>2. \A e : winningAssignment(latestAssignmentPerTarget(ListByFeature(f)), e)
               = WinningAssignment(e, f)
  BY BothChoose, Zenon
<1>3. /\ \A r \in rows : /\ r.env \in DOMAIN environments /\ WinningAssignment(r.env, f) # NoRow
                         /\ r.version = WinningAssignment(r.env, f).version
      /\ \A e \in DOMAIN environments : WinningAssignment(e, f) # NoRow =>
            \E r \in rows : r.env = e /\ r.version = WinningAssignment(e, f).version
  <2> DEFINE statuses == AllReconcileStatuses
             disabled == ListDisabledEnvironmentsForFeature(f)
             Shown(e, fa) == [env |-> e, fa |-> fa.id, version |-> fa.version,
                              enabled |-> e \notin disabled,
                              status |-> IF ~environments[e].reconcile \/ e \in disabled
                                         THEN "disabled"
                                         ELSE NormalizeStatus(StatusOf(statuses, fa, e))]
             won(e) == winningAssignment(latestAssignmentPerTarget(ListByFeature(f)), e)
  <2>1. rows = {Shown(e, won(e)) : e \in {x \in ListTenantEnvironments(FALSE) : won(x) # NoRow}}
    BY <1>1, Zenon DEF LoadEnvironments
  <2>2. \A e, fa : Shown(e, fa).env = e /\ Shown(e, fa).version = fa.version OBVIOUS
  <2>3. ListTenantEnvironments(FALSE) = DOMAIN environments BY DEF ListTenantEnvironments
  <2>4. \A e : won(e) = WinningAssignment(e, f) BY <1>2
  <2> HIDE DEF Shown, won, statuses, disabled
  <2>5. ASSUME NEW r \in rows
        PROVE  /\ r.env \in DOMAIN environments /\ WinningAssignment(r.env, f) # NoRow
               /\ r.version = WinningAssignment(r.env, f).version
    <3>1. PICK e \in DOMAIN environments : won(e) # NoRow /\ r = Shown(e, won(e)) BY <2>1, <2>3
    <3>2. r.env = e /\ r.version = won(e).version BY <2>2, <3>1
    <3> QED BY <2>4, <3>1, <3>2
  <2>6. ASSUME NEW e \in DOMAIN environments, WinningAssignment(e, f) # NoRow
        PROVE  \E r \in rows : r.env = e /\ r.version = WinningAssignment(e, f).version
    <3>1. Shown(e, won(e)) \in rows BY <2>1, <2>3, <2>4, <2>6
    <3> QED BY <2>2, <2>4, <3>1
  <2> QED BY <2>5, <2>6
<1>4. ASSUME NEW v \in DOMAIN envsByVersion(rows)
      PROVE  /\ v \in DOMAIN FeatureVersions(f) /\ FeatureVersions(f)[v] > 0
             /\ envsByVersion(rows)[v] = {e \in DOMAIN environments :
                                            WinningAssignment(e, f) # NoRow
                                            /\ WinningAssignment(e, f).version = v}
  <2>1. PICK r \in rows : r.version = v BY DEF envsByVersion
  <2>2. envsByVersion(rows)[v] = {x.env : x \in {y \in rows : y.version = v}}
    BY <2>1 DEF envsByVersion
  <2>3. PICK d : d = WinningAssignment(r.env, f) BY Zenon
  <2>4. d # NoRow /\ d.version = v BY <1>3, <2>1, <2>3
  <2>5. d \in mostSpecificPerFeature(Candidates(r.env, f))
    <3>1. d = winnerOf(Candidates(r.env, f)) BY <2>3, BothChoose, Zenon
    <3> QED BY <2>4, <3>1, Winner
  <2>6. d \in AssignmentRows /\ d.feature = f
    BY <2>5 DEF mostSpecificPerFeature, Candidates, ActiveAssignments
  <2>7. /\ <<f, v>> \in DOMAIN featureData /\ d.created \in Nat /\ d.created > 0
        /\ \A x \in AssignmentRows : x.created \in Nat /\ x.created <= clock
    BY <2>4, <2>6, RowFacts
  <2>8. PICK T : T = {0} \cup {x.created : x \in {y \in AssignmentRows :
                                                    y.feature = f /\ y.version = v}}
    BY Zenon
  <2>9. clock \in Nat BY DEF AssignmentsInv, AssignedInv
  <2>10. T \in SUBSET Nat /\ d.created \in T /\ \A y \in T : y <= clock
    BY <2>4, <2>6, <2>7, <2>8, <2>9
  <2>11. Max(T) \in Nat /\ Max(T) >= d.created BY <2>9, <2>10, LatestTime
  <2>12. v \in DOMAIN FeatureVersions(f) /\ FeatureVersions(f)[v] = Max(T)
    <3>1. v \in {k[2] : k \in {x \in DOMAIN featureData : x[1] = f}} BY <2>7
    <3> QED BY <2>8, <3>1 DEF FeatureVersions
  <2>13. Max(T) > 0 BY <2>7, <2>11
  <2> QED BY <1>3, <2>2, <2>12, <2>13
<1> QED BY <1>1, <1>4

\* The pages of an environment.
LEMMA EnvironmentPagesAgree ==
    ASSUME AssignmentsInv, ChartsInv, TimesInv, TargetsHaveValues, NEW e,
           NEW winners, winners = mostSpecificPerFeature(
                           matchAssignments(ListLatestFeatureAssignments, environments[e].labels))
    PROVE  /\ {d.id : d \in winners} = {d.id : d \in ListForEnvironment(e)}
           /\ \A d \in winners :
                 /\ WinningAssignment(e, d.feature).id = d.id
                 /\ winningAssignment(latestAssignmentPerTarget(ListByFeature(d.feature)), e).id = d.id
                 /\ d.id \in {a.id : a \in loadEnvironmentAssignments(e, d.feature)}
           /\ \A f \in FeatureNames : buildReleaseRows(e, FeatureNames)[f]
                                         <=> ~\E d \in winners : d.feature = f
<1>1. /\ \A d \in winners : \E x \in mostSpecificPerFeature(Candidates(e, d.feature)) :
            x.id = d.id /\ x.feature = d.feature
      /\ \A f : \A x \in mostSpecificPerFeature(Candidates(e, f)) :
            \E d \in winners : d.id = x.id /\ d.feature = x.feature
  BY LoopWinners
<1>2. \A d : d \in ListForEnvironment(e) <=> d \in mostSpecificPerFeature(Candidates(e, d.feature))
  BY ListedWinners, Zenon
<1>3. \A f : \A x \in mostSpecificPerFeature(Candidates(e, f)) : x.feature = f
  BY DEF mostSpecificPerFeature, Candidates
<1>4. {d.id : d \in winners} = {d.id : d \in ListForEnvironment(e)} BY <1>1, <1>2, <1>3
<1>5. \A f \in FeatureNames : buildReleaseRows(e, FeatureNames)[f]
                                 <=> ~\E d \in winners : d.feature = f
  <2> SUFFICES ASSUME NEW f \in FeatureNames
               PROVE  buildReleaseRows(e, FeatureNames)[f] <=> ~\E d \in winners : d.feature = f
    BY Zenon
  <2>1. buildReleaseRows(e, FeatureNames)[f] = (~\E d \in ListForEnvironment(e) : d.feature = f)
    BY Zenon DEF buildReleaseRows
  <2>2. (\E d \in ListForEnvironment(e) : d.feature = f) <=> (\E d \in winners : d.feature = f)
    BY <1>1, <1>2, <1>3
  <2> QED BY <2>1, <2>2, Zenon
<1>6. ASSUME NEW d \in winners
      PROVE  /\ WinningAssignment(e, d.feature).id = d.id
             /\ winningAssignment(latestAssignmentPerTarget(ListByFeature(d.feature)), e).id = d.id
             /\ d.id \in {a.id : a \in loadEnvironmentAssignments(e, d.feature)}
  <2>1. PICK f : f = d.feature BY Zenon
  <2>2. PICK x \in mostSpecificPerFeature(Candidates(e, f)) : x.id = d.id BY <1>1, <2>1
  <2>3. winnerOf(Candidates(e, f)) = x BY <2>2, Winner
  <2>4. /\ WinningAssignment(e, f) = x
        /\ winningAssignment(latestAssignmentPerTarget(ListByFeature(f)), e) = x
    <3>1. /\ WinningAssignment(e, f) = winnerOf(Candidates(e, f))
          /\ winningAssignment(latestAssignmentPerTarget(ListByFeature(f)), e)
               = winnerOf(Candidates(e, f))
      BY BothChoose, Zenon
    <3> QED BY <2>3, <3>1
  <2>5. x \in loadEnvironmentAssignments(e, f)
    <3>1. PICK M : M = {y \in Range(ListByFeature(f)) : labelsMatch(environments[e].labels, y.target)}
      BY Zenon
    <3>2. M = Candidates(e, f)
      <4>1. Range(ListByFeature(f)) = {y \in ActiveAssignments : y.feature = f} BY FeatureListing
      <4> QED BY <3>1, <4>1 DEF labelsMatch, labelsContain, Candidates
    <3>3. /\ x \in M
          /\ \A c \in M : c.feature = x.feature => ~IsMoreSpecific(c, x)
      BY <2>2, <3>2 DEF mostSpecificPerFeature
    <3>4. \A c \in M : c.feature = x.feature /\ Cardinality(DOMAIN c.target) \in Nat
      <4>1. \A c \in M : c \in AssignmentRows /\ c.feature = f
        BY <3>2 DEF Candidates, ActiveAssignments
      <4> QED BY <3>3, <4>1, RowFacts
    <3>5. PICK size : size = [c \in M |-> Cardinality(DOMAIN c.target)] BY Zenon
    <3>6. \A c \in M : size[c] \in Nat /\ size[c] <= size[x]
      BY <3>3, <3>4, <3>5 DEF IsMoreSpecific
    <3>7. PICK T : T = {0} \cup {Cardinality(DOMAIN c.target) : c \in M} BY Zenon
    <3>8. T \in SUBSET Nat /\ size[x] \in T /\ \A t \in T : t <= size[x]
      <4>1. T = {0} \cup {size[c] : c \in M} BY <3>5, <3>7
      <4> QED BY <3>3, <3>6, <4>1
    <3>9. Max(T) = size[x]
      <4>1. PICK n \in Nat : n = size[x] BY <3>3, <3>6
      <4>2. Max(T) \in T /\ Max(T) >= n BY <3>8, <4>1, LatestTime
      <4>3. PICK m : m = Max(T) BY Zenon
      <4>4. m \in Nat /\ m >= n /\ m <= n BY <3>8, <4>1, <4>2, <4>3
      <4>5. m = n BY <4>4
      <4> QED BY <4>1, <4>3, <4>5
    <3> QED BY <3>1, <3>3, <3>5, <3>7, <3>9 DEF loadEnvironmentAssignments
  <2> QED BY <2>1, <2>2, <2>4, <2>5
<1> QED BY <1>4, <1>5, <1>6

\* Nothing that is active is shown as superseded.
LEMMA NothingSuperseded ==
    ASSUME AssignmentsInv, ChartsInv, TimesInv, NEW d \in ActiveAssignments
    PROVE  SupersededBy(d) = {}
<1> SUFFICES ASSUME NEW o \in SupersededBy(d) PROVE FALSE OBVIOUS
<1>1. /\ o \in ActiveAssignments /\ o.feature = d.feature /\ o.target = d.target
      /\ o.created > d.created
  BY DEF SupersededBy, ActiveAssignments
<1>2. o = d BY <1>1, RowFacts
<1>3. d.created \in Nat BY RowFacts
<1> QED BY <1>1, <1>2, <1>3

\* However the statements of creates and deactivations interleave, a feature
\* has at most one active assignment for a target.
THEOREM AtMostOneActive == Spec => []OneActive
<1>1. AssignmentsInv => OneActive BY DEF AssignmentsInv
<1> QED BY <1>1, AssignmentsInvariant, PTL

\* Whatever fails or crashes in between, no assignment is lost without a later
\* one in its place or an audit row that names it.
THEOREM NoSilentLoss == Spec => []EveryLossIsExplained
<1>1. AssignmentsInv => EveryLossIsExplained BY DEF AssignmentsInv
<1> QED BY <1>1, AssignmentsInvariant, PTL

\* However creates and deactivations interleave, fail and crash, the reconcile
\* loop, the pages and the REST API name the same winning assignment for every
\* environment, for any labels and any targets without empty label values.
THEOREM EveryCopyNamesTheWinner == TargetsHaveValues => (Spec => []WinnersAgree)
<1> SUFFICES ASSUME TargetsHaveValues PROVE Spec => []WinnersAgree OBVIOUS
<1>1. AssignmentsInv /\ ChartsInv /\ TimesInv => WinnersAgree
  <2> SUFFICES ASSUME AssignmentsInv, ChartsInv, TimesInv PROVE WinnersAgree OBVIOUS
  <2>1. ListActiveFeatures = {FeatureByName(f) : f \in FeatureNames} \ {NoRow}
    BY FeatureListAgrees, Zenon
  <2>2. \A d \in ActiveAssignments : SupersededBy(d) = {} BY NothingSuperseded, Zenon
  <2> DEFINE loop == ListLatestFeatureAssignments
             won(e) == mostSpecificPerFeature(matchAssignments(loop, environments[e].labels))
             found(d) == {e \in ListTenantEnvironments(FALSE) :
                            matchAssignments({d}, environments[e].labels) # {}}
  <2>3. \A d \in loop : PreviewTargets(d.target) = found(d) /\ LabelsPage(d.target) = found(d)
    BY TargetPagesAgree, Zenon
  <2>4. \A e : /\ {d.id : d \in won(e)} = {d.id : d \in ListForEnvironment(e)}
               /\ \A d \in won(e) :
                     /\ WinningAssignment(e, d.feature).id = d.id
                     /\ winningAssignment(latestAssignmentPerTarget(ListByFeature(d.feature)), e).id
                          = d.id
                     /\ d.id \in {a.id : a \in loadEnvironmentAssignments(e, d.feature)}
               /\ \A f \in FeatureNames : buildReleaseRows(e, FeatureNames)[f]
                                             <=> ~\E d \in won(e) : d.feature = f
    BY EnvironmentPagesAgree, Zenon
  <2> QED BY <2>1, <2>2, <2>3, <2>4, VersionsPageAgrees, Zenon DEF WinnersAgree
<1> QED BY <1>1, TimesInvariant, PTL

=============================================================================
