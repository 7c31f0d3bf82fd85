----------------------------- MODULE AgentProofs -----------------------------
(***************************************************************************)
(* The handlers of naisd for any finite set of instructions, any log lines *)
(* and any number and kinds of faults.                                     *)
(***************************************************************************)
EXTENDS DeployLogs, FiniteSetTheorems, TLAPS

LogsInv == \A i \in Instructions : LogInv(i)

\* Counting deployments: there are finitely many.
LEMMA DeployingFinite == IsFiniteSet(Deploying)
<1>1. Deploying \in SUBSET Instructions BY DEF Deploying
<1> QED BY <1>1, FS_Subset, AgentAssumption

\* Steps that neither begin nor end a deployment.
LEMMA SameCount ==
    ASSUME InProgressIsExact, Deploying' = Deploying, inProgress' = inProgress
    PROVE  InProgressIsExact'
  BY DEF InProgressIsExact

\* Inc, for a deployment that was not counted.
LEMMA CountUp ==
    ASSUME InProgressIsExact, NEW i \in Instructions, i \notin Deploying,
           Deploying' = Deploying \cup {i}, inProgress' = inProgress + 1
    PROVE  InProgressIsExact'
<1>1. Cardinality(Deploying \cup {i}) = Cardinality(Deploying) + 1
  BY DeployingFinite, FS_AddElement
<1> QED BY <1>1 DEF InProgressIsExact

\* Dec, for a deployment that was counted.
LEMMA CountDown ==
    ASSUME InProgressIsExact, NEW i \in Instructions, i \in Deploying,
           Deploying' = Deploying \ {i}, inProgress' = Dec(inProgress)
    PROVE  InProgressIsExact'
<1>1. Cardinality(Deploying \ {i}) = Cardinality(Deploying) - 1
  BY DeployingFinite, FS_RemoveElement
<1>2. Cardinality(Deploying) \in Nat BY DeployingFinite, FS_CardinalityType
<1>3. Cardinality(Deploying) # 0 BY DeployingFinite, FS_EmptySet
<1> QED BY <1>1, <1>2, <1>3 DEF InProgressIsExact, Dec

\* A step of one handler leaves the logs of the others alone.
LEMMA OneLog ==
    ASSUME LogsInv, NEW i \in Instructions, LogInv(i)',
           \A j \in Instructions \ {i} : handler'[j] = handler[j] /\ log'[j] = log[j]
    PROVE  LogsInv'
<1> SUFFICES ASSUME NEW j \in Instructions PROVE LogInv(j)' BY DEF LogsInv
<1>1. CASE j = i BY <1>1
<1>2. CASE j # i BY <1>2 DEF LogsInv, LogInv, Written
<1> QED BY <1>1, <1>2

\* Nothing is counted and nothing is written.
LEMMA InitHolds == Init => AgentInv
<1> SUFFICES ASSUME Init PROVE AgentInv OBVIOUS
<1>1. NewLog \in Logger /\ NoJob \in Job BY DEF NewLog, NoJob, Logger, Job
<1>2. TypeOK BY <1>1, AgentAssumption DEF Init, TypeOK, Handler
<1>3. InProgressIsExact
  <2>1. Deploying = {} BY DEF Init, Deploying
  <2> QED BY <2>1, FS_EmptySet DEF Init, InProgressIsExact
<1>4. \A i \in Instructions : LogInv(i) BY DEF Init, NewLog, LogInv, OnePlace, Messages
<1> QED BY <1>2, <1>3, <1>4 DEF AgentInv

-----------------------------------------------------------------------------
\* A step that moves one handler and leaves its log alone.
LEMMA HandlerMoves ==
    ASSUME AgentInv, NEW i \in Instructions, NEW h \in Handler, h \notin {"helmed", "done"},
           handler' = [handler EXCEPT ![i] = h], UNCHANGED log
    PROVE  LogsInv'
<1>1. handler'[i] = h BY DEF AgentInv, TypeOK
<1>2. LogInv(i) BY DEF AgentInv
<1>3. LogInv(i)' BY <1>1, <1>2 DEF LogInv
<1> QED BY <1>3, OneLog DEF AgentInv, TypeOK, LogsInv

\* DeployManager.handler up to helm, and its error paths.
LEMMA HandlerKeeps ==
    ASSUME AgentInv, NEW i \in Instructions,
           \/ Receive(i) \/ Begin(i) \/ PrepareFails(i) \/ RunHelm(i)
           \/ Postpone(i) \/ CreateJob(i) \/ CreateSecret(i)
    PROVE  AgentInv'
<1> USE DEF AgentInv
<1>1. CASE Receive(i)
  <2>1. PICK h \in {"refused", "accepted"} : handler' = [handler EXCEPT ![i] = h]
    BY <1>1 DEF Receive
  <2>2. TypeOK' BY <1>1, <2>1 DEF Receive, TypeOK, Handler, Settled, podVars, logVars
  <2>3. Deploying' = Deploying BY <1>1, <2>1 DEF Receive, TypeOK, Deploying
  <2>4. InProgressIsExact' BY <1>1, <2>3, SameCount DEF Receive
  <2>5. LogsInv' BY <1>1, <2>1, HandlerMoves DEF Receive, Handler, Settled, logVars
  <2> QED BY <2>2, <2>4, <2>5 DEF LogsInv
<1>2. CASE Begin(i)
  <2>1. TypeOK' BY <1>2 DEF Begin, TypeOK, Handler, podVars, logVars
  <2>2. InProgressIsExact'
    <3>1. CASE Kind[i] = "upgrade"
      <4>1. i \notin Deploying BY <1>2 DEF Begin, Deploying
      <4>2. Deploying' = Deploying \cup {i} BY <1>2, <3>1 DEF Begin, TypeOK, Deploying
      <4> QED BY <1>2, <3>1, <4>1, <4>2, CountUp DEF Begin
    <3>2. CASE Kind[i] # "upgrade"
      <4>1. Deploying' = Deploying BY <1>2, <3>2 DEF Begin, TypeOK, Deploying
      <4> QED BY <1>2, <3>2, <4>1, SameCount DEF Begin
    <3> QED BY <3>1, <3>2
  <2>3. LogsInv' BY <1>2, HandlerMoves DEF Begin, Handler, logVars
  <2> QED BY <2>1, <2>2, <2>3 DEF LogsInv
<1>3. CASE PrepareFails(i)
  <2>1. TypeOK' BY <1>3 DEF PrepareFails, Spend, Dec, TypeOK, Handler, Settled, podVars, logVars
  <2>2. i \in Deploying /\ Deploying' = Deploying \ {i}
    BY <1>3 DEF PrepareFails, TypeOK, Deploying
  <2>3. InProgressIsExact' BY <1>3, <2>2, CountDown DEF PrepareFails
  <2>4. LogsInv' BY <1>3, HandlerMoves DEF PrepareFails, Handler, Settled, logVars
  <2> QED BY <2>1, <2>3, <2>4 DEF LogsInv
<1>4. CASE RunHelm(i)
  <2>1. TypeOK' BY <1>4 DEF RunHelm, TypeOK, Handler, podVars, logVars
  <2>2. Deploying' = Deploying BY <1>4 DEF RunHelm, TypeOK, Deploying
  <2>3. InProgressIsExact' BY <1>4, <2>2, SameCount DEF RunHelm
  <2>4. LogInv(i)' BY <1>4 DEF RunHelm, TypeOK, LogInv, Written, logVars
  <2>5. LogsInv' BY <1>4, <2>4, OneLog DEF RunHelm, TypeOK, LogsInv, logVars
  <2> QED BY <2>1, <2>3, <2>5 DEF LogsInv
<1>5. CASE Postpone(i)
  <2>1. TypeOK' BY <1>5 DEF Postpone, TypeOK, Handler, Settled, podVars, logVars
  <2>2. Deploying' = Deploying BY <1>5 DEF Postpone, TypeOK, Deploying
  <2>3. InProgressIsExact' BY <1>5, <2>2, SameCount DEF Postpone
  <2>4. LogsInv' BY <1>5, HandlerMoves DEF Postpone, Handler, Settled, logVars
  <2> QED BY <2>1, <2>3, <2>4 DEF LogsInv
<1>6. CASE CreateJob(i)
  <2>0. job' \in Job BY <1>6 DEF CreateJob, NoJob, Job
  <2>1. TypeOK' BY <1>6, <2>0 DEF CreateJob, TypeOK, Handler, podVars, logVars
  <2>2. Deploying' = Deploying BY <1>6 DEF CreateJob, TypeOK, Deploying
  <2>3. InProgressIsExact' BY <1>6, <2>2, SameCount DEF CreateJob
  <2>4. LogsInv' BY <1>6, HandlerMoves DEF CreateJob, Handler, logVars
  <2> QED BY <2>1, <2>3, <2>4 DEF LogsInv
<1>7. CASE CreateSecret(i)
  <2>0. job' \in Job BY <1>7 DEF CreateSecret, TypeOK, Job
  <2>1. PICK h \in {"offloaded", "failed"} : handler' = [handler EXCEPT ![i] = h]
    BY <1>7 DEF CreateSecret
  <2>2. faultsLeft' \in Nat BY <1>7 DEF CreateSecret, Spend, TypeOK
  <2>3. TypeOK'
    BY <1>7, <2>0, <2>1, <2>2 DEF CreateSecret, TypeOK, Handler, Settled, podVars, logVars
  <2>4. Deploying' = Deploying BY <1>7, <2>1 DEF CreateSecret, TypeOK, Deploying
  <2>5. InProgressIsExact' BY <1>7, <2>4, SameCount DEF CreateSecret
  <2>6. LogsInv' BY <1>7, <2>1, HandlerMoves DEF CreateSecret, Handler, Settled, logVars
  <2> QED BY <2>3, <2>5, <2>6 DEF LogsInv
<1> QED BY <1>1, <1>2, <1>3, <1>4, <1>5, <1>6, <1>7

-----------------------------------------------------------------------------
\* Lines go out in a message of their own, or none is sent.
LEMMA PublishedFields ==
    ASSUME NEW x \in Logger, NEW lines \in SUBSET Nat
    PROVE  LET y == Published(x, lines)
           IN  /\ y \in Logger
               /\ y.buf = x.buf /\ y.taken = x.taken /\ y.lost = x.lost
               /\ y.rows = x.rows /\ y.again = x.again
               /\ y.wire = IF lines = {} THEN x.wire ELSE x.wire \cup {lines}
  BY DEF Published, Logger

\* The buffer is published by Close, or it is lost.
LEMMA BufferEnds ==
    ASSUME NEW x \in Logger, OnePlace(x)
    PROVE  LET y == [Published(x, x.buf) EXCEPT !.buf = {}]
               z == [x EXCEPT !.buf = {}, !.lost = x.lost \cup x.buf]
           IN  /\ y \in Logger /\ OnePlace(y) /\ WrittenOf(y) = WrittenOf(x) /\ y.buf = {}
               /\ z \in Logger /\ OnePlace(z) /\ WrittenOf(z) = WrittenOf(x) /\ z.buf = {}
<1> DEFINE y == [Published(x, x.buf) EXCEPT !.buf = {}]
           z == [x EXCEPT !.buf = {}, !.lost = x.lost \cup x.buf]
<1>0. x.buf \in SUBSET Nat BY DEF Logger
<1>1. /\ y \in Logger /\ y.buf = {} /\ y.taken = x.taken /\ y.lost = x.lost
      /\ y.rows = x.rows /\ y.again = x.again
      /\ y.wire = IF x.buf = {} THEN x.wire ELSE x.wire \cup {x.buf}
  <2> DEFINE p == Published(x, x.buf)
  <2>1. /\ p \in Logger /\ p.taken = x.taken /\ p.lost = x.lost
        /\ p.rows = x.rows /\ p.again = x.again
        /\ p.wire = IF x.buf = {} THEN x.wire ELSE x.wire \cup {x.buf}
    BY <1>0, PublishedFields
  <2> HIDE DEF p
  <2>2. y = [p EXCEPT !.buf = {}] BY DEF p
  <2> QED BY <2>1, <2>2 DEF Logger
<1>2. OnePlace(y) BY <1>1 DEF OnePlace, Messages
<1>3. WrittenOf(y) = WrittenOf(x) BY <1>1 DEF WrittenOf, Stored
<1>4. /\ z \in Logger /\ z.buf = {} /\ z.taken = x.taken /\ z.lost = x.lost \cup x.buf
      /\ z.rows = x.rows /\ z.again = x.again /\ z.wire = x.wire
  BY DEF Logger
<1>5. OnePlace(z) BY <1>4 DEF OnePlace, Messages
<1>6. WrittenOf(z) = WrittenOf(x) BY <1>4 DEF WrittenOf, Stored
<1> QED BY <1>1, <1>2, <1>3, <1>4, <1>5, <1>6

\* The same for what the ticker has taken.
LEMMA TakenEnds ==
    ASSUME NEW x \in Logger, OnePlace(x)
    PROVE  LET y == [Published(x, x.taken) EXCEPT !.taken = {}]
               z == [x EXCEPT !.taken = {}, !.lost = x.lost \cup x.taken]
           IN  /\ y \in Logger /\ OnePlace(y) /\ WrittenOf(y) = WrittenOf(x) /\ y.buf = x.buf
               /\ z \in Logger /\ OnePlace(z) /\ WrittenOf(z) = WrittenOf(x) /\ z.buf = x.buf
<1> DEFINE y == [Published(x, x.taken) EXCEPT !.taken = {}]
           z == [x EXCEPT !.taken = {}, !.lost = x.lost \cup x.taken]
<1>0. x.taken \in SUBSET Nat BY DEF Logger
<1>1. /\ y \in Logger /\ y.taken = {} /\ y.buf = x.buf /\ y.lost = x.lost
      /\ y.rows = x.rows /\ y.again = x.again
      /\ y.wire = IF x.taken = {} THEN x.wire ELSE x.wire \cup {x.taken}
  <2> DEFINE p == Published(x, x.taken)
  <2>1. /\ p \in Logger /\ p.buf = x.buf /\ p.lost = x.lost
        /\ p.rows = x.rows /\ p.again = x.again
        /\ p.wire = IF x.taken = {} THEN x.wire ELSE x.wire \cup {x.taken}
    BY <1>0, PublishedFields
  <2> HIDE DEF p
  <2>2. y = [p EXCEPT !.taken = {}] BY DEF p
  <2> QED BY <2>1, <2>2 DEF Logger
<1>2. OnePlace(y) BY <1>1 DEF OnePlace, Messages
<1>3. WrittenOf(y) = WrittenOf(x) BY <1>1 DEF WrittenOf, Stored
<1>4. /\ z \in Logger /\ z.taken = {} /\ z.buf = x.buf /\ z.lost = x.lost \cup x.taken
      /\ z.rows = x.rows /\ z.again = x.again /\ z.wire = x.wire
  BY DEF Logger
<1>5. OnePlace(z) BY <1>4 DEF OnePlace, Messages
<1>6. WrittenOf(z) = WrittenOf(x) BY <1>4 DEF WrittenOf, Stored
<1> QED BY <1>1, <1>2, <1>3, <1>4, <1>5, <1>6

\* The table after the inserts of a message.
LEMMA RowsGrow ==
    ASSUME NEW rows \in Seq(SUBSET Nat), NEW m \in SUBSET Nat
    PROVE  /\ Append(rows, m) \in Seq(SUBSET Nat)
           /\ DOMAIN Append(rows, m) = DOMAIN rows \cup {Len(rows) + 1}
           /\ Len(rows) + 1 \notin DOMAIN rows
           /\ \A k \in DOMAIN rows : Append(rows, m)[k] = rows[k]
           /\ Append(rows, m)[Len(rows) + 1] = m
  OBVIOUS

\* A message is stored and acknowledged, delivered once more, or it is lost.
LEMMA MessageEnds ==
    ASSUME NEW x \in Logger, OnePlace(x), NEW m \in x.wire
    PROVE  LET y == [LogsCreate(x, m) EXCEPT !.wire = x.wire \ {m}]
               z == [x EXCEPT !.wire = x.wire \ {m}, !.lost = x.lost \cup m]
               d == [LogsCreate(x, m) EXCEPT !.again = x.again \cup {m}]
           IN  /\ y \in Logger /\ OnePlace(y) /\ WrittenOf(y) = WrittenOf(x) /\ y.buf = x.buf
               /\ z \in Logger /\ OnePlace(z) /\ WrittenOf(z) = WrittenOf(x) /\ z.buf = x.buf
               /\ d \in Logger /\ OnePlace(d) /\ WrittenOf(d) = WrittenOf(x) /\ d.buf = x.buf
<1> DEFINE rows == Append(x.rows, m)
           last == Len(x.rows) + 1
           y == [LogsCreate(x, m) EXCEPT !.wire = x.wire \ {m}]
           z == [x EXCEPT !.wire = x.wire \ {m}, !.lost = x.lost \cup m]
           d == [LogsCreate(x, m) EXCEPT !.again = x.again \cup {m}]
<1>0. m \in SUBSET Nat /\ x.rows \in Seq(SUBSET Nat) BY DEF Logger
<1>1. /\ rows \in Seq(SUBSET Nat) /\ DOMAIN rows = DOMAIN x.rows \cup {last}
      /\ last \notin DOMAIN x.rows /\ rows[last] = m
      /\ \A k \in DOMAIN x.rows : rows[k] = x.rows[k]
  BY <1>0, RowsGrow
<1>2. /\ y \in Logger /\ y.buf = x.buf /\ y.taken = x.taken /\ y.lost = x.lost
      /\ y.rows = rows /\ y.again = x.again /\ y.wire = x.wire \ {m}
  BY <1>1 DEF Logger, LogsCreate
<1>3. /\ d \in Logger /\ d.buf = x.buf /\ d.taken = x.taken /\ d.lost = x.lost
      /\ d.rows = rows /\ d.again = x.again \cup {m} /\ d.wire = x.wire
  BY <1>0, <1>1 DEF Logger, LogsCreate
<1>4. /\ z \in Logger /\ z.buf = x.buf /\ z.taken = x.taken /\ z.lost = x.lost \cup m
      /\ z.rows = x.rows /\ z.again = x.again /\ z.wire = x.wire \ {m}
  BY <1>0 DEF Logger
<1> HIDE DEF rows, last, y, z, d
<1>5. \A k \in DOMAIN rows : rows[k] = m \/ (k \in DOMAIN x.rows /\ rows[k] = x.rows[k])
  BY <1>1
<1>6. Messages(y) \subseteq Messages(x) /\ Messages(d) \subseteq Messages(x)
      /\ Messages(z) \subseteq Messages(x)
  BY <1>2, <1>3, <1>4, <1>5 DEF Messages
<1>8. OnePlace(y)
  <2>1. \A k \in DOMAIN rows : rows[k] \in x.wire \ {m} => rows[k] \in x.again
    BY <1>5 DEF OnePlace
  <2>2. \A k, n \in DOMAIN rows : (k # n /\ rows[k] = rows[n]) => rows[k] \in x.again
    BY <1>1 DEF OnePlace
  <2> QED BY <1>2, <1>6, <2>1, <2>2 DEF OnePlace
<1>9. OnePlace(d)
  <2>1. \A k \in DOMAIN rows : rows[k] \in x.wire => rows[k] \in x.again \cup {m}
    BY <1>5 DEF OnePlace
  <2>2. \A k, n \in DOMAIN rows : (k # n /\ rows[k] = rows[n]) => rows[k] \in x.again \cup {m}
    BY <1>1 DEF OnePlace
  <2> QED BY <1>3, <1>6, <2>1, <2>2 DEF OnePlace
<1>10. OnePlace(z)
  <2>1. m \in Messages(x) /\ \A n \in x.wire : n \in Messages(x) BY DEF Messages
  <2>2. m \cap (x.buf \cup x.taken) = {} /\ \A n \in x.wire \ {m} : n \cap m = {}
    BY <2>1 DEF OnePlace
  <2>3. z.lost \cap (z.buf \cup z.taken) = {} /\ \A n \in z.wire : n \cap z.lost = {}
    BY <1>4, <2>2 DEF OnePlace
  <2> QED BY <1>4, <1>6, <2>3 DEF OnePlace
<1>11. WrittenOf(y) = WrittenOf(x) /\ WrittenOf(d) = WrittenOf(x)
  <2>1. Stored(y) = Stored(x) \cup m /\ Stored(d) = Stored(x) \cup m
    BY <1>2, <1>3, <1>1, <1>5 DEF Stored
  <2>2. (UNION x.wire) = (UNION (x.wire \ {m})) \cup m OBVIOUS
  <2> QED BY <1>2, <1>3, <2>1, <2>2 DEF WrittenOf
<1>12. WrittenOf(z) = WrittenOf(x)
  <2>1. Stored(z) = Stored(x) BY <1>4 DEF Stored
  <2>2. (UNION x.wire) = (UNION (x.wire \ {m})) \cup m OBVIOUS
  <2> QED BY <1>4, <2>1, <2>2 DEF WrittenOf
<1> QED BY <1>2, <1>3, <1>4, <1>8, <1>9, <1>10, <1>11, <1>12 DEF y, z, d

\* A step that changes the log of one deployment.
LEMMA LogMoves ==
    ASSUME AgentInv, NEW i \in Instructions, NEW x \in Logger, OnePlace(x),
           log' = [log EXCEPT ![i] = x],
           \A j \in Instructions \ {i} : handler'[j] = handler[j],
           handler'[i] \in {"helmed", "done"} => WrittenOf(x) = Lines[i],
           handler'[i] = "done" => x.buf = {}
    PROVE  LogsInv' /\ log' \in [Instructions -> Logger]
<1>1. log'[i] = x /\ \A j \in Instructions \ {i} : log'[j] = log[j]
  BY DEF AgentInv, TypeOK
<1>2. LogInv(i)' BY <1>1 DEF LogInv, Written
<1> QED BY <1>1, <1>2, OneLog DEF AgentInv, TypeOK, LogsInv

\* Write, the ticker, and Fasit: every line is in the buffer, on its way or stored.
LEMMA LogKeeps ==
    ASSUME AgentInv, NEW i \in Instructions,
           \/ \E l \in Lines[i] : Write(i, l)
           \/ TickerTakes(i) \/ TickerSends(i)
           \/ \E m \in log[i].wire : handleStatusLog(i, m) \/ LogDeliveredAgain(i, m)
    PROVE  AgentInv'
<1> USE DEF AgentInv
<1>1. log[i] \in Logger /\ OnePlace(log[i])
      /\ (handler[i] \in {"helmed", "done"} => WrittenOf(log[i]) = Lines[i])
      /\ (handler[i] = "done" => log[i].buf = {})
  BY DEF LogInv, Written, TypeOK
<1>2. UNCHANGED <<podVars, handler, inProgress, job>>
  BY DEF Write, TickerTakes, TickerSends, handleStatusLog, LogDeliveredAgain
<1>3. faultsLeft' \in Nat
  <2>1. faultsLeft' = faultsLeft \/ (faultsLeft > 0 /\ faultsLeft' = faultsLeft - 1)
    BY DEF Write, TickerTakes, TickerSends, handleStatusLog, LogDeliveredAgain, Spend
  <2> QED BY <2>1 DEF TypeOK
<1>4. InProgressIsExact'
  <2>1. Deploying' = Deploying BY <1>2 DEF Deploying
  <2> QED BY <1>2, <2>1, SameCount
<1>5. LogsInv' /\ log' \in [Instructions -> Logger]
  <2>1. ASSUME NEW l \in Lines[i], Write(i, l) PROVE LogsInv' /\ log' \in [Instructions -> Logger]
    <3> DEFINE x == [log[i] EXCEPT !.buf = @ \cup {l}]
    <3>0. l \in Nat BY AgentAssumption
    <3>1. x \in Logger BY <1>1, <3>0 DEF Logger
    <3>2. /\ x.buf = log[i].buf \cup {l} /\ x.taken = log[i].taken /\ x.lost = log[i].lost
          /\ x.wire = log[i].wire /\ x.rows = log[i].rows /\ x.again = log[i].again
      BY <1>1 DEF Logger
    <3>3. l \notin WrittenOf(log[i]) BY <2>1 DEF Write, Written
    <3>4. l \notin log[i].taken /\ l \notin log[i].lost /\ \A m \in Messages(log[i]) : l \notin m
      BY <3>3 DEF WrittenOf, Messages, Stored
    <3>5. Messages(x) = Messages(log[i]) BY <3>2 DEF Messages
    <3>6. OnePlace(x)
      <4>1. x.buf \cap x.taken = {} /\ x.lost \cap (x.buf \cup x.taken) = {}
        BY <1>1, <3>2, <3>4 DEF OnePlace
      <4>2. \A m \in Messages(x) : m \cap (x.buf \cup x.taken) = {}
        BY <1>1, <3>2, <3>4, <3>5 DEF OnePlace
      <4> QED BY <1>1, <3>2, <3>5, <4>1, <4>2 DEF OnePlace
    <3>7. log' = [log EXCEPT ![i] = x] BY <2>1 DEF Write, TypeOK
    <3>8. handler'[i] = "begun" BY <1>2, <2>1 DEF Write
    <3> HIDE DEF x
    <3> QED BY <1>2, <3>1, <3>6, <3>7, <3>8, LogMoves
  <2>2. CASE TickerTakes(i)
    <3> DEFINE x == [log[i] EXCEPT !.taken = log[i].buf, !.buf = {}]
    <3>1. x \in Logger BY <1>1 DEF Logger
    <3>2. /\ x.buf = {} /\ x.taken = log[i].buf /\ x.lost = log[i].lost
          /\ x.wire = log[i].wire /\ x.rows = log[i].rows /\ x.again = log[i].again
          /\ log[i].taken = {}
      BY <1>1, <2>2 DEF TickerTakes, Logger
    <3>3. OnePlace(x) BY <1>1, <3>2 DEF OnePlace, Messages
    <3>4. WrittenOf(x) = WrittenOf(log[i]) BY <3>2 DEF WrittenOf, Stored
    <3>5. log' = [log EXCEPT ![i] = x] BY <2>2 DEF TickerTakes, TypeOK
    <3> HIDE DEF x
    <3> QED BY <1>1, <1>2, <3>1, <3>2, <3>3, <3>4, <3>5, LogMoves
  <2>3. CASE TickerSends(i)
    <3> DEFINE y == [Published(log[i], log[i].taken) EXCEPT !.taken = {}]
               z == [log[i] EXCEPT !.taken = {}, !.lost = log[i].lost \cup log[i].taken]
    <3>1. /\ y \in Logger /\ OnePlace(y) /\ WrittenOf(y) = WrittenOf(log[i]) /\ y.buf = log[i].buf
          /\ z \in Logger /\ OnePlace(z) /\ WrittenOf(z) = WrittenOf(log[i]) /\ z.buf = log[i].buf
      BY <1>1, TakenEnds
    <3>2. log' = [log EXCEPT ![i] = y] \/ log' = [log EXCEPT ![i] = z]
      BY <2>3 DEF TickerSends, TypeOK
    <3> HIDE DEF y, z
    <3> QED BY <1>1, <1>2, <3>1, <3>2, LogMoves
  <2>4. ASSUME NEW m \in log[i].wire, handleStatusLog(i, m) \/ LogDeliveredAgain(i, m)
        PROVE  LogsInv' /\ log' \in [Instructions -> Logger]
    <3> DEFINE y == [LogsCreate(log[i], m) EXCEPT !.wire = log[i].wire \ {m}]
               z == [log[i] EXCEPT !.wire = log[i].wire \ {m}, !.lost = log[i].lost \cup m]
               d == [LogsCreate(log[i], m) EXCEPT !.again = log[i].again \cup {m}]
    <3>1. /\ y \in Logger /\ OnePlace(y) /\ WrittenOf(y) = WrittenOf(log[i]) /\ y.buf = log[i].buf
          /\ z \in Logger /\ OnePlace(z) /\ WrittenOf(z) = WrittenOf(log[i]) /\ z.buf = log[i].buf
          /\ d \in Logger /\ OnePlace(d) /\ WrittenOf(d) = WrittenOf(log[i]) /\ d.buf = log[i].buf
      BY <1>1, MessageEnds
    <3>2. \/ log' = [log EXCEPT ![i] = y] \/ log' = [log EXCEPT ![i] = z]
          \/ log' = [log EXCEPT ![i] = d]
      <4>1. CASE handleStatusLog(i, m) BY <4>1 DEF handleStatusLog, TypeOK
      <4>2. CASE LogDeliveredAgain(i, m) BY <4>2 DEF LogDeliveredAgain, TypeOK
      <4> QED BY <2>4, <4>1, <4>2
    <3> HIDE DEF y, z, d
    <3> QED BY <1>1, <1>2, <3>1, <3>2, LogMoves
  <2> QED BY <2>1, <2>2, <2>3, <2>4
<1>6. TypeOK' BY <1>2, <1>3, <1>5 DEF TypeOK, podVars
<1> QED BY <1>4, <1>5, <1>6 DEF LogsInv

\* The deferred calls of the handler.
LEMMA ReturnKeeps ==
    ASSUME AgentInv, NEW i \in Instructions, Return(i)
    PROVE  AgentInv'
<1> USE DEF AgentInv
<1>1. log[i] \in Logger /\ OnePlace(log[i]) /\ WrittenOf(log[i]) = Lines[i]
  BY DEF LogInv, Written, TypeOK, Return
<1>2. handler' = [handler EXCEPT ![i] = "done"] /\ handler[i] = "helmed" BY DEF Return
<1>3. LogsInv' /\ log' \in [Instructions -> Logger]
  <2> DEFINE y == [Published(log[i], log[i].buf) EXCEPT !.buf = {}]
             z == [log[i] EXCEPT !.buf = {}, !.lost = log[i].lost \cup log[i].buf]
  <2>1. /\ y \in Logger /\ OnePlace(y) /\ WrittenOf(y) = Lines[i] /\ y.buf = {}
        /\ z \in Logger /\ OnePlace(z) /\ WrittenOf(z) = Lines[i] /\ z.buf = {}
    BY <1>1, BufferEnds
  <2>2. log' = [log EXCEPT ![i] = y] \/ log' = [log EXCEPT ![i] = z] BY DEF Return, TypeOK
  <2>3. \A j \in Instructions \ {i} : handler'[j] = handler[j] BY <1>2 DEF TypeOK
  <2> HIDE DEF y, z
  <2> QED BY <2>1, <2>2, <2>3, LogMoves
<1>4. InProgressIsExact'
  <2>1. CASE Kind[i] = "upgrade"
    <3>1. i \in Deploying /\ Deploying' = Deploying \ {i}
      BY <1>2, <2>1 DEF TypeOK, Deploying
    <3> QED BY <2>1, <3>1, CountDown DEF Return
  <2>2. CASE Kind[i] # "upgrade"
    <3>1. Deploying' = Deploying BY <1>2, <2>2 DEF TypeOK, Deploying
    <3> QED BY <2>2, <3>1, SameCount DEF Return
  <2> QED BY <2>1, <2>2
<1>5. TypeOK'
  <2>1. inProgress' \in Nat /\ faultsLeft' \in Nat BY DEF Return, Dec, Spend, TypeOK
  <2>2. handler' \in [Instructions -> Handler] BY <1>2 DEF TypeOK, Handler, Settled
  <2> QED BY <1>3, <2>1, <2>2 DEF Return, TypeOK, podVars
<1> QED BY <1>3, <1>4, <1>5 DEF LogsInv

-----------------------------------------------------------------------------
\* The pod dies: no deployment is under way, what was not published is lost.
LEMMA PodDiesKeeps ==
    ASSUME AgentInv, PodDies, job' \in Job, faultsLeft' \in Nat
    PROVE  AgentInv'
<1> USE DEF AgentInv
<1>1. \A i \in Instructions :
         handler'[i] = IF handler[i] \in {"accepted", "begun", "helmed", "job"}
                       THEN "killed" ELSE handler[i]
  BY DEF PodDies
<1>2. handler' \in [Instructions -> Handler] BY DEF PodDies, TypeOK, Handler, Settled
<1>3. ASSUME NEW i \in Instructions
      PROVE  log'[i] \in Logger /\ LogInv(i)'
  <2> DEFINE x == log[i]
             z == [x EXCEPT !.buf = {}, !.taken = {}, !.lost = x.lost \cup x.buf \cup x.taken]
  <2>1. x \in Logger /\ LogInv(i) BY DEF TypeOK
  <2>2. log'[i] = z BY DEF PodDies
  <2>3. /\ z \in Logger /\ z.buf = {} /\ z.taken = {} /\ z.lost = x.lost \cup x.buf \cup x.taken
        /\ z.wire = x.wire /\ z.rows = x.rows /\ z.again = x.again
    BY <2>1 DEF Logger
  <2>4. OnePlace(z)
    <3>1. OnePlace(x) BY <2>1 DEF LogInv
    <3>2. Messages(z) = Messages(x) /\ \A m \in x.wire : m \in Messages(x)
      BY <2>3 DEF Messages
    <3> QED BY <2>3, <3>1, <3>2 DEF OnePlace
  <2>8. WrittenOf(z) = WrittenOf(x) BY <2>3 DEF WrittenOf, Stored
  <2>5. handler'[i] = "done" => handler[i] = "done" BY <1>1
  <2>6. handler'[i] # "helmed" BY <1>1
  <2>7. WrittenOf(x) = Lines[i] \/ handler[i] # "done" BY <2>1 DEF LogInv, Written
  <2> HIDE DEF z, x
  <2> QED BY <2>2, <2>3, <2>4, <2>5, <2>6, <2>7, <2>8 DEF LogInv, Written
<1>4. log' \in [Instructions -> Logger] BY <1>3 DEF PodDies
<1>5. TypeOK' BY <1>2, <1>4 DEF PodDies, TypeOK
<1>6. InProgressIsExact'
  <2>1. Deploying' = {} BY <1>1 DEF Deploying
  <2> QED BY <2>1, FS_EmptySet DEF PodDies, InProgressIsExact
<1> QED BY <1>3, <1>5, <1>6

\* The upgrade job, the life of the pod, and stuttering.
LEMMA PodKeeps ==
    ASSUME AgentInv,
           \/ Stop \/ JobUpgrades \/ JobFails \/ GiveUp \/ Crash \/ PodStarts \/ UNCHANGED vars
    PROVE  AgentInv'
<1>1. job \in Job /\ faultsLeft \in Nat BY DEF AgentInv, TypeOK
<1>2. CASE JobUpgrades \/ GiveUp \/ Crash
  <2>1. job' \in Job BY <1>1, <1>2 DEF JobUpgrades, GiveUp, Crash, Job
  <2>2. faultsLeft' \in Nat BY <1>1, <1>2 DEF JobUpgrades, GiveUp, Crash, Spend
  <2> QED BY <1>2, <2>1, <2>2, PodDiesKeeps DEF JobUpgrades, GiveUp, Crash
<1>3. CASE Stop \/ JobFails \/ PodStarts \/ UNCHANGED vars
  <2>1. UNCHANGED <<handler, inProgress, log>>
    BY <1>3 DEF Stop, JobFails, PodStarts, vars, logVars
  <2>2. job' \in Job BY <1>1, <1>3 DEF Stop, JobFails, PodStarts, vars, Job
  <2>3. faultsLeft' \in Nat BY <1>1, <1>3 DEF Stop, JobFails, PodStarts, vars, Spend
  <2>4. pod' \in {"up", "down"} /\ receiving' \in BOOLEAN
    BY <1>3 DEF Stop, JobFails, PodStarts, vars, podVars, AgentInv, TypeOK
  <2>5. TypeOK' BY <2>1, <2>2, <2>3, <2>4 DEF AgentInv, TypeOK
  <2>6. InProgressIsExact'
    <3>1. Deploying' = Deploying BY <2>1 DEF Deploying
    <3> QED BY <2>1, <3>1, SameCount DEF AgentInv
  <2>7. ASSUME NEW i \in Instructions PROVE LogInv(i)'
    BY <2>1 DEF AgentInv, LogInv, Written
  <2> QED BY <2>5, <2>6, <2>7 DEF AgentInv
<1> QED BY <1>2, <1>3

\* Every step keeps the invariant.
LEMMA NextKeeps == AgentInv /\ [Next]_vars => AgentInv'
<1> SUFFICES ASSUME AgentInv, [Next]_vars PROVE AgentInv' OBVIOUS
<1>1. ASSUME NEW i \in Instructions,
             \/ Receive(i) \/ HandlerStep(i) \/ TickerStep(i) \/ PrepareFails(i) \/ StoreStep(i)
             \/ \E m \in log[i].wire : LogDeliveredAgain(i, m)
      PROVE  AgentInv'
  BY <1>1, HandlerKeeps, LogKeeps, ReturnKeeps DEF HandlerStep, TickerStep, StoreStep
<1> QED BY <1>1, PodKeeps DEF Next

-----------------------------------------------------------------------------
\* The inductive invariant of the handlers holds in every behaviour.
THEOREM AgentInvariant == Spec => []AgentInv
  BY InitHolds, NextKeeps, PTL DEF Spec

\* lockedInt: on every path out of a handler, and over crashes of the pod, the
\* count of deployments in progress is exact.
THEOREM CountIsExact == Spec => []InProgressIsExact
  BY AgentInvariant, PTL DEF AgentInv

\* pubsubLogger and handleStatusLog: no line of a log is sent in two messages,
\* and none is missing without a failure or the death of the pod.
THEOREM LogLinesStoredOnce == Spec => []LinesStoredOnce
<1>1. AgentInv => LinesStoredOnce
  <2> SUFFICES ASSUME AgentInv, NEW i \in Instructions
               PROVE  /\ \A k, m \in DOMAIN log[i].rows :
                            (k # m /\ log[i].rows[k] \cap log[i].rows[m] # {}) =>
                               log[i].rows[k] = log[i].rows[m] /\ log[i].rows[k] \in log[i].again
                      /\ handler[i] = "done" => \A l \in Lines[i] :
                            l \in log[i].taken \cup (UNION log[i].wire) \cup Stored(log[i]) \cup log[i].lost
    BY DEF LinesStoredOnce
  <2>1. LogInv(i) BY DEF AgentInv
  <2>2. \A k \in DOMAIN log[i].rows : log[i].rows[k] \in Messages(log[i]) BY DEF Messages
  <2>3. \A k, m \in DOMAIN log[i].rows :
           (k # m /\ log[i].rows[k] \cap log[i].rows[m] # {}) =>
              log[i].rows[k] = log[i].rows[m] /\ log[i].rows[k] \in log[i].again
    BY <2>1, <2>2 DEF LogInv, OnePlace
  <2>4. handler[i] = "done" => WrittenOf(log[i]) = Lines[i] /\ log[i].buf = {}
    BY <2>1 DEF LogInv, Written
  <2> QED BY <2>3, <2>4 DEF WrittenOf
<1> QED BY <1>1, AgentInvariant, PTL

-----------------------------------------------------------------------------
(* What the pages show *)

\* The steps that write no line leave what is written of a log as it was.
LEMMA WrittenStep == AgentInv /\ WrittenInv /\ [Next]_vars => WrittenInv'
<1> SUFFICES ASSUME AgentInv, WrittenInv, [Next]_vars PROVE WrittenInv'
  OBVIOUS
<1>1. \A i \in Instructions : log[i] \in Logger /\ OnePlace(log[i]) /\ WrittenOf(log[i]) \subseteq Lines[i]
  BY DEF AgentInv, TypeOK, LogInv, WrittenInv, Written
<1>2. log \in [Instructions -> Logger]
  BY DEF AgentInv, TypeOK
<1>3. ASSUME NEW i \in Instructions, NEW x, log' = [log EXCEPT ![i] = x], WrittenOf(x) \subseteq Lines[i]
      PROVE  WrittenInv'
  <2>1. log'[i] = x /\ \A j \in Instructions \ {i} : log'[j] = log[j]
    BY <1>2, <1>3
  <2> QED
    BY <1>1, <1>3, <2>1 DEF WrittenInv, Written
<1>4. ASSUME UNCHANGED log PROVE WrittenInv'
  BY <1>1, <1>4 DEF WrittenInv, Written
<1>5. ASSUME NEW i \in Instructions, NEW l \in Lines[i], Write(i, l) PROVE WrittenInv'
  <2>1. PICK x : x = [log[i] EXCEPT !.buf = @ \cup {l}]
    BY Zenon
  <2>2. log' = [log EXCEPT ![i] = x]
    BY <1>2, <1>5, <2>1 DEF Write
  <2>3. /\ x.buf = log[i].buf \cup {l} /\ x.taken = log[i].taken /\ x.lost = log[i].lost
        /\ x.wire = log[i].wire /\ x.rows = log[i].rows
    BY <1>1, <2>1 DEF Logger
  <2>4. WrittenOf(x) \subseteq Lines[i]
    BY <1>1, <2>3 DEF WrittenOf, Stored
  <2> QED
    BY <1>3, <2>2, <2>4
<1>6. ASSUME NEW i \in Instructions, Return(i) PROVE WrittenInv'
  <2>1. PICK y, z : /\ y = [Published(log[i], log[i].buf) EXCEPT !.buf = {}]
                    /\ z = [log[i] EXCEPT !.buf = {}, !.lost = log[i].lost \cup log[i].buf]
    BY Zenon
  <2>2. WrittenOf(y) = WrittenOf(log[i]) /\ WrittenOf(z) = WrittenOf(log[i])
    BY <1>1, <2>1, BufferEnds
  <2>3. log' = [log EXCEPT ![i] = y] \/ log' = [log EXCEPT ![i] = z]
    BY <1>2, <1>6, <2>1 DEF Return
  <2> QED
    BY <1>1, <1>3, <2>2, <2>3
<1>7. ASSUME NEW i \in Instructions, TickerTakes(i) PROVE WrittenInv'
  <2>1. PICK x : x = [log[i] EXCEPT !.taken = log[i].buf, !.buf = {}]
    BY Zenon
  <2>2. /\ x.buf = {} /\ x.taken = log[i].buf /\ x.lost = log[i].lost
        /\ x.wire = log[i].wire /\ x.rows = log[i].rows
    BY <1>1, <2>1 DEF Logger
  <2>3. WrittenOf(x) \subseteq Lines[i]
    BY <1>1, <2>2 DEF WrittenOf, Stored
  <2>4. log' = [log EXCEPT ![i] = x]
    BY <1>2, <1>7, <2>1 DEF TickerTakes
  <2> QED
    BY <1>3, <2>3, <2>4
<1>8. ASSUME NEW i \in Instructions, TickerSends(i) PROVE WrittenInv'
  <2>1. PICK y, z : /\ y = [Published(log[i], log[i].taken) EXCEPT !.taken = {}]
                    /\ z = [log[i] EXCEPT !.taken = {}, !.lost = log[i].lost \cup log[i].taken]
    BY Zenon
  <2>2. WrittenOf(y) = WrittenOf(log[i]) /\ WrittenOf(z) = WrittenOf(log[i])
    BY <1>1, <2>1, TakenEnds
  <2>3. log' = [log EXCEPT ![i] = y] \/ log' = [log EXCEPT ![i] = z]
    BY <1>2, <1>8, <2>1 DEF TickerSends
  <2> QED
    BY <1>1, <1>3, <2>2, <2>3
<1>9. ASSUME NEW i \in Instructions, NEW m \in log[i].wire,
             handleStatusLog(i, m) \/ LogDeliveredAgain(i, m)
      PROVE  WrittenInv'
  <2>1. PICK y, z, d : /\ y = [LogsCreate(log[i], m) EXCEPT !.wire = log[i].wire \ {m}]
                       /\ z = [log[i] EXCEPT !.wire = log[i].wire \ {m}, !.lost = log[i].lost \cup m]
                       /\ d = [LogsCreate(log[i], m) EXCEPT !.again = log[i].again \cup {m}]
    BY Zenon
  <2>2. /\ WrittenOf(y) = WrittenOf(log[i]) /\ WrittenOf(z) = WrittenOf(log[i])
        /\ WrittenOf(d) = WrittenOf(log[i])
    BY <1>1, <2>1, MessageEnds
  <2>3. CASE handleStatusLog(i, m)
    <3>1. log' = [log EXCEPT ![i] = y] \/ log' = [log EXCEPT ![i] = z]
      BY <1>2, <2>1, <2>3 DEF handleStatusLog
    <3> QED
      BY <1>1, <1>3, <2>2, <3>1
  <2>4. CASE LogDeliveredAgain(i, m)
    <3>1. log' = [log EXCEPT ![i] = d]
      BY <1>2, <2>1, <2>4 DEF LogDeliveredAgain
    <3> QED
      BY <1>1, <1>3, <2>2, <3>1
  <2> QED
    BY <1>9, <2>3, <2>4
<1>10. ASSUME PodDies PROVE WrittenInv'
  <2> SUFFICES ASSUME NEW i \in Instructions PROVE Written(i)' \subseteq Lines[i]
    BY DEF WrittenInv
  <2>1. PICK x : x = log'[i]
    BY Zenon
  <2>2. x = [log[i] EXCEPT !.buf = {}, !.taken = {}, !.lost = log[i].lost \cup log[i].buf \cup log[i].taken]
    BY <1>10, <2>1 DEF PodDies
  <2>3. /\ x.buf = {} /\ x.taken = {} /\ x.lost = log[i].lost \cup log[i].buf \cup log[i].taken
        /\ x.wire = log[i].wire /\ x.rows = log[i].rows
    BY <1>1, <2>2 DEF Logger
  <2>4. WrittenOf(x) \subseteq Lines[i]
    BY <1>1, <2>3 DEF WrittenOf, Stored
  <2> QED
    BY <2>1, <2>4 DEF Written
<1>11. CASE UNCHANGED vars
  BY <1>4, <1>11 DEF vars
<1>12. ASSUME NEW i \in Instructions,
              \/ Receive(i) \/ Begin(i) \/ RunHelm(i) \/ Postpone(i) \/ CreateJob(i)
              \/ CreateSecret(i) \/ PrepareFails(i)
       PROVE  WrittenInv'
  BY <1>4, <1>12 DEF Receive, Begin, RunHelm, Postpone, CreateJob, CreateSecret, PrepareFails, logVars
<1>13. CASE Stop \/ JobFails \/ PodStarts
  BY <1>4, <1>13 DEF Stop, JobFails, PodStarts, logVars
<1>14. CASE JobUpgrades \/ GiveUp \/ Crash
  BY <1>10, <1>14 DEF JobUpgrades, GiveUp, Crash
<1> QED
  BY <1>5, <1>6, <1>7, <1>8, <1>9, <1>11, <1>12, <1>13, <1>14
     DEF Next, HandlerStep, TickerStep, StoreStep

\* Elements of a finite set in a strict order: by how many there are ahead of
\* them, every rank is taken.
Ahead(S, R, d) == {x \in S : <<x, d>> \in R}
StrictOrder(S, R) ==
    /\ \A a \in S : <<a, a>> \notin R
    /\ \A a, b, c \in S : <<a, b>> \in R /\ <<b, c>> \in R => <<a, c>> \in R
    /\ \A a, b \in S : a = b \/ <<a, b>> \in R \/ <<b, a>> \in R
LEMMA Ranks ==
    ASSUME NEW S, IsFiniteSet(S), NEW R, StrictOrder(S, R)
    PROVE  /\ Cardinality(S) \in Nat
           /\ \A a, b \in S : <<a, b>> \in R => Cardinality(Ahead(S, R, a)) < Cardinality(Ahead(S, R, b))
           /\ \A d \in S : Cardinality(Ahead(S, R, d)) \in Nat /\ Cardinality(Ahead(S, R, d)) < Cardinality(S)
           /\ \A n \in 1 .. Cardinality(S) : \E d \in S : Cardinality(Ahead(S, R, d)) = n - 1
<1>1. PICK n : n = Cardinality(S)
  BY Zenon
<1>2. n \in Nat
  BY <1>1, FS_CardinalityType
<1>3. ASSUME NEW d \in S
      PROVE  Cardinality(Ahead(S, R, d)) \in Nat /\ Cardinality(Ahead(S, R, d)) < n
  <2>1. PICK A : A = Ahead(S, R, d)
    BY Zenon
  <2>2. A \in SUBSET S /\ A # S
    BY <2>1 DEF Ahead, StrictOrder
  <2>3. IsFiniteSet(A) /\ Cardinality(A) <= n /\ Cardinality(A) # n
    BY <1>1, <2>2, FS_Subset
  <2> QED
    BY <1>2, <2>1, <2>3, FS_CardinalityType
<1>4. ASSUME NEW a \in S, NEW b \in S, <<a, b>> \in R
      PROVE  Cardinality(Ahead(S, R, a)) < Cardinality(Ahead(S, R, b))
  <2>1. PICK A, B : A = Ahead(S, R, a) /\ B = Ahead(S, R, b)
    BY Zenon
  <2>2. A \in SUBSET B /\ a \in B /\ a \notin A /\ B \in SUBSET S
    BY <1>4, <2>1 DEF Ahead, StrictOrder
  <2>3. IsFiniteSet(B)
    BY <2>2, FS_Subset
  <2>4. Cardinality(A) <= Cardinality(B) /\ Cardinality(A) # Cardinality(B)
    BY <2>2, <2>3, FS_Subset
  <2>5. Cardinality(A) \in Nat /\ Cardinality(B) \in Nat
    BY <1>3, <2>1
  <2> QED
    BY <2>1, <2>4, <2>5
<1>5. PICK rank : rank = [d \in S |-> Cardinality(Ahead(S, R, d)) + 1]
  BY Zenon
<1>6. \A d \in S : rank[d] = Cardinality(Ahead(S, R, d)) + 1
  BY <1>5
<1>7. rank \in [S -> 1 .. n]
  BY <1>2, <1>3, <1>5
<1>8. ASSUME NEW a \in S, NEW b \in S, rank[a] = rank[b] PROVE a = b
  <2> SUFFICES ASSUME a # b PROVE FALSE
    OBVIOUS
  <2>1. PICK p, q : p = Cardinality(Ahead(S, R, a)) /\ q = Cardinality(Ahead(S, R, b))
    BY Zenon
  <2>2. p \in Nat /\ q \in Nat /\ p + 1 = q + 1
    BY <1>3, <1>6, <1>8, <2>1
  <2>3. <<a, b>> \in R \/ <<b, a>> \in R
    BY DEF StrictOrder
  <2>4. p < q \/ q < p
    BY <1>4, <2>1, <2>3
  <2> QED
    BY <2>2, <2>4
<1>9. rank \in Injection(S, 1 .. n)
  BY <1>7, <1>8 DEF Injection, IsInjective
<1>10. IsFiniteSet(1 .. n) /\ Cardinality(1 .. n) = n
  BY <1>2, FS_Interval
<1>11. rank \in Surjection(S, 1 .. n)
  BY <1>1, <1>9, <1>10, FS_Injection
<1>12. ASSUME NEW i \in 1 .. n PROVE \E d \in S : Cardinality(Ahead(S, R, d)) = i - 1
  <2>1. PICK d \in S : rank[d] = i
    BY <1>11 DEF Surjection
  <2>2. PICK p : p = Cardinality(Ahead(S, R, d))
    BY Zenon
  <2>3. p \in Nat /\ p + 1 = i
    BY <1>3, <1>6, <2>1, <2>2
  <2>4. p = i - 1
    BY <1>2, <2>3
  <2> QED
    BY <2>2, <2>4
<1> QED
  BY <1>1, <1>2, <1>3, <1>4, <1>12

\* A sequence that lists a set in order.
Lists(s, S, R) ==
    /\ s = [n \in 1 .. Cardinality(S) |-> s[n]]
    /\ \A n \in 1 .. Cardinality(S) : s[n] \in S /\ Cardinality(Ahead(S, R, s[n])) = n - 1
LEMMA ListFacts ==
    ASSUME NEW S, IsFiniteSet(S), NEW R, StrictOrder(S, R), NEW s, Lists(s, S, R)
    PROVE  /\ Cardinality(S) \in Nat /\ DOMAIN s = 1 .. Cardinality(S)
           /\ \A n \in DOMAIN s : n \in Nat /\ s[n] \in S
           /\ \A x \in S : \E n \in DOMAIN s : s[n] = x
           /\ \A m, n \in DOMAIN s : m < n <=> <<s[m], s[n]>> \in R
<1>1. PICK N : N = Cardinality(S)
  BY Zenon
<1>2. PICK C : C = [d \in S |-> Cardinality(Ahead(S, R, d))]
  BY Zenon
<1>3. /\ N \in Nat
      /\ \A a, b \in S : <<a, b>> \in R => C[a] < C[b]
      /\ \A d \in S : C[d] \in Nat /\ C[d] < N
  BY <1>1, <1>2, Ranks
<1>4. DOMAIN s = 1 .. N
  BY <1>1 DEF Lists
<1>5. \A n \in 1 .. N : s[n] \in S /\ C[s[n]] = n - 1
  BY <1>1, <1>2 DEF Lists
<1>6. ASSUME NEW a \in S, NEW b \in S, C[a] = C[b] PROVE a = b
  <2>1. ~(C[a] < C[b]) /\ ~(C[b] < C[a])
    BY <1>3, <1>6
  <2>2. <<a, b>> \notin R /\ <<b, a>> \notin R
    BY <1>3, <2>1, Zenon
  <2> QED
    BY <2>2, Zenon DEF StrictOrder
<1>7. ASSUME NEW x \in S PROVE \E n \in 1 .. N : s[n] = x
  <2>1. PICK n : n = C[x] + 1
    BY Zenon
  <2>2. n \in 1 .. N /\ C[x] = n - 1
    BY <1>3, <2>1
  <2> QED
    BY <1>5, <1>6, <2>2
<1>8. ASSUME NEW m \in 1 .. N, NEW n \in 1 .. N PROVE m < n <=> <<s[m], s[n]>> \in R
  <2>1. PICK a, b : a = s[m] /\ b = s[n]
    BY Zenon
  <2>2. a \in S /\ b \in S /\ C[a] = m - 1 /\ C[b] = n - 1 /\ m \in Nat /\ n \in Nat
    BY <1>3, <1>5, <2>1
  <2>3. <<a, b>> \in R => m < n
    BY <1>3, <2>2
  <2>4. m < n => a # b /\ ~(<<b, a>> \in R)
    BY <1>3, <2>2
  <2> QED
    BY <2>1, <2>2, <2>3, <2>4 DEF StrictOrder
<1> QED
  BY <1>1, <1>3, <1>4, <1>5, <1>7, <1>8

LEMMA OneList ==
    ASSUME NEW S, IsFiniteSet(S), NEW R, StrictOrder(S, R),
           NEW s, Lists(s, S, R), NEW t, Lists(t, S, R)
    PROVE  s = t
<1>1. PICK N : N = Cardinality(S)
  BY Zenon
<1>2. PICK C : C = [d \in S |-> Cardinality(Ahead(S, R, d))]
  BY Zenon
<1>3. \A a, b \in S : <<a, b>> \in R => C[a] < C[b]
  BY <1>2, Ranks
<1>4. \A d \in S : C[d] \in Nat
  BY <1>2, Ranks
<1>5. ASSUME NEW n \in 1 .. N PROVE s[n] = t[n]
  <2>1. s[n] \in S /\ t[n] \in S /\ C[s[n]] = n - 1 /\ C[t[n]] = n - 1
    BY <1>1, <1>2 DEF Lists
  <2>2. PICK a, b : a = s[n] /\ b = t[n]
    BY Zenon
  <2>3. a \in S /\ b \in S /\ C[a] = C[b]
    BY <2>1, <2>2, Zenon
  <2>4. ~(C[a] < C[b]) /\ ~(C[b] < C[a])
    BY <1>4, <2>3
  <2>5. <<a, b>> \notin R /\ <<b, a>> \notin R
    BY <1>3, <2>3, <2>4, Zenon
  <2> QED
    BY <2>2, <2>3, <2>5, Zenon DEF StrictOrder
<1>6. s = [n \in 1 .. N |-> s[n]] /\ t = [n \in 1 .. N |-> t[n]]
  BY <1>1 DEF Lists
<1>7. [n \in 1 .. N |-> s[n]] = [n \in 1 .. N |-> t[n]]
  BY <1>5
<1> QED
  BY <1>6, <1>7, Zenon

\* A row of the table logs.
LEMMA RowOf ==
    ASSUME NEW is
    PROVE  \A r : r \in Rows(is) <=>
                    \E i \in is : \E k \in DOMAIN log[i].rows : \E l \in log[i].rows[k] :
                       r = [di |-> i, batch |-> k, line |-> l]
  BY DEF Rows, RowsOf

\* Its instruction, batch and line tell it from the others.
LEMMA RowFacts ==
    ASSUME AgentInv, WrittenInv, NEW r \in Rows(Instructions)
    PROVE  /\ r = [di |-> r.di, batch |-> r.batch, line |-> r.line]
           /\ r.di \in Instructions /\ r.batch \in Nat
           /\ r.line \in Lines[r.di] /\ r.line \in DOMAIN Tick /\ r.line \in Nat
           /\ r.batch \in DOMAIN log[r.di].rows
<1>1. PICK i \in Instructions : \E k \in DOMAIN log[i].rows : \E l \in log[i].rows[k] :
         r = [di |-> i, batch |-> k, line |-> l]
  BY RowOf
<1>0. PICK k \in DOMAIN log[i].rows : \E l \in log[i].rows[k] : r = [di |-> i, batch |-> k, line |-> l]
  BY <1>1
<1>2. PICK l \in log[i].rows[k] : r = [di |-> i, batch |-> k, line |-> l]
  BY <1>0
<1>3. log[i].rows \in Seq(SUBSET Nat)
  BY DEF AgentInv, TypeOK, Logger
<1>4. l \in Lines[i]
  BY DEF WrittenInv, Written, WrittenOf, Stored
<1>5. l \in DOMAIN Tick /\ l \in Nat
  BY <1>4, TickAssumption, AgentAssumption
<1>6. k \in Nat
  BY <1>3
<1>7. r.di = i /\ r.batch = k /\ r.line = l
  BY <1>2
<1> QED
  BY <1>2, <1>4, <1>5, <1>6, <1>7

LEMMA RowsFinite ==
    ASSUME AgentInv, WrittenInv
    PROVE  IsFiniteSet(Rows(Instructions))
<1>1. PICK B : B = UNION {DOMAIN log[i].rows : i \in Instructions}
  BY Zenon
<1>2. PICK L : L = UNION {Lines[i] : i \in Instructions}
  BY Zenon
<1>3. IsFiniteSet(B)
  <2>1. PICK f : f = [i \in Instructions |-> DOMAIN log[i].rows]
    BY Zenon
  <2>2. PICK D : D = {DOMAIN log[i].rows : i \in Instructions}
    BY Zenon
  <2>3. f \in Surjection(Instructions, D)
    BY <2>1, <2>2 DEF Surjection
  <2>4. IsFiniteSet(D)
    BY <2>3, AgentAssumption, FS_Surjection
  <2>5. \A T \in D : IsFiniteSet(T)
    <3> SUFFICES ASSUME NEW i \in Instructions PROVE IsFiniteSet(DOMAIN log[i].rows)
      BY <2>2
    <3>1. PICK n \in Nat : DOMAIN log[i].rows = 1 .. n
      BY DEF AgentInv, TypeOK, Logger
    <3> QED
      BY <3>1, FS_Interval
  <2> QED
    BY <1>1, <2>2, <2>4, <2>5, FS_UNION
<1>4. IsFiniteSet(L)
  <2>1. PICK f : f = [i \in Instructions |-> Lines[i]]
    BY Zenon
  <2>2. PICK D : D = {Lines[i] : i \in Instructions}
    BY Zenon
  <2>3. f \in Surjection(Instructions, D)
    BY <2>1, <2>2 DEF Surjection
  <2>4. IsFiniteSet(D)
    BY <2>3, AgentAssumption, FS_Surjection
  <2>5. \A T \in D : IsFiniteSet(T)
    BY <2>2, TickAssumption
  <2> QED
    BY <1>2, <2>2, <2>4, <2>5, FS_UNION
<1>5. IsFiniteSet(B \X L)
  BY <1>3, <1>4, FS_Product
<1>6. IsFiniteSet(Instructions \X (B \X L))
  BY <1>5, AgentAssumption, FS_Product
<1>7. PICK f : f = [r \in Rows(Instructions) |-> <<r.di, <<r.batch, r.line>>>>]
  BY Zenon
<1>8. \A r \in Rows(Instructions) : r.batch \in B /\ r.line \in L
  BY <1>1, <1>2, RowFacts
<1>9. f \in [Rows(Instructions) -> Instructions \X (B \X L)]
  BY <1>7, <1>8, RowFacts
<1>10. ASSUME NEW a \in Rows(Instructions), NEW b \in Rows(Instructions), f[a] = f[b] PROVE a = b
  <2>1. a.di = b.di /\ a.batch = b.batch /\ a.line = b.line
    BY <1>7, <1>10
  <2> QED
    BY <2>1, RowFacts
<1>11. f \in Injection(Rows(Instructions), Instructions \X (B \X L))
  BY <1>9, <1>10 DEF Injection, IsInjective
<1> QED
  BY <1>6, <1>11, FS_Injection

\* ORDER BY on all rows.
RowOrder == {p \in Rows(Instructions) \X Rows(Instructions) : Before(p[1], p[2])}
LEMMA RowOrderIs ==
    ASSUME NEW a \in Rows(Instructions), NEW b \in Rows(Instructions)
    PROVE  <<a, b>> \in RowOrder <=> Before(a, b)
  BY DEF RowOrder

\* The keys of a row are numbers.
LEMMA RowKeys ==
    ASSUME AgentInv, WrittenInv, NEW r \in Rows(Instructions)
    PROVE  /\ Uuid[r.di] \in Nat /\ Tick[r.line] \in Nat /\ Place[r.line] \in Nat /\ r.batch \in Nat
<1>1. r.di \in Instructions /\ r.line \in DOMAIN Tick /\ r.batch \in Nat
  BY RowFacts
<1> QED
  BY <1>1, TickAssumption

LEMMA RowsAreOrdered ==
    ASSUME AgentInv, WrittenInv
    PROVE  StrictOrder(Rows(Instructions), RowOrder)
<1>1. PICK A : A = Rows(Instructions)
  BY Zenon
<1>2. \A r \in A : /\ Uuid[r.di] \in Nat /\ Tick[r.line] \in Nat /\ Place[r.line] \in Nat
                   /\ r.batch \in Nat /\ r.line \in DOMAIN Tick /\ r.di \in Instructions
                   /\ r = [di |-> r.di, batch |-> r.batch, line |-> r.line]
  BY <1>1, RowKeys, RowFacts
<1>3. \A a \in A : ~Before(a, a)
  BY <1>2 DEF Before
<1>4. ASSUME NEW a \in A, NEW b \in A, NEW c \in A, Before(a, b), Before(b, c) PROVE Before(a, c)
  <2>1. /\ Uuid[a.di] \in Nat /\ Uuid[b.di] \in Nat /\ Uuid[c.di] \in Nat
        /\ Tick[a.line] \in Nat /\ Tick[b.line] \in Nat /\ Tick[c.line] \in Nat
        /\ Place[a.line] \in Nat /\ Place[b.line] \in Nat /\ Place[c.line] \in Nat
        /\ a.batch \in Nat /\ b.batch \in Nat /\ c.batch \in Nat
    BY <1>2
  <2> QED
    BY <1>4, <2>1 DEF Before
<1>5. ASSUME NEW a \in A, NEW b \in A PROVE a = b \/ Before(a, b) \/ Before(b, a)
  <2>1. /\ Uuid[a.di] \in Nat /\ Uuid[b.di] \in Nat
        /\ Tick[a.line] \in Nat /\ Tick[b.line] \in Nat
        /\ Place[a.line] \in Nat /\ Place[b.line] \in Nat
        /\ a.batch \in Nat /\ b.batch \in Nat
    BY <1>2
  <2>2. Uuid[a.di] = Uuid[b.di] => a.di = b.di
    BY <1>2, TickAssumption
  <2>3. Place[a.line] = Place[b.line] => a.line = b.line
    BY <1>2, TickAssumption
  <2>4. (a.di = b.di /\ a.batch = b.batch /\ a.line = b.line) => a = b
    BY <1>2
  <2> QED
    BY <2>1, <2>2, <2>3, <2>4 DEF Before
<1>6. \A a, b \in A : <<a, b>> \in RowOrder <=> Before(a, b)
  BY <1>1, RowOrderIs
<1>7. StrictOrder(A, RowOrder)
  <2>1. \A a \in A : <<a, a>> \notin RowOrder
    BY <1>3, <1>6, Zenon
  <2>2. \A a, b, c \in A : <<a, b>> \in RowOrder /\ <<b, c>> \in RowOrder => <<a, c>> \in RowOrder
    BY <1>4, <1>6, Zenon
  <2>3. \A a, b \in A : a = b \/ <<a, b>> \in RowOrder \/ <<b, a>> \in RowOrder
    BY <1>5, <1>6, Zenon
  <2> QED
    BY <2>1, <2>2, <2>3, Zenon DEF StrictOrder
<1> QED
  BY <1>1, <1>7

\* Some of the rows are ordered, and finitely many, too.
LEMMA SomeRows ==
    ASSUME AgentInv, WrittenInv, NEW S \in SUBSET Rows(Instructions)
    PROVE  IsFiniteSet(S) /\ StrictOrder(S, RowOrder)
<1>1. PICK A : A = Rows(Instructions)
  BY Zenon
<1>2. IsFiniteSet(A) /\ StrictOrder(A, RowOrder)
  BY <1>1, RowsFinite, RowsAreOrdered
<1>3. StrictOrder(S, RowOrder)
  BY <1>1, <1>2 DEF StrictOrder
<1> QED
  BY <1>1, <1>2, <1>3, FS_Subset

\* The two queries list their rows in order.
LEMMA OrderedLists ==
    ASSUME AgentInv, WrittenInv, NEW S \in SUBSET Rows(Instructions)
    PROVE  Lists(Ordered(S), S, RowOrder)
<1>1. PICK s, N : s = Ordered(S) /\ N = Cardinality(S)
  BY Zenon
<1>2. IsFiniteSet(S) /\ StrictOrder(S, RowOrder)
  BY SomeRows
<1>3. \A n \in 1 .. N : \E d \in S : Cardinality(Ahead(S, RowOrder, d)) = n - 1
  BY <1>1, <1>2, Ranks
<1>4. ASSUME NEW d \in S PROVE {x \in S : Before(x, d)} = Ahead(S, RowOrder, d)
  <2>1. \A x \in S : <<x, d>> \in RowOrder <=> Before(x, d)
    BY RowOrderIs
  <2> QED
    BY <2>1, Zenon DEF Ahead
<1>5. s = [n \in 1 .. N |-> CHOOSE r \in S : Cardinality({x \in S : Before(x, r)}) = n - 1]
  BY <1>1, Zenon DEF Ordered
<1>6. s = [n \in 1 .. N |-> s[n]]
  <2> DEFINE Row(n) == CHOOSE r \in S : Cardinality({x \in S : Before(x, r)}) = n - 1
  <2>1. s = [n \in 1 .. N |-> Row(n)]
    BY <1>5, Zenon
  <2> HIDE DEF Row
  <2> QED
    BY <2>1
<1>7. ASSUME NEW n \in 1 .. N PROVE s[n] \in S /\ Cardinality(Ahead(S, RowOrder, s[n])) = n - 1
  <2>1. s[n] = CHOOSE r \in S : Cardinality({x \in S : Before(x, r)}) = n - 1
    BY <1>5
  <2>2. \E r \in S : Cardinality({x \in S : Before(x, r)}) = n - 1
    BY <1>3, <1>4, Zenon
  <2>3. s[n] \in S /\ Cardinality({x \in S : Before(x, s[n])}) = n - 1
    BY <2>1, <2>2, Zenon
  <2> QED
    BY <1>4, <2>3, Zenon
<1> QED
  BY <1>1, <1>6, <1>7, Zenon DEF Lists

-----------------------------------------------------------------------------
\* The loop that sorts the rows of a list by instruction keeps their order.
LEMMA SameSize ==
    ASSUME NEW s, NEW A, IsFiniteSet(A), \A p, q \in A : s[p] = s[q] => p = q,
           NEW B, \A x : x \in B <=> \E p \in A : x = s[p]
    PROVE  Cardinality(B) = Cardinality(A)
<1>1. PICK f : f = [p \in A |-> s[p]]
  BY Zenon
<1>2. f \in Surjection(A, B)
  BY <1>1 DEF Surjection
<1>3. f \in Injection(A, B)
  BY <1>1 DEF Injection, IsInjective
<1> QED
  BY <1>2, <1>3, FS_Surjection

LEMMA NthPosition ==
    ASSUME NEW N \in Nat, NEW P \in SUBSET (1 .. N), NEW n \in 1 .. Cardinality(P)
    PROVE  NthOf(P, n) \in P /\ Cardinality({q \in P : q < NthOf(P, n)}) = n - 1
<1>1. PICK Less : Less = {p \in P \X P : p[1] < p[2]}
  BY Zenon
<1>0. IsFiniteSet(1 .. N)
  BY FS_Interval
<1>2. IsFiniteSet(P)
  BY <1>0, FS_Subset
<1>3. \A p, q \in P : <<p, q>> \in Less <=> p < q
  BY <1>1
<1>4. StrictOrder(P, Less)
  <2>1. \A p \in P : p \in Nat
    OBVIOUS
  <2> QED
    BY <1>3, <2>1 DEF StrictOrder
<1>5. \E p \in P : Cardinality(Ahead(P, Less, p)) = n - 1
  BY <1>2, <1>4, Ranks
<1>6. ASSUME NEW p \in P PROVE Ahead(P, Less, p) = {q \in P : q < p}
  <2>1. \A q \in P : <<q, p>> \in Less <=> q < p
    BY <1>3
  <2> QED
    BY <2>1, Zenon DEF Ahead
<1>7. \E p \in P : Cardinality({q \in P : q < p}) = n - 1
  BY <1>5, <1>6, Zenon
<1> QED
  BY <1>7, Zenon DEF NthOf

LEMMA Grouped ==
    ASSUME NEW S, IsFiniteSet(S), NEW R, StrictOrder(S, R), NEW s, Lists(s, S, R),
           NEW i, NEW T, T = {r \in S : r.di = i}
    PROVE  Lists(Appended(s, i), T, R)
<1>1. PICK N : N = Cardinality(S)
  BY Zenon
<1>2. /\ N \in Nat /\ DOMAIN s = 1 .. N
      /\ \A n \in DOMAIN s : n \in Nat /\ s[n] \in S
      /\ \A x \in S : \E n \in DOMAIN s : s[n] = x
      /\ \A m, n \in DOMAIN s : m < n <=> <<s[m], s[n]>> \in R
  BY <1>1, ListFacts
<1>3. ASSUME NEW m \in DOMAIN s, NEW n \in DOMAIN s, s[m] = s[n] PROVE m = n
  <2>1. ~(m < n) /\ ~(n < m)
    BY <1>2, <1>3 DEF StrictOrder
  <2> QED
    BY <1>2, <2>1
<1>4. PICK P : P = PositionsOf(s, i)
  BY Zenon
<1>5. P \in SUBSET (1 .. N) /\ \A p : p \in P <=> p \in DOMAIN s /\ s[p] \in T
  BY <1>2, <1>4 DEF PositionsOf
<1>6. IsFiniteSet(P)
  BY <1>2, <1>5, FS_Interval, FS_Subset
<1>7. Cardinality(T) = Cardinality(P)
  <2>1. \A x : x \in T <=> \E p \in P : x = s[p]
    BY <1>2, <1>5
  <2>2. \A p, q \in P : s[p] = s[q] => p = q
    BY <1>3, <1>5
  <2> QED
    BY <1>6, <2>1, <2>2, SameSize
<1>8. ASSUME NEW p \in P PROVE Cardinality(Ahead(T, R, s[p])) = Cardinality({q \in P : q < p})
  <2>1. PICK A, B : A = {q \in P : q < p} /\ B = Ahead(T, R, s[p])
    BY Zenon
  <2>2. A \in SUBSET P
    BY <2>1
  <2>3. IsFiniteSet(A)
    BY <1>6, <2>2, FS_Subset
  <2>4. \A x \in A, y \in A : s[x] = s[y] => x = y
    BY <1>3, <1>5, <2>2
  <2>5. \A x : x \in B <=> \E q \in A : x = s[q]
    <3>1. ASSUME NEW x \in B PROVE \E q \in A : x = s[q]
      <4>1. x \in T /\ <<x, s[p]>> \in R
        BY <2>1 DEF Ahead
      <4>2. PICK q \in DOMAIN s : s[q] = x
        BY <1>2, <4>1
      <4>3. q \in P /\ q < p
        BY <1>2, <1>5, <4>1, <4>2
      <4> QED
        BY <2>1, <4>2, <4>3
    <3>2. ASSUME NEW q \in A PROVE s[q] \in B
      BY <1>2, <1>5, <2>1 DEF Ahead
    <3> QED
      BY <3>1, <3>2
  <2>6. Cardinality(B) = Cardinality(A)
    BY <2>3, <2>4, <2>5, SameSize
  <2> QED
    BY <2>1, <2>6
<1>9. PICK t : t = Appended(s, i)
  BY Zenon
<1>10. t = [n \in 1 .. Cardinality(P) |-> s[NthOf(P, n)]]
  BY <1>4, <1>9, Zenon DEF Appended
<1>11. t = [n \in 1 .. Cardinality(P) |-> t[n]] /\ \A n \in 1 .. Cardinality(P) : t[n] = s[NthOf(P, n)]
  BY <1>10
<1>12. ASSUME NEW n \in 1 .. Cardinality(P)
       PROVE  t[n] \in T /\ Cardinality(Ahead(T, R, t[n])) = n - 1
  <2>1. PICK p : p = NthOf(P, n)
    BY Zenon
  <2>0. NthOf(P, n) \in P /\ Cardinality({q \in P : q < NthOf(P, n)}) = n - 1
    BY <1>2, <1>5, NthPosition, Zenon
  <2>2. p \in P /\ Cardinality({q \in P : q < p}) = n - 1
    BY <2>0, <2>1, Zenon
  <2>3. t[n] = s[p]
    BY <1>11, <2>1
  <2>4. Cardinality(Ahead(T, R, s[p])) = n - 1 /\ s[p] \in T
    BY <1>5, <1>8, <2>2, Zenon
  <2> QED
    BY <2>3, <2>4, Zenon
<1>13. t = [n \in 1 .. Cardinality(T) |-> t[n]]
  BY <1>7, <1>11, Zenon
<1>14. \A n \in 1 .. Cardinality(T) : t[n] \in T /\ Cardinality(Ahead(T, R, t[n])) = n - 1
  BY <1>7, <1>12, Zenon
<1>15. Lists(t, T, R)
  BY <1>13, <1>14, Zenon DEF Lists
<1> QED
  BY <1>9, <1>15

\* A list of the rows of an instruction is in order.
LEMMA ListedInOrder ==
    ASSUME AgentInv, WrittenInv, NEW i \in Instructions, NEW s, Lists(s, Rows({i}), RowOrder),
           Rows({i}) \in SUBSET Rows(Instructions)
    PROVE  InOrder(s)
<1>1. PICK T : T = Rows({i})
  BY Zenon
<1>2. \A r \in T : r.di = i
  BY <1>1, RowOf
<1>3. IsFiniteSet(T) /\ StrictOrder(T, RowOrder)
  BY <1>1, SomeRows
<1>4. /\ \A n \in DOMAIN s : s[n] \in T
      /\ \A m, n \in DOMAIN s : m < n <=> <<s[m], s[n]>> \in RowOrder
  BY <1>1, <1>3, ListFacts
<1> SUFFICES ASSUME NEW k \in DOMAIN s, NEW m \in DOMAIN s, k < m, s[k].line > s[m].line
             PROVE  Tick[s[k].line] = Tick[s[m].line]
  BY DEF InOrder
<1>5. PICK a, b : a = s[k] /\ b = s[m]
  BY Zenon
<1>6. a \in T /\ b \in T /\ <<a, b>> \in RowOrder /\ a.line > b.line
  BY <1>4, <1>5
<1>7. a \in Rows(Instructions) /\ b \in Rows(Instructions)
  BY <1>1, <1>6
<1>8. Before(a, b)
  BY <1>6, <1>7, RowOrderIs
<1>9. a.di = b.di
  BY <1>2, <1>6
<1>10. /\ Uuid[a.di] \in Nat /\ Tick[a.line] \in Nat /\ Tick[b.line] \in Nat
       /\ a.line \in DOMAIN Tick /\ b.line \in DOMAIN Tick /\ a.line \in Nat /\ b.line \in Nat
  BY <1>7, RowKeys, RowFacts
<1>11. Tick[b.line] <= Tick[a.line]
  BY <1>6, <1>10, TickAssumption
<1>12. Tick[a.line] <= Tick[b.line]
  BY <1>8, <1>9, <1>10 DEF Before
<1> QED
  BY <1>5, <1>10, <1>11, <1>12

LEMMA RowsOfOne ==
    ASSUME NEW i \in Instructions
    PROVE  Rows({i}) = {r \in Rows(Instructions) : r.di = i}
<1>1. \A r : r \in Rows({i}) <=>
               \E k \in DOMAIN log[i].rows : \E l \in log[i].rows[k] : r = [di |-> i, batch |-> k, line |-> l]
  BY RowOf
<1>2. \A r : r \in Rows(Instructions) /\ r.di = i <=>
               \E k \in DOMAIN log[i].rows : \E l \in log[i].rows[k] : r = [di |-> i, batch |-> k, line |-> l]
  BY RowOf
<1> QED
  BY <1>1, <1>2

\* What the history shows of an instruction is the list of its rows.
LEMMA HistoryShows ==
    ASSUME AgentInv, WrittenInv, NEW i \in Instructions
    PROVE  Lists(loadDeployLogs(Instructions)[i], Rows({i}), RowOrder)
<1>1. PICK A, T, s : A = Rows(Instructions) /\ T = Rows({i}) /\ s = LogsByDeployInstructions(Instructions)
  BY Zenon
<1>2. T = {r \in A : r.di = i} /\ T \in SUBSET A
  BY <1>1, RowsOfOne
<1>3. IsFiniteSet(A) /\ StrictOrder(A, RowOrder) /\ Lists(s, A, RowOrder)
  BY <1>1, SomeRows, OrderedLists DEF LogsByDeployInstructions
<1>4. Lists(Appended(s, i), T, RowOrder)
  BY <1>2, <1>3, Grouped
<1>5. PICK byID : byID = GetLogLinesForDeployInstructions(Instructions)
  BY Zenon
<1>6. byID = [j \in {s[p].di : p \in DOMAIN s} |-> Appended(s, j)]
  BY <1>1, <1>5, Zenon DEF GetLogLinesForDeployInstructions
<1>7. loadDeployLogs(Instructions)[i] = IF i \in DOMAIN byID THEN byID[i] ELSE <<>>
  BY <1>5, Zenon DEF loadDeployLogs
<1>8. CASE i \in DOMAIN byID
  <2>1. byID[i] = Appended(s, i)
    BY <1>6, <1>8, Zenon
  <2> QED
    BY <1>1, <1>4, <1>7, <1>8, <2>1, Zenon
<1>9. CASE i \notin DOMAIN byID
  <2>1. \A p \in DOMAIN s : s[p].di # i
    BY <1>6, <1>9
  <2>2. T = {}
    <3>1. \A x \in A : \E n \in DOMAIN s : s[n] = x
      BY <1>3, ListFacts
    <3> QED
      BY <1>2, <2>1, <3>1
  <2>3. Cardinality(T) = 0
    BY <2>2, FS_EmptySet
  <2>4. <<>> = [n \in 1 .. 0 |-> <<>>[n]]
    OBVIOUS
  <2>5. Lists(<<>>, T, RowOrder)
    BY <2>3, <2>4 DEF Lists
  <2> QED
    BY <1>1, <1>7, <1>9, <2>5, Zenon
<1> QED
  BY <1>8, <1>9

LEMMA LogReads ==
    ASSUME AgentInv, WrittenInv
    PROVE  LogReadsAsWritten
<1>1. PICK shown : shown = loadDeployLogs(Instructions)
  BY Zenon
<1>2. ASSUME NEW i \in Instructions
      PROVE  /\ InOrder(shown[i])
             /\ Kind[i] = "uninstall" => UninstallLog(i) = shown[i]
             /\ (handler[i] = "done" /\ log[i].taken = {} /\ log[i].wire = {}) =>
                   Lines[i] \ log[i].lost \subseteq {shown[i][n].line : n \in DOMAIN shown[i]}
  <2>1. PICK s, T : s = shown[i] /\ T = Rows({i})
    BY Zenon
  <2>2. Lists(s, T, RowOrder)
    BY <1>1, <2>1, HistoryShows
  <2>3. T \in SUBSET Rows(Instructions)
    BY <2>1, RowsOfOne
  <2>4. InOrder(s)
    BY <2>1, <2>2, <2>3, ListedInOrder
  <2>5. IsFiniteSet(T) /\ StrictOrder(T, RowOrder)
    BY <2>3, SomeRows
  <2>6. ASSUME Kind[i] = "uninstall" PROVE UninstallLog(i) = s
    <3>1. UninstallLog(i) = Ordered(T)
      BY <2>1, <2>6, Zenon DEF UninstallLog, LogsByDeployInstruction
    <3>2. Lists(Ordered(T), T, RowOrder)
      BY <2>3, OrderedLists
    <3> QED
      BY <2>2, <2>5, <3>1, <3>2, OneList
  <2>7. ASSUME handler[i] = "done", log[i].taken = {}, log[i].wire = {},
               NEW l \in Lines[i] \ log[i].lost
        PROVE  \E n \in DOMAIN s : s[n].line = l
    <3>1. WrittenOf(log[i]) = Lines[i] /\ log[i].buf = {}
      BY <2>7 DEF AgentInv, LogInv, Written
    <3>2. l \in Stored(log[i])
      BY <2>7, <3>1 DEF WrittenOf
    <3>3. PICK k \in DOMAIN log[i].rows : l \in log[i].rows[k]
      BY <3>2 DEF Stored
    <3>4. PICK r : r = [di |-> i, batch |-> k, line |-> l]
      BY Zenon
    <3>5. r \in T /\ r.line = l
      BY <2>1, <3>3, <3>4, RowOf
    <3>6. \A x \in T : \E n \in DOMAIN s : s[n] = x
      BY <2>2, <2>5, ListFacts
    <3> QED
      BY <3>5, <3>6
  <2>8. (handler[i] = "done" /\ log[i].taken = {} /\ log[i].wire = {}) =>
           Lines[i] \ log[i].lost \subseteq {s[n].line : n \in DOMAIN s}
    BY <2>7
  <2> QED
    BY <2>1, <2>4, <2>6, <2>8, Zenon
<1> QED
  BY <1>1, <1>2, ZenonT(60) DEF LogReadsAsWritten

\* The log of a deployment, on the pages that show it: in whatever order naisd
\* published the messages, Pub/Sub delivered them, once or again, and Fasit
\* stored them, its lines are listed as they were written, however the database
\* orders lines of the same time, and none is missing without a failure.
THEOREM PagesShowLogsAsWritten == Spec => []LogReadsAsWritten
<1>1. Init => WrittenInv
  BY DEF Init, NewLog, WrittenInv, Written, WrittenOf, Stored
<1>2. AgentInv /\ WrittenInv => LogReadsAsWritten
  BY LogReads
<1> QED
  BY <1>1, <1>2, WrittenStep, AgentInvariant, PTL DEF Spec
=============================================================================
