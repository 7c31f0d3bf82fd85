------------------------- MODULE CurrentTableProofs -------------------------
(***************************************************************************)
(* The current tables of migration 0098 show what the views of migration   *)
(* 0093 showed, for any keys, any number of overlapping statements and any *)
(* order of commits.                                                       *)
(***************************************************************************)
EXTENDS CurrentTable, TLAPS

\* The rows of a key are ordered by (created, id), and NoRow is before all.
LEMMA LaterOrders ==
    ASSUME NEW r \in AnyRow, NEW s \in AnyRow, NEW q \in AnyRow
    PROVE  /\ Later(r, s) /\ Later(s, q) => Later(r, q)
           /\ r.id # s.id => Later(r, s) \/ Later(s, r)
           /\ ~(Later(r, s) /\ Later(s, r))
  BY DEF AnyRow, Row, NoRow, View!Row, View!NoRow, Later, View!Later

\* Every row of the log is after the absence of one.
LEMMA LaterThanNone ==
    ASSUME NEW r \in Row, NEW k \in Keys
    PROVE  Later(r, NoRow(k)) /\ NoRow(k) \notin Row /\ r.id # NoRow(k).id
  BY DEF Row, NoRow, View!Row, View!NoRow, Later, View!Later

\* What the trigger leaves for a key when it adds the row r to a log whose
\* latest row it has read: the latest row of the log with r.
LEMMA UpsertIsLatest ==
    ASSUME NEW k \in Keys, NEW rows \in SUBSET Row, NEW r \in Row, r.key = k,
           NEW old \in AnyRow, View!IsLatest(old, k, rows),
           \A s \in rows : s.id # r.id,
           NEW more \in SUBSET Row, \A s \in more : s.key # k \/ s = r, r \in more
    PROVE  View!IsLatest(Upsert(r, old), k, rows \cup more)
<1>1. old.id # r.id /\ old.key = k
  BY LaterThanNone DEF View!IsLatest, NoRow
<1>2. CASE Later(r, old)
  <2>1. ASSUME NEW s \in rows \cup more, s.key = k, s # r PROVE Later(r, s)
    <3>1. s \in rows /\ s \in AnyRow /\ r \in AnyRow BY <2>1 DEF AnyRow
    <3>2. s = old \/ Later(old, s) BY <2>1, <3>1 DEF View!IsLatest, Later
    <3> QED BY <1>2, <3>1, <3>2, LaterOrders
  <2>2. Upsert(r, old) = r BY <1>2 DEF Upsert
  <2> QED BY <2>1, <2>2 DEF View!IsLatest, Later
<1>3. CASE ~Later(r, old)
  <2>1. Later(old, r) BY <1>1, <1>3, LaterOrders DEF AnyRow
  <2>2. old \in rows BY <1>3, LaterThanNone DEF View!IsLatest, NoRow
  <2>3. Upsert(r, old) = old BY <1>3 DEF Upsert
  <2> QED BY <1>1, <2>1, <2>2, <2>3 DEF View!IsLatest, Later
<1> QED BY <1>2, <1>3

\* Adding rows of other keys does not change what the view shows for a key.
LEMMA OtherRows ==
    ASSUME NEW k \in Keys, NEW rows \in SUBSET Row, NEW more \in SUBSET Row,
           NEW old \in AnyRow, View!IsLatest(old, k, rows), \A s \in more : s.key # k
    PROVE  View!IsLatest(old, k, rows \cup more)
  BY DEF View!IsLatest

-----------------------------------------------------------------------------
\* The row that a statement inserts.
LEMMA RowType ==
    ASSUME NEW k \in Keys, NEW c \in Nat \ {0}, NEW i \in Nat \ {0}, NEW s \in Status
    PROVE  [key |-> k, created |-> c, id |-> i, status |-> s] \in Row
  BY DEF Row, View!Row

\* A transaction as Begin leaves it.
LEMMA TxBegin ==
    ASSUME NEW keys \in SUBSET Keys, NEW status \in Status,
           NEW c \in Nat
    PROVE  [NotBegun EXCEPT !.phase = "insert", !.created = c, !.status = status,
                            !.todo = keys] \in Tx
<1>1. NotBegun \in Tx BY DEF NotBegun, Tx, AnyRow
<1> QED BY <1>1 DEF Tx

\* A transaction as Insert leaves it.
LEMMA TxInsert ==
    ASSUME NEW x \in Tx, NEW r \in Row, NEW k \in Keys, NEW p \in {"insert", "fire"}
    PROVE  [x EXCEPT !.todo = x.todo \ {k}, !.phase = p, !.rows = x.rows \cup {r}] \in Tx
  BY DEF Tx

\* A transaction as Fire leaves it.
LEMMA TxFire ==
    ASSUME NEW x \in Tx, NEW k \in Keys, NEW r \in AnyRow
    PROVE  [x EXCEPT !.own = [x.own EXCEPT ![k] = r]] \in Tx
  BY DEF Tx

\* A transaction as Release leaves it.
LEMMA TxRelease ==
    ASSUME NEW x \in Tx
    PROVE  [x EXCEPT !.phase = "done"] \in Tx
  BY DEF Tx

\* The initial state: no rows, no transaction.
LEMMA InitInv == Init => CurrentInv
<1> SUFFICES ASSUME Init PROVE CurrentInv OBVIOUS
<1>1. TypeOK
  <2>1. clock \in 1 .. MaxClock /\ nextId \in Nat \ {0} BY MaxClockAssumption DEF Init
  <2>2. NotBegun \in Tx /\ [k \in Keys |-> NoRow(k)] \in [Keys -> AnyRow]
    BY DEF NotBegun, Tx, AnyRow
  <2> QED BY <2>1, <2>2 DEF Init, TypeOK
<1>2. IdsInv /\ RowsInv BY DEF Init, IdsInv, RowsInv, NotBegun
<1>3. LockInv BY NoTxAssumption DEF Init, LockInv
<1>4. CurrentIsLatest BY DEF Init, CurrentIsLatest, NoRow, View!IsLatest, View!NoRow
<1> QED BY <1>1, <1>2, <1>3, <1>4 DEF CurrentInv

\* Begin (BeginAppend, BeginTimeout): nothing is written or locked yet.
LEMMA BeginKeeps ==
    ASSUME CurrentInv, NEW t \in Txs, NEW keys \in SUBSET Keys, NEW status \in Status,
           Begin(t, keys, status)
    PROVE  CurrentInv'
<1> USE DEF CurrentInv
<1>1. TypeOK'
  <2>0. clock \in Nat BY MaxClockAssumption DEF TypeOK
  <2>1. tx'[t] \in Tx BY <2>0, TxBegin DEF Begin, TypeOK
  <2> QED BY <2>1 DEF Begin, TypeOK
<1>2. IdsInv' BY DEF Begin, TypeOK, NotBegun, IdsInv, Tx
<1>3. RowsInv' BY DEF Begin, TypeOK, NotBegun, RowsInv, Tx
<1>4. LockInv' BY DEF Begin, TypeOK, NotBegun, LockInv, Tx
<1>5. CurrentIsLatest' BY DEF Begin, CurrentIsLatest
<1> QED BY <1>1, <1>2, <1>3, <1>4, <1>5

\* Insert: a fresh id, a key that the transaction has not written.
LEMMA InsertKeeps ==
    ASSUME CurrentInv, NEW t \in Txs, NEW k \in Keys, Insert(t, k)
    PROVE  CurrentInv'
<1> USE DEF CurrentInv
<1> DEFINE row == [key |-> k, created |-> tx[t].created, id |-> nextId, status |-> tx[t].status]
<1> DEFINE phase == IF tx[t].todo = {k} THEN "fire" ELSE "insert"
<1>0. row \in Row
  <2>0. tx[t].created > 0 /\ tx[t].status \in Status BY DEF Insert, RowsInv
  <2>1. tx[t].created \in Nat \ {0} /\ nextId \in Nat \ {0} BY <2>0 DEF TypeOK, Tx
  <2> QED BY <2>0, <2>1, RowType
<1>1. /\ \A u \in Txs \ {t} : tx'[u] = tx[u]
      /\ tx'[t] = [tx[t] EXCEPT !.todo = tx[t].todo \ {k},
                     !.phase = phase, !.rows = tx[t].rows \cup {row}]
      /\ tx[t].phase = "insert" /\ k \in tx[t].todo
      /\ nextId' = nextId + 1 /\ UNCHANGED <<clock, lock, log, current>>
  BY DEF Insert, TypeOK, Tx
<1>2. tx'[t].rows = tx[t].rows \cup {row} /\ tx'[t].phase \in {"insert", "fire"}
      /\ tx'[t].todo = tx[t].todo \ {k} /\ tx'[t].own = tx[t].own
      /\ tx'[t].created = tx[t].created /\ tx'[t].status = tx[t].status
  BY <1>1 DEF TypeOK, Tx
<1>3. TypeOK'
  <2>0. phase \in {"insert", "fire"} OBVIOUS
  <2> HIDE DEF row, phase
  <2>1. tx[t] \in Tx BY DEF TypeOK
  <2>2. [tx[t] EXCEPT !.todo = tx[t].todo \ {k}, !.phase = phase,
                      !.rows = tx[t].rows \cup {row}] \in Tx
    BY <1>0, <2>0, <2>1, TxInsert
  <2>3. tx' \in [Txs -> Tx] BY <1>1, <2>2, Zenon DEF TypeOK, Insert
  <2> QED BY <1>1, <2>3 DEF TypeOK
<1> HIDE DEF row
<1>4. row.id = nextId /\ row.key = k BY DEF row
<1>5. IdsInv'
  <2>1. \A u \in Txs : \A r \in tx[u].rows : r.id # nextId BY DEF IdsInv, TypeOK, Tx, Row, View!Row
  <2>2. \A r \in log : r.id # nextId BY DEF IdsInv, TypeOK, Tx, Row, View!Row
  <2>3. \A u \in Txs : \A r \in tx'[u].rows : (u = t /\ r = row) \/ r \in tx[u].rows BY <1>1, <1>2
  <2>4. \A u \in Txs : tx'[u].phase # "done" => tx[u].phase # "done" BY <1>1
  <2>5. \A n \in Nat : n < nextId => n < nextId' BY <1>1 DEF TypeOK
  <2>6. /\ \A r, s \in log' : r.id = s.id => r = s
        /\ \A r \in log' : r.id < nextId'
    BY <1>1, <2>5 DEF IdsInv, TypeOK, Tx, Row, View!Row
  <2>7. ASSUME NEW u \in Txs, NEW r \in tx'[u].rows PROVE r.id < nextId'
    <3>1. CASE r = row BY <1>1, <1>4, <3>1 DEF TypeOK
    <3>2. CASE r \in tx[u].rows BY <2>5, <3>2 DEF IdsInv, TypeOK, Tx, Row, View!Row
    <3> QED BY <2>3, <3>1, <3>2
  <2>8. ASSUME NEW u \in Txs, NEW r \in tx'[u].rows, tx'[u].phase # "done", NEW s \in log'
        PROVE  s.id # r.id
    BY <1>1, <1>4, <2>2, <2>3, <2>4, <2>8 DEF IdsInv
  <2>9. ASSUME NEW u \in Txs, NEW r \in tx'[u].rows, NEW w \in Txs, NEW s \in tx'[w].rows,
               s.id = r.id
        PROVE  u = w /\ s = r
    BY <1>4, <2>1, <2>3, <2>9 DEF IdsInv
  <2> QED BY <2>6, <2>7, <2>8, <2>9 DEF IdsInv
<1>6. RowsInv'
  <2>1. ASSUME NEW u \in Txs, u # t
        PROVE  /\ tx'[u].phase \in {"insert", "fire"} => tx'[u].created > 0 /\ tx'[u].status \in Status
               /\ \A r, s \in tx'[u].rows : r.key = s.key => r = s
               /\ \A r \in tx'[u].rows : r.key \notin tx'[u].todo
    BY <1>1, <2>1 DEF RowsInv
  <2>2. tx'[t].created > 0 /\ tx'[t].status \in Status BY <1>1, <1>2 DEF RowsInv
  <2>3. \A r \in tx[t].rows : r.key # k BY <1>1 DEF RowsInv
  <2>4. \A r, s \in tx'[t].rows : r.key = s.key => r = s BY <1>2, <1>4, <2>3 DEF RowsInv
  <2>5. \A r \in tx'[t].rows : r.key \notin tx'[t].todo BY <1>2, <1>4 DEF RowsInv
  <2> QED BY <2>1, <2>2, <2>4, <2>5 DEF RowsInv
<1>7. LockInv'
  <2>1. \A j \in Keys : lock[j] # t BY <1>1 DEF LockInv
  <2> QED BY <1>1, <2>1 DEF LockInv
<1>8. CurrentIsLatest' BY <1>1 DEF CurrentIsLatest
<1> QED BY <1>3, <1>5, <1>6, <1>7, <1>8

\* Fire: the trigger of one row; the lock is free and becomes its own.
LEMMA FireKeeps ==
    ASSUME CurrentInv, NEW t \in Txs, NEW r \in tx[t].rows, Fire(t, r)
    PROVE  CurrentInv'
<1> USE DEF CurrentInv
<1>0. r \in Row /\ r.key \in Keys BY DEF TypeOK, Tx, Row, View!Row
<1>1. /\ \A u \in Txs \ {t} : tx'[u] = tx[u]
      /\ tx'[t] = [tx[t] EXCEPT !.own = [tx[t].own EXCEPT ![r.key] = Upsert(r, current[r.key])]]
      /\ tx[t].phase = "fire" /\ lock[r.key] = NoTx
      /\ lock' = [lock EXCEPT ![r.key] = t]
      /\ UNCHANGED <<clock, nextId, log, current>>
  BY DEF Fire, TypeOK, Tx
<1>2. /\ tx'[t].rows = tx[t].rows /\ tx'[t].phase = "fire" /\ tx'[t].todo = tx[t].todo
      /\ tx'[t].created = tx[t].created /\ tx'[t].status = tx[t].status
      /\ tx'[t].own = [tx[t].own EXCEPT ![r.key] = Upsert(r, current[r.key])]
  BY <1>1 DEF TypeOK, Tx
<1>3. TypeOK'
  <2>1. Upsert(r, current[r.key]) \in AnyRow BY <1>0 DEF TypeOK, Upsert, AnyRow
  <2>2. tx'[t] \in Tx BY <1>0, <1>1, <2>1, TxFire DEF TypeOK
  <2> QED BY <1>0, <1>1, <2>2 DEF TypeOK, Fire
<1>4. \A u \in Txs : /\ tx'[u].rows = tx[u].rows /\ tx'[u].phase = tx[u].phase
                     /\ tx'[u].todo = tx[u].todo /\ tx'[u].created = tx[u].created
                     /\ tx'[u].status = tx[u].status
  BY <1>1, <1>2
<1>5. IdsInv' BY <1>1, <1>4 DEF IdsInv
<1>6. RowsInv' BY <1>4 DEF RowsInv
<1>7. LockInv'
  <2> SUFFICES ASSUME NEW k \in Keys, NEW u \in Txs, lock'[k] = u
               PROVE  /\ tx'[u].phase = "fire"
                      /\ \E s \in tx'[u].rows : s.key = k /\ tx'[u].own[k] = Upsert(s, current'[k])
    BY DEF LockInv
  <2>1. CASE k = r.key
    <3>1. u = t BY <1>0, <1>1, <2>1 DEF TypeOK
    <3>2. tx'[t].own[r.key] = Upsert(r, current[r.key]) BY <1>0, <1>2 DEF TypeOK, Tx
    <3> QED BY <1>1, <1>2, <2>1, <3>1, <3>2
  <2>2. CASE k # r.key
    <3>1. lock[k] = u BY <1>1, <2>2 DEF TypeOK
    <3>2. tx'[u].own[k] = tx[u].own[k] BY <1>1, <1>2, <2>2 DEF TypeOK, Tx
    <3> QED BY <1>1, <1>4, <3>1, <3>2 DEF LockInv
  <2> QED BY <2>1, <2>2
<1>8. CurrentIsLatest' BY <1>1 DEF CurrentIsLatest
<1> QED BY <1>3, <1>5, <1>6, <1>7, <1>8

\* Abort: the rows are forgotten, the locks are free.
LEMMA AbortKeeps ==
    ASSUME CurrentInv, NEW t \in Txs, Abort(t)
    PROVE  CurrentInv'
<1> USE DEF CurrentInv
<1>1. \A u \in Txs : /\ tx'[u].rows = tx[u].rows /\ tx'[u].own = tx[u].own
                     /\ tx'[u].todo = tx[u].todo /\ tx'[u].created = tx[u].created
                     /\ tx'[u].status = tx[u].status
                     /\ (u # t => tx'[u].phase = tx[u].phase)
  BY DEF Abort, Release, TypeOK, Tx
<1>2. tx'[t].phase = "done" /\ UNCHANGED <<clock, nextId, log, current>>
  BY DEF Abort, Release, TypeOK, Tx
<1>3. TypeOK' BY TxRelease DEF Abort, Release, TypeOK
<1>4. IdsInv' BY <1>1, <1>2 DEF IdsInv
<1>5. RowsInv' BY <1>1, <1>2 DEF RowsInv
<1>6. LockInv'
  <2>1. \A k \in Keys : lock'[k] # t /\ (lock'[k] \in Txs => lock[k] = lock'[k])
    BY NoTxAssumption DEF Abort, Release, TypeOK
  <2> QED BY <1>1, <1>2, <2>1 DEF LockInv
<1>7. CurrentIsLatest' BY <1>2 DEF CurrentIsLatest
<1> QED BY <1>3, <1>4, <1>5, <1>6, <1>7

\* Commit: every key the transaction has written is locked by it, so the rows
\* that its triggers computed are still the right ones.
LEMMA CommitKeeps ==
    ASSUME CurrentInv, NEW t \in Txs, Commit(t)
    PROVE  CurrentInv'
<1> USE DEF CurrentInv
<1> DEFINE rows == tx[t].rows
<1>1. \A u \in Txs : /\ tx'[u].rows = tx[u].rows /\ tx'[u].own = tx[u].own
                     /\ tx'[u].todo = tx[u].todo /\ tx'[u].created = tx[u].created
                     /\ tx'[u].status = tx[u].status
                     /\ (u # t => tx'[u].phase = tx[u].phase)
  BY DEF Commit, Release, TypeOK, Tx
<1>2. /\ tx'[t].phase = "done" /\ tx[t].phase = "fire" /\ UNCHANGED <<clock, nextId>>
      /\ log' = log \cup rows /\ \A r \in rows : lock[r.key] = t
      /\ \A k \in Keys : current'[k] = IF lock[k] = t THEN tx[t].own[k] ELSE current[k]
  BY DEF Commit, Release, TypeOK, Tx
<1>3. rows \subseteq Row /\ log \subseteq Row /\ \A k \in Keys : current[k] \in AnyRow
  BY DEF TypeOK, Tx
<1>4. TypeOK'
  <2>1. tx' \in [Txs -> Tx] BY TxRelease DEF Commit, Release, TypeOK
  <2>2. current' \in [Keys -> AnyRow] BY DEF Commit, TypeOK, Tx
  <2>3. lock' \in [Keys -> Txs \cup {NoTx}] BY DEF Commit, Release, TypeOK
  <2> QED BY <1>2, <1>3, <2>1, <2>2, <2>3 DEF TypeOK
<1>5. \A s \in log : \A r \in rows : s.id # r.id BY <1>2 DEF IdsInv
<1>6. IdsInv'
  <2>1. \A r, s \in log' : r.id = s.id => r = s BY <1>2, <1>5 DEF IdsInv
  <2>2. \A r \in log' : r.id < nextId' BY <1>2 DEF IdsInv
  <2>3. ASSUME NEW u \in Txs, NEW r \in tx'[u].rows, tx'[u].phase # "done", NEW s \in log'
        PROVE  s.id # r.id
    BY <1>1, <1>2, <2>3 DEF IdsInv
  <2> QED BY <1>1, <1>2, <2>1, <2>2, <2>3 DEF IdsInv
<1>7. RowsInv' BY <1>1, <1>2 DEF RowsInv
<1>8. LockInv'
  <2>1. \A k \in Keys : lock'[k] # t /\ (lock'[k] \in Txs => lock[k] = lock'[k])
    BY NoTxAssumption DEF Commit, Release, TypeOK
  <2> QED BY <1>1, <1>2, <2>1 DEF LockInv
<1>9. CurrentIsLatest'
  <2> SUFFICES ASSUME NEW k \in Keys PROVE View!IsLatest(current'[k], k, log')
    BY DEF CurrentIsLatest
  <2>1. View!IsLatest(current[k], k, log) BY DEF CurrentIsLatest
  <2>2. CASE lock[k] = t
    <3>1. PICK r \in rows : r.key = k /\ tx[t].own[k] = Upsert(r, current[k])
      BY <2>2 DEF LockInv
    <3>2. \A s \in rows : s.key # k \/ s = r BY <3>1 DEF RowsInv
    <3> QED BY <1>2, <1>3, <1>5, <2>1, <2>2, <3>1, <3>2, UpsertIsLatest
  <2>3. CASE lock[k] # t
    <3>1. \A s \in rows : s.key # k BY <1>2, <2>3
    <3> QED BY <1>2, <1>3, <2>1, <2>3, <3>1, OtherRows
  <2> QED BY <2>2, <2>3
<1> QED BY <1>4, <1>6, <1>7, <1>8, <1>9

\* Every step of the specification keeps the invariant.
LEMMA NextKeeps == CurrentInv /\ [Next]_vars => CurrentInv'
<1> SUFFICES ASSUME CurrentInv, [Next]_vars PROVE CurrentInv' OBVIOUS
<1>1. CASE Tick
  <2>1. TypeOK' BY <1>1, MaxClockAssumption DEF Tick, TypeOK, CurrentInv
  <2> QED BY <1>1, <2>1 DEF Tick, CurrentInv, IdsInv, RowsInv, LockInv, CurrentIsLatest
<1>2. CASE UNCHANGED vars
  BY <1>2 DEF vars, CurrentInv, TypeOK, IdsInv, RowsInv, LockInv, CurrentIsLatest
<1>3. ASSUME NEW t \in Txs, BeginAppend(t) PROVE CurrentInv'
  <2>1. PICK keys \in SUBSET Keys, status \in Reported : Begin(t, keys, status)
    BY <1>3 DEF BeginAppend
  <2>2. status \in Status BY ReportedAssumption DEF Status
  <2> QED BY <2>1, <2>2, BeginKeeps
<1>4. ASSUME NEW t \in Txs, BeginTimeout(t) PROVE CurrentInv'
  <2>1. PICK keys \in SUBSET Keys : Begin(t, keys, "failed")
    BY <1>4 DEF BeginTimeout
  <2>2. "failed" \in Status BY DEF Status
  <2> QED BY <2>1, <2>2, BeginKeeps
<1>5. ASSUME NEW t \in Txs, NEW k \in tx[t].todo, Insert(t, k) PROVE CurrentInv'
  <2>1. k \in Keys BY DEF CurrentInv, TypeOK, Tx
  <2> QED BY <1>5, <2>1, InsertKeeps
<1>6. ASSUME NEW t \in Txs, NEW r \in tx[t].rows, Fire(t, r) PROVE CurrentInv'
  BY <1>6, FireKeeps
<1>7. ASSUME NEW t \in Txs, Commit(t) PROVE CurrentInv'
  BY <1>7, CommitKeeps
<1>8. ASSUME NEW t \in Txs, Abort(t) PROVE CurrentInv'
  BY <1>8, AbortKeeps
<1> QED BY <1>1, <1>2, <1>3, <1>4, <1>5, <1>6, <1>7, <1>8 DEF Next

-----------------------------------------------------------------------------
\* The inductive invariant of the trigger: ids are unique, the locks protect
\* what a running transaction has computed.
THEOREM CurrentInvariant == Spec => []CurrentInv
  BY InitInv, NextKeeps, PTL DEF Spec

\* deploy_current and decision_current hold the latest committed row of every
\* key, whatever the order in which overlapping statements commit.
THEOREM TableIsLatest == Spec => []CurrentIsLatest
<1>1. CurrentInv => CurrentIsLatest BY DEF CurrentInv
<1> QED BY <1>1, CurrentInvariant, PTL

\* A step of the tables is a commit as the views show it, or invisible there.
LEMMA StepRefines ==
    ASSUME CurrentInv, CurrentInv', [Next]_vars
    PROVE  [View!Commit]_<<log, current>>
<1>1. ASSUME NEW t \in Txs, Commit(t) PROVE View!Commit
  <2>1. log \subseteq log' BY <1>1 DEF Commit
  <2>2. log' \subseteq View!Row BY DEF CurrentInv, TypeOK, Row
  <2>3. current' = [k \in Keys |-> current'[k]] BY DEF CurrentInv, TypeOK
  <2>4. \A k \in Keys : View!IsLatest(current'[k], k, log')
    BY DEF CurrentInv, CurrentIsLatest
  <2> QED BY <2>1, <2>2, <2>3, <2>4 DEF View!Commit
<1>2. CASE ~\E t \in Txs : Commit(t)
  BY <1>2 DEF Next, Tick, BeginAppend, BeginTimeout, Begin, Insert, Fire, Abort, vars
<1> QED BY <1>1, <1>2

\* The trigger-maintained tables of migration 0098 implement the views of
\* migration 0093 that they replaced.
THEOREM TableImplementsView == Spec => ViewSpec
<1>1. Init => View!Init BY DEF Init, View!Init, NoRow
<1>2. CurrentInv /\ CurrentInv' /\ [Next]_vars => [View!Commit]_<<log, current>>
  BY StepRefines
<1> QED BY <1>1, <1>2, CurrentInvariant, PTL DEF Spec, ViewSpec, View!Spec

=============================================================================
