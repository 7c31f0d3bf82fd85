---------------------------- MODULE CurrentTable ----------------------------
(***************************************************************************)
(* Migration 0098 replaces the views over deploy_log and decision_log by   *)
(* tables that an AFTER INSERT trigger keeps: one row per (environment,    *)
(* feature), replaced when a later one is inserted.  Statements overlap:   *)
(* the COPY of the deployer (one row per key of a batch), the INSERT of    *)
(* the receiver, and the INSERT ... SELECT of TimeoutPendingDeploys, each  *)
(* a transaction of its own.  created is the time the transaction began,   *)
(* id comes from a sequence when the row is inserted, and rows commit in   *)
(* any order.                                                              *)
(*                                                                         *)
(* PostgreSQL is external: an upsert that meets the uncommitted row of     *)
(* another transaction waits for it to end, and sees what it left; a       *)
(* transaction that fails, or is the victim of deadlock detection, leaves  *)
(* nothing but a gap in the sequence.                                      *)
(***************************************************************************)
EXTENDS Integers

CONSTANTS
    Keys,        \* (environment, feature) pairs
    Txs,         \* transactions, each runs once
    NoTx,        \* nobody holds the row lock
    Reported,    \* bound: the statuses written by the deployer and the receiver
    MaxClock     \* bound: how often the clock moves between transactions

ASSUME NoTxAssumption == NoTx \notin Txs
ASSUME ReportedAssumption ==
    Reported \subseteq {"sent", "installing", "deployed", "failed"}
ASSUME MaxClockAssumption == MaxClock \in Nat \ {0}

VARIABLES
    clock,       \* now(); several transactions may begin at the same time
    nextId,      \* the sequence behind id
    tx,          \* [Txs -> where each transaction is]
    lock,        \* [Keys -> who holds the row of the current table]
    log,         \* the committed rows of the log
    current      \* [Keys -> the committed row of the current table]

vars == <<clock, nextId, tx, lock, log, current>>

Status == {"sent", "installing", "deployed", "failed"}
InProgress == {"sent", "installing"}

View == INSTANCE CurrentView
            WITH Keys <- Keys, Status <- Status, log <- log, current <- current
Row == View!Row
NoRow(k) == View!NoRow(k)
Later(r, s) == View!Later(r, s)

AnyRow == Row \cup {NoRow(k) : k \in Keys}

Tx == [phase : {"idle", "insert", "fire", "done"}, created : Nat,
       status : Status \cup {"none"}, todo : SUBSET Keys,
       rows : SUBSET Row, own : [Keys -> AnyRow]]
NotBegun == [phase |-> "idle", created |-> 0, status |-> "none",
             todo |-> {}, rows |-> {}, own |-> [k \in Keys |-> NoRow(k)]]

Init ==
    /\ clock = 1
    /\ nextId = 1
    /\ tx = [t \in Txs |-> NotBegun]
    /\ lock = [k \in Keys |-> NoTx]
    /\ log = {}
    /\ current = [k \in Keys |-> NoRow(k)]

Tick == /\ clock < MaxClock
        /\ clock' = clock + 1
        /\ UNCHANGED <<nextId, tx, lock, log, current>>

-----------------------------------------------------------------------------
Begin(t, keys, status) ==
    /\ tx[t].phase = "idle" /\ keys # {}
    /\ tx' = [tx EXCEPT ![t] = [NotBegun EXCEPT !.phase = "insert", !.created = clock,
                                  !.status = status, !.todo = keys]]
    /\ UNCHANGED <<clock, nextId, lock, log, current>>

\* AppendDeploys and AppendDeployStatus: the caller knows the keys.
BeginAppend(t) ==
    \E keys \in SUBSET Keys : \E status \in Reported : Begin(t, keys, status)

\* TimeoutPendingDeploys: the keys are read from the committed current rows
\* when the statement begins; an hour is at least one Tick, and which of the
\* older rows have reached it is a choice.
BeginTimeout(t) ==
    \E keys \in SUBSET {k \in Keys : current[k].status \in InProgress
                                       /\ current[k].created < clock} :
        Begin(t, keys, "failed")

\* The rows of a statement are inserted one by one, in any order of its keys.
Insert(t, k) ==
    /\ tx[t].phase = "insert" /\ k \in tx[t].todo
    /\ tx' = [tx EXCEPT
         ![t].todo = @ \ {k},
         ![t].phase = IF tx[t].todo = {k} THEN "fire" ELSE "insert",
         ![t].rows = @ \cup {[key |-> k, created |-> tx[t].created, id |-> nextId,
                              status |-> tx[t].status]}]
    /\ nextId' = nextId + 1
    /\ UNCHANGED <<clock, lock, log, current>>

\* Mutant: the trigger without its WHERE, the last to run wins.
UpsertMutant(r, old) == r
\* Mutant: the trigger compares the ids alone.
UpsertById(r, old) == IF r.id > old.id THEN r ELSE old

\* ON CONFLICT DO UPDATE ... WHERE (created, id) > (c.created, c.log_id).
Upsert(r, old) == IF Later(r, old) THEN r ELSE old

\* The trigger runs for each row at the end of the statement, in the order of
\* insertion, and takes or waits for the lock on the current row, which is kept
\* to the end of the transaction even if the WHERE keeps the row.
Fire(t, r) ==
    /\ tx[t].phase = "fire" /\ r \in tx[t].rows
    /\ \A s \in tx[t].rows : (lock[s.key] = t) <=> s.id < r.id
    /\ lock[r.key] = NoTx
    /\ lock' = [lock EXCEPT ![r.key] = t]
    /\ tx' = [tx EXCEPT ![t].own[r.key] = Upsert(r, current[r.key])]
    /\ UNCHANGED <<clock, nextId, log, current>>

\* The transaction ends, the rows it has locked are free.
Release(t) ==
    /\ lock' = [k \in Keys |-> IF lock[k] = t THEN NoTx ELSE lock[k]]
    /\ tx' = [tx EXCEPT ![t].phase = "done"]

\* The triggers of all rows have run.
Commit(t) ==
    /\ tx[t].phase = "fire"
    /\ \A r \in tx[t].rows : lock[r.key] = t
    /\ log' = log \cup tx[t].rows
    /\ current' = [k \in Keys |-> IF lock[k] = t THEN tx[t].own[k] ELSE current[k]]
    /\ Release(t)
    /\ UNCHANGED <<clock, nextId>>

\* An error, a lost connection, or deadlock detection.
Abort(t) ==
    /\ tx[t].phase \in {"insert", "fire"}
    /\ Release(t)
    /\ UNCHANGED <<clock, nextId, log, current>>

Next ==
    \/ Tick
    \/ \E t \in Txs :
          \/ BeginAppend(t)
          \/ BeginTimeout(t)
          \/ \E k \in tx[t].todo : Insert(t, k)
          \/ \E r \in tx[t].rows : Fire(t, r)
          \/ Commit(t)
          \/ Abort(t)

Spec == Init /\ [][Next]_vars

-----------------------------------------------------------------------------
(* Properties *)

TypeOK ==
    /\ clock \in 1 .. MaxClock
    /\ nextId \in Nat \ {0}
    /\ tx \in [Txs -> Tx]
    /\ lock \in [Keys -> Txs \cup {NoTx}]
    /\ log \subseteq Row
    /\ current \in [Keys -> AnyRow]

\* However statements overlap and in whatever order they commit, the current
\* table shows for every key the latest committed row, as the view did.
CurrentIsLatest == \A k \in Keys : View!IsLatest(current[k], k, log)

\* The tables implement the views they replaced.
ViewSpec == View!Spec

\* What makes CurrentIsLatest inductive.  ids are never used twice, also while
\* their rows are not committed.
IdsInv ==
    /\ \A r, s \in log : r.id = s.id => r = s
    /\ \A r \in log : r.id < nextId
    /\ \A t \in Txs : \A r \in tx[t].rows :
          /\ r.id < nextId
          /\ tx[t].phase # "done" => \A s \in log : s.id # r.id
          /\ \A u \in Txs : \A s \in tx[u].rows : s.id = r.id => t = u /\ s = r
\* A statement writes at most one row of a key.
RowsInv ==
    \A t \in Txs :
        /\ tx[t].phase \in {"insert", "fire"} => tx[t].created > 0 /\ tx[t].status \in Status
        /\ \A r, s \in tx[t].rows : r.key = s.key => r = s
        /\ \A r \in tx[t].rows : r.key \notin tx[t].todo
\* While a transaction holds the lock of a key, what it will leave there is
\* decided by its row and a committed row that nobody else can replace.
LockInv ==
    \A k \in Keys : \A t \in Txs : lock[k] = t =>
        /\ tx[t].phase = "fire"
        /\ \E r \in tx[t].rows : r.key = k /\ tx[t].own[k] = Upsert(r, current[k])
CurrentInv == TypeOK /\ IdsInv /\ RowsInv /\ LockInv /\ CurrentIsLatest

=============================================================================
