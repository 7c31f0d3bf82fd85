----------------------------- MODULE DeployLogs ------------------------------
(***************************************************************************)
(* What the pages show of the log of a deployment: the table logs, read by *)
(* the queries of internal/ui/uidata.  A line carries the time at which    *)
(* naisd wrote it, in the microseconds Postgres keeps: lines of one write  *)
(* may have the same.                                                      *)
(***************************************************************************)
EXTENDS Agent

CONSTANTS
    Tick,   \* [line -> its time], for the logs of all instructions
    Place,  \* [line -> its place among lines of the same time]: SQL leaves it open
    Uuid    \* [instruction -> its id, which orders it among the others]

ASSUME TickAssumption ==
    /\ \A i \in Instructions : IsFiniteSet(Lines[i])
    /\ Tick \in [UNION {Lines[i] : i \in Instructions} -> Nat]
    /\ \A l, m \in DOMAIN Tick : l < m => Tick[l] <= Tick[m]
    /\ Place \in [DOMAIN Tick -> Nat]
    /\ \A l, m \in DOMAIN Tick : Place[l] = Place[m] => l = m
    /\ Uuid \in [Instructions -> Nat]
    /\ \A i, j \in Instructions : Uuid[i] = Uuid[j] => i = j

\* The rows of the table logs: of a batch of inserts, and of some instructions.
RowsOf(i, k) == {[di |-> i, batch |-> k, line |-> l] : l \in log[i].rows[k]}
Rows(is) == UNION {UNION {RowsOf(i, k) : k \in DOMAIN log[i].rows} : i \in is}

\* Mutant: an instruction's rows come in the order of the inserts.
BeforeMutant(x, y) ==
    \/ Uuid[x.di] < Uuid[y.di]
    \/ x.di = y.di /\ (x.batch < y.batch \/ (x.batch = y.batch /\ x.line < y.line))

\* ORDER BY deploy_instruction, time; rows that are alike are batches apart.
Before(x, y) ==
    \/ Uuid[x.di] < Uuid[y.di]
    \/ /\ x.di = y.di
       /\ \/ Tick[x.line] < Tick[y.line]
          \/ Tick[x.line] = Tick[y.line] /\ Place[x.line] < Place[y.line]
          \/ x.line = y.line /\ x.batch < y.batch

\* The rows in this order: row n has n - 1 rows before it.
Ordered(rows) ==
    [n \in 1 .. Cardinality(rows) |->
        CHOOSE r \in rows : Cardinality({x \in rows : Before(x, r)}) = n - 1]
LogsByDeployInstruction(i) == Ordered(Rows({i}))
LogsByDeployInstructions(is) == Ordered(Rows(is))

\* The rows by instruction, in the order of the list: one without rows is not
\* in the map.
PositionsOf(rows, i) == {p \in DOMAIN rows : rows[p].di = i}
NthOf(positions, n) == CHOOSE p \in positions : Cardinality({q \in positions : q < p}) = n - 1
Appended(rows, i) == [n \in 1 .. Cardinality(PositionsOf(rows, i)) |-> rows[NthOf(PositionsOf(rows, i), n)]]
GetLogLinesForDeployInstructions(is) ==
    LET rows == LogsByDeployInstructions(is)
    IN  [i \in {rows[p].di : p \in DOMAIN rows} |-> Appended(rows, i)]

\* The deploys in the history of a feature and what each has logged.
loadDeployLogs(history) ==
    LET byID == GetLogLinesForDeployInstructions(history)
    IN  [i \in history |-> IF i \in DOMAIN byID THEN byID[i] ELSE <<>>]

\* The log of an uninstall, beside its audit row.
UninstallLog(i) == IF Kind[i] = "uninstall" THEN LogsByDeployInstruction(i) ELSE <<>>

-----------------------------------------------------------------------------
\* A line is listed after one that was written later only where the clock did
\* not tell them apart.
InOrder(page) ==
    \A k, m \in DOMAIN page : (k < m /\ page[k].line > page[m].line) =>
        Tick[page[k].line] = Tick[page[m].line]

\* The pages that show the log of a deployment list its lines as they were
\* written, in whatever order its messages were published, delivered and stored,
\* and however often; and once the deployment has ended and its messages have
\* arrived they miss no line but those a failure has cost.
LogReadsAsWritten ==
    LET shown == loadDeployLogs(Instructions)
    IN  \A i \in Instructions :
          /\ InOrder(shown[i])
          /\ Kind[i] = "uninstall" => UninstallLog(i) = shown[i]
          /\ (handler[i] = "done" /\ log[i].taken = {} /\ log[i].wire = {}) =>
                Lines[i] \ log[i].lost \subseteq {shown[i][n].line : n \in DOMAIN shown[i]}

\* What makes it true: no line is stored that was not written.
WrittenInv == \A i \in Instructions : Written(i) \subseteq Lines[i]

=============================================================================
