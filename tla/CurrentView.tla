----------------------------- MODULE CurrentView -----------------------------
(***************************************************************************)
(* What deploy_status and decision_status promise their readers, as the    *)
(* views of migration 0093 define it: DISTINCT ON (environment, feature)   *)
(* ORDER BY created DESC, id DESC over an append-only log.  Rows become    *)
(* visible when the statement that wrote them commits, all at once.        *)
(***************************************************************************)
EXTENDS Integers

CONSTANTS
    Keys,        \* (environment, feature) pairs
    Status       \* what a row says about its key

VARIABLES
    log,         \* the committed rows
    current      \* [Keys -> the row the view shows]

Row == [key : Keys, created : Nat \ {0}, id : Nat \ {0}, status : Status]
NoRow(k) == [key |-> k, created |-> 0, id |-> 0, status |-> "none"]

\* The order of the views: created first, id breaks a tie.
Later(r, s) == \/ r.created > s.created
               \/ r.created = s.created /\ r.id > s.id

\* r is what the view shows for k when the log holds rows.
IsLatest(r, k, rows) ==
    /\ r.key = k
    /\ r \in rows \/ (r = NoRow(k) /\ \A s \in rows : s.key # k)
    /\ \A s \in rows : s.key = k /\ s # r => Later(r, s)

Init == /\ log = {}
        /\ current = [k \in Keys |-> NoRow(k)]

\* A statement commits: rows are added, never changed or removed, and the view
\* shows the latest of each key in the same instant.
Commit == /\ log \subseteq log'
          /\ log' \subseteq Row
          /\ current' = [k \in Keys |-> current'[k]]
          /\ \A k \in Keys : IsLatest(current'[k], k, log')

Spec == Init /\ [][Commit]_<<log, current>>

=============================================================================
