------------------------------- MODULE MCAgent -------------------------------
(* Instances of Agent for TLC. *)
EXTENDS DeployLogs

CONSTANTS up, un, self

\* A deployment, an uninstall and the upgrade of naisd come together.
MCKind == [i \in Instructions |-> IF i = un THEN "uninstall" ELSE "upgrade"]
MCName == [i \in Instructions |-> CASE i = up -> "app"
                                      [] i = un -> "old"
                                      [] i = self -> "naisd"]

\* The clock does not tell the last two lines of the uninstall apart.
MCLines == [i \in Instructions |-> IF i = un THEN {1, 2, 3} ELSE {1}]
MCTick == [l \in {1, 2, 3} |-> l \div 2]
\* Where it does not, the later one may come first.
MCPlace == [l \in {1, 2, 3} |-> 3 - l]
MCUuid == [i \in Instructions |-> CASE i = up -> 2 [] i = un -> 1 [] i = self -> 3]

AllFaults == {"prepare", "publish", "store", "again", "job", "secret", "crash"}

=============================================================================
