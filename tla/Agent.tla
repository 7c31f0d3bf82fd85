-------------------------------- MODULE Agent --------------------------------
(***************************************************************************)
(* The handlers of naisd in one environment (internal/naisd, cmd/naisd).   *)
(* They overlap: each acknowledges its message first and so frees the one  *)
(* slot of the subscription.  Modelled are the count of deployments in     *)
(* progress, the upgrade of naisd itself through a Kubernetes job, and the *)
(* log lines of a deployment until Fasit has stored them.                  *)
(*                                                                         *)
(* The answer of an instruction to deploy_log is the matter of Rollout,    *)
(* the lists of releases that of Reports.  Kubernetes, helm and Pub/Sub    *)
(* are external; Pub/Sub delivers the pieces of a log in any order.        *)
(* Faults, at most MaxFaults:                                              *)
(*   prepare   the values file cannot be written                           *)
(*   publish   a piece of the log cannot be published                      *)
(*   store     Fasit cannot store a piece of the log                       *)
(*   again     a piece of the log that is stored is delivered once more    *)
(*   job       the pod of the upgrade job fails, and so may the second one *)
(*   secret    the secret of the upgrade job cannot be created             *)
(*   crash     the naisd pod dies                                          *)
(***************************************************************************)
EXTENDS Integers, FiniteSets, Sequences

CONSTANTS
    Instructions,   \* the instructions of a run, delivered once each
    Names,          \* releases; "naisd" is the agent's own
    Lines,          \* [Instructions -> the lines of its log, numbered as they are written]
    Kind,           \* [Instructions -> "upgrade" or "uninstall"]
    Name,           \* [Instructions -> Names]
    Faults,         \* the kinds of fault a run admits
    MaxFaults       \* bound: occurrences of faults

ASSUME AgentAssumption == /\ IsFiniteSet(Instructions)
                          /\ Kind \in [Instructions -> {"upgrade", "uninstall"}]
                          /\ Name \in [Instructions -> Names]
                          /\ Lines \in [Instructions -> SUBSET Nat]
                          /\ MaxFaults \in Nat

VARIABLES
    pod,            \* the naisd pod: "up" or "down"
    receiving,      \* its subscription is being read (d.stop ends that)
    handler,        \* [Instructions -> where its handler is]
    inProgress,     \* the lockedInt
    job,            \* the upgrade job; pod: the pod that made it still runs
    log,            \* [Instructions -> its pubsubLogger, its messages and their rows]
    faultsLeft

vars == <<pod, receiving, handler, inProgress, job, log, faultsLeft>>
podVars == <<pod, receiving>>
logVars == <<log>>

\* Lines wait in the buffer, are taken by the ticker, are on the wire in a
\* message, and in the table logs, message by message; again are the messages
\* that were delivered more than once.
NewLog == [buf |-> {}, taken |-> {}, wire |-> {}, rows |-> <<>>, again |-> {}, lost |-> {}]
NoJob == [phase |-> "none", tries |-> 0, pod |-> FALSE]

Init ==
    /\ pod = "up" /\ receiving = TRUE
    /\ handler = [i \in Instructions |-> "queued"]
    /\ inProgress = 0
    /\ job = NoJob
    /\ log = [i \in Instructions |-> NewLog]
    /\ faultsLeft = MaxFaults

Spend(f) == /\ f \in Faults
            /\ faultsLeft > 0
            /\ faultsLeft' = faultsLeft - 1

\* naisd does not upgrade itself: the job does.
IsSelf(i) == Kind[i] = "upgrade" /\ Name[i] = "naisd"
Refused(i) == Kind[i] = "uninstall" /\ Name[i] \in {"naisd", "fasitd"}

-----------------------------------------------------------------------------
(* DeployManager.handler *)

\* ForceAck: from here on nobody delivers the instruction again.
Receive(i) ==
    /\ pod = "up" /\ receiving /\ handler[i] = "queued"
    /\ handler' = [handler EXCEPT ![i] = IF Refused(i) THEN "refused" ELSE "accepted"]
    /\ UNCHANGED <<podVars, inProgress, job, logVars, faultsLeft>>

\* inProgress.Inc; an uninstall is not counted.
Begin(i) ==
    /\ pod = "up" /\ handler[i] = "accepted" /\ ~IsSelf(i)
    /\ inProgress' = IF Kind[i] = "upgrade" THEN inProgress + 1 ELSE inProgress
    /\ handler' = [handler EXCEPT ![i] = "begun"]
    /\ UNCHANGED <<podVars, job, logVars, faultsLeft>>

Dec(n) == IF n > 0 THEN n - 1 ELSE 0

\* Mutant: the count is taken back only by a handler that succeeds.
PrepareFailsMutant(i) ==
    /\ pod = "up" /\ handler[i] = "begun" /\ Kind[i] = "upgrade"
    /\ Spend("prepare")
    /\ handler' = [handler EXCEPT ![i] = "failed"]
    /\ UNCHANGED <<podVars, inProgress, job, logVars>>

\* makeHelmValues: the deferred Dec runs, no status is sent.
PrepareFails(i) ==
    /\ pod = "up" /\ handler[i] = "begun" /\ Kind[i] = "upgrade"
    /\ Spend("prepare")
    /\ inProgress' = Dec(inProgress)
    /\ handler' = [handler EXCEPT ![i] = "failed"]
    /\ UNCHANGED <<podVars, job, logVars>>

Stored(r) == UNION {r.rows[k] : k \in DOMAIN r.rows}
WrittenOf(r) == r.buf \cup r.taken \cup (UNION r.wire) \cup Stored(r) \cup r.lost
Written(i) == WrittenOf(log[i])

\* helm writes its output through pubsubLogger.Write, events through AddEvent.
Write(i, l) ==
    /\ pod = "up" /\ handler[i] = "begun" /\ l \in Lines[i] \ Written(i)
    /\ \A m \in Lines[i] : m < l => m \in Written(i)
    /\ log' = [log EXCEPT ![i].buf = @ \cup {l}]
    /\ UNCHANGED <<podVars, handler, inProgress, job, faultsLeft>>

\* helm has ended, with an error or without.
RunHelm(i) ==
    /\ pod = "up" /\ handler[i] = "begun" /\ Written(i) = Lines[i]
    /\ handler' = [handler EXCEPT ![i] = "helmed"]
    /\ UNCHANGED <<podVars, inProgress, job, logVars, faultsLeft>>

\* Publish, after the lock: no lines, no message.
Published(r, lines) == IF lines = {} THEN r ELSE [r EXCEPT !.wire = @ \cup {lines}]

\* The deferred calls: Dec, and Close, which publishes what is left of the log.
Return(i) ==
    /\ pod = "up" /\ handler[i] = "helmed"
    /\ inProgress' = IF Kind[i] = "upgrade" THEN Dec(inProgress) ELSE inProgress
    /\ \/ /\ log' = [log EXCEPT ![i] = [Published(@, @.buf) EXCEPT !.buf = {}]]
          /\ UNCHANGED faultsLeft
       \/ /\ log' = [log EXCEPT ![i].buf = {}, ![i].lost = @ \cup log[i].buf]
          /\ log[i].buf # {} /\ Spend("publish")
    /\ handler' = [handler EXCEPT ![i] = "done"]
    /\ UNCHANGED <<podVars, job>>

-----------------------------------------------------------------------------
(* pubsubLogger.Run: the ticker publishes beside the handler *)

\* Mutant: the lines are read, but not taken out of the buffer.
TickerTakesMutant(i) ==
    /\ pod = "up" /\ log[i].buf # {} /\ log[i].taken = {}
    /\ log' = [log EXCEPT ![i].taken = log[i].buf]
    /\ UNCHANGED <<podVars, handler, inProgress, job, faultsLeft>>

\* Under the lock the buffer is swapped for an empty one ...
TickerTakes(i) ==
    /\ pod = "up" /\ log[i].buf # {} /\ log[i].taken = {}
    /\ log' = [log EXCEPT ![i].taken = log[i].buf, ![i].buf = {}]
    /\ UNCHANGED <<podVars, handler, inProgress, job, faultsLeft>>

\* ... and published after the lock is gone; lines that fail are dropped.
TickerSends(i) ==
    /\ pod = "up" /\ log[i].taken # {}
    /\ \/ /\ log' = [log EXCEPT ![i] = [Published(@, @.taken) EXCEPT !.taken = {}]]
          /\ UNCHANGED faultsLeft
       \/ /\ log' = [log EXCEPT ![i].taken = {}, ![i].lost = @ \cup log[i].taken]
          /\ Spend("publish")
    /\ UNCHANGED <<podVars, handler, inProgress, job>>

-----------------------------------------------------------------------------
(* Receiver.handleStatusLog, in Fasit *)

\* One batch of inserts, in one transaction, in the order of the message.
LogsCreate(r, message) == [r EXCEPT !.rows = Append(@, message)]

\* An error of the inserts is only logged: the message is acknowledged.
handleStatusLog(i, message) ==
    /\ message \in log[i].wire
    /\ \/ /\ log' = [log EXCEPT ![i] = [LogsCreate(@, message) EXCEPT !.wire = log[i].wire \ {message}]]
          /\ UNCHANGED faultsLeft
       \/ /\ log' = [log EXCEPT ![i].wire = @ \ {message}, ![i].lost = @ \cup message]
          /\ Spend("store")
    /\ UNCHANGED <<podVars, handler, inProgress, job>>

\* The inserts are committed and the acknowledgement does not arrive.
LogDeliveredAgain(i, message) ==
    /\ message \in log[i].wire
    /\ Spend("again")
    /\ log' = [log EXCEPT ![i] = [LogsCreate(@, message) EXCEPT !.again = log[i].again \cup {message}]]
    /\ UNCHANGED <<podVars, handler, inProgress, job>>

-----------------------------------------------------------------------------
(* The upgrade of naisd *)

\* errPostpone asks for a redelivery of a message that is acknowledged.
Postpone(i) ==
    /\ pod = "up" /\ handler[i] = "accepted" /\ IsSelf(i)
    /\ inProgress > 0
    /\ handler' = [handler EXCEPT ![i] = "postponed"]
    /\ UNCHANGED <<podVars, inProgress, job, logVars, faultsLeft>>

\* StartJob: the job first, whose pod waits for the secret.
CreateJob(i) ==
    /\ pod = "up" /\ handler[i] = "accepted" /\ IsSelf(i)
    /\ inProgress = 0
    /\ job' = [NoJob EXCEPT !.phase = "created", !.pod = TRUE]
    /\ handler' = [handler EXCEPT ![i] = "job"]
    /\ UNCHANGED <<podVars, inProgress, logVars, faultsLeft>>

\* The job's pod can start; without the secret the handler returns an error.
CreateSecret(i) ==
    /\ pod = "up" /\ handler[i] = "job"
    /\ \/ /\ job' = [job EXCEPT !.phase = "ready"]
          /\ handler' = [handler EXCEPT ![i] = "offloaded"]
          /\ UNCHANGED faultsLeft
       \/ /\ Spend("secret")
          /\ handler' = [handler EXCEPT ![i] = "failed"]
          /\ UNCHANGED job
    /\ UNCHANGED <<podVars, inProgress, logVars>>

\* d.stop, a second later: the subscription is no longer read, work in flight
\* goes on.  Another pod than the one that made the job is not concerned.
Stop ==
    /\ pod = "up" /\ receiving /\ job.phase \in {"ready", "failed"} /\ job.pod
    /\ receiving' = FALSE
    /\ UNCHANGED <<pod, handler, inProgress, job, logVars, faultsLeft>>

\* Everything the process was doing ends with it.
PodDies ==
    /\ pod' = "down" /\ receiving' = FALSE
    /\ inProgress' = 0
    /\ handler' = [i \in Instructions |->
          IF handler[i] \in {"accepted", "begun", "helmed", "job"}
          THEN "killed" ELSE handler[i]]
    /\ log' = [i \in Instructions |->
          [log[i] EXCEPT !.buf = {}, !.taken = {}, !.lost = @ \cup log[i].buf \cup log[i].taken]]

\* Upgrade, in the job's pod: helm upgrade replaces the naisd pod.
JobUpgrades ==
    /\ job.phase = "ready"
    /\ job' = [job EXCEPT !.phase = "done", !.pod = FALSE]
    /\ PodDies
    /\ UNCHANGED faultsLeft

\* BackoffLimit 1: one more pod, which may fail for the same reason; then the
\* job has failed.
JobFails ==
    /\ job.phase = "ready"
    /\ IF job.tries = 0 THEN Spend("job") ELSE UNCHANGED faultsLeft
    /\ job' = [job EXCEPT !.phase = IF job.tries = 1 THEN "failed" ELSE "ready", !.tries = 1]
    /\ UNCHANGED <<podVars, handler, inProgress, logVars>>

\* Mutant: main waits for the job without a limit.
GiveUpMutant == FALSE /\ UNCHANGED vars

\* main: half an hour after the receiver has stopped the process exits.
GiveUp ==
    /\ pod = "up" /\ ~receiving
    /\ PodDies
    /\ job' = [job EXCEPT !.pod = FALSE]
    /\ UNCHANGED faultsLeft

Crash ==
    /\ pod = "up" /\ Spend("crash")
    /\ PodDies
    /\ job' = [job EXCEPT !.pod = FALSE]

PodStarts ==
    /\ pod = "down"
    /\ pod' = "up" /\ receiving' = TRUE
    /\ UNCHANGED <<handler, inProgress, job, logVars, faultsLeft>>

-----------------------------------------------------------------------------
HandlerStep(i) == Begin(i) \/ (\E l \in Lines[i] : Write(i, l)) \/ RunHelm(i) \/ Return(i)
                  \/ Postpone(i) \/ CreateJob(i) \/ CreateSecret(i)

TickerStep(i) == TickerTakes(i) \/ TickerSends(i)

StoreStep(i) == \E message \in log[i].wire : handleStatusLog(i, message)

Next ==
    \/ \E i \in Instructions :
          \/ Receive(i) \/ HandlerStep(i) \/ TickerStep(i) \/ PrepareFails(i) \/ StoreStep(i)
          \/ \E message \in log[i].wire : LogDeliveredAgain(i, message)
    \/ Stop \/ JobUpgrades \/ JobFails \/ GiveUp \/ Crash \/ PodStarts

\* Goroutines run, clocks run out, Kubernetes starts pods, Pub/Sub delivers.
Fairness ==
    /\ \A i \in Instructions : WF_vars(Receive(i)) /\ WF_vars(HandlerStep(i))
    /\ WF_vars(Stop) /\ WF_vars(JobUpgrades) /\ WF_vars(GiveUp) /\ WF_vars(PodStarts)

Spec == Init /\ [][Next]_vars /\ Fairness

-----------------------------------------------------------------------------
(* Properties *)

Settled == {"done", "failed", "refused", "postponed", "offloaded", "killed"}

Handler == {"queued", "accepted", "begun", "helmed", "job"} \cup Settled
Job == [phase : {"none", "created", "ready", "done", "failed"}, tries : {0, 1}, pod : BOOLEAN]
Logger == [buf : SUBSET Nat, taken : SUBSET Nat, wire : SUBSET SUBSET Nat,
           rows : Seq(SUBSET Nat), again : SUBSET SUBSET Nat, lost : SUBSET Nat]

TypeOK ==
    /\ pod \in {"up", "down"} /\ receiving \in BOOLEAN
    /\ handler \in [Instructions -> Handler]
    /\ inProgress \in Nat
    /\ job \in Job
    /\ log \in [Instructions -> Logger]
    /\ faultsLeft \in Nat

Deploying == {i \in Instructions : Kind[i] = "upgrade" /\ handler[i] \in {"begun", "helmed"}}

\* The count that decides about postponing is the number of deployments between
\* Inc and Dec, on every path out of the handler: one left behind by an error
\* would postpone every upgrade of naisd to come.
InProgressIsExact == inProgress = Cardinality(Deploying)

\* Ticker, Close and the writers share the lines of a log without losing one or
\* sending one in two messages: rows that show a line twice are one message that
\* Pub/Sub has delivered again, and only a failed publish or insert, or the
\* death of the pod, costs lines.
LinesStoredOnce ==
    \A i \in Instructions :
        LET x == log[i]
        IN  /\ \A k, m \in DOMAIN x.rows : (k # m /\ x.rows[k] \cap x.rows[m] # {}) =>
                  x.rows[k] = x.rows[m] /\ x.rows[k] \in x.again
            /\ handler[i] = "done" => \A l \in Lines[i] :
                  l \in x.taken \cup (UNION x.wire) \cup Stored(x) \cup x.lost

\* What makes LinesStoredOnce inductive: a line is in one place or message, a
\* message that is stored and still under way has been delivered again, and
\* helm has ended only after all lines were written.
Messages(x) == x.wire \cup {x.rows[k] : k \in DOMAIN x.rows}
OnePlace(x) ==
    /\ x.buf \cap x.taken = {} /\ x.lost \cap (x.buf \cup x.taken) = {}
    /\ \A m \in Messages(x) : m \cap (x.buf \cup x.taken) = {}
    /\ \A m, n \in Messages(x) : m # n => m \cap n = {}
    /\ \A m \in x.wire : m \cap x.lost = {}
    /\ \A k \in DOMAIN x.rows : x.rows[k] \in x.wire => x.rows[k] \in x.again
    /\ \A k, m \in DOMAIN x.rows : (k # m /\ x.rows[k] = x.rows[m]) => x.rows[k] \in x.again
LogInv(i) ==
    /\ OnePlace(log[i])
    /\ handler[i] \in {"helmed", "done"} => Written(i) = Lines[i]
    /\ handler[i] = "done" => log[i].buf = {}
AgentInv == TypeOK /\ InProgressIsExact /\ \A i \in Instructions : LogInv(i)

\* Whatever becomes of the upgrade job, naisd reads its subscription again and
\* every instruction is dealt with.
InstructionsSettle == \A i \in Instructions : <>(handler[i] \in Settled)

\* The upgrade of naisd waits until all other deployments are done: the job
\* never takes the pod away from one (the comment at inProgress; violated).
UpgradeWaits ==
    [][job.phase = "ready" /\ job'.phase = "done" =>
          \A i \in Instructions : handler'[i] = "killed" => handler[i] = "killed"]_vars

=============================================================================
