------------------------------- MODULE Process -------------------------------
(***************************************************************************)
(* The goroutines of one Fasit process (internal/fasit/run.go) that wait   *)
(* for each other: the reconcile loop and the trigger channel that cuts    *)
(* its pause short, the handlers that commit a change and pull the         *)
(* trigger, the live view of the decisions (StreamHandler) with its lock,  *)
(* worker pool, channel and forwarder, and the shutdown that waits for     *)
(* the handlers.                                                           *)
(*                                                                         *)
(* What the tables hold is a number, the count of committed changes; what  *)
(* a cycle makes of it is the matter of Decision and Rollout.  The         *)
(* decisions of a snapshot are a set; Skips are the ones the dispatcher    *)
(* answers itself.  Cancelling a request's context makes its query fail.   *)
(***************************************************************************)
EXTENDS Integers, FiniteSets

CONSTANTS
    Writers,        \* requests that commit one change each
    Streams,        \* requests for the live view
    Mixes,          \* bound: which of the requests come together in a run
    Decisions,      \* what a snapshot leads to
    Skips,          \* ... of which the dispatcher sends these itself
    NumWorkers,     \* GOMAXPROCS
    ChanCap,        \* capacity of the decision channel (2048 in the code)
    TriggerCap,     \* capacity of the trigger channel (1 in the code)
    MaxFaults,      \* bound: database errors
    MaxExits,       \* bound: shutdowns and crashes
    NoStream

ASSUME ProcessAssumption == /\ Mixes \subseteq SUBSET (Writers \cup Streams)
                            /\ Skips \subseteq Decisions
                            /\ NumWorkers \in Nat \ {0}
                            /\ ChanCap \in Nat \ {0}
                            /\ TriggerCap \in Nat \ {0}
                            /\ MaxFaults \in Nat
                            /\ MaxExits \in Nat
                            /\ NoStream \notin Streams

VARIABLES
    version,        \* number of changes committed to the tables
    acted,          \* the newest version a cycle has written and deployed
    loop,           \* the goroutine of Run: where it is, what it has read
    trigger,        \* tokens in the trigger channel
    writer,         \* [Writers -> where the request is, the version it made]
    stream,         \* [Streams -> the handler, its pool and its forwarder]
    streamMu,       \* the stream that holds the lock, or NoStream
    process,        \* "up", "draining" (a signal has come) or "exited"
    faultsLeft,
    exitsLeft

vars == <<version, acted, loop, trigger, writer, stream, streamMu, process,
          faultsLeft, exitsLeft>>
dbVars == <<version, acted>>
loopVars == <<loop, trigger>>
streamVars == <<stream, streamMu>>
processVars == <<process, exitsLeft>>

FreshLoop == [pc |-> "cycle", read |-> 0, ok |-> TRUE]
Unsent == [pc |-> "idle", made |-> 0]
NoHandler == [pc |-> "idle", result |-> "none", todo |-> {}, work |-> {},
              busy |-> {}, out |-> {}, got |-> {}, closed |-> FALSE,
              forwarding |-> FALSE]

Init ==
    /\ version = 0 /\ acted = 0
    /\ loop = FreshLoop /\ trigger = 0
    /\ \E mix \in Mixes :
          /\ writer = [r \in Writers |-> IF r \in mix THEN Unsent ELSE [Unsent EXCEPT !.pc = "absent"]]
          /\ stream = [s \in Streams |-> IF s \in mix THEN NoHandler ELSE [NoHandler EXCEPT !.pc = "absent"]]
    /\ streamMu = NoStream
    /\ process = "up"
    /\ faultsLeft = MaxFaults /\ exitsLeft = MaxExits

Running == process # "exited"

Fault == faultsLeft > 0 /\ faultsLeft' = faultsLeft - 1

-----------------------------------------------------------------------------
(* Run: a cycle, then a pause that ends by the clock or by a token *)

FetchSnapshot ==
    /\ Running /\ loop.pc = "cycle"
    /\ loop' = [loop EXCEPT !.pc = "write", !.read = version]
    /\ UNCHANGED <<dbVars, trigger, writer, streamVars, processVars, faultsLeft>>

\* writeResultLogs and Deploy, both without an error.
WriteResults ==
    /\ Running /\ loop.pc = "write"
    /\ acted' = loop.read
    /\ loop' = [loop EXCEPT !.pc = "wait", !.ok = TRUE]
    /\ UNCHANGED <<version, trigger, writer, streamVars, processVars, faultsLeft>>

\* Mutant: an error ends the loop.
CycleFailsMutant ==
    /\ Running /\ loop.pc \in {"cycle", "write"}
    /\ Fault
    /\ loop' = [loop EXCEPT !.pc = "returned", !.ok = FALSE]
    /\ UNCHANGED <<dbVars, trigger, writer, streamVars, processVars>>

\* An error anywhere in the cycle is logged; the pause follows all the same.
CycleFails ==
    /\ Running /\ loop.pc \in {"cycle", "write"}
    /\ Fault
    /\ loop' = [loop EXCEPT !.pc = "wait", !.ok = FALSE]
    /\ UNCHANGED <<dbVars, trigger, writer, streamVars, processVars>>

IntervalPassed ==
    /\ Running /\ loop.pc = "wait"
    /\ loop' = [loop EXCEPT !.pc = "cycle"]
    /\ UNCHANGED <<dbVars, trigger, writer, streamVars, processVars, faultsLeft>>

TriggerReceived ==
    /\ Running /\ loop.pc = "wait" /\ trigger > 0
    /\ trigger' = trigger - 1
    /\ loop' = [loop EXCEPT !.pc = "cycle"]
    /\ UNCHANGED <<dbVars, writer, streamVars, processVars, faultsLeft>>

-----------------------------------------------------------------------------
(* The handlers that change assignments or configuration *)

\* The transaction of the handler commits.
Commit(r) ==
    /\ process = "up" /\ writer[r].pc = "idle"
    /\ version' = version + 1
    /\ writer' = [writer EXCEPT ![r] = [pc |-> "committed", made |-> version']]
    /\ UNCHANGED <<acted, loopVars, streamVars, processVars, faultsLeft>>

\* Mutant: the channel has no buffer, a send succeeds only while Run waits.
TriggerReconcileMutant(r) ==
    /\ Running /\ writer[r].pc = "committed"
    /\ trigger' = IF loop.pc = "wait" THEN 1 ELSE trigger
    /\ writer' = [writer EXCEPT ![r].pc = "triggered"]
    /\ UNCHANGED <<dbVars, loop, streamVars, processVars, faultsLeft>>

\* The send that gives up when the channel is full.
TriggerReconcile(r) ==
    /\ Running /\ writer[r].pc = "committed"
    /\ trigger' = IF trigger < TriggerCap THEN trigger + 1 ELSE trigger
    /\ writer' = [writer EXCEPT ![r].pc = "triggered"]
    /\ UNCHANGED <<dbVars, loop, streamVars, processVars, faultsLeft>>

-----------------------------------------------------------------------------
(* StreamHandler and StreamDecisions *)

\* The handler makes the channel and starts the forwarder.
Open(s) ==
    /\ process = "up" /\ stream[s].pc = "idle"
    /\ stream' = [stream EXCEPT ![s].pc = "lock", ![s].forwarding = TRUE]
    /\ UNCHANGED <<dbVars, loopVars, writer, streamMu, processVars, faultsLeft>>

\* A second stream is turned away; the channel it has passed in stays open.
TryLock(s) ==
    /\ Running /\ stream[s].pc = "lock"
    /\ \/ /\ streamMu = NoStream
          /\ streamMu' = s
          /\ stream' = [stream EXCEPT ![s].pc = "fetch"]
       \/ /\ streamMu # NoStream
          /\ stream' = [stream EXCEPT ![s].pc = "waiting", ![s].result = "busy"]
          /\ UNCHANGED streamMu
    /\ UNCHANGED <<dbVars, loopVars, writer, processVars, faultsLeft>>

FetchForStream(s) ==
    /\ Running /\ stream[s].pc = "fetch"
    /\ stream' = [stream EXCEPT ![s].pc = "dispatch", ![s].todo = Decisions]
    /\ UNCHANGED <<dbVars, loopVars, writer, streamMu, processVars, faultsLeft>>

\* Mutant: the error path leaves the channel open.
FetchForStreamFailsMutant(s) ==
    /\ Running /\ stream[s].pc = "fetch"
    /\ \/ Fault
       \/ process = "draining" /\ UNCHANGED faultsLeft
    /\ stream' = [stream EXCEPT ![s].pc = "waiting", ![s].result = "error"]
    /\ streamMu' = NoStream
    /\ UNCHANGED <<dbVars, loopVars, writer, processVars>>

\* A database error, or serverCancel has cancelled the request's context.
FetchForStreamFails(s) ==
    /\ Running /\ stream[s].pc = "fetch"
    /\ \/ Fault
       \/ process = "draining" /\ UNCHANGED faultsLeft
    /\ stream' = [stream EXCEPT ![s].pc = "waiting", ![s].result = "error",
                                ![s].closed = TRUE]
    /\ streamMu' = NoStream
    /\ UNCHANGED <<dbVars, loopVars, writer, processVars>>

-----------------------------------------------------------------------------
(* computeActionsStream: a dispatcher, NumWorkers workers, two channels *)

Fits(channel, capacity) == Cardinality(channel) < capacity

Dispatch(s, d) ==
    /\ Running /\ stream[s].pc = "dispatch" /\ d \in stream[s].todo
    /\ \/ /\ d \in Skips /\ Fits(stream[s].out, ChanCap)
          /\ stream' = [stream EXCEPT ![s].todo = @ \ {d}, ![s].out = @ \cup {d}]
       \/ /\ d \notin Skips /\ Fits(stream[s].work, NumWorkers)
          /\ stream' = [stream EXCEPT ![s].todo = @ \ {d}, ![s].work = @ \cup {d}]
    /\ UNCHANGED <<dbVars, loopVars, writer, streamMu, processVars, faultsLeft>>

WorkerTakes(s, d) ==
    /\ Running /\ d \in stream[s].work /\ Fits(stream[s].busy, NumWorkers)
    /\ stream' = [stream EXCEPT ![s].work = @ \ {d}, ![s].busy = @ \cup {d}]
    /\ UNCHANGED <<dbVars, loopVars, writer, streamMu, processVars, faultsLeft>>

WorkerSends(s, d) ==
    /\ Running /\ d \in stream[s].busy /\ Fits(stream[s].out, ChanCap)
    /\ stream' = [stream EXCEPT ![s].busy = @ \ {d}, ![s].out = @ \cup {d}]
    /\ UNCHANGED <<dbVars, loopVars, writer, streamMu, processVars, faultsLeft>>

\* Mutant: wg.Wait is missing, the channel is closed once all is dispatched.
PoolDoneMutant(s) == stream[s].todo = {}
\* close(work), wg.Wait: nothing is left to dispatch, and no worker is busy.
PoolDone(s) == stream[s].todo = {} /\ stream[s].work = {} /\ stream[s].busy = {}

\* close(out), and StreamDecisions returns its summary and the lock.
CloseOut(s) ==
    /\ Running /\ stream[s].pc = "dispatch" /\ PoolDone(s)
    /\ stream' = [stream EXCEPT ![s].pc = "waiting", ![s].result = "summary",
                                ![s].closed = TRUE]
    /\ streamMu' = NoStream
    /\ UNCHANGED <<dbVars, loopVars, writer, processVars, faultsLeft>>

Forward(s, d) ==
    /\ Running /\ stream[s].forwarding /\ d \in stream[s].out
    /\ stream' = [stream EXCEPT ![s].out = @ \ {d}, ![s].got = @ \cup {d}]
    /\ UNCHANGED <<dbVars, loopVars, writer, streamMu, processVars, faultsLeft>>

\* The range over the channel ends once it is closed and empty.
ForwarderDone(s) ==
    /\ Running /\ stream[s].forwarding /\ stream[s].closed /\ stream[s].out = {}
    /\ stream' = [stream EXCEPT ![s].forwarding = FALSE]
    /\ UNCHANGED <<dbVars, loopVars, writer, streamMu, processVars, faultsLeft>>

\* forwarder.Wait has returned: the summary or the error is the last event.
Answer(s) ==
    /\ Running /\ stream[s].pc = "waiting" /\ ~stream[s].forwarding
    /\ stream' = [stream EXCEPT ![s].pc = "answered"]
    /\ UNCHANGED <<dbVars, loopVars, writer, streamMu, processVars, faultsLeft>>

-----------------------------------------------------------------------------
(* Shutdown.  Only the contexts of HTTP requests are cancelled; the loop    *)
(* and the receiver go on until the process is gone.                        *)

Signal ==
    /\ process = "up" /\ exitsLeft > 0
    /\ exitsLeft' = exitsLeft - 1
    /\ process' = "draining"
    /\ UNCHANGED <<dbVars, loopVars, writer, streamVars, faultsLeft>>

AtRest == {"absent", "idle", "answered", "cut"}

HandlersIdle == /\ \A r \in Writers : writer[r].pc # "committed"
                /\ \A s \in Streams : stream[s].pc \in AtRest

\* Everything in memory is gone: handlers, channels, the lock.
Exit ==
    /\ process' = "exited"
    /\ loop' = FreshLoop /\ trigger' = 0
    /\ writer' = [r \in Writers |-> IF writer[r].pc = "committed"
                                    THEN [writer[r] EXCEPT !.pc = "cut"] ELSE writer[r]]
    /\ stream' = [s \in Streams |-> IF stream[s].pc \in AtRest
                                    THEN stream[s] ELSE [NoHandler EXCEPT !.pc = "cut"]]
    /\ streamMu' = NoStream
    /\ UNCHANGED <<dbVars, faultsLeft>>

Shutdown ==
    /\ process = "draining" /\ HandlersIdle
    /\ Exit
    /\ UNCHANGED exitsLeft

\* Mutant: Shutdown is called with a context that never expires.
ShutdownTimeoutMutant ==
    /\ process = "draining" /\ HandlersIdle
    /\ Exit
    /\ UNCHANGED exitsLeft

\* The five seconds are over.
ShutdownTimeout ==
    /\ process = "draining" /\ ~HandlersIdle
    /\ Exit
    /\ UNCHANGED exitsLeft

Crash ==
    /\ process = "up" /\ exitsLeft > 0
    /\ exitsLeft' = exitsLeft - 1
    /\ Exit

\* The next pod: Run begins with a cycle.
Start ==
    /\ process = "exited"
    /\ process' = "up"
    /\ UNCHANGED <<dbVars, loopVars, writer, streamVars, faultsLeft, exitsLeft>>

-----------------------------------------------------------------------------
LoopStep == FetchSnapshot \/ WriteResults \/ IntervalPassed \/ TriggerReceived

PoolStep(s) == \E d \in Decisions : Dispatch(s, d) \/ WorkerTakes(s, d) \/ WorkerSends(s, d)

HandlerStep(s) == TryLock(s) \/ FetchForStream(s) \/ CloseOut(s) \/ Answer(s)

ForwarderStep(s) == (\E d \in Decisions : Forward(s, d)) \/ ForwarderDone(s)

Next ==
    \/ LoopStep \/ CycleFails
    \/ \E r \in Writers : Commit(r) \/ TriggerReconcile(r)
    \/ \E s \in Streams : \/ Open(s) \/ HandlerStep(s) \/ PoolStep(s)
                          \/ ForwarderStep(s) \/ FetchForStreamFails(s)
    \/ Signal \/ Shutdown \/ ShutdownTimeout \/ Crash \/ Start

\* Every goroutine that can run is scheduled; the clocks of the pause and of
\* the shutdown run out; the deployment starts a new pod.
Fairness ==
    /\ WF_vars(LoopStep)
    /\ \A r \in Writers : WF_vars(TriggerReconcile(r))
    /\ \A s \in Streams : /\ WF_vars(HandlerStep(s))
                          /\ WF_vars(PoolStep(s))
                          /\ WF_vars(ForwarderStep(s))
    /\ WF_vars(Shutdown \/ ShutdownTimeout)
    /\ WF_vars(Start)

Spec == Init /\ [][Next]_vars /\ Fairness

-----------------------------------------------------------------------------
(* Properties *)

Loop == [pc : {"cycle", "write", "wait"}, read : Nat, ok : BOOLEAN]
Writer == [pc : {"absent", "idle", "committed", "triggered", "cut"}, made : Nat]
Handler == [pc : {"absent", "idle", "lock", "fetch", "dispatch", "waiting", "answered", "cut"},
            result : {"none", "busy", "error", "summary"},
            todo : SUBSET Decisions, work : SUBSET Decisions, busy : SUBSET Decisions,
            out : SUBSET Decisions, got : SUBSET Decisions,
            closed : BOOLEAN, forwarding : BOOLEAN]

TypeOK ==
    /\ version \in Nat /\ acted \in Nat
    /\ loop \in Loop /\ trigger \in 0 .. TriggerCap
    /\ writer \in [Writers -> Writer]
    /\ stream \in [Streams -> Handler]
    /\ streamMu \in Streams \cup {NoStream}
    /\ process \in {"up", "draining", "exited"}
    /\ faultsLeft \in Nat /\ exitsLeft \in Nat

\* No wake-up is lost: the loop does not settle into its pause on a state older
\* than a change whose handler has pulled the trigger, however the send and the
\* cycle interleave and however many handlers share the one slot of the
\* channel.  (A cycle that failed leaves the change to the interval.)
NoLostWakeup ==
    /\ loop.pc = "wait" /\ loop.ok /\ trigger = 0
    => \A r \in Writers : writer[r].pc = "triggered" => acted >= writer[r].made

\* A client that reads a summary has been sent every decision of the snapshot
\* before it, through the pool, the channel and the forwarder; and nobody
\* sends on a channel that is closed, which would end the process.
StreamIsExact ==
    \A s \in Streams :
        /\ stream[s].pc = "answered" /\ stream[s].result = "summary"
              => stream[s].got = Decisions
        /\ stream[s].closed => stream[s].todo \cup stream[s].work \cup stream[s].busy = {}

\* What makes NoLostWakeup inductive: nothing is read, acted on or made that is
\* not committed, no cycle goes back to an older state, and a pulled trigger is
\* either acted on or still on its way to the loop.
LoopInv ==
    /\ acted <= version /\ loop.read <= version
    /\ loop.pc = "write" => acted <= loop.read
    /\ \A r \in Writers : writer[r].made <= version
WakeInv ==
    \A r \in Writers : writer[r].pc = "triggered" =>
        \/ writer[r].made <= acted
        \/ trigger > 0
        \/ loop.pc = "cycle"
        \/ loop.pc = "write" /\ writer[r].made <= loop.read
        \/ loop.pc = "wait" /\ ~loop.ok

\* What makes StreamIsExact inductive, for one stream: while the pool runs every
\* decision is somewhere between dispatcher and client, the pool is empty
\* before and after, and a forwarder that has ended left nothing in the channel.
HandlerInv(x) ==
    /\ x.pc # "dispatch" => x.todo = {} /\ x.work = {} /\ x.busy = {}
    /\ x.pc \in {"absent", "idle", "lock", "fetch", "cut"} =>
          x.out = {} /\ x.got = {} /\ ~x.closed /\ x.result = "none"
    /\ x.pc = "dispatch" =>
          /\ ~x.closed /\ x.result = "none"
          /\ x.todo \cup x.work \cup x.busy \cup x.out \cup x.got = Decisions
    /\ x.result = "summary" => x.out \cup x.got = Decisions
    /\ x.pc \in {"lock", "fetch", "dispatch", "waiting"} /\ ~x.forwarding =>
          x.closed /\ x.out = {}
    /\ x.pc = "answered" => ~x.forwarding /\ x.out = {}
\* The lock is held by the one stream that computes, and by nobody else.
LockInv == \A s \in Streams : stream[s].pc \in {"fetch", "dispatch"} <=> streamMu = s

ProcessInv == /\ TypeOK /\ LoopInv /\ WakeInv /\ LockInv
              /\ \A s \in Streams : HandlerInv(stream[s])

\* Every committed change is acted on, by the trigger, by the clock, or by the
\* first cycle of the next process.
ChangesAreActedOn ==
    \A v \in 1 .. Cardinality(Writers) : (version >= v) ~> (acted >= v)

\* A stream that was not turned away ends: the dispatcher, the workers, the
\* forwarder and the handler never all wait for one another.
StreamsEnd ==
    \A s \in Streams :
        (stream[s].pc = "fetch") ~> (stream[s].pc \in {"answered", "cut"})

\* A signal ends the process, whatever its handlers are stuck on.
SignalEndsProcess == (process = "draining") ~> (process = "exited")

\* Every request for the live view is answered: StreamDecisions closes the
\* channel when done and returns ErrReconcileInProgress if another stream is
\* running, which the handler turns into an error event (violated).
StreamIsAnswered ==
    \A s \in Streams :
        (stream[s].pc = "lock") ~> (stream[s].pc \in {"answered", "cut"})

=============================================================================
