---------------------------- MODULE ProcessProofs ----------------------------
(***************************************************************************)
(* The goroutines of the Fasit process for any number of requests, streams,*)
(* workers and decisions, any capacity of the two channels and any number  *)
(* of faults, shutdowns and crashes.                                       *)
(***************************************************************************)
EXTENDS Process, TLAPS

StreamsInv == \A s \in Streams : HandlerInv(stream[s])

\* Steps that leave the streams alone keep what is said of them.
LEMMA SameStreams ==
    ASSUME LockInv, StreamsInv, UNCHANGED streamVars
    PROVE  LockInv' /\ StreamsInv'
  BY DEF LockInv, StreamsInv, HandlerInv, streamVars

\* Steps that leave the loop, its channel and the writers alone keep what is
\* said of them.
LEMMA SameLoop ==
    ASSUME LoopInv, WakeInv, UNCHANGED <<dbVars, loopVars, writer>>
    PROVE  LoopInv' /\ WakeInv'
  BY DEF LoopInv, WakeInv, dbVars, loopVars

\* Nothing is committed, read or pulled, and no stream is open.
LEMMA InitHolds == Init => ProcessInv
<1> SUFFICES ASSUME Init PROVE ProcessInv OBVIOUS
<1>1. PICK mix \in Mixes :
        /\ writer = [r \in Writers |-> IF r \in mix THEN Unsent
                                       ELSE [Unsent EXCEPT !.pc = "absent"]]
        /\ stream = [s \in Streams |-> IF s \in mix THEN NoHandler
                                       ELSE [NoHandler EXCEPT !.pc = "absent"]]
  BY DEF Init
<1>2. loop \in Loop /\ trigger \in 0 .. TriggerCap
  BY ProcessAssumption DEF Init, FreshLoop, Loop
<1>3. writer \in [Writers -> Writer] BY <1>1 DEF Unsent, Writer
<1>4. stream \in [Streams -> Handler] BY <1>1 DEF NoHandler, Handler
<1>5. TypeOK BY <1>2, <1>3, <1>4, ProcessAssumption DEF Init, TypeOK
<1>6. LoopInv /\ WakeInv
  <2>1. \A r \in Writers : writer[r].made = 0 /\ writer[r].pc # "triggered"
    BY <1>1 DEF Unsent
  <2> QED BY <2>1 DEF Init, FreshLoop, LoopInv, WakeInv
<1>7. LockInv
  BY <1>1, ProcessAssumption DEF Init, LockInv, NoHandler
<1>8. ASSUME NEW s \in Streams PROVE HandlerInv(stream[s])
  BY <1>1 DEF NoHandler, HandlerInv
<1> QED BY <1>5, <1>6, <1>7, <1>8 DEF ProcessInv

-----------------------------------------------------------------------------
\* Run: the cycle reads what is committed, acts on what it has read and never
\* goes back; after an error, or with a token, another cycle is certain.
LEMMA LoopKeeps ==
    ASSUME ProcessInv, LoopStep \/ CycleFails
    PROVE  ProcessInv'
<1> USE DEF ProcessInv
<1>1. LockInv' /\ StreamsInv'
  BY SameStreams DEF StreamsInv, LoopStep, FetchSnapshot, WriteResults, IntervalPassed,
     TriggerReceived, CycleFails
<1>2. CASE FetchSnapshot
  <2>1. TypeOK' BY <1>2 DEF FetchSnapshot, TypeOK, Loop, dbVars, streamVars, processVars
  <2>2. LoopInv' /\ WakeInv'
    BY <1>2 DEF FetchSnapshot, TypeOK, Loop, LoopInv, WakeInv, dbVars
  <2> QED BY <1>1, <2>1, <2>2 DEF StreamsInv
<1>3. CASE WriteResults
  <2>1. TypeOK' BY <1>3 DEF WriteResults, TypeOK, Loop, streamVars, processVars
  <2>2. LoopInv' BY <1>3 DEF WriteResults, TypeOK, Loop, LoopInv
  <2>3. WakeInv'
    <3>1. ASSUME NEW r \in Writers, writer[r].pc = "triggered", ~(trigger > 0)
          PROVE  writer[r].made <= acted'
      BY <1>3, <3>1 DEF WriteResults, TypeOK, Loop, Writer, LoopInv, WakeInv
    <3> QED BY <1>3, <3>1 DEF WriteResults, WakeInv
  <2> QED BY <1>1, <2>1, <2>2, <2>3 DEF StreamsInv
<1>4. CASE IntervalPassed
  <2>1. TypeOK' BY <1>4 DEF IntervalPassed, TypeOK, Loop, dbVars, streamVars, processVars
  <2>2. LoopInv' /\ WakeInv' BY <1>4 DEF IntervalPassed, TypeOK, Loop, LoopInv, WakeInv, dbVars
  <2> QED BY <1>1, <2>1, <2>2 DEF StreamsInv
<1>5. CASE TriggerReceived
  <2>1. TypeOK'
    BY <1>5, ProcessAssumption
    DEF TriggerReceived, TypeOK, Loop, dbVars, streamVars, processVars
  <2>2. LoopInv' /\ WakeInv' BY <1>5 DEF TriggerReceived, TypeOK, Loop, LoopInv, WakeInv, dbVars
  <2> QED BY <1>1, <2>1, <2>2 DEF StreamsInv
<1>6. CASE CycleFails
  <2>0. faultsLeft' \in Nat /\ loop' \in Loop
    <3>1. loop' \in Loop BY <1>6 DEF CycleFails, TypeOK, Loop
    <3>2. faultsLeft' \in Nat BY <1>6 DEF CycleFails, Fault, TypeOK
    <3> QED BY <3>1, <3>2
  <2>1. TypeOK' BY <1>6, <2>0 DEF CycleFails, TypeOK, dbVars, streamVars, processVars
  <2>2. LoopInv' /\ WakeInv' BY <1>6 DEF CycleFails, TypeOK, Loop, LoopInv, WakeInv, dbVars
  <2> QED BY <1>1, <2>1, <2>2 DEF StreamsInv
<1> QED BY <1>2, <1>3, <1>4, <1>5, <1>6 DEF LoopStep

\* The handlers that change the tables: the token is in the channel when the
\* send returns, whether it was this one's or an earlier one's.
LEMMA WriterKeeps ==
    ASSUME ProcessInv, NEW r \in Writers, Commit(r) \/ TriggerReconcile(r)
    PROVE  ProcessInv'
<1> USE DEF ProcessInv
<1>1. LockInv' /\ StreamsInv'
  BY SameStreams DEF StreamsInv, Commit, TriggerReconcile
<1>2. CASE Commit(r)
  <2>1. writer' = [writer EXCEPT ![r] = [pc |-> "committed", made |-> version + 1]]
        /\ version' = version + 1
    BY <1>2 DEF Commit
  <2>2. TypeOK'
    BY <1>2, <2>1 DEF Commit, TypeOK, Writer, loopVars, streamVars, processVars
  <2>3. LoopInv'
    BY <1>2, <2>1 DEF Commit, TypeOK, Loop, Writer, LoopInv, loopVars
  <2>4. WakeInv' BY <1>2, <2>1 DEF Commit, TypeOK, Writer, WakeInv, loopVars
  <2> QED BY <1>1, <2>2, <2>3, <2>4 DEF StreamsInv
<1>3. CASE TriggerReconcile(r)
  <2>1. TypeOK'
    BY <1>3, ProcessAssumption
    DEF TriggerReconcile, TypeOK, Writer, dbVars, streamVars, processVars
  <2>2. LoopInv' BY <1>3 DEF TriggerReconcile, TypeOK, Writer, LoopInv, dbVars
  <2>3. trigger' > 0 BY <1>3, ProcessAssumption DEF TriggerReconcile, TypeOK
  <2> QED BY <1>1, <2>1, <2>2, <2>3 DEF StreamsInv, WakeInv
<1> QED BY <1>2, <1>3

-----------------------------------------------------------------------------
\* A step of one stream that leaves everything but the streams, the lock and
\* the faults alone.
LEMMA OneStream ==
    ASSUME ProcessInv, NEW s \in Streams, NEW x \in Handler, HandlerInv(x),
           stream' = [stream EXCEPT ![s] = x],
           streamMu' \in Streams \cup {NoStream}, LockInv', faultsLeft' \in Nat,
           UNCHANGED <<dbVars, loopVars, writer, processVars>>
    PROVE  ProcessInv'
<1>1. TypeOK' BY DEF ProcessInv, TypeOK, dbVars, loopVars, processVars
<1>2. LoopInv' /\ WakeInv' BY SameLoop DEF ProcessInv
<1>3. ASSUME NEW t \in Streams PROVE HandlerInv(stream'[t])
  <2>1. CASE t = s BY <2>1 DEF ProcessInv, TypeOK
  <2>2. CASE t # s
    <3>1. stream'[t] = stream[t] BY <2>2 DEF ProcessInv, TypeOK
    <3>2. HandlerInv(stream[t]) BY DEF ProcessInv
    <3> QED BY <3>1, <3>2
  <2> QED BY <2>1, <2>2
<1> QED BY <1>1, <1>2, <1>3 DEF ProcessInv

\* A stream that neither takes nor gives back the lock.
LEMMA SameLock ==
    ASSUME ProcessInv, NEW s \in Streams, NEW x \in Handler,
           stream' = [stream EXCEPT ![s] = x], streamMu' = streamMu,
           x.pc \in {"fetch", "dispatch"} <=> stream[s].pc \in {"fetch", "dispatch"}
    PROVE  LockInv'
  BY DEF ProcessInv, TypeOK, LockInv

\* A stream that gives back the lock it holds.
LEMMA LockGiven ==
    ASSUME ProcessInv, NEW s \in Streams, NEW x \in Handler,
           stream' = [stream EXCEPT ![s] = x], streamMu' = NoStream,
           x.pc = "waiting", stream[s].pc \in {"fetch", "dispatch"}
    PROVE  LockInv'
  BY ProcessAssumption DEF ProcessInv, TypeOK, LockInv

\* The handler: Open, the lock, the answer.
LEMMA HandlerKeeps ==
    ASSUME ProcessInv, NEW s \in Streams, Open(s) \/ TryLock(s) \/ Answer(s)
    PROVE  ProcessInv'
<1>1. stream[s] \in Handler /\ HandlerInv(stream[s]) /\ faultsLeft \in Nat
      /\ streamMu \in Streams \cup {NoStream}
  BY DEF ProcessInv, TypeOK
<1>2. CASE Open(s)
  <2> DEFINE x == [stream[s] EXCEPT !.pc = "lock", !.forwarding = TRUE]
  <2>1. x \in Handler BY <1>1 DEF Handler
  <2>2. HandlerInv(x) BY <1>1, <1>2 DEF Open, Handler, HandlerInv
  <2>3. stream' = [stream EXCEPT ![s] = x] BY <1>2 DEF Open, ProcessInv, TypeOK
  <2>4. LockInv' BY <1>1, <1>2, <2>1, <2>3, SameLock DEF Open, Handler
  <2> HIDE DEF x
  <2> QED BY <1>1, <1>2, <2>1, <2>2, <2>3, <2>4, OneStream DEF Open
<1>3. CASE TryLock(s) /\ streamMu = NoStream
  <2> DEFINE x == [stream[s] EXCEPT !.pc = "fetch"]
  <2>1. x \in Handler BY <1>1 DEF Handler
  <2>2. HandlerInv(x) BY <1>1, <1>3 DEF TryLock, Handler, HandlerInv
  <2>3. stream' = [stream EXCEPT ![s] = x] /\ streamMu' = s
    BY <1>3 DEF TryLock, ProcessInv, TypeOK
  <2>4. LockInv'
    BY <1>1, <1>3, <2>3, ProcessAssumption DEF ProcessInv, TypeOK, Handler, LockInv
  <2> HIDE DEF x
  <2> QED BY <1>1, <1>3, <2>1, <2>2, <2>3, <2>4, OneStream DEF TryLock
<1>4. CASE TryLock(s) /\ streamMu # NoStream
  <2> DEFINE x == [stream[s] EXCEPT !.pc = "waiting", !.result = "busy"]
  <2>1. x \in Handler BY <1>1 DEF Handler
  <2>2. HandlerInv(x) BY <1>1, <1>4 DEF TryLock, Handler, HandlerInv
  <2>3. stream' = [stream EXCEPT ![s] = x] /\ streamMu' = streamMu
    BY <1>4 DEF TryLock, ProcessInv, TypeOK
  <2>4. LockInv' BY <1>1, <1>4, <2>1, <2>3, SameLock DEF TryLock, Handler
  <2> HIDE DEF x
  <2> QED BY <1>1, <1>4, <2>1, <2>2, <2>3, <2>4, OneStream DEF TryLock
<1>5. CASE Answer(s)
  <2> DEFINE x == [stream[s] EXCEPT !.pc = "answered"]
  <2>1. x \in Handler BY <1>1 DEF Handler
  <2>2. HandlerInv(x) BY <1>1, <1>5 DEF Answer, Handler, HandlerInv
  <2>3. stream' = [stream EXCEPT ![s] = x] BY <1>5 DEF Answer, ProcessInv, TypeOK
  <2>4. LockInv' BY <1>1, <1>5, <2>1, <2>3, SameLock DEF Answer, Handler
  <2> HIDE DEF x
  <2> QED BY <1>1, <1>5, <2>1, <2>2, <2>3, <2>4, OneStream DEF Answer
<1> QED BY <1>2, <1>3, <1>4, <1>5

\* StreamDecisions: the snapshot, the error path and the end of the pool.
LEMMA DecisionsKeep ==
    ASSUME ProcessInv, NEW s \in Streams,
           FetchForStream(s) \/ FetchForStreamFails(s) \/ CloseOut(s)
    PROVE  ProcessInv'
<1>1. stream[s] \in Handler /\ HandlerInv(stream[s]) /\ faultsLeft \in Nat
      /\ streamMu \in Streams \cup {NoStream}
  BY DEF ProcessInv, TypeOK
<1>2. CASE FetchForStream(s)
  <2> DEFINE x == [stream[s] EXCEPT !.pc = "dispatch", !.todo = Decisions]
  <2>1. x \in Handler BY <1>1, <1>2 DEF FetchForStream, Handler
  <2>2. HandlerInv(x) BY <1>1, <1>2 DEF FetchForStream, Handler, HandlerInv
  <2>3. stream' = [stream EXCEPT ![s] = x] BY <1>2 DEF FetchForStream, ProcessInv, TypeOK
  <2>4. LockInv' BY <1>1, <1>2, <2>1, <2>3, SameLock DEF FetchForStream, Handler
  <2> HIDE DEF x
  <2> QED BY <1>1, <1>2, <2>1, <2>2, <2>3, <2>4, OneStream DEF FetchForStream
<1>3. CASE FetchForStreamFails(s)
  <2> DEFINE x == [stream[s] EXCEPT !.pc = "waiting", !.result = "error", !.closed = TRUE]
  <2>1. x \in Handler BY <1>1, <1>3 DEF FetchForStreamFails, Handler
  <2>2. HandlerInv(x) BY <1>1, <1>3 DEF FetchForStreamFails, Handler, HandlerInv
  <2>3. stream' = [stream EXCEPT ![s] = x] /\ streamMu' = NoStream
    BY <1>3 DEF FetchForStreamFails, ProcessInv, TypeOK
  <2>4. LockInv' BY <1>1, <1>3, <2>1, <2>3, LockGiven DEF FetchForStreamFails, Handler
  <2>5. faultsLeft' \in Nat BY <1>1, <1>3 DEF FetchForStreamFails, Fault
  <2> HIDE DEF x
  <2> QED BY <1>1, <1>3, <2>1, <2>2, <2>3, <2>4, <2>5, OneStream DEF FetchForStreamFails
<1>4. CASE CloseOut(s)
  <2> DEFINE x == [stream[s] EXCEPT !.pc = "waiting", !.result = "summary", !.closed = TRUE]
  <2>1. x \in Handler BY <1>1, <1>4 DEF CloseOut, Handler
  <2>2. HandlerInv(x) BY <1>1, <1>4 DEF CloseOut, Handler, HandlerInv, PoolDone
  <2>3. stream' = [stream EXCEPT ![s] = x] /\ streamMu' = NoStream
    BY <1>4 DEF CloseOut, ProcessInv, TypeOK
  <2>4. LockInv' BY <1>1, <1>4, <2>1, <2>3, LockGiven DEF CloseOut, Handler
  <2> HIDE DEF x
  <2> QED BY <1>1, <1>4, <2>1, <2>2, <2>3, <2>4, OneStream DEF CloseOut
<1> QED BY <1>2, <1>3, <1>4

\* The pool: a decision moves on, from the dispatcher to a worker or to the
\* channel, and from the worker to the channel.
LEMMA PoolKeeps ==
    ASSUME ProcessInv, NEW s \in Streams, NEW d \in Decisions,
           Dispatch(s, d) \/ WorkerTakes(s, d) \/ WorkerSends(s, d)
    PROVE  ProcessInv'
<1>1. stream[s] \in Handler /\ HandlerInv(stream[s]) /\ faultsLeft \in Nat
      /\ streamMu \in Streams \cup {NoStream}
  BY DEF ProcessInv, TypeOK
<1>2. CASE Dispatch(s, d) /\ d \in Skips
  <2> DEFINE x == [stream[s] EXCEPT !.todo = @ \ {d}, !.out = @ \cup {d}]
  <2>1. x \in Handler BY <1>1, <1>2 DEF Dispatch, Handler
  <2>2. HandlerInv(x) BY <1>1, <1>2 DEF Dispatch, Handler, HandlerInv
  <2>3. stream' = [stream EXCEPT ![s] = x] BY <1>2 DEF Dispatch, ProcessInv, TypeOK
  <2>4. LockInv' BY <1>1, <1>2, <2>1, <2>3, SameLock DEF Dispatch, Handler
  <2> HIDE DEF x
  <2> QED BY <1>1, <1>2, <2>1, <2>2, <2>3, <2>4, OneStream DEF Dispatch
<1>3. CASE Dispatch(s, d) /\ d \notin Skips
  <2> DEFINE x == [stream[s] EXCEPT !.todo = @ \ {d}, !.work = @ \cup {d}]
  <2>1. x \in Handler BY <1>1, <1>3 DEF Dispatch, Handler
  <2>2. HandlerInv(x) BY <1>1, <1>3 DEF Dispatch, Handler, HandlerInv
  <2>3. stream' = [stream EXCEPT ![s] = x] BY <1>3 DEF Dispatch, ProcessInv, TypeOK
  <2>4. LockInv' BY <1>1, <1>3, <2>1, <2>3, SameLock DEF Dispatch, Handler
  <2> HIDE DEF x
  <2> QED BY <1>1, <1>3, <2>1, <2>2, <2>3, <2>4, OneStream DEF Dispatch
<1>4. CASE WorkerTakes(s, d)
  <2> DEFINE x == [stream[s] EXCEPT !.work = @ \ {d}, !.busy = @ \cup {d}]
  <2>1. x \in Handler BY <1>1, <1>4 DEF WorkerTakes, Handler
  <2>2. HandlerInv(x) BY <1>1, <1>4 DEF WorkerTakes, Handler, HandlerInv
  <2>3. stream' = [stream EXCEPT ![s] = x] BY <1>4 DEF WorkerTakes, ProcessInv, TypeOK
  <2>4. LockInv' BY <1>1, <1>4, <2>1, <2>3, SameLock DEF WorkerTakes, Handler
  <2> HIDE DEF x
  <2> QED BY <1>1, <1>4, <2>1, <2>2, <2>3, <2>4, OneStream DEF WorkerTakes
<1>5. CASE WorkerSends(s, d)
  <2> DEFINE x == [stream[s] EXCEPT !.busy = @ \ {d}, !.out = @ \cup {d}]
  <2>1. x \in Handler BY <1>1, <1>5 DEF WorkerSends, Handler
  <2>2. HandlerInv(x) BY <1>1, <1>5 DEF WorkerSends, Handler, HandlerInv
  <2>3. stream' = [stream EXCEPT ![s] = x] BY <1>5 DEF WorkerSends, ProcessInv, TypeOK
  <2>4. LockInv' BY <1>1, <1>5, <2>1, <2>3, SameLock, ZenonT(60) DEF WorkerSends, Handler
  <2> HIDE DEF x
  <2> QED BY <1>1, <1>5, <2>1, <2>2, <2>3, <2>4, OneStream DEF WorkerSends
<1> QED BY <1>2, <1>3, <1>4, <1>5

\* The forwarder: a decision reaches the client; it ends with an empty channel.
LEMMA ForwarderKeeps ==
    ASSUME ProcessInv, NEW s \in Streams, ForwarderStep(s)
    PROVE  ProcessInv'
<1>1. stream[s] \in Handler /\ HandlerInv(stream[s]) /\ faultsLeft \in Nat
      /\ streamMu \in Streams \cup {NoStream}
  BY DEF ProcessInv, TypeOK
<1>2. ASSUME NEW d \in Decisions, Forward(s, d) PROVE ProcessInv'
  <2> DEFINE x == [stream[s] EXCEPT !.out = @ \ {d}, !.got = @ \cup {d}]
  <2>1. x \in Handler BY <1>1, <1>2 DEF Forward, Handler
  <2>2. HandlerInv(x) BY <1>1, <1>2 DEF Forward, Handler, HandlerInv
  <2>3. stream' = [stream EXCEPT ![s] = x] BY <1>2 DEF Forward, ProcessInv, TypeOK
  <2>4. LockInv' BY <1>1, <1>2, <2>1, <2>3, SameLock, ZenonT(60) DEF Forward, Handler
  <2> HIDE DEF x
  <2> QED BY <1>1, <1>2, <2>1, <2>2, <2>3, <2>4, OneStream DEF Forward
<1>3. CASE ForwarderDone(s)
  <2> DEFINE x == [stream[s] EXCEPT !.forwarding = FALSE]
  <2>1. x \in Handler BY <1>1, <1>3 DEF ForwarderDone, Handler
  <2>2. HandlerInv(x) BY <1>1, <1>3 DEF ForwarderDone, Handler, HandlerInv
  <2>3. stream' = [stream EXCEPT ![s] = x] BY <1>3 DEF ForwarderDone, ProcessInv, TypeOK
  <2>4. LockInv' BY <1>1, <1>3, <2>1, <2>3, SameLock, ZenonT(60) DEF ForwarderDone, Handler
  <2> HIDE DEF x
  <2> QED BY <1>1, <1>3, <2>1, <2>2, <2>3, <2>4, OneStream DEF ForwarderDone
<1> QED BY <1>2, <1>3 DEF ForwarderStep

-----------------------------------------------------------------------------
\* The end of the process: what was in memory is gone, the next loop begins
\* with a cycle.
LEMMA ExitKeeps ==
    ASSUME ProcessInv, Exit, exitsLeft' \in Nat
    PROVE  ProcessInv'
<1> USE DEF ProcessInv
<1>1. writer' \in [Writers -> Writer]
      /\ \A r \in Writers : writer'[r].made = writer[r].made
  BY DEF Exit, TypeOK, Writer
<1>2. \A s \in Streams : stream'[s] = IF stream[s].pc \in AtRest THEN stream[s]
                                      ELSE [NoHandler EXCEPT !.pc = "cut"]
  BY DEF Exit
<1>3. [NoHandler EXCEPT !.pc = "cut"] \in Handler /\ HandlerInv([NoHandler EXCEPT !.pc = "cut"])
      /\ [NoHandler EXCEPT !.pc = "cut"].pc = "cut"
  BY DEF NoHandler, Handler, HandlerInv
<1>4. TypeOK'
  <2>1. loop' \in Loop /\ trigger' \in 0 .. TriggerCap
    BY ProcessAssumption DEF Exit, FreshLoop, Loop
  <2>2. stream' \in [Streams -> Handler] BY <1>2, <1>3 DEF Exit, TypeOK
  <2> QED BY <1>1, <2>1, <2>2 DEF Exit, TypeOK, dbVars
<1>5. LoopInv' /\ WakeInv'
  BY <1>1 DEF Exit, FreshLoop, TypeOK, Loop, LoopInv, WakeInv, dbVars
<1>6. LockInv' BY <1>2, <1>3, ProcessAssumption DEF Exit, AtRest, LockInv
<1>7. ASSUME NEW s \in Streams PROVE HandlerInv(stream'[s])
  <2>1. HandlerInv(stream[s]) OBVIOUS
  <2> QED BY <1>2, <1>3, <2>1
<1> QED BY <1>4, <1>5, <1>6, <1>7

\* Shutdown, crash and start.
LEMMA ShutdownKeeps ==
    ASSUME ProcessInv, Signal \/ Shutdown \/ ShutdownTimeout \/ Crash \/ Start
    PROVE  ProcessInv'
<1>1. exitsLeft \in Nat BY DEF ProcessInv, TypeOK
<1>2. CASE Signal \/ Start
  <2>1. TypeOK' BY <1>1, <1>2 DEF Signal, Start, ProcessInv, TypeOK, dbVars, loopVars, streamVars
  <2>2. LoopInv' /\ WakeInv' BY <1>2, SameLoop DEF Signal, Start, ProcessInv
  <2>3. LockInv' /\ StreamsInv' BY <1>2, SameStreams DEF Signal, Start, ProcessInv, StreamsInv
  <2> QED BY <2>1, <2>2, <2>3 DEF ProcessInv, StreamsInv
<1>3. CASE Shutdown \/ ShutdownTimeout \/ Crash
  BY <1>1, <1>3, ExitKeeps DEF Shutdown, ShutdownTimeout, Crash
<1> QED BY <1>2, <1>3

\* Every step keeps the invariant.
LEMMA NextKeeps == ProcessInv /\ [Next]_vars => ProcessInv'
<1> SUFFICES ASSUME ProcessInv, [Next]_vars PROVE ProcessInv' OBVIOUS
<1>1. CASE LoopStep \/ CycleFails BY <1>1, LoopKeeps
<1>2. ASSUME NEW r \in Writers, Commit(r) \/ TriggerReconcile(r) PROVE ProcessInv'
  BY <1>2, WriterKeeps
<1>3. ASSUME NEW s \in Streams,
             \/ Open(s) \/ HandlerStep(s) \/ PoolStep(s)
             \/ ForwarderStep(s) \/ FetchForStreamFails(s)
      PROVE  ProcessInv'
  BY <1>3, HandlerKeeps, DecisionsKeep, PoolKeeps, ForwarderKeeps DEF HandlerStep, PoolStep
<1>4. CASE Signal \/ Shutdown \/ ShutdownTimeout \/ Crash \/ Start BY <1>4, ShutdownKeeps
<1>5. CASE UNCHANGED vars
  <2>1. TypeOK' BY <1>5 DEF vars, ProcessInv, TypeOK
  <2>2. LoopInv' /\ WakeInv' BY <1>5, SameLoop DEF vars, ProcessInv, dbVars, loopVars
  <2>3. LockInv' /\ StreamsInv' BY <1>5, SameStreams DEF vars, ProcessInv, StreamsInv, streamVars
  <2> QED BY <2>1, <2>2, <2>3 DEF ProcessInv, StreamsInv
<1> QED BY <1>1, <1>2, <1>3, <1>4, <1>5 DEF Next

-----------------------------------------------------------------------------
\* The inductive invariant of the process holds in every behaviour.
THEOREM ProcessInvariant == Spec => []ProcessInv
  BY InitHolds, NextKeeps, PTL DEF Spec

\* TriggerReconcile and Run: the loop never pauses on a state older than a
\* change whose handler has pulled the trigger, whatever the capacity of the
\* channel and the number of handlers.
THEOREM WakeupsAreNotLost == Spec => []NoLostWakeup
<1>1. ProcessInv => NoLostWakeup
  <2> SUFFICES ASSUME ProcessInv, loop.pc = "wait", loop.ok, trigger = 0,
                      NEW r \in Writers, writer[r].pc = "triggered"
               PROVE  acted >= writer[r].made
    BY DEF NoLostWakeup
  <2> QED BY DEF ProcessInv, WakeInv, TypeOK, Writer
<1> QED BY <1>1, ProcessInvariant, PTL

\* computeActionsStream and StreamHandler: a client that is sent the summary has
\* been sent every decision, and nobody sends on a closed channel, for any pool.
THEOREM StreamsAreExact == Spec => []StreamIsExact
<1>1. ProcessInv => StreamIsExact
  <2> SUFFICES ASSUME ProcessInv, NEW s \in Streams
               PROVE  /\ stream[s].pc = "answered" /\ stream[s].result = "summary"
                            => stream[s].got = Decisions
                      /\ stream[s].closed
                            => stream[s].todo \cup stream[s].work \cup stream[s].busy = {}
    BY DEF StreamIsExact
  <2>1. HandlerInv(stream[s]) /\ stream[s] \in Handler BY DEF ProcessInv, TypeOK
  <2> QED BY <2>1 DEF HandlerInv, Handler
<1> QED BY <1>1, ProcessInvariant, PTL

=============================================================================
