---------------------------- MODULE FasitdSession ----------------------------
(***************************************************************************)
(* The fasitd lane: an agent holds one gRPC stream per environment; the    *)
(* deployer records a command, looks its session up in the registry, puts  *)
(* the command into the session's channel and records how that went; a     *)
(* goroutine of the session writes the channel to the stream; the Connect  *)
(* handler of the session reads the agent's answers and records them.      *)
(*                                                                         *)
(* A session is one call of Connect, a command one call of dispatch: the   *)
(* loop dispatches one after the other, a Redeploy beside it.  The stream  *)
(* is FIFO in both directions and may break at any time; what is under way *)
(* is then lost.  gRPC and PostgreSQL are external.                        *)
(***************************************************************************)
EXTENDS Integers, Sequences, Functions

CONSTANTS
    Envs,        \* environments
    Sessions,    \* calls of Connect
    Commands,    \* calls of dispatch, each with its diid
    None,        \* no session, no command
    SendBuffer,  \* capacity of session.send (64)
    Faults       \* which of AllFaults may happen

AllFaults == {"db_fail", "restart"}

ASSUME NoneAssumption == None \notin Sessions \cup Commands
ASSUME SendBufferAssumption == SendBuffer \in Nat \ {0}
ASSUME FaultsAssumption == Faults \subseteq AllFaults

VARIABLES
    registry,    \* [Envs -> the session registered for the environment]
    conn,        \* [Sessions -> the Connect handler and its sender goroutine]
    wire,        \* [Sessions -> the stream]
    agent,       \* [Sessions -> what the agent is doing]
    cmd,         \* [Commands -> the dispatch]
    statuses,    \* [Commands -> the rows of fasitd_command_statuses]
    helmLogs     \* the commands with rows in fasitd_helm_logs

vars == <<registry, conn, wire, agent, cmd, statuses, helmLogs>>

Status == {"sent", "undeliverable", "installing", "deployed"}
Report == [type : {"ack", "logs", "deployed"}, cmd : Commands]

\* done is closed from phase "closed" on; send is the buffered channel.
Conn == [phase : {"idle", "open", "closed", "gone"}, env : Envs \cup {None},
         send : Seq(Commands), sender : {"on", "off", "failed"}]
Wire == [down : Seq(Commands), up : Seq(Report), state : {"live", "broken"}]
Agent == [cmd : Commands \cup {None}, step : {"recv", "ack", "logs", "deployed"}]
Cmd == [pc : {"new", "created", "select", "blocked", "record", "ended"},
        env : Envs \cup {None}, sess : Sessions \cup {None},
        outcome : {"none", "sent", "undeliverable"}]

Waiting == [cmd |-> None, step |-> "recv"]

Init ==
    /\ registry = [e \in Envs |-> None]
    /\ conn = [s \in Sessions |-> [phase |-> "idle", env |-> None, send |-> <<>>,
                                   sender |-> "off"]]
    /\ wire = [s \in Sessions |-> [down |-> <<>>, up |-> <<>>, state |-> "live"]]
    /\ agent = [s \in Sessions |-> Waiting]
    /\ cmd = [c \in Commands |-> [pc |-> "new", env |-> None, sess |-> None, outcome |-> "none"]]
    /\ statuses = [c \in Commands |-> <<>>]
    /\ helmLogs = {}

-----------------------------------------------------------------------------
(* The agent connects; the Connect handler *)

\* Mutant: the second session takes the slot over.
AddMutant(s, e) == registry' = [registry EXCEPT ![e] = s]

Add(s, e) == registry[e] = None /\ registry' = [registry EXCEPT ![e] = s]

Connect(s, e) ==
    /\ conn[s].phase = "idle"
    /\ Add(s, e)
    /\ conn' = [conn EXCEPT ![s].phase = "open", ![s].env = e, ![s].sender = "on"]
    /\ UNCHANGED <<wire, agent, cmd, statuses, helmLogs>>

\* AlreadyExists: the agent tries again after three seconds, as a new session.
Reject(s, e) ==
    /\ conn[s].phase = "idle"
    /\ registry[e] # None
    /\ conn' = [conn EXCEPT ![s].phase = "gone"]
    /\ UNCHANGED <<registry, wire, agent, cmd, statuses, helmLogs>>

\* appendStatus and appendLogs.
RecordReport(m) ==
    CASE m.type = "ack" -> /\ statuses' = [statuses EXCEPT ![m.cmd] = Append(@, "installing")]
                           /\ UNCHANGED helmLogs
      [] m.type = "logs" -> helmLogs' = helmLogs \cup {m.cmd} /\ UNCHANGED statuses
      [] m.type = "deployed" -> /\ statuses' = [statuses EXCEPT ![m.cmd] = Append(@, "deployed")]
                                /\ UNCHANGED helmLogs

\* Mutant: reports are handled side by side, in any order.
RecvMutant(s) ==
    /\ conn[s].phase = "open" /\ conn[s].sender # "failed"
    /\ \E i \in DOMAIN wire[s].up :
          /\ RecordReport(wire[s].up[i])
          /\ wire' = [wire EXCEPT ![s].up = SubSeq(@, 1, i - 1) \o SubSeq(@, i + 1, Len(@))]
    /\ UNCHANGED <<registry, conn, agent, cmd>>

\* Recv returns a report; it is recorded, or the insert fails: the context of
\* the stream, which the insert uses, is cancelled when the stream breaks.
Recv(s) ==
    /\ conn[s].phase = "open" /\ conn[s].sender # "failed"
    /\ wire[s].up # <<>>
    /\ wire' = [wire EXCEPT ![s].up = Tail(@)]
    /\ \/ RecordReport(Head(wire[s].up))
       \/ /\ wire[s].state = "broken" \/ "db_fail" \in Faults
          /\ UNCHANGED <<statuses, helmLogs>>
    /\ UNCHANGED <<registry, conn, agent, cmd>>

\* Connect returns, because Recv failed or the sender has failed before (the
\* report read last is dropped); its defers close done first.
Close(s) ==
    /\ conn[s].phase = "open"
    /\ wire[s].state = "broken"
    /\ wire' = [wire EXCEPT ![s].up = <<>>]
    /\ conn' = [conn EXCEPT ![s].phase = "closed"]
    /\ UNCHANGED <<registry, agent, cmd, statuses, helmLogs>>

\* Mutant: the slot is kept.
RemoveMutant(s) ==
    /\ conn[s].phase = "closed"
    /\ conn' = [conn EXCEPT ![s].phase = "gone"]
    /\ UNCHANGED <<registry, wire, agent, cmd, statuses, helmLogs>>

\* ... and leave the registry second.
Remove(s) ==
    /\ conn[s].phase = "closed"
    /\ conn' = [conn EXCEPT ![s].phase = "gone"]
    /\ registry' = [e \in Envs |-> IF e = conn[s].env /\ registry[e] = s THEN None
                                                                        ELSE registry[e]]
    /\ UNCHANGED <<wire, agent, cmd, statuses, helmLogs>>

-----------------------------------------------------------------------------
(* The sender goroutine of a session *)

\* Mutant: the command stays in the channel.
SenderSendsMutant(s) ==
    /\ conn[s].sender = "on" /\ conn[s].send # <<>> /\ wire[s].state = "live"
    /\ wire' = [wire EXCEPT ![s].down = Append(@, Head(conn[s].send))]
    /\ UNCHANGED <<registry, conn, agent, cmd, statuses, helmLogs>>

SenderSends(s) ==
    /\ conn[s].sender = "on" /\ conn[s].send # <<>> /\ wire[s].state = "live"
    /\ wire' = [wire EXCEPT ![s].down = Append(@, Head(conn[s].send))]
    /\ conn' = [conn EXCEPT ![s].send = Tail(@)]
    /\ UNCHANGED <<registry, agent, cmd, statuses, helmLogs>>

\* stream.Send fails; the handler finds the error after its next Recv.
SenderFails(s) ==
    /\ conn[s].sender = "on" /\ conn[s].send # <<>> /\ wire[s].state = "broken"
    /\ conn' = [conn EXCEPT ![s].send = Tail(@), ![s].sender = "failed"]
    /\ UNCHANGED <<registry, wire, agent, cmd, statuses, helmLogs>>

\* ctx or done.
SenderStops(s) ==
    /\ conn[s].sender = "on" /\ wire[s].state = "broken"
    /\ conn' = [conn EXCEPT ![s].sender = "off"]
    /\ UNCHANGED <<registry, wire, agent, cmd, statuses, helmLogs>>

-----------------------------------------------------------------------------
(* dispatch *)

\* The command is recorded, or that fails and dispatch returns.
CreateCommand(c, e) ==
    /\ cmd[c].pc = "new"
    /\ \/ cmd' = [cmd EXCEPT ![c].pc = "created", ![c].env = e]
       \/ "db_fail" \in Faults /\ cmd' = [cmd EXCEPT ![c].pc = "ended", ![c].env = e]
    /\ UNCHANGED <<registry, conn, wire, agent, statuses, helmLogs>>

\* The session is looked up once.
Get(c) ==
    /\ cmd[c].pc = "created"
    /\ LET s == registry[cmd[c].env] IN
       cmd' = [cmd EXCEPT ![c].pc = IF s = None THEN "record" ELSE "select",
                          ![c].outcome = IF s = None THEN "undeliverable" ELSE "none",
                          ![c].sess = s]
    /\ UNCHANGED <<registry, conn, wire, agent, statuses, helmLogs>>

Selecting(c) == cmd[c].pc \in {"select", "blocked"}
Full(c) == Len(conn[cmd[c].sess].send) >= SendBuffer
Done(c) == conn[cmd[c].sess].phase \in {"closed", "gone"}

\* The select: a case that is ready, and any of them when several are.
SelectSend(c) ==
    /\ Selecting(c) /\ ~Full(c)
    /\ conn' = [conn EXCEPT ![cmd[c].sess].send = Append(@, c)]
    /\ cmd' = [cmd EXCEPT ![c].pc = "record", ![c].outcome = "sent"]
    /\ UNCHANGED <<registry, wire, agent, statuses, helmLogs>>

SelectDone(c) ==
    /\ Selecting(c) /\ Done(c)
    /\ cmd' = [cmd EXCEPT ![c].pc = "record", ![c].outcome = "undeliverable"]
    /\ UNCHANGED <<registry, conn, wire, agent, statuses, helmLogs>>

\* No case is ready: dispatch waits for at most sendTimeout.
SelectBlocks(c) ==
    /\ cmd[c].pc = "select" /\ Full(c) /\ ~Done(c)
    /\ cmd' = [cmd EXCEPT ![c].pc = "blocked"]
    /\ UNCHANGED <<registry, conn, wire, agent, statuses, helmLogs>>

\* Mutant: no time.After.
SelectTimeoutMutant(c) == FALSE /\ UNCHANGED vars
\* Mutant: the command is left in the channel for whoever reads it later.
SelectTimeoutQueues(c) ==
    /\ cmd[c].pc = "blocked"
    /\ conn' = [conn EXCEPT ![cmd[c].sess].send = Append(@, c)]
    /\ cmd' = [cmd EXCEPT ![c].pc = "record", ![c].outcome = "undeliverable"]
    /\ UNCHANGED <<registry, wire, agent, statuses, helmLogs>>

SelectTimeout(c) ==
    /\ cmd[c].pc = "blocked"
    /\ cmd' = [cmd EXCEPT ![c].pc = "record", ![c].outcome = "undeliverable"]
    /\ UNCHANGED <<registry, conn, wire, agent, statuses, helmLogs>>

\* The outcome is recorded after the command is in the channel.
Record(c) ==
    /\ cmd[c].pc = "record"
    /\ cmd' = [cmd EXCEPT ![c].pc = "ended"]
    /\ \/ statuses' = [statuses EXCEPT ![c] = Append(@, cmd[c].outcome)]
       \/ "db_fail" \in Faults /\ UNCHANGED statuses
    /\ UNCHANGED <<registry, conn, wire, agent, helmLogs>>

Dispatch(c) ==
    \/ Get(c) \/ SelectSend(c) \/ SelectDone(c) \/ SelectBlocks(c) \/ SelectTimeout(c)
    \/ Record(c)

-----------------------------------------------------------------------------
(* The agent: commands one at a time, ack, logs, deployed (dry run) *)

AgentRecv(s) ==
    /\ agent[s].step = "recv" /\ wire[s].down # <<>> /\ wire[s].state = "live"
    /\ agent' = [agent EXCEPT ![s] = [cmd |-> Head(wire[s].down), step |-> "ack"]]
    /\ wire' = [wire EXCEPT ![s].down = Tail(@)]
    /\ UNCHANGED <<registry, conn, cmd, statuses, helmLogs>>

NextStep(step) == CASE step = "ack" -> "logs" [] step = "logs" -> "deployed"

AgentSends(s) ==
    /\ agent[s].step # "recv" /\ wire[s].state = "live"
    /\ wire' = [wire EXCEPT ![s].up = Append(@, [type |-> agent[s].step, cmd |-> agent[s].cmd])]
    /\ agent' = [agent EXCEPT ![s] =
                    IF agent[s].step = "deployed" THEN Waiting
                    ELSE [agent[s] EXCEPT !.step = NextStep(@)]]
    /\ UNCHANGED <<registry, conn, cmd, statuses, helmLogs>>

\* The stream breaks: the agent stops, and of its reports only the first ones
\* have arrived.
Break(s) ==
    /\ conn[s].phase = "open" /\ wire[s].state = "live"
    /\ \E n \in 0 .. Len(wire[s].up) :
          wire' = [wire EXCEPT ![s] = [down |-> <<>>, up |-> SubSeq(wire[s].up, 1, n),
                                       state |-> "broken"]]
    /\ agent' = [agent EXCEPT ![s] = Waiting]
    /\ UNCHANGED <<registry, conn, cmd, statuses, helmLogs>>

-----------------------------------------------------------------------------
\* Fasit restarts: sessions, channels and running dispatches are lost.
FasitRestarts ==
    /\ "restart" \in Faults
    /\ registry' = [e \in Envs |-> None]
    /\ conn' = [s \in Sessions |->
                  IF conn[s].phase = "idle" THEN conn[s]
                  ELSE [conn[s] EXCEPT !.phase = "gone", !.send = <<>>, !.sender = "off"]]
    /\ wire' = [s \in Sessions |->
                  IF conn[s].phase = "idle" THEN wire[s]
                  ELSE [down |-> <<>>, up |-> <<>>, state |-> "broken"]]
    /\ agent' = [s \in Sessions |-> Waiting]
    /\ cmd' = [c \in Commands |->
                  IF cmd[c].pc = "new" THEN cmd[c] ELSE [cmd[c] EXCEPT !.pc = "ended"]]
    /\ UNCHANGED <<statuses, helmLogs>>

SessionStep(s) ==
    \/ \E e \in Envs : Connect(s, e) \/ Reject(s, e)
    \/ Recv(s) \/ Close(s) \/ Remove(s)
    \/ SenderSends(s) \/ SenderFails(s) \/ SenderStops(s)
    \/ AgentRecv(s) \/ AgentSends(s) \/ Break(s)

Next ==
    \/ \E s \in Sessions : SessionStep(s)
    \/ \E c \in Commands : (\E e \in Envs : CreateCommand(c, e)) \/ Dispatch(c)
    \/ FasitRestarts

Spec == Init /\ [][Next]_vars

\* A dispatch runs on (its timer fires, its inserts return), and a handler whose
\* stream is broken returns and runs its defers.  Nothing is assumed of agents
\* and of the sender, which a slow agent may block for ever.
Fairness ==
    /\ \A c \in Commands : WF_vars(Dispatch(c))
    /\ \A s \in Sessions : WF_vars(Close(s)) /\ WF_vars(Remove(s))
FairSpec == Spec /\ Fairness

-----------------------------------------------------------------------------
(* Properties *)

TypeOK ==
    /\ registry \in [Envs -> Sessions \cup {None}]
    /\ conn \in [Sessions -> Conn]
    /\ wire \in [Sessions -> Wire]
    /\ agent \in [Sessions -> Agent]
    /\ cmd \in [Commands -> Cmd]
    /\ statuses \in [Commands -> Seq(Status)]
    /\ helmLogs \subseteq Commands

\* The registry knows exactly the sessions whose handler runs: no environment
\* has two of them, so no two handlers record reports of one environment, and
\* no session that has ended is handed to a dispatch.
OneSession ==
    \A s \in Sessions : \A e \in Envs :
        registry[e] = s <=> conn[s].phase \in {"open", "closed"} /\ conn[s].env = e

\* The places between dispatch and the database that hold the command.
Held(c, s) ==
    \/ c \in Range(conn[s].send) \/ c \in Range(wire[s].down) \/ agent[s].cmd = c
    \/ \E m \in Range(wire[s].up) : m.cmd = c

\* A command recorded as undeliverable is not delivered later: it is nowhere on
\* a session, and undeliverable is the only status it ever gets.
UndeliverableIsFinal ==
    \A c \in Commands : cmd[c].outcome = "undeliverable" =>
        /\ \A s \in Sessions : ~Held(c, s)
        /\ statuses[c] \in {<<>>, <<"undeliverable">>}

\* Nothing is replayed, whatever sessions end and begin: a command is only ever
\* on the session that dispatch has found, and no status of it is written twice.
NoReplay ==
    \A c \in Commands :
        /\ \A s \in Sessions : Held(c, s) => cmd[c].sess = s /\ cmd[c].env = conn[s].env
        /\ IsInjective(statuses[c])

\* What the agent reports is recorded in its order: installing before deployed.
AgentOrder ==
    \A c \in Commands : \A i, j \in DOMAIN statuses[c] :
        statuses[c][i] = "installing" /\ statuses[c][j] = "deployed" => i < j

\* What makes the last three inductive.  A report has a rank, and so has what
\* is still to be reported of a command: a queued command starts with its ack.
Rank(type) == IF type = "ack" THEN 1 ELSE IF type = "logs" THEN 2 ELSE 3
Told(rows, status) == \E i \in DOMAIN rows : rows[i] = status
ToldBefore(rows, rank) == (Told(rows, "installing") => rank > 1) /\ ~Told(rows, "deployed")

\* A session in order: a command is in one place, its reports follow each other
\* by rank, and what is recorded of it was before all of that.
InLane(send, down, a, up, rows) ==
    /\ IsInjective(send) /\ IsInjective(down) /\ Range(send) \cap Range(down) = {}
    /\ \A c \in Range(send) \cup Range(down) :
          a.cmd # c /\ ToldBefore(rows[c], 1) /\ \A i \in DOMAIN up : up[i].cmd # c
    /\ a.cmd = None => a.step = "recv"
    /\ a.cmd # None => /\ a.step # "recv" /\ ToldBefore(rows[a.cmd], Rank(a.step))
                       /\ \A i \in DOMAIN up : up[i].cmd = a.cmd =>
                             Rank(up[i].type) < Rank(a.step)
    /\ \A i \in DOMAIN up :
          /\ ToldBefore(rows[up[i].cmd], Rank(up[i].type))
          /\ \A j \in DOMAIN up : i < j /\ up[i].cmd = up[j].cmd =>
                Rank(up[i].type) < Rank(up[j].type)
LaneInv == \A s \in Sessions :
    InLane(conn[s].send, wire[s].down, agent[s], wire[s].up, statuses)

\* Only what dispatch has put into a channel is on a session.
HeldInv == \A c \in Commands : \A s \in Sessions :
    Held(c, s) => cmd[c].outcome = "sent" /\ cmd[c].sess = s

\* A dispatch finds its session once and records its outcome last.
DispatchOK(c) ==
    /\ cmd[c].pc \in {"new", "created"} => cmd[c].sess = None /\ cmd[c].outcome = "none"
    /\ cmd[c].pc = "created" => cmd[c].env \in Envs
    /\ Selecting(c) => cmd[c].sess # None /\ cmd[c].outcome = "none"
    /\ cmd[c].pc = "record" => cmd[c].outcome # "none"
    /\ cmd[c].sess # None => /\ conn[cmd[c].sess].phase # "idle"
                             /\ conn[cmd[c].sess].env = cmd[c].env
    /\ cmd[c].pc # "ended" => ~Told(statuses[c], "sent") /\ ~Told(statuses[c], "undeliverable")
    /\ cmd[c].outcome # "sent" => statuses[c] \in {<<>>, <<"undeliverable">>}
DispatchInv == \A c \in Commands : DispatchOK(c)

RowsInv == /\ \A c \in Commands : IsInjective(statuses[c])
           /\ AgentOrder

FasitdInv == TypeOK /\ OneSession /\ LaneInv /\ HeldInv /\ DispatchInv /\ RowsInv

\* A dispatch ends: an agent that does not read cannot hold up the cycle.
DispatchEnds == \A c \in Commands : cmd[c].pc = "created" ~> cmd[c].pc = "ended"

\* A broken session gives its slot back, so that the agent can connect again.
SlotIsFreed ==
    \A s \in Sessions : \A e \in Envs :
        wire[s].state = "broken" /\ registry[e] = s ~> registry[e] # s

=============================================================================
