------------------------- MODULE FasitdSessionProofs -------------------------
(***************************************************************************)
(* What holds of the fasitd lane for any number of environments, sessions  *)
(* and commands, any buffer and any of the faults.                         *)
(***************************************************************************)
EXTENDS FasitdSession, TLAPS

\* The registry and the phases of the handlers; what OneSession needs besides
\* itself are the types of the two.
RegistryInv ==
    /\ registry \in [Envs -> Sessions \cup {None}]
    /\ conn \in [Sessions -> Conn]
    /\ OneSession

\* Steps that leave the registry alone and every handler in its phase and
\* environment keep the invariant.
LEMMA SamePhases ==
    ASSUME RegistryInv, registry' = registry, conn' \in [Sessions -> Conn],
           \A s \in Sessions : conn'[s].phase = conn[s].phase /\ conn'[s].env = conn[s].env
    PROVE  RegistryInv'
  BY DEF RegistryInv, OneSession

\* A handler as Connect starts it.
LEMMA ConnOpen ==
    ASSUME NEW x \in Conn, NEW e \in Envs
    PROVE  [x EXCEPT !.phase = "open", !.env = e, !.sender = "on"] \in Conn
  BY DEF Conn

\* The channel: a command is put in at the end.
LEMMA ConnSend ==
    ASSUME NEW x \in Conn, NEW c \in Commands
    PROVE  [x EXCEPT !.send = Append(x.send, c)] \in Conn
  BY DEF Conn

\* The channel: the sender takes the first command out.
LEMMA ConnTail ==
    ASSUME NEW x \in Conn, x.send # <<>>, NEW w \in {"on", "off", "failed"}
    PROVE  [x EXCEPT !.send = Tail(x.send), !.sender = w] \in Conn
           /\ [x EXCEPT !.send = Tail(x.send)] \in Conn
<1>1. x.send \in Seq(Commands) BY DEF Conn
<1>2. Tail(x.send) \in Seq(Commands) BY <1>1
<1> QED BY <1>2 DEF Conn

\* No session is registered, no handler runs.
LEMMA InitRegistry == Init => RegistryInv
<1> SUFFICES ASSUME Init PROVE RegistryInv OBVIOUS
<1>1. <<>> \in Seq(Commands) OBVIOUS
<1>2. conn \in [Sessions -> Conn] BY <1>1 DEF Init, Conn
<1>3. OneSession BY NoneAssumption DEF Init, OneSession
<1> QED BY <1>2, <1>3 DEF Init, RegistryInv

\* The steps of a session: Connect takes a free slot, Remove gives it back, the
\* others change neither.
LEMMA SessionKeeps ==
    ASSUME RegistryInv, NEW s \in Sessions, SessionStep(s)
    PROVE  RegistryInv'
<1>1. ASSUME NEW e \in Envs, Connect(s, e) PROVE RegistryInv'
  <2>1. conn' \in [Sessions -> Conn] BY <1>1, ConnOpen DEF Connect, RegistryInv
  <2>2. /\ conn[s].phase = "idle" /\ conn'[s].phase = "open" /\ conn'[s].env = e
        /\ \A t \in Sessions \ {s} : conn'[t] = conn[t]
    BY <1>1 DEF Connect, RegistryInv, Conn
  <2>3. /\ registry[e] = None /\ registry'[e] = s
        /\ \A f \in Envs \ {e} : registry'[f] = registry[f]
        /\ registry' \in [Envs -> Sessions \cup {None}]
    BY <1>1 DEF Connect, Add, RegistryInv
  <2>4. OneSession' BY <2>2, <2>3, NoneAssumption DEF OneSession, RegistryInv
  <2> QED BY <2>1, <2>3, <2>4 DEF RegistryInv
<1>2. ASSUME NEW e \in Envs, Reject(s, e) PROVE RegistryInv'
  <2>1. conn' \in [Sessions -> Conn] BY <1>2 DEF Reject, RegistryInv, Conn
  <2>2. /\ conn[s].phase = "idle" /\ conn'[s].phase = "gone"
        /\ \A t \in Sessions \ {s} : conn'[t] = conn[t]
    BY <1>2 DEF Reject, RegistryInv, Conn
  <2>3. OneSession' BY <1>2, <2>2 DEF Reject, OneSession, RegistryInv
  <2> QED BY <1>2, <2>1, <2>3 DEF Reject, RegistryInv
<1>3. CASE Close(s)
  <2>1. conn' \in [Sessions -> Conn] BY <1>3 DEF Close, RegistryInv, Conn
  <2>2. /\ conn[s].phase = "open" /\ conn'[s].phase = "closed" /\ conn'[s].env = conn[s].env
        /\ \A t \in Sessions \ {s} : conn'[t] = conn[t]
    BY <1>3 DEF Close, RegistryInv, Conn
  <2>3. OneSession' BY <1>3, <2>2 DEF Close, OneSession, RegistryInv
  <2> QED BY <1>3, <2>1, <2>3 DEF Close, RegistryInv
<1>4. CASE Remove(s)
  <2>1. conn' \in [Sessions -> Conn] BY <1>4 DEF Remove, RegistryInv, Conn
  <2>2. /\ conn[s].phase = "closed" /\ conn'[s].phase = "gone"
        /\ \A t \in Sessions \ {s} : conn'[t] = conn[t]
    BY <1>4 DEF Remove, RegistryInv, Conn
  <2>3. /\ registry' \in [Envs -> Sessions \cup {None}]
        /\ \A e \in Envs : registry'[e] = IF e = conn[s].env /\ registry[e] = s THEN None
                                          ELSE registry[e]
    BY <1>4 DEF Remove, RegistryInv
  <2>4. OneSession' BY <2>2, <2>3, NoneAssumption DEF OneSession, RegistryInv
  <2> QED BY <2>1, <2>3, <2>4 DEF RegistryInv
<1>5. CASE SenderSends(s) \/ SenderFails(s) \/ SenderStops(s)
  <2>1. conn[s] \in Conn BY DEF RegistryInv
  <2>2. conn' \in [Sessions -> Conn]
    <3>1. CASE SenderSends(s) BY <2>1, <3>1, ConnTail DEF SenderSends, RegistryInv
    <3>2. CASE SenderFails(s) BY <2>1, <3>2, ConnTail DEF SenderFails, RegistryInv
    <3>3. CASE SenderStops(s) BY <3>3 DEF SenderStops, RegistryInv, Conn
    <3> QED BY <1>5, <3>1, <3>2, <3>3
  <2>3. \A t \in Sessions : conn'[t].phase = conn[t].phase /\ conn'[t].env = conn[t].env
    <3>1. /\ conn'[s].phase = conn[s].phase /\ conn'[s].env = conn[s].env
          /\ \A t \in Sessions \ {s} : conn'[t] = conn[t]
      <4>1. CASE SenderSends(s) BY <2>1, <4>1 DEF SenderSends, RegistryInv, Conn
      <4>2. CASE SenderFails(s) BY <2>1, <4>2 DEF SenderFails, RegistryInv, Conn
      <4>3. CASE SenderStops(s) BY <2>1, <4>3 DEF SenderStops, RegistryInv, Conn
      <4> QED BY <1>5, <4>1, <4>2, <4>3
    <3> QED BY <3>1
  <2> QED BY <1>5, <2>2, <2>3, SamePhases DEF SenderSends, SenderFails, SenderStops
<1>6. CASE Recv(s) \/ AgentRecv(s) \/ AgentSends(s) \/ Break(s)
  BY <1>6 DEF Recv, AgentRecv, AgentSends, Break, RegistryInv, OneSession
<1> QED BY <1>1, <1>2, <1>3, <1>4, <1>5, <1>6 DEF SessionStep

\* A dispatch reads the registry, and changes of a session its channel only.
LEMMA DispatchKeeps ==
    ASSUME RegistryInv, NEW c \in Commands,
           (\E e \in Envs : CreateCommand(c, e)) \/ Dispatch(c)
    PROVE  RegistryInv'
<1>1. CASE SelectSend(c)
  <2> DEFINE s == cmd[c].sess
  <2>1. CASE s \in Sessions
    <3>1. conn'[s] = [conn[s] EXCEPT !.send = Append(conn[s].send, c)]
          /\ \A t \in Sessions \ {s} : conn'[t] = conn[t]
      BY <1>1, <2>1 DEF SelectSend, RegistryInv
    <3>2. conn'[s] \in Conn BY <2>1, <3>1, ConnSend DEF RegistryInv
    <3>3. conn' \in [Sessions -> Conn] BY <1>1, <2>1, <3>1, <3>2 DEF SelectSend, RegistryInv
    <3>4. conn'[s].phase = conn[s].phase /\ conn'[s].env = conn[s].env
      BY <2>1, <3>1 DEF RegistryInv, Conn
    <3>5. \A t \in Sessions : conn'[t].phase = conn[t].phase /\ conn'[t].env = conn[t].env
      BY <3>1, <3>4
    <3> QED BY <1>1, <3>3, <3>5, SamePhases DEF SelectSend
  <2>2. CASE s \notin Sessions
    <3>1. conn' = conn BY <1>1, <2>2 DEF SelectSend, RegistryInv
    <3>2. registry' = registry BY <1>1 DEF SelectSend
    <3> QED BY <3>1, <3>2, SamePhases DEF RegistryInv
  <2> QED BY <2>1, <2>2
<1>2. CASE UNCHANGED <<registry, conn>>
  BY <1>2 DEF RegistryInv, OneSession
<1> QED BY <1>1, <1>2 DEF Dispatch, CreateCommand, Get, SelectDone, SelectBlocks, SelectTimeout, Record

\* A restart empties the registry and ends every handler.
LEMMA RestartKeeps ==
    ASSUME RegistryInv, FasitRestarts
    PROVE  RegistryInv'
<1>1. <<>> \in Seq(Commands) OBVIOUS
<1>2. \A s \in Sessions : conn'[s] \in Conn /\ conn'[s].phase \in {"idle", "gone"}
  BY <1>1 DEF FasitRestarts, RegistryInv, Conn
<1>3. conn' \in [Sessions -> Conn] BY <1>2 DEF FasitRestarts
<1>4. registry' = [e \in Envs |-> None] BY DEF FasitRestarts
<1>5. OneSession' BY <1>2, <1>4, NoneAssumption DEF OneSession
<1> QED BY <1>3, <1>4, <1>5 DEF RegistryInv

\* No environment ever has two running handlers, and the registry never names a
\* session that has ended, however sessions connect, break and are removed.
THEOREM RegistryIsExact == Spec => []OneSession
<1>1. RegistryInv /\ [Next]_vars => RegistryInv'
  <2> SUFFICES ASSUME RegistryInv, [Next]_vars PROVE RegistryInv' OBVIOUS
  <2>1. CASE UNCHANGED vars BY <2>1 DEF vars, RegistryInv, OneSession
  <2> QED BY <2>1, SessionKeeps, DispatchKeeps, RestartKeeps DEF Next
<1>2. RegistryInv => OneSession BY DEF RegistryInv
<1> QED BY <1>1, <1>2, InitRegistry, PTL DEF Spec

-----------------------------------------------------------------------------
(* A session in order *)

\* Nothing is on the session.
LEMMA LaneEmpty ==
    ASSUME NEW rows
    PROVE  InLane(<<>>, <<>>, Waiting, <<>>, rows)
  BY DEF InLane, Waiting, IsInjective, Range

\* dispatch puts a command into the channel that is nowhere on the session.
LEMMA LanePut ==
    ASSUME NEW send \in Seq(Commands), NEW down \in Seq(Commands), NEW a \in Agent,
           NEW up \in Seq(Report), NEW rows, InLane(send, down, a, up, rows),
           NEW c \in Commands, c \notin Range(send), c \notin Range(down), a.cmd # c,
           \A i \in DOMAIN up : up[i].cmd # c, ToldBefore(rows[c], 1)
    PROVE  InLane(Append(send, c), down, a, up, rows)
<1>1. DOMAIN Append(send, c) = 1 .. Len(send) + 1 /\ DOMAIN send = 1 .. Len(send)
      /\ \A i \in 1 .. Len(send) : Append(send, c)[i] = send[i]
  OBVIOUS
<1>2. Append(send, c)[Len(send) + 1] = c OBVIOUS
<1>3. Range(Append(send, c)) = Range(send) \cup {c} BY <1>1, <1>2 DEF Range
<1>4. IsInjective(Append(send, c)) BY <1>1, <1>2 DEF InLane, IsInjective, Range
<1> QED BY <1>3, <1>4 DEF InLane

\* An element is added at the end.
LEMMA RangeAppend ==
    ASSUME NEW S, NEW q \in Seq(S), NEW c \in S
    PROVE  Range(Append(q, c)) = Range(q) \cup {c}
<1>1. DOMAIN Append(q, c) = 1 .. Len(q) + 1 /\ DOMAIN q = 1 .. Len(q)
      /\ \A i \in 1 .. Len(q) : Append(q, c)[i] = q[i]
  OBVIOUS
<1>2. Append(q, c)[Len(q) + 1] = c OBVIOUS
<1> QED BY <1>1, <1>2 DEF Range

\* Without the first element no element is new, and those left keep their order.
LEMMA TailElements ==
    ASSUME NEW S, NEW q \in Seq(S), q # <<>>
    PROVE  /\ Tail(q) \in Seq(S) /\ Head(q) \in S
           /\ \A i \in DOMAIN Tail(q) : i + 1 \in DOMAIN q /\ i \in Nat /\ Tail(q)[i] = q[i + 1]
           /\ 1 \in DOMAIN q /\ Head(q) = q[1]
           /\ \A i \in DOMAIN q : i \in Nat
  OBVIOUS

LEMMA TailInjective ==
    ASSUME NEW S, NEW q \in Seq(S), q # <<>>, IsInjective(q)
    PROVE  /\ IsInjective(Tail(q)) /\ Range(Tail(q)) \subseteq Range(q)
           /\ Head(q) \in Range(q) /\ Head(q) \notin Range(Tail(q))
<1>1. IsInjective(Tail(q))
  BY TailElements DEF IsInjective
<1>2. Range(Tail(q)) \subseteq Range(q) /\ Head(q) \in Range(q) BY TailElements DEF Range
<1>3. Head(q) \notin Range(Tail(q)) BY TailElements DEF Range, IsInjective
<1> QED BY <1>1, <1>2, <1>3

\* Less on the session is as much in order.
LEMMA LaneLess ==
    ASSUME NEW send, NEW down, NEW a, NEW up, NEW rows, InLane(send, down, a, up, rows),
           NEW send2, IsInjective(send2), Range(send2) \subseteq Range(send),
           NEW down2, IsInjective(down2), Range(down2) \subseteq Range(down)
    PROVE  InLane(send2, down2, a, up, rows)
  BY DEF InLane

\* The sender writes the first command of the channel to the stream.
LEMMA LaneSend ==
    ASSUME NEW send \in Seq(Commands), send # <<>>, NEW down \in Seq(Commands), NEW a \in Agent,
           NEW up \in Seq(Report), NEW rows, InLane(send, down, a, up, rows)
    PROVE  InLane(Tail(send), Append(down, Head(send)), a, up, rows)
<1> DEFINE c == Head(send)
<1>1. /\ IsInjective(Tail(send)) /\ Range(Tail(send)) \subseteq Range(send)
      /\ c \in Range(send) /\ c \notin Range(Tail(send)) /\ c \in Commands
  BY TailInjective, TailElements DEF InLane
<1>2. /\ DOMAIN Append(down, c) = 1 .. Len(down) + 1 /\ DOMAIN down = 1 .. Len(down)
      /\ \A i \in 1 .. Len(down) : Append(down, c)[i] = down[i]
      /\ Append(down, c)[Len(down) + 1] = c
  BY <1>1
<1>3. Range(Append(down, c)) = Range(down) \cup {c} BY <1>2, SMTT(30) DEF Range
<1>4. c \notin Range(down) BY <1>1 DEF InLane
<1>5. IsInjective(Append(down, c)) BY <1>2, <1>4 DEF InLane, IsInjective, Range
<1>6. InLane(Tail(send), Append(down, c), a, up, rows)
  <2> HIDE DEF c
  <2> QED BY <1>1, <1>3, <1>4, <1>5 DEF InLane
<1> QED BY <1>6

\* The agent takes the first command of the stream.
LEMMA LaneTake ==
    ASSUME NEW send \in Seq(Commands), NEW down \in Seq(Commands), down # <<>>,
           NEW up \in Seq(Report), NEW rows, InLane(send, down, Waiting, up, rows)
    PROVE  InLane(send, Tail(down), [cmd |-> Head(down), step |-> "ack"], up, rows)
<1> DEFINE c == Head(down)
           a == [cmd |-> c, step |-> "ack"]
<1>1. /\ IsInjective(Tail(down)) /\ Range(Tail(down)) \subseteq Range(down)
      /\ c \in Range(down) /\ c \notin Range(Tail(down)) /\ c \in Commands
  BY TailInjective, TailElements DEF InLane
<1>2. InLane(send, Tail(down), Waiting, up, rows) BY <1>1, LaneLess DEF InLane
<1>3. a.cmd = c /\ a.step = "ack" /\ Rank("ack") = 1 BY DEF Rank
<1>4. ToldBefore(rows[c], 1) /\ (\A i \in DOMAIN up : up[i].cmd # c) /\ c \notin Range(send)
  BY <1>1 DEF InLane
<1>5. InLane(send, Tail(down), a, up, rows)
  <2> HIDE DEF c, a
  <2>1. \A d \in Range(send) \cup Range(Tail(down)) : a.cmd # d BY <1>1, <1>3, <1>4
  <2> QED BY <1>1, <1>2, <1>3, <1>4, <2>1, NoneAssumption DEF InLane, Waiting
<1> QED BY <1>5

\* The agent reports a step and goes on to the next.
LEMMA LaneReport ==
    ASSUME NEW send \in Seq(Commands), NEW down \in Seq(Commands), NEW a \in Agent,
           NEW up \in Seq(Report), NEW rows, InLane(send, down, a, up, rows),
           a.cmd # None, NEW b, b = Waiting \/ (b.cmd = a.cmd /\ b.step # "recv"
                                                /\ Rank(b.step) > Rank(a.step))
    PROVE  InLane(send, down, b, Append(up, [type |-> a.step, cmd |-> a.cmd]), rows)
<1> DEFINE m == [type |-> a.step, cmd |-> a.cmd]
<1>1. a.cmd \in Commands /\ a.step \in {"ack", "logs", "deployed"} BY DEF Agent, InLane
<1>2. m \in Report /\ m.type = a.step /\ m.cmd = a.cmd BY <1>1 DEF Report
<1>3. /\ DOMAIN Append(up, m) = 1 .. Len(up) + 1 /\ DOMAIN up = 1 .. Len(up) /\ Len(up) \in Nat
      /\ \A i \in 1 .. Len(up) : Append(up, m)[i] = up[i]
      /\ Append(up, m)[Len(up) + 1] = m
  BY <1>2
<1> HIDE DEF m
<1>4. \A i \in 1 .. Len(up) + 1 : i \in 1 .. Len(up) \/ i = Len(up) + 1 BY <1>3
<1>5. Rank(a.step) \in Nat /\ \A i \in DOMAIN up : Rank(up[i].type) \in Nat BY DEF Rank
<1>6. \A c \in Range(send) \cup Range(down) :
         b.cmd # c /\ ToldBefore(rows[c], 1) /\ \A i \in DOMAIN Append(up, m) : Append(up, m)[i].cmd # c
  <2>1. \A c \in Range(send) \cup Range(down) : c \in Commands BY DEF Range
  <2> QED BY <1>2, <1>3, <1>4, <2>1, NoneAssumption DEF InLane, Waiting
<1>7. b.cmd # None => /\ b.step # "recv" /\ ToldBefore(rows[b.cmd], Rank(b.step))
                      /\ \A i \in DOMAIN Append(up, m) : Append(up, m)[i].cmd = b.cmd =>
                            Rank(Append(up, m)[i].type) < Rank(b.step)
  <2> SUFFICES ASSUME b.cmd # None PROVE b.cmd = a.cmd /\ b.step # "recv"
                  /\ ToldBefore(rows[b.cmd], Rank(b.step))
                  /\ \A i \in DOMAIN Append(up, m) : Append(up, m)[i].cmd = b.cmd =>
                            Rank(Append(up, m)[i].type) < Rank(b.step)
    OBVIOUS
  <2>1. b.cmd = a.cmd /\ b.step # "recv" /\ Rank(b.step) > Rank(a.step) BY DEF Waiting
  <2>2. Rank(b.step) \in Nat BY DEF Rank
  <2>3. ToldBefore(rows[b.cmd], Rank(b.step)) BY <1>5, <2>1, <2>2 DEF InLane, ToldBefore
  <2>4. ASSUME NEW i \in DOMAIN Append(up, m), Append(up, m)[i].cmd = b.cmd
        PROVE  Rank(Append(up, m)[i].type) < Rank(b.step)
    <3>1. CASE i \in 1 .. Len(up) BY <1>3, <1>5, <2>1, <2>2, <2>4, <3>1 DEF InLane
    <3>2. CASE i = Len(up) + 1 BY <1>2, <1>3, <2>1, <3>2
    <3> QED BY <1>3, <1>4, <3>1, <3>2
  <2> QED BY <2>1, <2>3, <2>4
<1>8. ASSUME NEW i \in DOMAIN Append(up, m)
      PROVE  /\ ToldBefore(rows[Append(up, m)[i].cmd], Rank(Append(up, m)[i].type))
             /\ \A j \in DOMAIN Append(up, m) : i < j /\ Append(up, m)[i].cmd = Append(up, m)[j].cmd =>
                   Rank(Append(up, m)[i].type) < Rank(Append(up, m)[j].type)
  <2>1. CASE i \in 1 .. Len(up)
    <3>1. ToldBefore(rows[Append(up, m)[i].cmd], Rank(Append(up, m)[i].type)) BY <1>3, <2>1 DEF InLane
    <3>2. ASSUME NEW j \in DOMAIN Append(up, m), i < j, Append(up, m)[i].cmd = Append(up, m)[j].cmd
          PROVE  Rank(Append(up, m)[i].type) < Rank(Append(up, m)[j].type)
      <4>1. CASE j \in 1 .. Len(up) BY <1>3, <2>1, <3>2, <4>1 DEF InLane
      <4>2. CASE j = Len(up) + 1 BY <1>2, <1>3, <2>1, <3>2, <4>2 DEF InLane
      <4> QED BY <1>3, <1>4, <4>1, <4>2
    <3> QED BY <3>1, <3>2
  <2>2. CASE i = Len(up) + 1
    <3>1. ToldBefore(rows[a.cmd], Rank(a.step)) BY DEF InLane
    <3>2. \A j \in DOMAIN Append(up, m) : ~(i < j) BY <1>3, <2>2
    <3> QED BY <1>2, <1>3, <2>2, <3>1, <3>2
  <2> QED BY <1>3, <1>4, <2>1, <2>2
<1>9. /\ IsInjective(send) /\ IsInjective(down) /\ Range(send) \cap Range(down) = {}
      /\ b.cmd = None => b.step = "recv"
  BY DEF InLane, Waiting
<1> QED BY <1>6, <1>7, <1>8, <1>9 DEF InLane, m

\* What a report and the elements of a sequence of them are.
LEMMA ReportFields ==
    ASSUME NEW up \in Seq(Report)
    PROVE  \A i \in DOMAIN up : up[i].cmd \in Commands /\ up[i].type \in {"ack", "logs", "deployed"}
<1>1. \A m \in Report : m.cmd \in Commands /\ m.type \in {"ack", "logs", "deployed"} BY DEF Report
<1>2. \A i \in DOMAIN up : up[i] \in Report OBVIOUS
<1> QED BY <1>1, <1>2

\* The rows of commands that are not on the session do not matter to it, nor
\* do the rows dispatch writes.
LEMMA LaneRows ==
    ASSUME NEW send \in Seq(Commands), NEW down \in Seq(Commands), NEW a \in Agent,
           NEW up \in Seq(Report), NEW rows, InLane(send, down, a, up, rows), NEW rows2,
           \A c \in Commands :
              \/ /\ Told(rows2[c], "installing") => Told(rows[c], "installing")
                 /\ Told(rows2[c], "deployed") => Told(rows[c], "deployed")
              \/ /\ c \notin Range(send) \cup Range(down) /\ a.cmd # c
                 /\ \A i \in DOMAIN up : up[i].cmd # c
    PROVE  InLane(send, down, a, up, rows2)
<1>1. \A c \in Commands : \A n :
         (/\ c \in Range(send) \cup Range(down) \/ a.cmd = c \/ \E i \in DOMAIN up : up[i].cmd = c
          /\ ToldBefore(rows[c], n)) => ToldBefore(rows2[c], n)
  BY DEF ToldBefore
<1>2. Range(send) \cup Range(down) \subseteq Commands BY DEF Range
<1>3. a.cmd # None => a.cmd \in Commands BY DEF Agent
<1>4. \A i \in DOMAIN up : up[i].cmd \in Commands BY ReportFields
<1> HIDE DEF ToldBefore
<1> QED BY <1>1, <1>2, <1>3, <1>4 DEF InLane

\* The handler records the first report, or loses it.
LEMMA LaneRecord ==
    ASSUME NEW send \in Seq(Commands), NEW down \in Seq(Commands), NEW a \in Agent,
           NEW up \in Seq(Report), up # <<>>, NEW rows, InLane(send, down, a, up, rows),
           NEW rows2, \A c \in Commands \ {Head(up).cmd} : rows2[c] = rows[c],
           LET m == Head(up)
           IN  /\ Told(rows2[m.cmd], "installing") =>
                     Told(rows[m.cmd], "installing") \/ m.type = "ack"
               /\ Told(rows2[m.cmd], "deployed") =>
                     Told(rows[m.cmd], "deployed") \/ m.type = "deployed"
    PROVE  InLane(send, down, a, Tail(up), rows2)
<1> DEFINE m == Head(up)
           c == m.cmd
<1>1. /\ Tail(up) \in Seq(Report) /\ m \in Report /\ 1 \in DOMAIN up /\ m = up[1]
      /\ \A i \in DOMAIN Tail(up) : i + 1 \in DOMAIN up /\ i \in Nat /\ Tail(up)[i] = up[i + 1]
      /\ \A i \in DOMAIN up : i \in Nat
      /\ c \in Commands /\ m.type \in {"ack", "logs", "deployed"}
  BY TailElements, ReportFields
<1>2. \A r \in Nat : Rank(m.type) < r /\ ToldBefore(rows[c], Rank(m.type)) /\ r <= 3
         => ToldBefore(rows2[c], r)
  <2>1. Rank(m.type) \in 1 .. 3 /\ (m.type = "deployed" => Rank(m.type) = 3) BY <1>1 DEF Rank
  <2> QED BY <1>1, <2>1 DEF ToldBefore
<1>3. ToldBefore(rows[c], Rank(m.type)) BY <1>1 DEF InLane
<1>4. \A x : Rank(x) \in Nat /\ Rank(x) <= 3 BY DEF Rank
<1>5. c \notin Range(send) \cup Range(down) BY <1>1 DEF InLane
<1>6. a.cmd = c => ToldBefore(rows2[c], Rank(a.step))
  <2>1. a.cmd = c => Rank(m.type) < Rank(a.step) BY <1>1, NoneAssumption DEF InLane
  <2> QED BY <1>2, <1>3, <1>4, <2>1
<1>7. \A i \in DOMAIN Tail(up) : Tail(up)[i].cmd = c => ToldBefore(rows2[c], Rank(Tail(up)[i].type))
  <2> SUFFICES ASSUME NEW i \in DOMAIN Tail(up), Tail(up)[i].cmd = c
               PROVE  ToldBefore(rows2[c], Rank(Tail(up)[i].type))
    OBVIOUS
  <2>1. i + 1 \in DOMAIN up /\ 1 < i + 1 /\ Tail(up)[i] = up[i + 1] /\ up[1].cmd = up[i + 1].cmd
    <3>1. i \in DOMAIN Tail(up) => i >= 1 BY <1>1
    <3> QED BY <1>1, <3>1
  <2>2. Rank(m.type) < Rank(Tail(up)[i].type) BY <1>1, <2>1 DEF InLane
  <2> QED BY <1>2, <1>3, <1>4, <2>2
<1> HIDE DEF m, c
<1>8. \A d \in Commands : d # c => rows2[d] = rows[d] BY DEF c, m
<1>9. Range(send) \cup Range(down) \subseteq Commands /\ (a.cmd # None => a.cmd \in Commands)
      /\ \A i \in DOMAIN Tail(up) : Tail(up)[i].cmd \in Commands
  <2>1. \A i \in DOMAIN Tail(up) : Tail(up)[i].cmd \in Commands BY <1>1, ReportFields
  <2>2. a.cmd # None => a.cmd \in Commands BY DEF Agent
  <2> QED BY <2>1, <2>2 DEF Range
<1>10. \A i \in DOMAIN Tail(up) : ToldBefore(rows2[Tail(up)[i].cmd], Rank(Tail(up)[i].type))
  <2> SUFFICES ASSUME NEW i \in DOMAIN Tail(up), Tail(up)[i].cmd # c
               PROVE  ToldBefore(rows2[Tail(up)[i].cmd], Rank(Tail(up)[i].type))
    BY <1>7
  <2>1. i + 1 \in DOMAIN up /\ Tail(up)[i] = up[i + 1] BY <1>1
  <2>2. ToldBefore(rows[up[i + 1].cmd], Rank(up[i + 1].type)) BY <2>1 DEF InLane
  <2> QED BY <1>8, <1>9, <2>1, <2>2
<1>11. \A i, j \in DOMAIN Tail(up) : i < j /\ Tail(up)[i].cmd = Tail(up)[j].cmd =>
          Rank(Tail(up)[i].type) < Rank(Tail(up)[j].type)
  <2> SUFFICES ASSUME NEW i \in DOMAIN Tail(up), NEW j \in DOMAIN Tail(up), i < j,
                      Tail(up)[i].cmd = Tail(up)[j].cmd
               PROVE  Rank(Tail(up)[i].type) < Rank(Tail(up)[j].type)
    OBVIOUS
  <2>1. i + 1 \in DOMAIN up /\ j + 1 \in DOMAIN up /\ i + 1 < j + 1
        /\ Tail(up)[i] = up[i + 1] /\ Tail(up)[j] = up[j + 1]
    BY <1>1
  <2> QED BY <2>1 DEF InLane
<1>12. \A d \in Range(send) \cup Range(down) :
          a.cmd # d /\ ToldBefore(rows2[d], 1) /\ \A i \in DOMAIN Tail(up) : Tail(up)[i].cmd # d
  BY <1>1, <1>5, <1>8, <1>9 DEF InLane
<1>13. a.cmd # None => /\ a.step # "recv" /\ ToldBefore(rows2[a.cmd], Rank(a.step))
                       /\ \A i \in DOMAIN Tail(up) : Tail(up)[i].cmd = a.cmd =>
                             Rank(Tail(up)[i].type) < Rank(a.step)
  BY <1>1, <1>6, <1>8, <1>9 DEF InLane
<1>14. /\ IsInjective(send) /\ IsInjective(down) /\ Range(send) \cap Range(down) = {}
       /\ a.cmd = None => a.step = "recv"
  BY DEF InLane
<1> QED BY <1>10, <1>11, <1>12, <1>13, <1>14 DEF InLane

\* The stream breaks: the first reports may have arrived.
LEMMA LaneBreak ==
    ASSUME NEW send \in Seq(Commands), NEW down \in Seq(Commands), NEW a \in Agent,
           NEW up \in Seq(Report), NEW rows, InLane(send, down, a, up, rows),
           NEW n \in 0 .. Len(up)
    PROVE  InLane(send, <<>>, Waiting, SubSeq(up, 1, n), rows)
<1>1. /\ DOMAIN SubSeq(up, 1, n) = 1 .. n /\ DOMAIN up = 1 .. Len(up)
      /\ \A i \in 1 .. n : SubSeq(up, 1, n)[i] = up[i] /\ i \in 1 .. Len(up)
  OBVIOUS
<1>2. IsInjective(<<>>) /\ Range(<<>>) = {} BY DEF IsInjective, Range
<1>3. Waiting.cmd = None /\ Waiting.step = "recv" /\ Range(send) \subseteq Commands
  BY DEF Waiting, Range
<1> QED BY <1>1, <1>2, <1>3, NoneAssumption DEF InLane

-----------------------------------------------------------------------------
(* Types *)

LEMMA Fields ==
    ASSUME TypeOK, NEW s \in Sessions
    PROVE  /\ conn[s] \in Conn /\ wire[s] \in Wire /\ agent[s] \in Agent
           /\ conn[s].send \in Seq(Commands)
           /\ wire[s].down \in Seq(Commands) /\ wire[s].up \in Seq(Report)
           /\ wire[s].state \in {"live", "broken"}
<1>1. conn[s] \in Conn /\ wire[s] \in Wire /\ agent[s] \in Agent BY DEF TypeOK
<1> QED BY <1>1 DEF Conn, Wire

\* What a report does to the rows.
LEMMA RecordTypes ==
    ASSUME TypeOK, NEW m \in Report, RecordReport(m)
    PROVE  /\ statuses' \in [Commands -> Seq(Status)] /\ helmLogs' \subseteq Commands
           /\ m.cmd \in Commands
           /\ \A c \in Commands \ {m.cmd} : statuses'[c] = statuses[c]
           /\ \/ statuses'[m.cmd] = statuses[m.cmd] /\ m.type = "logs"
              \/ statuses'[m.cmd] = Append(statuses[m.cmd], "installing") /\ m.type = "ack"
              \/ statuses'[m.cmd] = Append(statuses[m.cmd], "deployed") /\ m.type = "deployed"
<1>1. m.cmd \in Commands /\ m.type \in {"ack", "logs", "deployed"} BY DEF Report
<1>2. statuses \in [Commands -> Seq(Status)] /\ helmLogs \subseteq Commands BY DEF TypeOK
<1>3. \A x \in {"installing", "deployed"} : Append(statuses[m.cmd], x) \in Seq(Status)
  BY <1>1, <1>2 DEF Status
<1>4. CASE m.type = "ack"
  <2>1. statuses' = [statuses EXCEPT ![m.cmd] = Append(@, "installing")] /\ helmLogs' = helmLogs
    BY <1>4 DEF RecordReport
  <2> QED BY <1>1, <1>2, <1>3, <1>4, <2>1
<1>5. CASE m.type = "logs"
  <2>1. statuses' = statuses /\ helmLogs' = helmLogs \cup {m.cmd} BY <1>5 DEF RecordReport
  <2> QED BY <1>1, <1>2, <1>5, <2>1
<1>6. CASE m.type = "deployed"
  <2>1. statuses' = [statuses EXCEPT ![m.cmd] = Append(@, "deployed")] /\ helmLogs' = helmLogs
    BY <1>6 DEF RecordReport
  <2> QED BY <1>1, <1>2, <1>3, <1>6, <2>1
<1> QED BY <1>1, <1>4, <1>5, <1>6

\* The first report is recorded or lost.
LEMMA RecvTypes ==
    ASSUME TypeOK, NEW s \in Sessions, Recv(s)
    PROVE  /\ TypeOK' /\ wire[s].up # <<>> /\ Head(wire[s].up) \in Report
           /\ wire'[s].down = wire[s].down /\ wire'[s].up = Tail(wire[s].up)
           /\ \A t \in Sessions \ {s} : wire'[t] = wire[t]
           /\ UNCHANGED <<registry, conn, agent, cmd>>
           /\ RecordReport(Head(wire[s].up)) \/ UNCHANGED statuses
<1>1. UNCHANGED <<registry, conn, agent, cmd>> /\ wire[s].up # <<>>
      /\ wire' = [wire EXCEPT ![s].up = Tail(@)]
  BY DEF Recv
<1>2. wire[s].up \in Seq(Report) /\ wire[s] \in Wire BY Fields
<1>3. Tail(wire[s].up) \in Seq(Report) /\ Head(wire[s].up) \in Report BY <1>1, <1>2, TailElements
<1>4. /\ wire'[s].down = wire[s].down /\ wire'[s].up = Tail(wire[s].up)
      /\ wire'[s] \in Wire
      /\ \A t \in Sessions \ {s} : wire'[t] = wire[t]
  <2>1. wire'[s] = [wire[s] EXCEPT !.up = Tail(wire[s].up)]
        /\ \A t \in Sessions \ {s} : wire'[t] = wire[t]
    BY <1>1 DEF TypeOK
  <2> QED BY <1>2, <1>3, <2>1 DEF Wire
<1>5. wire' \in [Sessions -> Wire] BY <1>1, <1>4 DEF TypeOK
<1>6. RecordReport(Head(wire[s].up)) \/ UNCHANGED <<statuses, helmLogs>> BY DEF Recv
<1>7. statuses' \in [Commands -> Seq(Status)] /\ helmLogs' \subseteq Commands
  BY <1>3, <1>6, RecordTypes DEF TypeOK
<1> QED BY <1>1, <1>3, <1>4, <1>5, <1>6, <1>7 DEF TypeOK

\* Steps that change the stream or the channel of one session, or its phase.
LEMMA SessionMoves ==
    ASSUME FasitdInv, TypeOK', OneSession', NEW s \in Sessions, UNCHANGED <<cmd, statuses>>,
           \A t \in Sessions : conn[t].phase # "idle" =>
              conn'[t].phase # "idle" /\ conn'[t].env = conn[t].env,
           \A t \in Sessions \ {s} :
              conn'[t].send = conn[t].send /\ wire'[t] = wire[t] /\ agent'[t] = agent[t],
           InLane(conn'[s].send, wire'[s].down, agent'[s], wire'[s].up, statuses),
           \A c \in Commands : Held(c, s)' => Held(c, s)
    PROVE  FasitdInv'
<1>1. LaneInv' BY DEF FasitdInv, LaneInv
<1>2. \A c \in Commands : \A t \in Sessions : Held(c, t)' => Held(c, t) BY DEF Held
<1>3. HeldInv' BY <1>2 DEF FasitdInv, HeldInv
<1>4. DispatchInv'
  <2>1. \A c \in Commands : cmd[c].sess # None => cmd[c].sess \in Sessions
    BY DEF FasitdInv, TypeOK, Cmd
  <2> QED BY <2>1 DEF FasitdInv, DispatchInv, DispatchOK, Selecting
<1>5. RowsInv' BY DEF FasitdInv, RowsInv, AgentOrder
<1> QED BY <1>1, <1>3, <1>4, <1>5 DEF FasitdInv

\* Connect, Reject, Close and Remove move the phase of a handler; Close drops
\* what has not been read.
LEMMA HandlerKeeps ==
    ASSUME FasitdInv, OneSession', conn' \in [Sessions -> Conn],
           registry' \in [Envs -> Sessions \cup {None}], NEW s \in Sessions,
           (\E e \in Envs : Connect(s, e) \/ Reject(s, e)) \/ Close(s) \/ Remove(s)
    PROVE  FasitdInv'
<1> USE DEF FasitdInv
<1>1. UNCHANGED <<agent, cmd, statuses, helmLogs>> BY DEF Connect, Reject, Close, Remove
<1>2. /\ conn'[s].send = conn[s].send
      /\ \A t \in Sessions \ {s} : conn'[t] = conn[t]
      /\ conn[s].phase # "idle" => conn'[s].phase # "idle" /\ conn'[s].env = conn[s].env
  <2>1. conn[s] \in Conn BY Fields
  <2>2. ASSUME NEW e \in Envs, Connect(s, e) \/ Reject(s, e)
        PROVE  conn'[s].send = conn[s].send /\ conn[s].phase = "idle"
    <3>1. CASE Connect(s, e) BY <2>1, <3>1 DEF TypeOK, Connect, Conn
    <3>2. CASE Reject(s, e) BY <2>1, <3>2 DEF TypeOK, Reject, Conn
    <3> QED BY <2>2, <3>1, <3>2
  <2>3. CASE Close(s) \/ Remove(s)
    BY <2>1, <2>3 DEF TypeOK, Close, Remove, Conn
  <2>4. \A t \in Sessions \ {s} : conn'[t] = conn[t] BY DEF TypeOK, Connect, Reject, Close, Remove
  <2> QED BY <2>2, <2>3, <2>4
<1>3. /\ wire' \in [Sessions -> Wire] /\ \A t \in Sessions \ {s} : wire'[t] = wire[t]
      /\ wire'[s] = wire[s] \/ (wire'[s].down = wire[s].down /\ wire'[s].up = <<>>)
  <2>1. wire' = wire \/ wire' = [wire EXCEPT ![s].up = <<>>] BY DEF Connect, Reject, Close, Remove
  <2>2. wire[s] \in Wire /\ <<>> \in Seq(Report) BY Fields
  <2>3. CASE wire' = wire BY <2>3 DEF TypeOK
  <2>4. CASE wire' = [wire EXCEPT ![s].up = <<>>]
    <3>1. wire'[s] = [wire[s] EXCEPT !.up = <<>>] /\ \A t \in Sessions \ {s} : wire'[t] = wire[t]
      BY <2>4 DEF TypeOK
    <3>2. wire'[s] \in Wire /\ wire'[s].down = wire[s].down /\ wire'[s].up = <<>>
      BY <2>2, <3>1 DEF Wire
    <3> QED BY <2>4, <3>1, <3>2 DEF TypeOK
  <2> QED BY <2>1, <2>3, <2>4
<1>4. TypeOK' BY <1>1, <1>3 DEF TypeOK
<1>5. InLane(conn'[s].send, wire'[s].down, agent'[s], wire'[s].up, statuses)
  <2>1. InLane(conn[s].send, wire[s].down, agent[s], wire[s].up, statuses) BY DEF LaneInv
  <2>2. CASE wire'[s] = wire[s] BY <1>1, <1>2, <2>1, <2>2
  <2>3. CASE wire'[s].down = wire[s].down /\ wire'[s].up = <<>>
    <3>1. DOMAIN <<>> = {} OBVIOUS
    <3>2. InLane(conn[s].send, wire[s].down, agent[s], <<>>, statuses) BY <2>1, <3>1 DEF InLane
    <3> QED BY <1>1, <1>2, <2>3, <3>2
  <2> QED BY <1>3, <2>2, <2>3
<1>6. \A c \in Commands : Held(c, s)' => Held(c, s)
  <2>1. Range(<<>>) = {} BY DEF Range
  <2> QED BY <1>1, <1>2, <1>3, <2>1 DEF Held
<1> QED BY <1>1, <1>2, <1>3, <1>4, <1>5, <1>6, SessionMoves

\* The sender moves the first command of the channel to the stream, or drops it.
LEMMA SenderKeeps ==
    ASSUME FasitdInv, OneSession', conn' \in [Sessions -> Conn], NEW s \in Sessions,
           SenderSends(s) \/ SenderFails(s) \/ SenderStops(s)
    PROVE  FasitdInv'
<1> USE DEF FasitdInv
<1>1. UNCHANGED <<registry, agent, cmd, statuses, helmLogs>>
  BY DEF SenderSends, SenderFails, SenderStops
<1>2. /\ conn[s] \in Conn /\ wire[s] \in Wire /\ agent[s] \in Agent
      /\ conn[s].send \in Seq(Commands)
      /\ wire[s].down \in Seq(Commands) /\ wire[s].up \in Seq(Report)
  BY Fields
<1>3. \A t \in Sessions \ {s} : conn'[t] = conn[t] /\ wire'[t] = wire[t]
  BY DEF TypeOK, SenderSends, SenderFails, SenderStops
<1>4. InLane(conn[s].send, wire[s].down, agent[s], wire[s].up, statuses) BY DEF LaneInv
<1>5. CASE SenderSends(s)
  <2> DEFINE c == Head(conn[s].send)
  <2>1. /\ conn[s].send # <<>>
        /\ conn' = [conn EXCEPT ![s].send = Tail(@)]
        /\ wire' = [wire EXCEPT ![s].down = Append(@, c)]
    BY <1>5 DEF SenderSends
  <2>2. c \in Commands /\ Append(wire[s].down, c) \in Seq(Commands)
        /\ Range(Tail(conn[s].send)) \subseteq Range(conn[s].send)
        /\ Range(Append(wire[s].down, c)) \subseteq Range(wire[s].down) \cup Range(conn[s].send)
    <3>1. c \in Commands /\ c \in Range(conn[s].send)
          /\ Range(Tail(conn[s].send)) \subseteq Range(conn[s].send)
      BY <1>2, <1>4, <2>1, TailElements, TailInjective DEF InLane
    <3> HIDE DEF c
    <3> QED BY <1>2, <3>1 DEF Range
  <2>3. /\ conn'[s].send = Tail(conn[s].send) /\ conn'[s].phase = conn[s].phase
        /\ conn'[s].env = conn[s].env
    BY <1>2, <2>1 DEF TypeOK, Conn
  <2>4. /\ wire'[s] \in Wire /\ wire'[s].down = Append(wire[s].down, c) /\ wire'[s].up = wire[s].up
    <3>1. wire'[s] = [wire[s] EXCEPT !.down = Append(wire[s].down, c)] BY <2>1 DEF TypeOK
    <3> HIDE DEF c
    <3> QED BY <1>2, <2>2, <3>1 DEF Wire
  <2>5. TypeOK' BY <1>1, <2>1, <2>4 DEF TypeOK
  <2>6. InLane(conn'[s].send, wire'[s].down, agent'[s], wire'[s].up, statuses)
    BY <1>1, <1>2, <1>4, <2>1, <2>3, <2>4, LaneSend
  <2>7. \A d \in Commands : Held(d, s)' => Held(d, s) BY <1>1, <2>2, <2>3, <2>4 DEF Held
  <2> QED BY <1>1, <1>3, <2>3, <2>5, <2>6, <2>7, SessionMoves
<1>6. CASE SenderFails(s)
  <2>1. /\ conn[s].send # <<>> /\ wire' = wire
        /\ conn' = [conn EXCEPT ![s].send = Tail(@), ![s].sender = "failed"]
    BY <1>6 DEF SenderFails
  <2>2. /\ conn'[s].send = Tail(conn[s].send) /\ conn'[s].phase = conn[s].phase
        /\ conn'[s].env = conn[s].env
    BY <1>2, <2>1 DEF TypeOK, Conn
  <2>3. /\ IsInjective(Tail(conn[s].send)) /\ IsInjective(wire[s].down)
        /\ Range(Tail(conn[s].send)) \subseteq Range(conn[s].send)
    BY <1>2, <1>4, <2>1, TailInjective DEF InLane
  <2>4. TypeOK' BY <1>1, <2>1 DEF TypeOK
  <2>5. InLane(conn'[s].send, wire'[s].down, agent'[s], wire'[s].up, statuses)
    BY <1>1, <1>4, <2>1, <2>2, <2>3, LaneLess
  <2>6. \A d \in Commands : Held(d, s)' => Held(d, s) BY <1>1, <2>1, <2>2, <2>3 DEF Held
  <2> QED BY <1>1, <1>3, <2>2, <2>4, <2>5, <2>6, SessionMoves
<1>7. CASE SenderStops(s)
  <2>1. wire' = wire /\ conn' = [conn EXCEPT ![s].sender = "off"] BY <1>7 DEF SenderStops
  <2>2. /\ conn'[s].send = conn[s].send /\ conn'[s].phase = conn[s].phase
        /\ conn'[s].env = conn[s].env
    BY <1>2, <2>1 DEF TypeOK, Conn
  <2>3. TypeOK' BY <1>1, <2>1 DEF TypeOK
  <2>4. \A d \in Commands : Held(d, s)' => Held(d, s) BY <1>1, <2>1, <2>2 DEF Held
  <2> QED BY <1>1, <1>3, <1>4, <2>1, <2>2, <2>3, <2>4, SessionMoves
<1> QED BY <1>5, <1>6, <1>7

\* The agent takes a command, reports a step of it, or is cut off.
LEMMA AgentKeeps ==
    ASSUME FasitdInv, NEW s \in Sessions, AgentRecv(s) \/ AgentSends(s) \/ Break(s)
    PROVE  FasitdInv'
<1> USE DEF FasitdInv
<1>1. UNCHANGED <<registry, conn, cmd, statuses, helmLogs>> BY DEF AgentRecv, AgentSends, Break
<1>2. /\ wire[s] \in Wire /\ agent[s] \in Agent /\ conn[s].send \in Seq(Commands)
      /\ wire[s].down \in Seq(Commands) /\ wire[s].up \in Seq(Report)
  BY Fields
<1>3. \A t \in Sessions \ {s} : agent'[t] = agent[t] /\ wire'[t] = wire[t]
  BY DEF TypeOK, AgentRecv, AgentSends, Break
<1>4. InLane(conn[s].send, wire[s].down, agent[s], wire[s].up, statuses) BY DEF LaneInv
<1>5. OneSession' BY <1>1 DEF OneSession
<1>6. Waiting \in Agent BY DEF Waiting, Agent
<1>7. CASE AgentRecv(s)
  <2> DEFINE c == Head(wire[s].down)
             a == [cmd |-> c, step |-> "ack"]
  <2>1. /\ wire[s].down # <<>> /\ agent[s].step = "recv"
        /\ agent' = [agent EXCEPT ![s] = a]
        /\ wire' = [wire EXCEPT ![s].down = Tail(@)]
    BY <1>7 DEF AgentRecv
  <2>2. agent[s] = Waiting
    <3>1. agent[s].cmd = None BY <1>4, <2>1 DEF InLane
    <3> QED BY <1>2, <2>1, <3>1 DEF Agent, Waiting
  <2>3. /\ c \in Commands /\ c \in Range(wire[s].down) /\ Tail(wire[s].down) \in Seq(Commands)
        /\ Range(Tail(wire[s].down)) \subseteq Range(wire[s].down)
    BY <1>2, <1>4, <2>1, TailElements, TailInjective DEF InLane
  <2>4. agent'[s] = a /\ a \in Agent /\ agent' \in [Sessions -> Agent] /\ a.cmd = c
    <3>1. a \in Agent /\ a.cmd = c BY <2>3 DEF Agent
    <3> QED BY <2>1, <3>1 DEF TypeOK
  <2>5. /\ wire'[s] \in Wire /\ wire'[s].down = Tail(wire[s].down) /\ wire'[s].up = wire[s].up
    <3>1. wire'[s] = [wire[s] EXCEPT !.down = Tail(wire[s].down)] BY <2>1 DEF TypeOK
    <3> QED BY <1>2, <2>3, <3>1 DEF Wire
  <2>6. TypeOK' BY <1>1, <2>1, <2>4, <2>5 DEF TypeOK
  <2>7. InLane(conn[s].send, wire[s].down, Waiting, wire[s].up, statuses) BY <1>4, <2>2
  <2>8. InLane(conn[s].send, Tail(wire[s].down), a, wire[s].up, statuses)
    BY <1>2, <2>1, <2>7, LaneTake
  <2>9. InLane(conn'[s].send, wire'[s].down, agent'[s], wire'[s].up, statuses)
    BY <1>1, <2>4, <2>5, <2>8
  <2>10. \A d \in Commands : Held(d, s)' => Held(d, s)
    <3> HIDE DEF a, c
    <3> QED BY <1>1, <2>3, <2>4, <2>5 DEF Held
  <2> QED BY <1>1, <1>3, <1>5, <2>6, <2>9, <2>10, SessionMoves
<1>8. CASE AgentSends(s)
  <2> DEFINE m == [type |-> agent[s].step, cmd |-> agent[s].cmd]
             b == IF agent[s].step = "deployed" THEN Waiting
                  ELSE [agent[s] EXCEPT !.step = NextStep(agent[s].step)]
  <2>1. /\ agent[s].step # "recv"
        /\ agent' = [agent EXCEPT ![s] = b]
        /\ wire' = [wire EXCEPT ![s].up = Append(@, m)]
    BY <1>8 DEF AgentSends
  <2>2. agent[s].cmd # None BY <1>4, <2>1 DEF InLane
  <2>3. agent[s].cmd \in Commands /\ agent[s].step \in {"ack", "logs", "deployed"}
    BY <1>2, <2>1, <2>2 DEF Agent
  <2>4. /\ b \in Agent
        /\ b = Waiting \/ (b.cmd = agent[s].cmd /\ b.step # "recv"
                           /\ Rank(b.step) > Rank(agent[s].step))
    <3>1. CASE agent[s].step = "deployed" BY <1>6, <3>1
    <3>2. CASE agent[s].step = "ack"
      <4>1. b = [agent[s] EXCEPT !.step = "logs"] BY <3>2 DEF NextStep
      <4> QED BY <1>2, <2>3, <3>2, <4>1 DEF Agent, Rank
    <3>3. CASE agent[s].step = "logs"
      <4>1. b = [agent[s] EXCEPT !.step = "deployed"] BY <3>3 DEF NextStep
      <4> QED BY <1>2, <2>3, <3>3, <4>1 DEF Agent, Rank
    <3> QED BY <2>3, <3>1, <3>2, <3>3
  <2>5. m \in Report /\ m.cmd = agent[s].cmd /\ Append(wire[s].up, m) \in Seq(Report)
        /\ Range(Append(wire[s].up, m)) \subseteq Range(wire[s].up) \cup {m}
    <3>1. m \in Report /\ m.cmd = agent[s].cmd BY <2>3 DEF Report
    <3> HIDE DEF m
    <3> QED BY <1>2, <3>1 DEF Range
  <2>6. agent'[s] = b /\ agent' \in [Sessions -> Agent] BY <2>1, <2>4 DEF TypeOK
  <2>7. /\ wire'[s] \in Wire /\ wire'[s].down = wire[s].down /\ wire'[s].up = Append(wire[s].up, m)
    <3>1. wire'[s] = [wire[s] EXCEPT !.up = Append(wire[s].up, m)] BY <2>1 DEF TypeOK
    <3> HIDE DEF m
    <3> QED BY <1>2, <2>5, <3>1 DEF Wire
  <2>8. TypeOK' BY <1>1, <2>1, <2>6, <2>7 DEF TypeOK
  <2>9. InLane(conn'[s].send, wire'[s].down, agent'[s], wire'[s].up, statuses)
    <3> HIDE DEF b
    <3> QED BY <1>1, <1>2, <1>4, <2>2, <2>4, <2>6, <2>7, LaneReport
  <2>10. \A d \in Commands : Held(d, s)' => Held(d, s)
    <3>1. b.cmd = None \/ b.cmd = agent[s].cmd BY <2>4 DEF Waiting
    <3> HIDE DEF b, m
    <3> QED BY <1>1, <2>5, <2>6, <2>7, <3>1, NoneAssumption DEF Held
  <2> QED BY <1>1, <1>3, <1>5, <2>8, <2>9, <2>10, SessionMoves
<1>9. CASE Break(s)
  <2>1. PICK n \in 0 .. Len(wire[s].up) :
           wire' = [wire EXCEPT ![s] = [down |-> <<>>, up |-> SubSeq(wire[s].up, 1, n),
                                       state |-> "broken"]]
    BY <1>9 DEF Break
  <2> DEFINE up == SubSeq(wire[s].up, 1, n)
  <2>2. agent' = [agent EXCEPT ![s] = Waiting] BY <1>9 DEF Break
  <2>3. up \in Seq(Report) /\ <<>> \in Seq(Commands) /\ Range(up) \subseteq Range(wire[s].up)
    BY <1>2 DEF Range
  <2>4. wire'[s] \in Wire /\ wire'[s].down = <<>> /\ wire'[s].up = up
    <3>1. wire'[s] = [down |-> <<>>, up |-> up, state |-> "broken"] BY <2>1 DEF TypeOK
    <3> HIDE DEF up
    <3> QED BY <2>3, <3>1 DEF Wire
  <2>5. agent'[s] = Waiting BY <2>2 DEF TypeOK
  <2>6. TypeOK' BY <1>1, <1>6, <2>1, <2>2, <2>4 DEF TypeOK
  <2>7. InLane(conn'[s].send, wire'[s].down, agent'[s], wire'[s].up, statuses)
    BY <1>1, <1>2, <1>4, <2>4, <2>5, LaneBreak
  <2>8. \A d \in Commands : Held(d, s)' => Held(d, s)
    <3>1. Range(<<>>) = {} BY DEF Range
    <3> QED BY <1>1, <2>3, <2>4, <2>5, <3>1, NoneAssumption DEF Held, Waiting
  <2> QED BY <1>1, <1>3, <1>5, <2>6, <2>7, <2>8, SessionMoves
<1> QED BY <1>7, <1>8, <1>9

-----------------------------------------------------------------------------
(* The rows of a command *)

Ordered(rows) == \A i, j \in DOMAIN rows :
                     rows[i] = "installing" /\ rows[j] = "deployed" => i < j

\* A status that is not there yet is added, and none that comes before one there.
LEMMA AddRow ==
    ASSUME NEW rows \in Seq(Status), NEW x \in Status, IsInjective(rows), Ordered(rows),
           ~Told(rows, x), x = "installing" => ~Told(rows, "deployed")
    PROVE  /\ Append(rows, x) \in Seq(Status) /\ IsInjective(Append(rows, x))
           /\ Ordered(Append(rows, x))
           /\ \A y : Told(Append(rows, x), y) => Told(rows, y) \/ y = x
<1> DEFINE q == Append(rows, x)
<1>1. /\ q \in Seq(Status) /\ DOMAIN q = 1 .. Len(rows) + 1 /\ DOMAIN rows = 1 .. Len(rows)
      /\ Len(rows) \in Nat
      /\ \A i \in 1 .. Len(rows) : q[i] = rows[i]
      /\ q[Len(rows) + 1] = x
  OBVIOUS
<1> HIDE DEF q
<1>2. \A i \in DOMAIN q : i \in DOMAIN rows \/ i = Len(rows) + 1 BY <1>1
<1>3. IsInjective(q) BY <1>1, <1>2 DEF IsInjective, Told
<1>4. Ordered(q)
  <2> SUFFICES ASSUME NEW i \in DOMAIN q, NEW j \in DOMAIN q, q[i] = "installing", q[j] = "deployed"
               PROVE  i < j
    BY DEF Ordered
  <2>1. CASE i \in DOMAIN rows /\ j \in DOMAIN rows BY <1>1, <2>1 DEF Ordered
  <2>2. CASE i = Len(rows) + 1 BY <1>1, <1>2, <2>2 DEF Told
  <2>3. CASE i \in DOMAIN rows /\ j = Len(rows) + 1 BY <1>1, <2>3
  <2> QED BY <1>2, <2>1, <2>2, <2>3
<1>5. \A y : Told(q, y) => Told(rows, y) \/ y = x BY <1>1, <1>2 DEF Told
<1> QED BY <1>1, <1>3, <1>4, <1>5 DEF q

\* RowsInv, command by command.
LEMMA RowsOrdered == RowsInv <=> \A c \in Commands : IsInjective(statuses[c]) /\ Ordered(statuses[c])
  BY DEF RowsInv, AgentOrder, Ordered

\* The handler records the first report of the stream or loses it.
LEMMA RecvKeeps ==
    ASSUME FasitdInv, NEW s \in Sessions, Recv(s)
    PROVE  FasitdInv'
<1> USE DEF FasitdInv
<1> DEFINE m == Head(wire[s].up)
<1>1. /\ TypeOK' /\ wire[s].up # <<>> /\ m \in Report
      /\ wire'[s].down = wire[s].down /\ wire'[s].up = Tail(wire[s].up)
      /\ \A t \in Sessions \ {s} : wire'[t] = wire[t]
      /\ UNCHANGED <<registry, conn, agent, cmd>>
      /\ RecordReport(m) \/ UNCHANGED statuses
  BY RecvTypes
<1>2. \A t \in Sessions : /\ agent[t] \in Agent /\ conn[t].send \in Seq(Commands)
                           /\ wire[t].down \in Seq(Commands) /\ wire[t].up \in Seq(Report)
  BY Fields
<1>3. /\ m.cmd \in Commands /\ m.type \in {"ack", "logs", "deployed"}
      /\ m = wire[s].up[1] /\ 1 \in DOMAIN wire[s].up
      /\ Range(Tail(wire[s].up)) \subseteq Range(wire[s].up)
  <2>1. m = wire[s].up[1] /\ 1 \in DOMAIN wire[s].up
        /\ Range(Tail(wire[s].up)) \subseteq Range(wire[s].up)
    BY <1>1, <1>2, TailElements DEF Range
  <2> QED BY <1>1, <2>1 DEF Report
<1> DEFINE c == m.cmd
<1>4. Held(c, s) BY <1>3 DEF Held, Range
<1>5. /\ \A d \in Commands \ {c} : statuses'[d] = statuses[d]
      /\ \/ statuses'[c] = statuses[c]
         \/ statuses'[c] = Append(statuses[c], "installing") /\ m.type = "ack"
         \/ statuses'[c] = Append(statuses[c], "deployed") /\ m.type = "deployed"
  BY <1>1, <1>3, RecordTypes
<1>6. \A t \in Sessions : InLane(conn[t].send, wire[t].down, agent[t], wire[t].up, statuses)
  BY DEF LaneInv
<1>7. ToldBefore(statuses[c], Rank(m.type)) BY <1>3, <1>6 DEF InLane
<1> HIDE DEF m
<1>8. \A d \in Commands : statuses[d] \in Seq(Status) /\ IsInjective(statuses[d]) /\ Ordered(statuses[d])
  BY RowsOrdered DEF TypeOK
<1>9. /\ IsInjective(statuses'[c]) /\ Ordered(statuses'[c])
      /\ \A y : Told(statuses'[c], y) => \/ Told(statuses[c], y)
                                         \/ y = "installing" /\ m.type = "ack"
                                         \/ y = "deployed" /\ m.type = "deployed"
  <2>1. CASE statuses'[c] = statuses[c] BY <1>3, <1>8, <2>1
  <2>2. CASE statuses'[c] = Append(statuses[c], "installing") /\ m.type = "ack"
    <3>1. ~Told(statuses[c], "installing") /\ ~Told(statuses[c], "deployed")
      BY <1>7, <2>2 DEF Rank, ToldBefore
    <3> QED BY <1>3, <1>8, <2>2, <3>1, AddRow DEF Status
  <2>3. CASE statuses'[c] = Append(statuses[c], "deployed") /\ m.type = "deployed"
    <3>1. ~Told(statuses[c], "deployed") BY <1>7 DEF ToldBefore
    <3> QED BY <1>3, <1>8, <2>3, <3>1, AddRow, SMTT(30) DEF Status
  <2> QED BY <1>5, <2>1, <2>2, <2>3
<1>10. RowsInv'
  <2>1. \A d \in Commands : IsInjective(statuses'[d]) /\ Ordered(statuses'[d]) BY <1>5, <1>8, <1>9
  <2> QED BY <2>1 DEF RowsInv, AgentOrder, Ordered
<1>11. \A d \in Commands : \A t \in Sessions : Held(d, t)' => Held(d, t)
  BY <1>1, <1>3 DEF Held
<1>12. HeldInv' BY <1>1, <1>11 DEF HeldInv
<1>13. cmd[c].outcome = "sent" /\ cmd[c].sess = s BY <1>3, <1>4 DEF HeldInv
<1>14. LaneInv'
  <2>1. InLane(conn[s].send, wire[s].down, agent[s], Tail(wire[s].up), statuses')
    <3> DEFINE rows2 == statuses'
    <3>1. /\ \A d \in Commands \ {m.cmd} : rows2[d] = statuses[d]
          /\ Told(rows2[m.cmd], "installing") => Told(statuses[m.cmd], "installing") \/ m.type = "ack"
          /\ Told(rows2[m.cmd], "deployed") => Told(statuses[m.cmd], "deployed") \/ m.type = "deployed"
      BY <1>5, <1>9
    <3> HIDE DEF rows2, c
    <3>2. /\ \A d \in Commands \ {Head(wire[s].up).cmd} : rows2[d] = statuses[d]
          /\ Told(rows2[Head(wire[s].up).cmd], "installing") =>
                Told(statuses[Head(wire[s].up).cmd], "installing") \/ Head(wire[s].up).type = "ack"
          /\ Told(rows2[Head(wire[s].up).cmd], "deployed") =>
                Told(statuses[Head(wire[s].up).cmd], "deployed") \/ Head(wire[s].up).type = "deployed"
      BY <3>1 DEF m
    <3>3. InLane(conn[s].send, wire[s].down, agent[s], Tail(wire[s].up), rows2)
      BY <1>1, <1>2, <1>6, <3>2, LaneRecord
    <3> QED BY <3>3 DEF rows2
  <2>2. ASSUME NEW t \in Sessions, t # s
        PROVE  InLane(conn[t].send, wire[t].down, agent[t], wire[t].up, statuses')
    <3>1. ~Held(c, t) BY <1>3, <1>13, <2>2 DEF HeldInv
    <3>2. /\ c \notin Range(conn[t].send) \cup Range(wire[t].down) /\ agent[t].cmd # c
          /\ \A i \in DOMAIN wire[t].up : wire[t].up[i].cmd # c
      BY <3>1 DEF Held, Range
    <3> DEFINE rows2 == statuses'
    <3>3. \A d \in Commands \ {c} : rows2[d] = statuses[d] BY <1>5
    <3> HIDE DEF c, rows2
    <3>4. InLane(conn[t].send, wire[t].down, agent[t], wire[t].up, rows2)
      BY <1>2, <1>6, <3>2, <3>3, LaneRows, SMTT(30)
    <3> QED BY <3>4 DEF rows2
  <2> QED BY <1>1, <2>1, <2>2 DEF LaneInv
<1>15. DispatchInv'
  <2> SUFFICES ASSUME NEW d \in Commands PROVE DispatchOK(d)' BY DEF DispatchInv
  <2>1. CASE d = c
    <3>1. /\ Told(statuses'[c], "sent") => Told(statuses[c], "sent")
          /\ Told(statuses'[c], "undeliverable") => Told(statuses[c], "undeliverable")
      BY <1>9
    <3> QED BY <1>1, <1>3, <1>13, <2>1, <3>1 DEF DispatchInv, DispatchOK, Selecting
  <2>2. CASE d # c BY <1>1, <1>5, <2>2 DEF DispatchInv, DispatchOK, Selecting
  <2> QED BY <2>1, <2>2
<1>16. OneSession' BY <1>1 DEF OneSession
<1> QED BY <1>1, <1>10, <1>12, <1>14, <1>15, <1>16

-----------------------------------------------------------------------------
(* dispatch *)

\* The steps of a dispatch that has not put its command anywhere: only the
\* dispatch itself changes.
LEMMA DispatchMoves ==
    ASSUME FasitdInv, NEW c \in Commands, cmd[c].outcome = "none", cmd' \in [Commands -> Cmd],
           \A d \in Commands \ {c} : cmd'[d] = cmd[d], DispatchOK(c)',
           UNCHANGED <<registry, conn, wire, agent, statuses, helmLogs>>
    PROVE  FasitdInv'
<1> USE DEF FasitdInv
<1>1. TypeOK' BY DEF TypeOK
<1>2. \A d \in Commands : \A s \in Sessions : Held(d, s)' <=> Held(d, s) BY DEF Held
<1>3. HeldInv' BY <1>2 DEF HeldInv
<1>4. DispatchInv'
  <2> SUFFICES ASSUME NEW d \in Commands, d # c PROVE DispatchOK(d)' BY DEF DispatchInv
  <2> QED BY DEF DispatchInv, DispatchOK, Selecting
<1>5. OneSession' /\ LaneInv' /\ RowsInv' BY DEF OneSession, LaneInv, RowsInv, AgentOrder
<1> QED BY <1>1, <1>3, <1>4, <1>5

\* Until a command is in a channel it has no rows.
LEMMA EarlyDispatch ==
    ASSUME FasitdInv, NEW c \in Commands, cmd[c].pc \in {"new", "created", "select", "blocked"}
    PROVE  /\ cmd[c].outcome = "none" /\ statuses[c] = <<>> /\ cmd[c] \in Cmd
           /\ Selecting(c) => cmd[c].sess \in Sessions
<1>1. cmd[c] \in Cmd BY DEF FasitdInv, TypeOK
<1>2. cmd[c].outcome = "none" /\ ~Told(statuses[c], "undeliverable")
      /\ statuses[c] \in {<<>>, <<"undeliverable">>}
  BY DEF FasitdInv, DispatchInv, DispatchOK, Selecting
<1>3. Told(<<"undeliverable">>, "undeliverable") BY DEF Told
<1>4. Selecting(c) => cmd[c].sess \in Sessions BY <1>1 DEF FasitdInv, DispatchInv, DispatchOK, Cmd
<1> QED BY <1>1, <1>2, <1>3, <1>4

LEMMA NoRows == \A x : ~Told(<<>>, x) BY DEF Told

\* The command is recorded, its session looked up, or the select gives up.
LEMMA WaitKeeps ==
    ASSUME FasitdInv, NEW c \in Commands,
           \/ \E e \in Envs : CreateCommand(c, e)
           \/ Get(c) \/ SelectDone(c) \/ SelectBlocks(c) \/ SelectTimeout(c)
    PROVE  FasitdInv'
<1> USE DEF FasitdInv
<1>1. cmd[c].pc \in {"new", "created", "select", "blocked"}
  BY DEF CreateCommand, Get, SelectDone, SelectBlocks, SelectTimeout, Selecting
<1>2. cmd[c].outcome = "none" /\ statuses[c] = <<>> /\ cmd[c] \in Cmd BY <1>1, EarlyDispatch
<1>3. UNCHANGED <<registry, conn, wire, agent, statuses, helmLogs>>
  BY DEF CreateCommand, Get, SelectDone, SelectBlocks, SelectTimeout
<1>4. ASSUME NEW e \in Envs, CreateCommand(c, e) PROVE FasitdInv'
  <2>1. \E p \in {"created", "ended"} : cmd' = [cmd EXCEPT ![c].pc = p, ![c].env = e]
    BY <1>4 DEF CreateCommand
  <2>2. PICK p \in {"created", "ended"} : cmd' = [cmd EXCEPT ![c].pc = p, ![c].env = e] BY <2>1
  <2>3. cmd'[c] = [cmd[c] EXCEPT !.pc = p, !.env = e] /\ \A d \in Commands \ {c} : cmd'[d] = cmd[d]
    BY <2>2 DEF TypeOK
  <2>4. /\ cmd'[c] \in Cmd /\ cmd'[c].pc = p /\ cmd'[c].sess = cmd[c].sess
        /\ cmd'[c].outcome = "none" /\ cmd'[c].env = e
    BY <1>2, <2>3 DEF Cmd
  <2>5. cmd' \in [Commands -> Cmd] BY <2>2, <2>4 DEF TypeOK
  <2>6. cmd[c].sess = None BY <1>4 DEF CreateCommand, DispatchInv, DispatchOK
  <2>7. DispatchOK(c)' BY <1>2, <1>3, <2>4, <2>6, NoRows DEF DispatchOK, Selecting
  <2> QED BY <1>2, <1>3, <2>3, <2>5, <2>7, DispatchMoves
<1>5. CASE Get(c)
  <2> DEFINE s == registry[cmd[c].env]
             p == IF s = None THEN "record" ELSE "select"
             o == IF s = None THEN "undeliverable" ELSE "none"
  <2>1. cmd[c].pc = "created" /\ cmd' = [cmd EXCEPT ![c].pc = p, ![c].outcome = o, ![c].sess = s]
    BY <1>5 DEF Get
  <2>2. cmd'[c] = [cmd[c] EXCEPT !.pc = p, !.outcome = o, !.sess = s]
        /\ \A d \in Commands \ {c} : cmd'[d] = cmd[d]
    BY <2>1 DEF TypeOK
  <2>3. cmd[c].env \in Envs BY <2>1 DEF DispatchInv, DispatchOK
  <2>4. s \in Sessions \cup {None} BY <2>3 DEF TypeOK
  <2>5. s # None => conn[s].phase # "idle" /\ conn[s].env = cmd[c].env
    BY <2>3, <2>4 DEF OneSession
  <2> HIDE DEF s
  <2>6. /\ cmd'[c] \in Cmd /\ cmd'[c].pc = p /\ cmd'[c].sess = s /\ cmd'[c].outcome = o
        /\ cmd'[c].env = cmd[c].env
    BY <1>2, <2>2, <2>4 DEF Cmd
  <2>7. cmd' \in [Commands -> Cmd] BY <2>1, <2>6 DEF TypeOK
  <2>8. DispatchOK(c)'
    BY <1>2, <1>3, <2>4, <2>5, <2>6, NoRows DEF DispatchOK, Selecting
  <2> QED BY <1>2, <1>3, <2>2, <2>7, <2>8, DispatchMoves
<1>6. CASE SelectDone(c) \/ SelectBlocks(c) \/ SelectTimeout(c)
  <2>1. cmd[c].sess # None /\ cmd[c].sess \in Sessions
    BY <1>6, <1>1, EarlyDispatch, NoneAssumption
       DEF SelectDone, SelectBlocks, SelectTimeout, Selecting
  <2>2. /\ conn[cmd[c].sess].phase # "idle" /\ conn[cmd[c].sess].env = cmd[c].env
    BY <2>1 DEF DispatchInv, DispatchOK
  <2>3. /\ cmd'[c] \in Cmd /\ cmd'[c].sess = cmd[c].sess /\ cmd'[c].env = cmd[c].env
        /\ cmd' \in [Commands -> Cmd]
        /\ \A d \in Commands \ {c} : cmd'[d] = cmd[d]
        /\ \/ cmd'[c].pc = "record" /\ cmd'[c].outcome = "undeliverable"
           \/ cmd'[c].pc = "blocked" /\ cmd'[c].outcome = "none"
    <3>1. CASE SelectBlocks(c)
      <4>1. cmd'[c] = [cmd[c] EXCEPT !.pc = "blocked"] /\ cmd' = [cmd EXCEPT ![c].pc = "blocked"]
        BY <3>1 DEF SelectBlocks, TypeOK
      <4> QED BY <1>2, <4>1 DEF Cmd, TypeOK
    <3>2. CASE SelectDone(c) \/ SelectTimeout(c)
      <4>1. /\ cmd'[c] = [cmd[c] EXCEPT !.pc = "record", !.outcome = "undeliverable"]
            /\ cmd' = [cmd EXCEPT ![c].pc = "record", ![c].outcome = "undeliverable"]
        BY <3>2 DEF SelectDone, SelectTimeout, TypeOK
      <4> QED BY <1>2, <4>1 DEF Cmd, TypeOK
    <3> QED BY <1>6, <3>1, <3>2
  <2>4. DispatchOK(c)' BY <1>2, <1>3, <2>1, <2>2, <2>3, NoRows DEF DispatchOK, Selecting
  <2> QED BY <1>2, <1>3, <2>3, <2>4, DispatchMoves
<1> QED BY <1>4, <1>5, <1>6

\* The command is put into the channel: it was nowhere and has no rows.
LEMMA SendKeeps ==
    ASSUME FasitdInv, OneSession', conn' \in [Sessions -> Conn], NEW c \in Commands, SelectSend(c)
    PROVE  FasitdInv'
<1> USE DEF FasitdInv
<1> DEFINE s == cmd[c].sess
<1>1. cmd[c].outcome = "none" /\ statuses[c] = <<>> /\ cmd[c] \in Cmd /\ s \in Sessions
  BY EarlyDispatch DEF SelectSend, Selecting
<1>2. UNCHANGED <<registry, wire, agent, statuses, helmLogs>> BY DEF SelectSend
<1>3. /\ conn[s] \in Conn /\ wire[s] \in Wire /\ agent[s] \in Agent
      /\ conn[s].send \in Seq(Commands)
      /\ wire[s].down \in Seq(Commands) /\ wire[s].up \in Seq(Report)
  BY <1>1, Fields
<1>4. /\ conn'[s].send = Append(conn[s].send, c) /\ conn'[s].phase = conn[s].phase
      /\ conn'[s].env = conn[s].env /\ \A t \in Sessions \ {s} : conn'[t] = conn[t]
  <2>1. conn'[s] = [conn[s] EXCEPT !.send = Append(conn[s].send, c)]
        /\ \A t \in Sessions \ {s} : conn'[t] = conn[t]
    BY <1>1 DEF SelectSend, TypeOK
  <2> QED BY <1>3, <2>1 DEF Conn
<1>5. /\ cmd'[c] \in Cmd /\ cmd'[c].sess = s /\ cmd'[c].env = cmd[c].env
      /\ cmd'[c].pc = "record" /\ cmd'[c].outcome = "sent"
      /\ cmd' \in [Commands -> Cmd]
      /\ \A d \in Commands \ {c} : cmd'[d] = cmd[d]
  <2>1. /\ cmd'[c] = [cmd[c] EXCEPT !.pc = "record", !.outcome = "sent"]
        /\ cmd' = [cmd EXCEPT ![c].pc = "record", ![c].outcome = "sent"]
    BY DEF SelectSend, TypeOK
  <2> QED BY <1>1, <2>1 DEF Cmd, TypeOK
<1>6. \A t \in Sessions : ~Held(c, t) BY <1>1 DEF HeldInv
<1>7. TypeOK' BY <1>2, <1>5 DEF TypeOK
<1>8. s # None /\ conn[s].phase # "idle" /\ conn[s].env = cmd[c].env
  BY <1>1, NoneAssumption DEF DispatchInv, DispatchOK
<1> HIDE DEF s
<1>9. LaneInv'
  <2>1. InLane(conn[s].send, wire[s].down, agent[s], wire[s].up, statuses) BY <1>1 DEF LaneInv
  <2>2. /\ c \notin Range(conn[s].send) /\ c \notin Range(wire[s].down) /\ agent[s].cmd # c
        /\ \A i \in DOMAIN wire[s].up : wire[s].up[i].cmd # c
    BY <1>1, <1>6 DEF Held, Range
  <2>3. ToldBefore(statuses[c], 1) BY <1>1, NoRows DEF ToldBefore
  <2>4. InLane(Append(conn[s].send, c), wire[s].down, agent[s], wire[s].up, statuses)
    BY <1>3, <2>1, <2>2, <2>3, LanePut
  <2>5. InLane(conn'[s].send, wire'[s].down, agent'[s], wire'[s].up, statuses')
    BY <1>2, <1>4, <2>4
  <2> QED BY <1>2, <1>4, <2>5 DEF LaneInv
<1>10. Range(Append(conn[s].send, c)) = Range(conn[s].send) \cup {c} BY <1>3, RangeAppend
<1>11. \A d \in Commands : \A t \in Sessions :
          Held(d, t)' => Held(d, t) \/ (d = c /\ t = s)
  BY <1>2, <1>4, <1>10 DEF Held
<1>12. HeldInv' BY <1>5, <1>6, <1>11 DEF HeldInv
<1>13. DispatchInv'
  <2> SUFFICES ASSUME NEW d \in Commands PROVE DispatchOK(d)' BY DEF DispatchInv
  <2>1. CASE d = c BY <1>1, <1>2, <1>4, <1>5, <1>8, <2>1, NoRows DEF DispatchOK, Selecting
  <2>2. CASE d # c
    <3>1. cmd[d].sess # None => cmd[d].sess \in Sessions BY DEF TypeOK, Cmd
    <3>2. \A t \in Sessions : conn'[t].phase = conn[t].phase /\ conn'[t].env = conn[t].env
      BY <1>4
    <3> QED BY <1>2, <1>5, <2>2, <3>1, <3>2 DEF DispatchInv, DispatchOK, Selecting
  <2> QED BY <2>1, <2>2
<1>14. RowsInv' BY <1>2 DEF RowsInv, AgentOrder
<1> QED BY <1>7, <1>9, <1>12, <1>13, <1>14

\* The outcome is recorded once: no outcome was.
LEMMA RecordKeeps ==
    ASSUME FasitdInv, NEW c \in Commands, Record(c)
    PROVE  FasitdInv'
<1> USE DEF FasitdInv
<1> DEFINE x == cmd[c].outcome
<1>1. UNCHANGED <<registry, conn, wire, agent, helmLogs>> /\ cmd[c].pc = "record" BY DEF Record
<1>2. cmd[c] \in Cmd /\ x \in {"sent", "undeliverable"}
  BY <1>1 DEF TypeOK, Cmd, DispatchInv, DispatchOK
<1>3. /\ cmd'[c] \in Cmd /\ cmd'[c].sess = cmd[c].sess /\ cmd'[c].env = cmd[c].env
      /\ cmd'[c].pc = "ended" /\ cmd'[c].outcome = x
      /\ cmd' \in [Commands -> Cmd]
      /\ \A d \in Commands \ {c} : cmd'[d] = cmd[d]
  <2>1. cmd'[c] = [cmd[c] EXCEPT !.pc = "ended"] /\ cmd' = [cmd EXCEPT ![c].pc = "ended"]
    BY DEF Record, TypeOK
  <2> QED BY <1>2, <2>1 DEF Cmd, TypeOK
<1>4. ~Told(statuses[c], "sent") /\ ~Told(statuses[c], "undeliverable")
      /\ (x # "sent" => statuses[c] \in {<<>>, <<"undeliverable">>})
  BY <1>1 DEF DispatchInv, DispatchOK
<1>5. \A d \in Commands : statuses[d] \in Seq(Status) /\ IsInjective(statuses[d]) /\ Ordered(statuses[d])
  BY RowsOrdered DEF TypeOK
<1>6. /\ \A d \in Commands \ {c} : statuses'[d] = statuses[d]
      /\ statuses'[c] = statuses[c] \/ statuses'[c] = Append(statuses[c], x)
      /\ statuses' = statuses \/ statuses' = [statuses EXCEPT ![c] = Append(@, x)]
  BY DEF Record, TypeOK
<1> HIDE DEF x
<1>7. /\ statuses'[c] \in Seq(Status) /\ IsInjective(statuses'[c]) /\ Ordered(statuses'[c])
      /\ \A y : Told(statuses'[c], y) => Told(statuses[c], y) \/ y = x
  <2>1. CASE statuses'[c] = statuses[c] BY <1>5, <2>1
  <2>2. CASE statuses'[c] = Append(statuses[c], x)
    <3>1. x \in Status /\ ~Told(statuses[c], x) /\ x # "installing" BY <1>2, <1>4 DEF Status
    <3> QED BY <1>5, <2>2, <3>1, AddRow
  <2> QED BY <1>6, <2>1, <2>2
<1>8. x # "sent" => statuses'[c] \in {<<>>, <<"undeliverable">>}
  <2> SUFFICES ASSUME x # "sent" PROVE statuses'[c] \in {<<>>, <<"undeliverable">>} OBVIOUS
  <2>1. Told(<<"undeliverable">>, "undeliverable") BY DEF Told
  <2>2. statuses[c] = <<>> /\ x = "undeliverable" BY <1>2, <1>4, <2>1
  <2>3. Append(<<>>, "undeliverable") = <<"undeliverable">> OBVIOUS
  <2> QED BY <1>6, <2>2, <2>3
<1>9. TypeOK' BY <1>1, <1>3, <1>6, <1>7 DEF TypeOK
<1>10. RowsInv'
  <2>1. \A d \in Commands : IsInjective(statuses'[d]) /\ Ordered(statuses'[d]) BY <1>5, <1>6, <1>7
  <2> QED BY <2>1 DEF RowsInv, AgentOrder, Ordered
<1>11. LaneInv'
  <2> SUFFICES ASSUME NEW s \in Sessions
               PROVE  InLane(conn[s].send, wire[s].down, agent[s], wire[s].up, statuses')
    BY <1>1 DEF LaneInv
  <2> DEFINE rows2 == statuses'
  <2>1. \A d \in Commands : /\ Told(rows2[d], "installing") => Told(statuses[d], "installing")
                            /\ Told(rows2[d], "deployed") => Told(statuses[d], "deployed")
    BY <1>2, <1>6, <1>7
  <2>2. InLane(conn[s].send, wire[s].down, agent[s], wire[s].up, statuses) BY DEF LaneInv
  <2> HIDE DEF rows2
  <2>3. InLane(conn[s].send, wire[s].down, agent[s], wire[s].up, rows2)
    BY <2>1, <2>2, Fields, LaneRows
  <2> QED BY <2>3 DEF rows2
<1>12. \A d \in Commands : \A s \in Sessions : Held(d, s)' <=> Held(d, s) BY <1>1 DEF Held
<1>13. HeldInv' BY <1>3, <1>12 DEF HeldInv, x
<1>14. DispatchInv'
  <2> SUFFICES ASSUME NEW d \in Commands PROVE DispatchOK(d)' BY DEF DispatchInv
  <2>1. CASE d = c BY <1>1, <1>2, <1>3, <1>8, <2>1 DEF DispatchInv, DispatchOK, Selecting
  <2>2. CASE d # c BY <1>1, <1>3, <1>6, <2>2 DEF DispatchInv, DispatchOK, Selecting
  <2> QED BY <2>1, <2>2
<1>15. OneSession' BY <1>1 DEF OneSession
<1> QED BY <1>9, <1>10, <1>11, <1>13, <1>14, <1>15

-----------------------------------------------------------------------------
(* Restart and start *)

\* An agent that is cut off leaves the rest in order.
LEMMA LaneWaiting ==
    ASSUME NEW send \in Seq(Commands), NEW down \in Seq(Commands), NEW a, NEW up, NEW rows,
           InLane(send, down, a, up, rows)
    PROVE  InLane(send, down, Waiting, up, rows)
<1>1. Waiting.cmd = None /\ Waiting.step = "recv" BY DEF Waiting
<1>2. Range(send) \cup Range(down) \subseteq Commands BY DEF Range
<1> QED BY <1>1, <1>2, NoneAssumption DEF InLane

\* A restart ends the sessions that have begun, with all they hold.
LEMMA RestartKeepsLane ==
    ASSUME FasitdInv, OneSession', conn' \in [Sessions -> Conn],
           registry' \in [Envs -> Sessions \cup {None}], FasitRestarts
    PROVE  FasitdInv'
<1> USE DEF FasitdInv
<1>1. /\ agent' = [s \in Sessions |-> Waiting] /\ UNCHANGED <<statuses, helmLogs>>
      /\ cmd' = [c \in Commands |->
                  IF cmd[c].pc = "new" THEN cmd[c] ELSE [cmd[c] EXCEPT !.pc = "ended"]]
  BY DEF FasitRestarts
<1>2. <<>> \in Seq(Commands) /\ <<>> \in Seq(Report) /\ Range(<<>>) = {} BY DEF Range
<1>3. ASSUME NEW s \in Sessions
      PROVE  /\ \/ conn[s].phase = "idle" /\ conn'[s] = conn[s] /\ wire'[s] = wire[s]
                \/ /\ conn[s].phase # "idle" /\ conn'[s].phase = "gone" /\ conn'[s].env = conn[s].env
                   /\ conn'[s].send = <<>> /\ wire'[s].down = <<>> /\ wire'[s].up = <<>>
             /\ wire'[s] \in Wire
  <2>1. conn[s] \in Conn /\ wire[s] \in Wire BY DEF TypeOK
  <2>2. CASE conn[s].phase = "idle" BY <2>1, <2>2 DEF FasitRestarts
  <2>3. CASE conn[s].phase # "idle"
    <3>1. conn'[s] = [conn[s] EXCEPT !.phase = "gone", !.send = <<>>, !.sender = "off"]
          /\ wire'[s] = [down |-> <<>>, up |-> <<>>, state |-> "broken"]
      BY <2>3 DEF FasitRestarts
    <3>2. wire'[s] \in Wire /\ wire'[s].down = <<>> /\ wire'[s].up = <<>> BY <1>2, <3>1 DEF Wire
    <3>3. conn'[s].phase = "gone" /\ conn'[s].env = conn[s].env /\ conn'[s].send = <<>>
      BY <2>1, <3>1 DEF Conn
    <3> QED BY <2>3, <3>2, <3>3
  <2> QED BY <2>2, <2>3
<1>4. ASSUME NEW c \in Commands
      PROVE  /\ cmd'[c] \in Cmd /\ cmd'[c].outcome = cmd[c].outcome /\ cmd'[c].sess = cmd[c].sess
             /\ cmd'[c].env = cmd[c].env
             /\ (cmd[c].pc = "new" /\ cmd'[c].pc = "new") \/ cmd'[c].pc = "ended"
  <2>1. cmd[c] \in Cmd BY DEF TypeOK
  <2>2. cmd'[c] = IF cmd[c].pc = "new" THEN cmd[c] ELSE [cmd[c] EXCEPT !.pc = "ended"] BY <1>1
  <2> QED BY <2>1, <2>2 DEF Cmd
<1>5. \A s \in Sessions : agent'[s] = Waiting /\ Waiting \in Agent BY <1>1 DEF Waiting, Agent
<1>6. TypeOK'
  <2>1. wire' \in [Sessions -> Wire]
    <3>1. wire' = [s \in Sessions |-> IF conn[s].phase = "idle" THEN wire[s]
                                      ELSE [down |-> <<>>, up |-> <<>>, state |-> "broken"]]
      BY DEF FasitRestarts
    <3> QED BY <1>3, <3>1
  <2>2. cmd' \in [Commands -> Cmd] BY <1>1, <1>4
  <2>3. agent' \in [Sessions -> Agent] BY <1>1, <1>5
  <2> QED BY <1>1, <2>1, <2>2, <2>3 DEF TypeOK
<1>7. LaneInv'
  <2> SUFFICES ASSUME NEW s \in Sessions
               PROVE  InLane(conn'[s].send, wire'[s].down, Waiting, wire'[s].up, statuses)
    BY <1>1, <1>5 DEF LaneInv
  <2>1. CASE conn'[s] = conn[s] /\ wire'[s] = wire[s]
    <3>1. InLane(conn[s].send, wire[s].down, agent[s], wire[s].up, statuses) BY DEF LaneInv
    <3>2. InLane(conn[s].send, wire[s].down, Waiting, wire[s].up, statuses)
      BY <3>1, Fields, LaneWaiting
    <3> QED BY <2>1, <3>2
  <2>2. CASE conn'[s].send = <<>> /\ wire'[s].down = <<>> /\ wire'[s].up = <<>>
    BY <2>2, LaneEmpty
  <2> QED BY <1>3, <2>1, <2>2
<1>8. \A c \in Commands : \A s \in Sessions : Held(c, s)' => Held(c, s)
  BY <1>2, <1>3, <1>5, NoneAssumption DEF Held, Waiting
<1>9. HeldInv' BY <1>4, <1>8 DEF HeldInv
<1>10. DispatchInv'
  <2> SUFFICES ASSUME NEW c \in Commands PROVE DispatchOK(c)' BY DEF DispatchInv
  <2>1. cmd[c].sess # None => cmd[c].sess \in Sessions BY DEF TypeOK, Cmd
  <2>2. DispatchOK(c) BY DEF DispatchInv
  <2>3. cmd'[c].sess # None => /\ conn'[cmd'[c].sess].phase # "idle"
                               /\ conn'[cmd'[c].sess].env = cmd'[c].env
    BY <1>3, <1>4, <2>1, <2>2 DEF DispatchOK
  <2> QED BY <1>1, <1>4, <2>2, <2>3 DEF DispatchOK, Selecting
<1>11. RowsInv' BY <1>1 DEF RowsInv, AgentOrder
<1> QED BY <1>6, <1>7, <1>9, <1>10, <1>11

LEMMA InitLane == Init => FasitdInv
<1> SUFFICES ASSUME Init PROVE FasitdInv OBVIOUS
<1>1. <<>> \in Seq(Commands) /\ <<>> \in Seq(Report) /\ <<>> \in Seq(Status)
      /\ Range(<<>>) = {} /\ IsInjective(<<>>) /\ DOMAIN <<>> = {}
  BY DEF Range, IsInjective
<1>2. TypeOK
  <2>1. registry \in [Envs -> Sessions \cup {None}] /\ conn \in [Sessions -> Conn]
    BY InitRegistry DEF RegistryInv
  <2>2. wire \in [Sessions -> Wire] BY <1>1 DEF Init, Wire
  <2>3. agent \in [Sessions -> Agent] BY DEF Init, Agent, Waiting
  <2>4. cmd \in [Commands -> Cmd] BY DEF Init, Cmd
  <2>5. statuses \in [Commands -> Seq(Status)] /\ helmLogs \subseteq Commands BY <1>1 DEF Init
  <2> QED BY <2>1, <2>2, <2>3, <2>4, <2>5 DEF TypeOK
<1>3. OneSession BY InitRegistry DEF RegistryInv
<1>4. LaneInv BY LaneEmpty DEF LaneInv, Init
<1>5. HeldInv BY <1>1, NoneAssumption DEF HeldInv, Held, Init, Waiting
<1>6. DispatchInv BY NoRows DEF DispatchInv, DispatchOK, Selecting, Init
<1>7. RowsInv BY <1>1 DEF RowsInv, AgentOrder, Init
<1> QED BY <1>2, <1>3, <1>4, <1>5, <1>6, <1>7 DEF FasitdInv

-----------------------------------------------------------------------------
(* The theorems *)

\* The invariant of the lane: every session in order, every command only where
\* its dispatch has put it, every row where the order of the reports puts it.
THEOREM FasitdInvariant == Spec => []FasitdInv
<1>1. FasitdInv /\ [Next]_vars => FasitdInv'
  <2> SUFFICES ASSUME FasitdInv, [Next]_vars PROVE FasitdInv' OBVIOUS
  <2>1. RegistryInv BY DEF FasitdInv, RegistryInv, TypeOK
  <2>2. ASSUME NEW s \in Sessions, SessionStep(s) PROVE FasitdInv'
    <3>1. OneSession' /\ conn' \in [Sessions -> Conn] /\ registry' \in [Envs -> Sessions \cup {None}]
      BY <2>1, <2>2, SessionKeeps DEF RegistryInv
    <3> QED BY <2>2, <3>1, HandlerKeeps, RecvKeeps, SenderKeeps, AgentKeeps DEF SessionStep
  <2>3. ASSUME NEW c \in Commands, (\E e \in Envs : CreateCommand(c, e)) \/ Dispatch(c)
        PROVE  FasitdInv'
    <3>1. OneSession' /\ conn' \in [Sessions -> Conn]
      BY <2>1, <2>3, DispatchKeeps DEF RegistryInv
    <3> QED BY <2>3, <3>1, WaitKeeps, SendKeeps, RecordKeeps DEF Dispatch
  <2>4. CASE FasitRestarts
    <3>1. OneSession' /\ conn' \in [Sessions -> Conn] /\ registry' \in [Envs -> Sessions \cup {None}]
      BY <2>1, <2>4, RestartKeeps DEF RegistryInv
    <3> QED BY <2>4, <3>1, RestartKeepsLane
  <2>5. CASE UNCHANGED vars
    <3> USE <2>5 DEF vars
    <3>1. TypeOK' /\ OneSession' BY DEF FasitdInv, TypeOK, OneSession
    <3>2. LaneInv' BY DEF FasitdInv, LaneInv
    <3>3. \A c \in Commands : \A s \in Sessions : Held(c, s)' <=> Held(c, s) BY DEF Held
    <3>4. HeldInv' BY <3>3 DEF FasitdInv, HeldInv
    <3>5. DispatchInv' /\ RowsInv'
      BY DEF FasitdInv, DispatchInv, DispatchOK, Selecting, RowsInv, AgentOrder
    <3> QED BY <3>1, <3>2, <3>4, <3>5 DEF FasitdInv
  <2> QED BY <2>2, <2>3, <2>4, <2>5 DEF Next
<1> QED BY <1>1, InitLane, PTL DEF Spec

\* A command recorded as undeliverable, because no session was found, the
\* session had ended or its channel stayed full, is never delivered after all.
THEOREM UndeliverableStaysSo == Spec => []UndeliverableIsFinal
<1>1. FasitdInv => UndeliverableIsFinal
  BY DEF FasitdInv, HeldInv, DispatchInv, DispatchOK, UndeliverableIsFinal
<1> QED BY <1>1, FasitdInvariant, PTL

\* No reconnect, break or restart replays a command: it is only ever on the
\* session its dispatch has found, and no status of it is written twice.
THEOREM NothingIsReplayed == Spec => []NoReplay
<1>1. FasitdInv => NoReplay
  BY NoneAssumption DEF FasitdInv, HeldInv, DispatchInv, DispatchOK, RowsInv, NoReplay
<1> QED BY <1>1, FasitdInvariant, PTL

\* The rows of a command have the agent's order: installing before deployed.
THEOREM ReportsKeepTheirOrder == Spec => []AgentOrder
<1>1. FasitdInv => AgentOrder BY DEF FasitdInv, RowsInv
<1> QED BY <1>1, FasitdInvariant, PTL

\* Every variable keeps its type.
THEOREM FasitdTypes == Spec => []TypeOK
<1>1. FasitdInv => TypeOK BY DEF FasitdInv
<1> QED BY <1>1, FasitdInvariant, PTL

=============================================================================
