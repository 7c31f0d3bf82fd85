---------------------------- MODULE ConfigProofs -----------------------------
(***************************************************************************)
(* Proofs about Config, for any requests, forms, provisioning calls and    *)
(* initial configuration, and any bound on the faults: the audit log names *)
(* the values in the tables and the reasons of what is switched off,       *)
(* although transactions read what they do not lock.                       *)
(***************************************************************************)
EXTENDS Config, FiniteSetTheorems, TLAPS

-----------------------------------------------------------------------------
(* Facts about logs *)

\* Some positions of a log, if there are any, have a last one.
LEMMA LastPosition ==
    ASSUME NEW n \in Nat, NEW S \in SUBSET (1 .. n), S # {}
    PROVE  \E i \in S : \A j \in S : j <= i
<1> DEFINE R == {p \in Nat \X Nat : p[1] < p[2]}
           Bounds == {b \in Nat : \A j \in S : j <= b}
<1>1. IsWellFoundedOn(R, Nat)
  BY NatLessThanWellFounded DEF OpToRel
<1>2. n \in Bounds /\ Bounds \in SUBSET Nat
  OBVIOUS
<1>3. PICK b \in Bounds : \A c \in Bounds : b <= c
  <2> HIDE DEF R, Bounds
  <2>1. \E x \in Bounds : \A y \in Bounds : <<y, x>> \notin R
    BY <1>1, <1>2, WFMin
  <2>2. \A x, y \in Bounds : <<y, x>> \notin R => x <= y
    BY <1>2 DEF R
  <2> QED
    BY <2>1, <2>2
<1>4. b \in S
  <2> SUFFICES ASSUME b \notin S PROVE FALSE
    OBVIOUS
  <2>1. b >= 1 /\ b - 1 \in Nat
    <3>1. PICK j \in S : j \in 1 .. n
      OBVIOUS
    <3>2. b \in Nat /\ j <= b
      BY <3>1
    <3> QED
      BY <3>1, <3>2
  <2>2. b - 1 \in Bounds
    BY <1>3, <2>1
  <2> QED
    BY <1>3, <2>1, <2>2
<1> QED
  BY <1>3, <1>4

\* all is log, followed by more.
Joined(log, more, all) ==
    /\ Len(log) \in Nat /\ DOMAIN log = 1 .. Len(log)
    /\ Len(more) \in Nat /\ DOMAIN more = 1 .. Len(more)
    /\ DOMAIN all = 1 .. Len(log) + Len(more)
    /\ \A i \in DOMAIN log : all[i] = log[i]
    /\ \A i \in DOMAIN more : all[Len(log) + i] = more[i]
    /\ \A i \in DOMAIN all : \/ i \in DOMAIN log
                             \/ i - Len(log) \in DOMAIN more /\ all[i] = more[i - Len(log)]

LEMMA JoinedFacts ==
    ASSUME NEW S, NEW log \in Seq(S), NEW T, NEW more \in Seq(T)
    PROVE  /\ log \o more \in Seq(S \cup T)
           /\ Joined(log, more, log \o more)
<1>1. log \o more \in Seq(S \cup T)
  OBVIOUS
<1>2. /\ Len(log) \in Nat /\ DOMAIN log = 1 .. Len(log)
      /\ Len(more) \in Nat /\ DOMAIN more = 1 .. Len(more)
      /\ DOMAIN (log \o more) = 1 .. Len(log) + Len(more)
  OBVIOUS
<1>3. /\ \A i \in 1 .. Len(log) : (log \o more)[i] = log[i]
      /\ \A i \in 1 .. Len(log) + Len(more) : i > Len(log) => (log \o more)[i] = more[i - Len(log)]
  OBVIOUS
<1> QED
  BY <1>1, <1>2, <1>3 DEF Joined

\* What a log tells at its end, it tells after anything else.
LEMMA TellsLater ==
    ASSUME NEW log, NEW more, NEW all, Joined(log, more, all),
           NEW at, NEW row, Tells(more, at, row)
    PROVE  Tells(all, at, row)
<1> USE DEF Joined
<1>1. ASSUME NEW A, NEW i \in DOMAIN more, LastOf(more, at, A, i)
      PROVE  LastOf(all, at, A, Len(log) + i) /\ Len(log) + i \in DOMAIN all
  <2>1. Len(log) + i \in About(all, at, A)
    BY <1>1 DEF LastOf, About
  <2>2. ASSUME NEW j \in About(all, at, A) PROVE j <= Len(log) + i
    <3>1. j \in DOMAIN log => j <= Len(log) + i
      OBVIOUS
    <3>2. j - Len(log) \in DOMAIN more /\ all[j] = more[j - Len(log)]
             => j - Len(log) \in About(more, at, A)
      BY DEF About
    <3> QED
      BY <1>1, <3>1, <3>2 DEF LastOf, About
  <2> QED
    BY <2>1, <2>2 DEF LastOf, About
<1>2. CASE row # NoRow
  <2>1. PICK i \in DOMAIN more : /\ LastOf(more, at, {"set"}, i)
                                 /\ more[i].meta.new \in {Redacted, row.value}
    BY <1>2 DEF Tells
  <2>2. all[Len(log) + i] = more[i]
    OBVIOUS
  <2> QED
    BY <1>1, <1>2, <2>1, <2>2 DEF Tells
<1>3. CASE row = NoRow
  <2>1. PICK i \in DOMAIN more : /\ LastOf(more, at, {"set", "delete"}, i)
                                 /\ more[i].action = "delete"
    BY <1>3 DEF Tells
  <2>2. all[Len(log) + i] = more[i]
    OBVIOUS
  <2> QED
    BY <1>1, <1>3, <2>1, <2>2 DEF Tells
<1> QED
  BY <1>2, <1>3

\* What a log tells, it tells still when nothing is said about it any more.
LEMMA LastStays ==
    ASSUME NEW log, NEW more, NEW all, Joined(log, more, all),
           NEW at, NEW A, About(more, at, A) = {}, NEW i, LastOf(log, at, A, i)
    PROVE  LastOf(all, at, A, i) /\ all[i] = log[i] /\ i \in DOMAIN all
<1> USE DEF Joined
<1>1. i \in DOMAIN log /\ all[i] = log[i] /\ i \in DOMAIN all
  BY DEF LastOf, About
<1>2. i \in About(all, at, A)
  BY <1>1 DEF LastOf, About
<1>3. ASSUME NEW j \in About(all, at, A) PROVE j <= i
  <2>1. j \in DOMAIN all /\ all[j].at = at /\ all[j].action \in A
    BY DEF About
  <2>2. ~(j - Len(log) \in DOMAIN more /\ all[j] = more[j - Len(log)])
    BY <2>1 DEF About
  <2>3. j \in DOMAIN log /\ log[j] = all[j]
    BY <2>1, <2>2
  <2>4. j \in About(log, at, A)
    BY <2>1, <2>3 DEF About
  <2> QED
    BY <2>4 DEF LastOf
<1> QED
  BY <1>1, <1>2, <1>3 DEF LastOf

\* A value that is told is told still while no value is set.
LEMMA TellsStill ==
    ASSUME NEW log, NEW more, NEW all, Joined(log, more, all),
           NEW at, NEW row, row # NoRow, Tells(log, at, row), About(more, at, {"set"}) = {}
    PROVE  Tells(all, at, row)
<1>1. PICK i \in DOMAIN log : /\ LastOf(log, at, {"set"}, i)
                              /\ log[i].meta.new \in {Redacted, row.value}
  BY DEF Tells
<1>2. LastOf(all, at, {"set"}, i) /\ all[i] = log[i] /\ i \in DOMAIN all
  BY <1>1, LastStays
<1> QED
  BY <1>1, <1>2 DEF Tells

\* The end of a row is told while no value is set, by the log or by what follows.
LEMMA TellsGone ==
    ASSUME NEW log, NEW more, NEW all, Joined(log, more, all), NEW at,
           About(more, at, {"set"}) = {},
           Tells(log, at, NoRow) \/ About(more, at, {"set", "delete"}) # {}
    PROVE  Tells(all, at, NoRow)
<1>1. CASE About(more, at, {"set", "delete"}) = {}
  <2>1. PICK i \in DOMAIN log : LastOf(log, at, {"set", "delete"}, i) /\ log[i].action = "delete"
    BY <1>1 DEF Tells
  <2>2. LastOf(all, at, {"set", "delete"}, i) /\ all[i] = log[i] /\ i \in DOMAIN all
    BY <1>1, <2>1, LastStays
  <2> QED
    BY <2>1, <2>2 DEF Tells
<1>2. CASE About(more, at, {"set", "delete"}) # {}
  <2>1. About(more, at, {"set", "delete"}) \in SUBSET (1 .. Len(more)) /\ Len(more) \in Nat
    BY DEF About, Joined
  <2>2. PICK i \in About(more, at, {"set", "delete"}) :
            \A j \in About(more, at, {"set", "delete"}) : j <= i
    BY <1>2, <2>1, LastPosition, Zenon
  <2>3. LastOf(more, at, {"set", "delete"}, i)
    BY <2>2 DEF LastOf
  <2>4. i \in DOMAIN more /\ more[i].action = "delete"
    BY <2>2 DEF About
  <2>5. Tells(more, at, NoRow)
    BY <2>3, <2>4 DEF Tells
  <2> QED
    BY <2>5, TellsLater
<1> QED
  BY <1>1, <1>2

\* What is said in a part of a log is said in the log.
LEMMA AboutJoined ==
    ASSUME NEW log, NEW more, NEW all, Joined(log, more, all), NEW at, NEW A,
           About(log, at, A) # {} \/ About(more, at, A) # {}
    PROVE  About(all, at, A) # {}
<1> USE DEF Joined
<1>1. ASSUME NEW i \in About(log, at, A) PROVE i \in About(all, at, A)
  BY DEF About
<1>2. ASSUME NEW i \in About(more, at, A) PROVE Len(log) + i \in About(all, at, A)
  BY DEF About
<1> QED
  BY <1>1, <1>2

LEMMA RangeOfLog ==
    ASSUME NEW S, NEW log \in Seq(S)
    PROVE  log \in Seq(Range(log)) /\ \A i \in DOMAIN log : i \in Nat /\ log[i] \in S
<1>1. Len(log) \in Nat /\ DOMAIN log = 1 .. Len(log) /\ log \in [1 .. Len(log) -> Range(log)]
  BY DEF Range
<1> QED
  BY <1>1

\* Two logs that are in order are when one follows the other.
LEMMA JoinedOK ==
    ASSUME NEW log, LogOK(log), NEW more, LogOK(more)
    PROVE  LogOK(log \o more) /\ Joined(log, more, log \o more)
<1>1. log \in Seq(Range(log)) /\ more \in Seq(Range(more))
  BY DEF LogOK
<1>2. /\ log \o more \in Seq(Range(log) \cup Range(more))
      /\ Joined(log, more, log \o more)
  BY <1>1, JoinedFacts
<1> DEFINE all == log \o more
<1>3. all \in Seq(Range(all))
  BY <1>2, RangeOfLog
<1> HIDE DEF all
<1>4. ASSUME NEW i \in DOMAIN all
      PROVE  /\ all[i].action \in {"set", "delete"} => ValueAddress(all[i].at)
             /\ all[i].action # "provision" =>
                   all[i].feature = FeatureAt(all[i].at) /\ all[i].env = EnvAt(all[i].at)
  <2>1. Joined(log, more, all)
    BY <1>2 DEF all
  <2>2. (\E j \in DOMAIN log : all[i] = log[j]) \/ (\E j \in DOMAIN more : all[i] = more[j])
    BY <2>1 DEF Joined
  <2> QED
    BY <2>2 DEF LogOK
<1> QED
  BY <1>2, <1>3, <1>4 DEF LogOK, all
-----------------------------------------------------------------------------
(* What the statements of a transaction do to a request *)

\* A log of one row.
LEMMA OneRow ==
    ASSUME NEW a, NEW at, NEW A
    PROVE  /\ DOMAIN <<a>> = {1} /\ <<a>>[1] = a
           /\ a.at = at /\ a.action \in A => About(<<a>>, at, A) = {1} /\ LastOf(<<a>>, at, A, 1)
           /\ ~(a.at = at /\ a.action \in A) => About(<<a>>, at, A) = {}
<1>1. DOMAIN <<a>> = {1} /\ <<a>>[1] = a
  OBVIOUS
<1>2. \A i \in {1} : i = 1
  OBVIOUS
<1> QED
  BY <1>1, <1>2 DEF About, LastOf

LEMMA OneRowOK ==
    ASSUME NEW a, a.action \in {"set", "delete"} => ValueAddress(a.at),
           a.action # "provision" => a.feature = FeatureAt(a.at) /\ a.env = EnvAt(a.at)
    PROVE  LogOK(<<a>>)
<1>1. <<a>> \in Seq(Range(<<a>>))
  BY DEF Range
<1>2. \A i \in DOMAIN <<a>> : <<a>>[i] = a
  OBVIOUS
<1> HIDE DEF LogOK
<1> QED
  BY <1>1, <1>2 DEF LogOK

\* The audit row of a write goes to the end of the request's.
LEMMA Audited ==
    ASSUME NEW log, LogOK(log), NEW a, LogOK(<<a>>)
    PROVE  LogOK(Append(log, a)) /\ Joined(log, <<a>>, Append(log, a))
<1>1. Append(log, a) = log \o <<a>>
  BY DEF LogOK
<1> QED
  BY <1>1, JoinedOK

\* What a request still has to do when an item is done.
LEMMA TodoTail ==
    ASSUME NEW todo, todo \in Seq(Range(todo)), todo # <<>>,
           \A i \in DOMAIN todo : ItemOK(todo[i])
    PROVE  /\ Tail(todo) \in Seq(Range(Tail(todo)))
           /\ \A i \in DOMAIN Tail(todo) : ItemOK(Tail(todo)[i])
           /\ ItemOK(Head(todo))
<1>1. PICK tail : tail = Tail(todo)
  BY Zenon
<1>2. tail \in Seq(Range(todo)) /\ Len(todo) \in Nat /\ Len(tail) = Len(todo) - 1
  BY <1>1
<1>3. DOMAIN tail = 1 .. Len(tail) /\ DOMAIN todo = 1 .. Len(todo) /\ Len(tail) \in Nat
  BY <1>2
<1>4. \A i \in 1 .. Len(tail) : tail[i] = todo[i + 1] /\ i + 1 \in DOMAIN todo
  BY <1>1, <1>2, <1>3
<1>5. tail \in [1 .. Len(tail) -> Range(tail)]
  BY <1>2, <1>3 DEF Range
<1>6. tail \in Seq(Range(tail))
  BY <1>3, <1>5
<1>7. Head(todo) = todo[1] /\ 1 \in DOMAIN todo
  BY <1>2, <1>3
<1> HIDE DEF ItemOK
<1> QED
  BY <1>1, <1>3, <1>4, <1>6, <1>7

\* What a row that is audited does to what the request tells of its writes.
LEMMA StillTold ==
    ASSUME NEW log, NEW a, NEW all, Joined(log, <<a>>, all),
           NEW at, NEW row, Tells(log, at, row), ~(a.at = at /\ a.action = "set")
    PROVE  Tells(all, at, row)
<1>1. About(<<a>>, at, {"set"}) = {}
  BY OneRow
<1>2. CASE row # NoRow
  BY <1>1, <1>2, TellsStill
<1>3. CASE row = NoRow
  BY <1>1, <1>3, TellsGone
<1> QED
  BY <1>2, <1>3

LEMMA OnlyAudits ==
    ASSUME NEW q, ReqOK(q), q.todo # <<>>, NEW a, LogOK(<<a>>), a.action # "set", NEW p,
           p = [q EXCEPT !.pc = "read", !.todo = Tail(@), !.audits = Append(@, a)]
    PROVE  ReqOK(p)
<1>1. DOMAIN p = DOMAIN Waiting /\ p.pc = "read" /\ p.todo = Tail(q.todo)
      /\ p.audits = Append(q.audits, a) /\ p.writes = q.writes
  BY DEF ReqOK, Waiting
<1>2. LogOK(p.audits) /\ Joined(q.audits, <<a>>, p.audits)
  BY <1>1, Audited DEF ReqOK
<1>3. p.todo \in Seq(Range(p.todo)) /\ \A i \in DOMAIN p.todo : ItemOK(p.todo[i])
  BY <1>1, TodoTail DEF ReqOK
<1>4. ASSUME NEW i \in DOMAIN p.audits, p.audits[i].action = "set"
      PROVE  p.audits[i].at \in DOMAIN p.writes
  <2>1. i \in DOMAIN q.audits /\ p.audits[i] = q.audits[i]
    BY <1>2, <1>4, OneRow DEF Joined
  <2> QED
    BY <1>1, <1>4, <2>1 DEF ReqOK
<1>5. ASSUME NEW at \in DOMAIN p.writes
      PROVE  \/ /\ ValueAddress(at) /\ p.writes[at] \in ConfigRow \cup {NoRow}
                /\ Tells(p.audits, at, p.writes[at])
             \/ /\ SwitchAddress(at)
                /\ p.writes[at] # NoRow => About(p.audits, at, {"disable"}) # {}
  <2>1. CASE ValueAddress(at) /\ q.writes[at] \in ConfigRow \cup {NoRow} /\ Tells(q.audits, at, q.writes[at])
    BY <1>1, <1>2, <2>1, StillTold
  <2>2. CASE SwitchAddress(at) /\ (q.writes[at] # NoRow => About(q.audits, at, {"disable"}) # {})
    BY <1>1, <1>2, <2>2, AboutJoined
  <2> QED
    BY <1>1, <2>1, <2>2 DEF ReqOK
<1> QED
  BY <1>1, <1>2, <1>3, <1>4, <1>5 DEF ReqOK

LEMMA Writes ==
    ASSUME NEW q, ReqOK(q), q.todo # <<>>, NEW a, LogOK(<<a>>), NEW row, NEW k, a.at = k,
           \/ ValueAddress(k) /\ row \in ConfigRow \cup {NoRow} /\ Tells(<<a>>, k, row)
           \/ SwitchAddress(k) /\ (row # NoRow => a.action = "disable"),
           NEW p,
           p = [q EXCEPT !.pc = "read", !.todo = Tail(@), !.audits = Append(@, a),
                         !.writes = Put(@, k, row)]
    PROVE  ReqOK(p)
<1>1. DOMAIN p = DOMAIN Waiting /\ p.pc = "read" /\ p.todo = Tail(q.todo)
      /\ p.audits = Append(q.audits, a) /\ p.writes = Put(q.writes, k, row)
  BY DEF ReqOK, Waiting
<1>2. LogOK(p.audits) /\ Joined(q.audits, <<a>>, p.audits)
  BY <1>1, Audited DEF ReqOK
<1>3. p.todo \in Seq(Range(p.todo)) /\ \A i \in DOMAIN p.todo : ItemOK(p.todo[i])
  BY <1>1, TodoTail DEF ReqOK
<1>4. /\ DOMAIN p.writes = DOMAIN q.writes \cup {k} /\ p.writes[k] = row
      /\ \A at \in DOMAIN q.writes : at # k => p.writes[at] = q.writes[at]
  BY <1>1 DEF Put
<1>5. ASSUME NEW i \in DOMAIN p.audits, p.audits[i].action = "set"
      PROVE  p.audits[i].at \in DOMAIN p.writes
  <2>1. (i \in DOMAIN q.audits /\ p.audits[i] = q.audits[i]) \/ p.audits[i] = a
    BY <1>2, OneRow DEF Joined
  <2>2. i \in DOMAIN q.audits /\ p.audits[i] = q.audits[i] => p.audits[i].at \in DOMAIN q.writes
    BY <1>5 DEF ReqOK
  <2> QED
    BY <1>4, <2>1, <2>2
<1>6. ASSUME NEW at \in DOMAIN p.writes
      PROVE  \/ /\ ValueAddress(at) /\ p.writes[at] \in ConfigRow \cup {NoRow}
                /\ Tells(p.audits, at, p.writes[at])
             \/ /\ SwitchAddress(at)
                /\ p.writes[at] # NoRow => About(p.audits, at, {"disable"}) # {}
  <2>1. CASE at = k
    <3>1. CASE ValueAddress(k) /\ row \in ConfigRow \cup {NoRow} /\ Tells(<<a>>, k, row)
      BY <1>2, <1>4, <2>1, <3>1, TellsLater
    <3>2. CASE SwitchAddress(k) /\ (row # NoRow => a.action = "disable")
      <4>1. row # NoRow => About(<<a>>, k, {"disable"}) # {}
        BY <3>2, OneRow
      <4> QED
        BY <1>2, <1>4, <2>1, <3>2, <4>1, AboutJoined
    <3> QED
      BY <3>1, <3>2
  <2>2. CASE at # k
    <3>0. at \in DOMAIN q.writes /\ p.writes[at] = q.writes[at]
      BY <1>4, <2>2
    <3>1. CASE ValueAddress(at) /\ q.writes[at] \in ConfigRow \cup {NoRow} /\ Tells(q.audits, at, q.writes[at])
      BY <1>2, <2>2, <3>0, <3>1, StillTold
    <3>2. CASE SwitchAddress(at) /\ (q.writes[at] # NoRow => About(q.audits, at, {"disable"}) # {})
      BY <1>2, <3>0, <3>2, AboutJoined
    <3> QED
      BY <3>0, <3>1, <3>2 DEF ReqOK
  <2> QED
    BY <2>1, <2>2
<1> QED
  BY <1>1, <1>2, <1>3, <1>5, <1>6 DEF ReqOK

-----------------------------------------------------------------------------
(* The steps of a request *)

\* A step inside a transaction leaves the tables and the other requests alone.
LEMMA RequestStep ==
    ASSUME ConfigInv, NEW r \in Requests, NEW p, ReqOK(p), req' = [req EXCEPT ![r] = p],
           nextId' \in Nat, UNCHANGED <<globalConfig, envConfig, disabledFeatures, audits>>
    PROVE  ConfigInv'
<1>1. req' = [s \in Requests |-> req'[s]] /\ \A s \in Requests : ReqOK(req'[s])
  BY DEF ConfigInv
<1> QED
  BY <1>1 DEF ConfigInv, Told, Explained

LEMMA SeenFacts ==
    ASSUME ConfigInv, NEW r \in Requests, NEW at, ValueAddress(at)
    PROVE  Seen(r, at) \in ConfigRow \cup {NoRow}
<1>1. CASE at \in DOMAIN req[r].writes
  <2>1. ~SwitchAddress(at)
    BY DEF ValueAddress, SwitchAddress
  <2>2. req[r].writes[at] \in ConfigRow \cup {NoRow}
    BY <1>1, <2>1 DEF ConfigInv, ReqOK
  <2> QED
    BY <1>1, <2>2 DEF Seen
<1>2. CASE at \notin DOMAIN req[r].writes
  <2>1. Seen(r, at) = Committed(at)
    BY <1>2 DEF Seen
  <2>2. at[1] = "global" \/ at[1] = "env"
    BY DEF ValueAddress
  <2>3. CASE at[1] = "global"
    <3>1. Committed(at) = Lookup(globalConfig, at[2])
      BY <2>3 DEF Committed, GetGlobalConfigByKey
    <3> QED
      BY <2>1, <3>1 DEF Lookup, ConfigInv, Told
  <2>4. CASE at[1] = "env"
    <3>1. Committed(at) = Lookup(envConfig, at[2])
      BY <2>4 DEF Committed, GetEnvConfigByKey
    <3> QED
      BY <2>1, <3>1 DEF Lookup, ConfigInv, Told
  <2> QED
    BY <2>2, <2>3, <2>4
<1> QED
  BY <1>1, <1>2

\* The item at hand while there is one.
LEMMA ItemFacts ==
    ASSUME ConfigInv, NEW r \in Requests, req[r].todo # <<>>
    PROVE  ReqOK(req[r]) /\ ItemOK(Item(r))
BY TodoTail DEF ConfigInv, ReqOK, Item

\* A request whose transaction ends, and one that goes on to its next item.
LEMMA WentFacts ==
    ASSUME NEW q, ReqOK(q), NEW pc \in {"done", "failed"}, NEW p,
           p = [q EXCEPT !.pc = pc, !.writes = EmptyTable, !.audits = <<>>]
    PROVE  ReqOK(p)
<1>1. /\ DOMAIN p = DOMAIN Waiting /\ p.pc # "write" /\ p.todo = q.todo
      /\ p.writes = EmptyTable /\ p.audits = <<>>
  BY DEF ReqOK, Waiting
<1>2. DOMAIN EmptyTable = {} /\ DOMAIN <<>> = {}
  BY DEF EmptyTable
<1>3. LogOK(<<>>)
  BY <1>2 DEF LogOK
<1> QED
  BY <1>1, <1>2, <1>3 DEF ReqOK

LEMMA GoesOn ==
    ASSUME NEW q, ReqOK(q), NEW p, DOMAIN p = DOMAIN q, p.writes = q.writes, p.audits = q.audits,
           p.todo \in Seq(Range(p.todo)), \A i \in DOMAIN p.todo : ItemOK(p.todo[i]),
           p.pc = "write" => p.todo # <<>>
    PROVE  ReqOK(p)
<1> HIDE DEF LogOK, ItemOK, Tells, About, ValueAddress, SwitchAddress
<1> QED
  BY DEF ReqOK

LEMMA SkippedFacts ==
    ASSUME ConfigInv, NEW r \in Requests, req[r].todo # <<>>
    PROVE  ReqOK(Skipped(r))
<1>1. ReqOK(req[r])
  BY DEF ConfigInv
<1>2. PICK p : p = Skipped(r)
  BY Zenon
<1>3. /\ DOMAIN p = DOMAIN req[r] /\ p.pc = "read" /\ p.writes = req[r].writes
      /\ p.audits = req[r].audits /\ p.todo = Tail(req[r].todo)
  BY <1>1, <1>2 DEF Skipped, ReqOK, Waiting
<1>4. p.todo \in Seq(Range(p.todo)) /\ \A i \in DOMAIN p.todo : ItemOK(p.todo[i])
  BY <1>1, <1>3, TodoTail DEF ReqOK
<1>5. ReqOK(p)
  BY <1>1, <1>3, <1>4, GoesOn
<1> QED
  BY <1>2, <1>5

LEMMA SubmitStep ==
    ASSUME ConfigInv, NEW r \in Requests, NEW form \in Forms, Submit(r, form)
    PROVE  ConfigInv'
<1>1. ReqOK(req[r])
  BY DEF ConfigInv
<1>2. PICK ids : ids = [i \in {j \in DOMAIN form : form[j].kind \in {"update", "delete"}} |->
                          Committed(form[i].at).id]
  BY Zenon
<1>3. PICK p : p = [req[r] EXCEPT !.pc = "read", !.form = form, !.todo = form, !.ids = ids]
  BY Zenon
<1>4. req' = [req EXCEPT ![r] = p]
  BY <1>2, <1>3 DEF Submit
<1>5. /\ DOMAIN p = DOMAIN req[r] /\ p.pc = "read" /\ p.writes = req[r].writes
      /\ p.audits = req[r].audits /\ p.todo = form
  BY <1>1, <1>3 DEF ReqOK, Waiting
<1>6. ReqOK(p)
  BY <1>1, <1>5, GoesOn, ConfigAssumption
<1> QED
  BY <1>4, <1>6, RequestStep DEF Submit, tables, ConfigInv

LEMMA ReadStep == ASSUME ConfigInv, NEW r \in Requests, Read(r) PROVE ConfigInv'
<1>1. ReqOK(req[r]) /\ req[r].todo # <<>>
  BY DEF ConfigInv, Read
<1>2. ASSUME NEW old, NEW p, p = [req[r] EXCEPT !.pc = "write", !.old = old]
      PROVE  ReqOK(p)
  <2>1. /\ DOMAIN p = DOMAIN req[r] /\ p.writes = req[r].writes
        /\ p.audits = req[r].audits /\ p.todo = req[r].todo
    BY <1>1, <1>2 DEF ReqOK, Waiting
  <2> QED
    BY <1>1, <2>1, GoesOn DEF ReqOK
<1>3. PICK p : ReqOK(p) /\ req' = [req EXCEPT ![r] = p]
  <2>1. CASE ReadForSet(r)
    <3>1. PICK was : was = PreviousValue(r, Item(r).at)
      BY Zenon
    <3>2. PICK p : p = [req[r] EXCEPT !.pc = "write", !.old.value = was]
      BY Zenon
    <3>3. p = [req[r] EXCEPT !.pc = "write", !.old = [req[r].old EXCEPT !.value = was]]
      BY <3>2
    <3>4. ReqOK(p)
      BY <1>2, <3>3
    <3>5. req' = [req EXCEPT ![r] = Skipped(r)] \/ req' = [req EXCEPT ![r] = p]
      BY <2>1, <3>1, <3>2 DEF ReadForSet
    <3> QED
      BY <1>1, <3>4, <3>5, SkippedFacts
  <2>2. CASE ReadById(r)
    <3>1. PICK row : row = Seen(r, Item(r).at)
      BY Zenon
    <3>2. PICK p : p = [req[r] EXCEPT !.pc = "write", !.old = [value |-> row.value, secret |-> row.secret]]
      BY Zenon
    <3>3. ReqOK(p)
      BY <1>2, <3>2
    <3>4. \/ req' = [req EXCEPT ![r] = Skipped(r)] \/ req' = [req EXCEPT ![r] = p]
          \/ req' = [req EXCEPT ![r] = Went(r, "failed")]
      BY <2>2, <3>1, <3>2 DEF ReadById
    <3>5. ReqOK(Went(r, "failed"))
      BY <1>1, WentFacts DEF Went
    <3> QED
      BY <1>1, <3>3, <3>4, <3>5, SkippedFacts
  <2>3. CASE req' = [req EXCEPT ![r].pc = "write"]
    <3>1. PICK p : p = [req[r] EXCEPT !.pc = "write"]
      BY Zenon
    <3>2. /\ DOMAIN p = DOMAIN req[r] /\ p.writes = req[r].writes
          /\ p.audits = req[r].audits /\ p.todo = req[r].todo
      BY <1>1, <3>1 DEF ReqOK, Waiting
    <3>3. ReqOK(p)
      BY <1>1, <3>2, GoesOn DEF ReqOK
    <3> QED
      BY <2>3, <3>1, <3>3
  <2> QED
    BY <2>1, <2>2, <2>3 DEF Read
<1> QED
  BY <1>3, RequestStep DEF Read, tables, ConfigInv

\* A statement that writes a row of the item's address, with its audit row.
LEMMA WroteStep ==
    ASSUME ConfigInv, NEW r \in Requests, req[r].todo # <<>>, NEW row, NEW a, LogOK(<<a>>),
           NEW at, at = Item(r).at, a.at = at,
           \/ ValueAddress(at) /\ row \in ConfigRow \cup {NoRow} /\ Tells(<<a>>, at, row)
           \/ SwitchAddress(at) /\ (row # NoRow => a.action = "disable"),
           req' = [req EXCEPT ![r] = Wrote(r, row, a)],
           nextId' \in Nat, UNCHANGED <<globalConfig, envConfig, disabledFeatures, audits>>
    PROVE  ConfigInv'
<1>1. PICK p : p = Wrote(r, row, a)
  BY Zenon
<1>2. p = [req[r] EXCEPT !.pc = "read", !.todo = Tail(@), !.audits = Append(@, a),
                         !.writes = Put(@, at, row)]
  BY <1>1 DEF Wrote
<1>3. ReqOK(req[r])
  BY DEF ConfigInv
<1>4. ReqOK(p)
  BY <1>2, <1>3, Writes
<1> QED
  BY <1>1, <1>4, RequestStep

\* A statement that finds nothing to write, audited all the same.
LEMMA OnlyAuditStep ==
    ASSUME ConfigInv, NEW r \in Requests, req[r].todo # <<>>, NEW a, LogOK(<<a>>), a.action # "set",
           req' = [req EXCEPT ![r] = OnlyAudit(r, a)],
           nextId' \in Nat, UNCHANGED <<globalConfig, envConfig, disabledFeatures, audits>>
    PROVE  ConfigInv'
<1>1. PICK p : p = OnlyAudit(r, a)
  BY Zenon
<1>2. p = [req[r] EXCEPT !.pc = "read", !.todo = Tail(@), !.audits = Append(@, a)]
  BY <1>1 DEF OnlyAudit
<1>3. ReqOK(req[r])
  BY DEF ConfigInv
<1>4. ReqOK(p)
  BY <1>2, <1>3, OnlyAudits
<1> QED
  BY <1>1, <1>4, RequestStep

\* The audit rows that the statements write.
LEMMA AuditRowFacts ==
    ASSUME NEW action, NEW at, NEW meta,
           action \in {"set", "delete"} => ValueAddress(at)
    PROVE  LET a == AuditRow(action, at, meta)
           IN  a.action = action /\ a.at = at /\ a.meta = meta /\ LogOK(<<a>>)
<1>1. PICK a : a = AuditRow(action, at, meta)
  BY Zenon
<1>2. /\ a.action = action /\ a.at = at /\ a.meta = meta
      /\ a.feature = FeatureAt(at) /\ a.env = EnvAt(at)
  BY <1>1 DEF AuditRow
<1>3. LogOK(<<a>>)
  BY <1>2, OneRowOK
<1> QED
  BY <1>1, <1>2, <1>3

LEMMA SetTells ==
    ASSUME NEW at, NEW secret, NEW old, NEW row, row # NoRow, NEW a,
           a = AuditRow("set", at, configChangeMetadata(secret, old, row.value))
    PROVE  Tells(<<a>>, at, row)
<1>1. a.action = "set" /\ a.at = at /\ a.meta.new \in {Redacted, row.value}
  BY DEF AuditRow, configChangeMetadata
<1>2. DOMAIN <<a>> = {1} /\ <<a>>[1] = a /\ LastOf(<<a>>, at, {"set"}, 1)
  BY <1>1, OneRow
<1> QED
  BY <1>1, <1>2 DEF Tells

LEMMA DeleteTells ==
    ASSUME NEW at, NEW a, a.action = "delete", a.at = at
    PROVE  Tells(<<a>>, at, NoRow)
<1>1. DOMAIN <<a>> = {1} /\ <<a>>[1] = a /\ LastOf(<<a>>, at, {"set", "delete"}, 1)
  BY OneRow
<1> QED
  BY <1>1 DEF Tells

LEMMA UpsertStep ==
    ASSUME ConfigInv, NEW r \in Requests, req[r].todo # <<>>, Upsert(r),
           UNCHANGED <<globalConfig, envConfig, disabledFeatures, audits>>
    PROVE  ConfigInv'
<1>1. PICK at : at = Item(r).at
  BY Zenon
<1>2. PICK row : row = Seen(r, at)
  BY Zenon
<1>3. PICK value : value = Item(r).value
  BY Zenon
<1>4. PICK secret : secret = DeclaredSecret(at)
  BY Zenon
<1>5. PICK new : new = IF row # NoRow THEN [row EXCEPT !.value = value]
                       ELSE [id |-> nextId, value |-> value, secret |-> secret]
  BY Zenon
<1>6. PICK a : a = AuditRow("set", at, configChangeMetadata(secret, req[r].old.value, value))
  BY Zenon
<1>7. Item(r).kind = "set" /\ req' = [req EXCEPT ![r] = Wrote(r, new, a)] /\ nextId' = nextId + 1
  BY <1>1, <1>2, <1>3, <1>4, <1>5, <1>6 DEF Upsert
<1>8. ValueAddress(at) /\ value \in Values
  BY <1>1, <1>3, <1>7, ItemFacts DEF ItemOK
<1>9. secret \in BOOLEAN
  BY <1>4 DEF DeclaredSecret
<1>10. row \in ConfigRow \cup {NoRow} /\ nextId \in Nat
  BY <1>2, <1>8, SeenFacts DEF ConfigInv
<1>11. new \in ConfigRow /\ new.value = value
  BY <1>5, <1>8, <1>9, <1>10 DEF ConfigRow
<1>12. new # NoRow
  BY <1>11, ConfigAssumption
<1>13. a = AuditRow("set", at, configChangeMetadata(secret, req[r].old.value, new.value))
  BY <1>6, <1>11
<1>14. Tells(<<a>>, at, new)
  BY <1>12, <1>13, SetTells
<1>15. LogOK(<<a>>) /\ a.at = at
  BY <1>6, <1>8, AuditRowFacts
<1>16. nextId' \in Nat
  BY <1>7, <1>10
<1>17. ValueAddress(at) /\ new \in ConfigRow \cup {NoRow} /\ Tells(<<a>>, at, new)
  BY <1>8, <1>11, <1>14
<1> QED
  BY <1>1, <1>7, <1>15, <1>16, <1>17, WroteStep

LEMMA UpdateByIdStep ==
    ASSUME ConfigInv, NEW r \in Requests, req[r].todo # <<>>, UpdateById(r),
           UNCHANGED <<globalConfig, envConfig, disabledFeatures, audits>>
    PROVE  ConfigInv'
<1>1. PICK at : at = Item(r).at
  BY Zenon
<1>2. PICK row : row = Seen(r, at)
  BY Zenon
<1>3. PICK value : value = Item(r).value
  BY Zenon
<1>4. PICK new : new = [row EXCEPT !.value = value]
  BY Zenon
<1>5. PICK a : a = AuditRow("set", at, configChangeMetadata(row.secret, req[r].old.value, new.value))
  BY Zenon
<1>6. /\ Item(r).kind = "update" /\ nextId' = nextId
      /\ \/ row # NoRow /\ req' = [req EXCEPT ![r] = Wrote(r, new, a)]
         \/ req' = [req EXCEPT ![r] = Went(r, "failed")]
  BY <1>1, <1>2, <1>3, <1>4, <1>5 DEF UpdateById
<1>7. ValueAddress(at) /\ value \in Values
  BY <1>1, <1>3, <1>6, ItemFacts DEF ItemOK
<1>8. row \in ConfigRow \cup {NoRow} /\ nextId \in Nat
  BY <1>2, <1>7, SeenFacts DEF ConfigInv
<1>9. CASE row # NoRow /\ req' = [req EXCEPT ![r] = Wrote(r, new, a)]
  <2>1. new \in ConfigRow
    BY <1>4, <1>7, <1>8, <1>9 DEF ConfigRow
  <2>2. Tells(<<a>>, at, new)
    BY <1>5, <2>1, SetTells, ConfigAssumption
  <2>3. LogOK(<<a>>) /\ a.at = at
    BY <1>5, <1>7, AuditRowFacts
  <2> QED
    BY <1>1, <1>6, <1>7, <1>8, <1>9, <2>1, <2>2, <2>3, WroteStep
<1>10. CASE req' = [req EXCEPT ![r] = Went(r, "failed")]
  <2>1. ReqOK(Went(r, "failed"))
    BY WentFacts DEF Went, ConfigInv
  <2> QED
    BY <1>6, <1>8, <1>10, <2>1, RequestStep
<1> QED
  BY <1>6, <1>9, <1>10

LEMMA DeleteByIdStep ==
    ASSUME ConfigInv, NEW r \in Requests, req[r].todo # <<>>, DeleteById(r),
           UNCHANGED <<globalConfig, envConfig, disabledFeatures, audits>>
    PROVE  ConfigInv'
<1>1. PICK at : at = Item(r).at
  BY Zenon
<1>2. PICK a : a = AuditRow("delete", at,
                            configChangeMetadata(req[r].old.secret, req[r].old.value, NoRow))
  BY Zenon
<1>3. /\ Item(r).kind = "delete" /\ nextId' = nextId /\ nextId \in Nat
      /\ \/ req' = [req EXCEPT ![r] = Wrote(r, NoRow, a)]
         \/ req' = [req EXCEPT ![r] = OnlyAudit(r, a)]
  BY <1>1, <1>2 DEF DeleteById, ConfigInv
<1>4. ValueAddress(at)
  BY <1>1, <1>3, ItemFacts DEF ItemOK
<1>5. LogOK(<<a>>) /\ a.at = at /\ a.action = "delete"
  BY <1>2, <1>4, AuditRowFacts
<1>6. Tells(<<a>>, at, NoRow)
  BY <1>5, DeleteTells
<1>7. CASE req' = [req EXCEPT ![r] = Wrote(r, NoRow, a)]
  BY <1>1, <1>3, <1>4, <1>5, <1>6, <1>7, WroteStep
<1>8. CASE req' = [req EXCEPT ![r] = OnlyAudit(r, a)]
  BY <1>3, <1>5, <1>8, OnlyAuditStep
<1> QED
  BY <1>3, <1>7, <1>8

\* Both switches; only the one that disables inserts a row.
LEMMA SwitchStep ==
    ASSUME ConfigInv, NEW r \in Requests, req[r].todo # <<>>, UNCHANGED nextId,
           NEW action \in {"disable", "enable"}, Item(r).kind = action,
           NEW a, a = AuditRow(action, Item(r).at, NoMeta),
           NEW row, row # NoRow => action = "disable",
           \/ req' = [req EXCEPT ![r] = Wrote(r, row, a)]
           \/ req' = [req EXCEPT ![r] = OnlyAudit(r, a)],
           UNCHANGED <<globalConfig, envConfig, disabledFeatures, audits>>
    PROVE  ConfigInv'
<1>1. PICK at : at = Item(r).at
  BY Zenon
<1>2. SwitchAddress(at) /\ nextId' \in Nat
  BY <1>1, ItemFacts DEF ItemOK, ConfigInv
<1>3. LogOK(<<a>>) /\ a.at = at /\ a.action = action
  BY <1>1, AuditRowFacts
<1>4. CASE req' = [req EXCEPT ![r] = Wrote(r, row, a)]
  BY <1>1, <1>2, <1>3, <1>4, WroteStep
<1>5. CASE req' = [req EXCEPT ![r] = OnlyAudit(r, a)]
  BY <1>2, <1>3, <1>5, OnlyAuditStep
<1> QED
  BY <1>4, <1>5

LEMMA WriteStep == ASSUME ConfigInv, NEW r \in Requests, Write(r) PROVE ConfigInv'
<1>1. req[r].todo # <<>>
  BY DEF Write, ConfigInv, ReqOK
<1>2. UNCHANGED <<globalConfig, envConfig, disabledFeatures, audits>>
  BY DEF Write, tables
<1>3. CASE Upsert(r)
  BY <1>1, <1>2, <1>3, UpsertStep
<1>4. CASE UpdateById(r)
  BY <1>1, <1>2, <1>4, UpdateByIdStep
<1>5. CASE DeleteById(r)
  BY <1>1, <1>2, <1>5, DeleteByIdStep
<1>6. CASE SetDisabledFeature(r)
  <2>1. PICK a : a = AuditRow("disable", Item(r).at, NoMeta)
    BY Zenon
  <2>2. PICK row : row = [id |-> 0]
    BY Zenon
  <2>3. /\ Item(r).kind = "disable" /\ UNCHANGED nextId
        /\ \/ req' = [req EXCEPT ![r] = Wrote(r, row, a)]
           \/ req' = [req EXCEPT ![r] = OnlyAudit(r, a)]
    BY <1>6, <2>1, <2>2 DEF SetDisabledFeature
  <2> QED
    BY <1>1, <1>2, <2>1, <2>3, SwitchStep
<1>7. CASE DeleteDisabledFeature(r)
  <2>1. PICK a : a = AuditRow("enable", Item(r).at, NoMeta)
    BY Zenon
  <2>2. /\ Item(r).kind = "enable" /\ UNCHANGED nextId
        /\ \/ req' = [req EXCEPT ![r] = Wrote(r, NoRow, a)]
           \/ req' = [req EXCEPT ![r] = OnlyAudit(r, a)]
    BY <1>7, <2>1 DEF DeleteDisabledFeature
  <2> QED
    BY <1>1, <1>2, <2>1, <2>2, SwitchStep
<1> QED
  BY <1>3, <1>4, <1>5, <1>6, <1>7 DEF Write

-----------------------------------------------------------------------------
(* The commit *)

\* The keys of a table that a transaction writes, by their address.
LEMMA WrittenFacts ==
    ASSUME NEW writes, NEW name, \A at \in DOMAIN writes : at[1] = name => at = <<name, at[2]>>, NEW k
    PROVE  /\ k \in Written(name, writes) <=>
                 <<name, k>> \in DOMAIN writes /\ writes[<<name, k>>] # NoRow
           /\ k \in Deleted(name, writes) <=>
                 <<name, k>> \in DOMAIN writes /\ writes[<<name, k>>] = NoRow
<1>1. <<name, k>>[1] = name /\ <<name, k>>[2] = k
  OBVIOUS
<1>2. ASSUME NEW at \in DOMAIN writes, at[1] = name, at[2] = k PROVE at = <<name, k>>
  BY <1>2
<1> QED
  BY <1>1, <1>2 DEF Written, Deleted

\* What a transaction's audit rows say of its writes to a table.
WritesTold(more, name, writes) ==
    /\ \A i \in DOMAIN more : more[i].action = "set" => more[i].at \in DOMAIN writes
    /\ \A at \in DOMAIN writes : at[1] = name =>
          /\ at = <<name, at[2]>> /\ writes[at] \in ConfigRow \cup {NoRow}
          /\ Tells(more, at, writes[at])

\* A table after a commit, and the log with the rows of the transaction.
LEMMA ToldAfter ==
    ASSUME NEW log, NEW more, NEW all, Joined(log, more, all), LogOK(all),
           NEW name \in {"global", "env"}, NEW table, Told(log, name, table),
           NEW writes, WritesTold(more, name, writes), NEW new, new = Applied(table, name, writes)
    PROVE  Told(all, name, new)
<1>a. /\ DOMAIN new = (DOMAIN table \cup Written(name, writes)) \ Deleted(name, writes)
      /\ \A k \in DOMAIN new : new[k] = IF k \in Written(name, writes) THEN writes[<<name, k>>]
                                        ELSE table[k]
  BY DEF Applied
<1>b. /\ \A i \in DOMAIN more : more[i].action = "set" => more[i].at \in DOMAIN writes
      /\ \A at \in DOMAIN writes : at[1] = name =>
            /\ at = <<name, at[2]>> /\ writes[at] \in ConfigRow \cup {NoRow}
            /\ Tells(more, at, writes[at])
  BY DEF WritesTold
<1>1. \A k : /\ k \in Written(name, writes) <=>
                   <<name, k>> \in DOMAIN writes /\ writes[<<name, k>>] # NoRow
             /\ k \in Deleted(name, writes) <=>
                   <<name, k>> \in DOMAIN writes /\ writes[<<name, k>>] = NoRow
  BY <1>b, WrittenFacts
<1>2. ASSUME NEW at, at \notin DOMAIN writes PROVE About(more, at, {"set"}) = {}
  BY <1>2, <1>b DEF About
<1>3. ASSUME NEW k \in DOMAIN new PROVE new[k] \in ConfigRow /\ Tells(all, <<name, k>>, new[k])
  <2>0. PICK at : at = <<name, k>>
    BY Zenon
  <2>1. at = <<name, k>> /\ at[1] = name
    BY <2>0
  <2>2. CASE k \in Written(name, writes)
    <3>1. at \in DOMAIN writes /\ new[k] = writes[at] /\ new[k] # NoRow
      BY <1>1, <1>a, <2>1, <2>2
    <3> QED
      BY <1>b, <2>1, <3>1, TellsLater
  <2>3. CASE k \notin Written(name, writes)
    <3>1. k \in DOMAIN table /\ new[k] = table[k] /\ at \notin DOMAIN writes
      BY <1>1, <1>3, <1>a, <2>1, <2>3
    <3>2. table[k] \in ConfigRow /\ Tells(log, at, table[k]) /\ table[k] # NoRow
      BY <2>1, <3>1, ConfigAssumption DEF Told
    <3> QED
      BY <1>2, <2>1, <3>1, <3>2, TellsStill
  <2> QED
    BY <2>2, <2>3
<1>4. ASSUME NEW n \in DOMAIN all, all[n].action \in {"set", "delete"},
             all[n].at[1] = name, all[n].at[2] \notin DOMAIN new
      PROVE  Tells(all, all[n].at, NoRow)
  <2>1. PICK at : at = all[n].at
    BY Zenon
  <2>2. at[1] = name /\ at = <<name, at[2]>>
    BY <1>4, <2>1 DEF LogOK, ValueAddress
  <2>3. CASE at \in DOMAIN writes
    <3>1. writes[at] = NoRow
      BY <1>1, <1>4, <1>a, <2>1, <2>2, <2>3
    <3> QED
      BY <1>b, <2>1, <2>2, <2>3, <3>1, TellsLater
  <2>4. CASE at \notin DOMAIN writes
    <3>0. at[2] \notin Deleted(name, writes)
      BY <1>1, <2>2, <2>4
    <3>1. at[2] \notin DOMAIN table
      BY <1>4, <1>a, <2>1, <3>0
    <3>2. \/ n \in DOMAIN log /\ log[n] = all[n]
          \/ n - Len(log) \in DOMAIN more /\ more[n - Len(log)] = all[n]
      BY DEF Joined
    <3>3. Tells(log, at, NoRow) \/ About(more, at, {"set", "delete"}) # {}
      BY <1>4, <2>1, <3>1, <3>2 DEF Told, About
    <3> QED
      BY <1>2, <2>1, <2>4, <3>3, TellsGone
  <2> QED
    BY <2>3, <2>4
<1> QED
  BY <1>3, <1>4 DEF Told

LEMMA CommitStep == ASSUME ConfigInv, NEW r \in Requests, Commit(r) PROVE ConfigInv'
<1>1. PICK writes : writes = req[r].writes
  BY Zenon
<1>2. PICK more : more = req[r].audits
  BY Zenon
<1>3. PICK all : all = audits \o more
  BY Zenon
<1>4. ReqOK(req[r])
  BY DEF ConfigInv
<1>5. /\ \A i \in DOMAIN more : more[i].action = "set" => more[i].at \in DOMAIN writes
      /\ \A at \in DOMAIN writes :
            \/ /\ ValueAddress(at) /\ writes[at] \in ConfigRow \cup {NoRow}
               /\ Tells(more, at, writes[at])
            \/ /\ SwitchAddress(at)
               /\ writes[at] # NoRow => About(more, at, {"disable"}) # {}
  BY <1>1, <1>2, <1>4 DEF ReqOK
<1>6. LogOK(all) /\ Joined(audits, more, all)
  BY <1>2, <1>3, <1>4, JoinedOK DEF ReqOK, ConfigInv
<1>7. audits' = all
  BY <1>2, <1>3 DEF Commit, CommittedAudits
<1>8. ASSUME NEW name \in {"global", "env"}, NEW at \in DOMAIN writes, at[1] = name
      PROVE  /\ at = <<name, at[2]>> /\ writes[at] \in ConfigRow \cup {NoRow}
             /\ Tells(more, at, writes[at])
  <2>1. ~SwitchAddress(at)
    BY <1>8 DEF SwitchAddress
  <2> QED
    BY <1>5, <1>8, <2>1 DEF ValueAddress
<1>9. ASSUME NEW name \in {"global", "env"}, NEW table, Told(audits, name, table)
      PROVE  Told(all, name, Applied(table, name, writes))
  <2>1. WritesTold(more, name, writes)
    BY <1>5, <1>8 DEF WritesTold
  <2> QED
    BY <1>6, <1>9, <2>1, ToldAfter
<1>10. Told(audits', "global", globalConfig') /\ Told(audits', "env", envConfig')
  <2>1. Told(audits, "global", globalConfig) /\ Told(audits, "env", envConfig)
    BY DEF ConfigInv
  <2>2. /\ globalConfig' = Applied(globalConfig, "global", writes)
        /\ envConfig' = Applied(envConfig, "env", writes)
    BY <1>1 DEF Commit
  <2> QED
    BY <1>7, <1>9, <2>1, <2>2
<1>11. Explained(audits', disabledFeatures')
  <2>1. disabledFeatures' = (disabledFeatures \cup Written("off", writes)) \ Deleted("off", writes)
    BY <1>1 DEF Commit
  <2>2. \A at \in DOMAIN writes : at[1] = "off" => SwitchAddress(at) /\ at = <<"off", at[2]>>
    BY <1>5 DEF ValueAddress, SwitchAddress
  <2>3. ASSUME NEW k \in disabledFeatures'
        PROVE  k = <<k[1], k[2]>> /\ About(all, <<"off", k>>, {"disable"}) # {}
    <3>1. CASE k \in disabledFeatures
      <4>1. k = <<k[1], k[2]>> /\ About(audits, <<"off", k>>, {"disable"}) # {}
        BY <3>1 DEF ConfigInv, Explained
      <4> QED
        BY <1>6, <4>1, AboutJoined
    <3>2. CASE k \in Written("off", writes)
      <4>0. PICK at : at = <<"off", k>>
        BY Zenon
      <4>1. at = <<"off", k>> /\ at[1] = "off" /\ at[2] = k
        BY <4>0
      <4>2. at \in DOMAIN writes /\ writes[at] # NoRow
        BY <2>2, <3>2, <4>1, WrittenFacts
      <4>3. SwitchAddress(at) /\ ~ValueAddress(at)
        BY <2>2, <4>1, <4>2 DEF ValueAddress
      <4>4. k = <<k[1], k[2]>> /\ About(more, at, {"disable"}) # {}
        BY <1>5, <4>1, <4>2, <4>3 DEF SwitchAddress
      <4> QED
        BY <1>6, <4>1, <4>4, AboutJoined
    <3> QED
      BY <2>1, <2>3, <3>1, <3>2
  <2> QED
    BY <1>7, <2>3 DEF Explained
<1>12. req' = [s \in Requests |-> req'[s]] /\ \A s \in Requests : ReqOK(req'[s])
  <2>1. ReqOK(Went(r, "done"))
    BY <1>4, WentFacts DEF Went
  <2> QED
    BY <2>1 DEF Commit, ConfigInv
<1> QED
  BY <1>6, <1>7, <1>10, <1>11, <1>12 DEF ConfigInv, Commit

-----------------------------------------------------------------------------
(* The other steps, and the initial state *)

LEMMA CallStep ==
    ASSUME ConfigInv, NEW r \in Requests, NEW call, Call(r, call) PROVE ConfigInv'
<1>1. PICK p : p = [req[r] EXCEPT !.pc = "audit", !.form = <<call>>]
  BY Zenon
<1>2. ReqOK(req[r])
  BY DEF ConfigInv
<1>3. /\ DOMAIN p = DOMAIN req[r] /\ p.pc = "audit" /\ p.writes = req[r].writes
      /\ p.audits = req[r].audits /\ p.todo = req[r].todo
  BY <1>1, <1>2 DEF ReqOK, Waiting
<1>4. ReqOK(p)
  BY <1>2, <1>3, GoesOn DEF ReqOK
<1>5. req' = [req EXCEPT ![r] = p]
  BY <1>1 DEF Call, ConfigInv
<1> QED
  BY <1>4, <1>5, RequestStep DEF Call, configured, ConfigInv

\* A row about neither values nor switches changes nothing that is told.
LEMMA ToldStays ==
    ASSUME NEW log, NEW a, NEW all, Joined(log, <<a>>, all), a.action = "provision",
           NEW name, NEW table, Told(log, name, table)
    PROVE  Told(all, name, table)
<1>1. ASSUME NEW k \in DOMAIN table PROVE table[k] \in ConfigRow /\ Tells(all, <<name, k>>, table[k])
  BY StillTold DEF Told
<1>2. ASSUME NEW n \in DOMAIN all, all[n].action \in {"set", "delete"},
             all[n].at[1] = name, all[n].at[2] \notin DOMAIN table
      PROVE  Tells(all, all[n].at, NoRow)
  <2>1. n \in DOMAIN log /\ log[n] = all[n]
    BY <1>2, OneRow DEF Joined
  <2>2. Tells(log, all[n].at, NoRow)
    BY <1>2, <2>1 DEF Told
  <2> QED
    BY <2>2, StillTold
<1> QED
  BY <1>1, <1>2 DEF Told

LEMMA WriteAuditStep == ASSUME ConfigInv, NEW r \in Requests, writeAudit(r) PROVE ConfigInv'
<1>1. PICK a : a = [action |-> "provision", at |-> <<"provision", req[r].form[1].kind>>,
                    feature |-> NoRow, env |-> NoRow, meta |-> NoMeta]
  BY Zenon
<1>2. a.action = "provision" /\ LogOK(<<a>>)
  BY <1>1, OneRowOK
<1>3. audits' = Append(audits, a)
  BY <1>1 DEF writeAudit
<1>4. LogOK(audits') /\ Joined(audits, <<a>>, audits')
  BY <1>2, <1>3, Audited DEF ConfigInv
<1>5. Told(audits', "global", globalConfig') /\ Told(audits', "env", envConfig')
  BY <1>2, <1>4, ToldStays DEF ConfigInv, writeAudit, configured
<1>6. Explained(audits', disabledFeatures')
  BY <1>4, AboutJoined DEF ConfigInv, writeAudit, configured, Explained
<1>7. req' = [s \in Requests |-> req'[s]] /\ \A s \in Requests : ReqOK(req'[s])
  <2>1. PICK p : p = [req[r] EXCEPT !.pc = "done"]
    BY Zenon
  <2>2. ReqOK(req[r])
    BY DEF ConfigInv
  <2>3. /\ DOMAIN p = DOMAIN req[r] /\ p.pc = "done" /\ p.writes = req[r].writes
        /\ p.audits = req[r].audits /\ p.todo = req[r].todo
    BY <2>1, <2>2 DEF ReqOK, Waiting
  <2>4. ReqOK(p)
    BY <2>2, <2>3, GoesOn DEF ReqOK
  <2>5. req' = [req EXCEPT ![r] = p]
    BY <2>1 DEF writeAudit, ConfigInv
  <2> QED
    BY <2>4, <2>5 DEF ConfigInv
<1> QED
  BY <1>4, <1>5, <1>6, <1>7 DEF ConfigInv, writeAudit

LEMMA FailStep == ASSUME ConfigInv, NEW r \in Requests, Fail(r) PROVE ConfigInv'
<1>1. PICK pc \in {"done", "failed"} : req' = [req EXCEPT ![r] = Went(r, pc)]
  BY DEF Fail
<1>2. ReqOK(Went(r, pc))
  BY WentFacts DEF Went, ConfigInv
<1> QED
  BY <1>1, <1>2, RequestStep DEF Fail, tables, ConfigInv

LEMMA CrashStep == ASSUME ConfigInv, Crash PROVE ConfigInv'
<1>1. ASSUME NEW r \in Requests PROVE ReqOK(req[r]) /\ ReqOK(Went(r, "failed"))
  BY WentFacts DEF Went, ConfigInv
<1>2. req' = [r \in Requests |-> req'[r]] /\ \A r \in Requests : ReqOK(req'[r])
  BY <1>1 DEF Crash
<1> QED
  BY <1>2 DEF ConfigInv, Crash, tables, Told, Explained

\* SetToSeq lists a finite set, every member once.
LEMMA Listed ==
    ASSUME NEW S, IsFiniteSet(S), NEW seq, seq = SetToSeq(S)
    PROVE  /\ seq \in Seq(S)
           /\ \A i, j \in DOMAIN seq : seq[i] = seq[j] => i = j
           /\ \A x \in S : \E i \in DOMAIN seq : seq[i] = x
<1>1. PICK n : n = Cardinality(S)
  BY Zenon
<1>2. n \in Nat /\ ExistsBijection(1 .. n, S)
  BY <1>1, FS_CardinalityType
<1>3. \E f \in [1 .. n -> S] : IsInjective(f)
  BY <1>2 DEF ExistsBijection, Bijection, Injection
<1>4. seq \in [1 .. n -> S] /\ IsInjective(seq)
  BY <1>1, <1>3 DEF SetToSeq
<1>5. seq \in Seq(S) /\ \A i, j \in DOMAIN seq : seq[i] = seq[j] => i = j
  BY <1>2, <1>4 DEF IsInjective
<1>6. seq \in Injection(1 .. n, S)
  BY <1>4, <1>5 DEF Injection
<1>7. IsFiniteSet(1 .. n) /\ Cardinality(1 .. n) = n
  BY <1>2, FS_Interval
<1>8. seq \in Surjection(1 .. n, S)
  BY <1>1, <1>6, <1>7, FS_Injection
<1> QED
  BY <1>4, <1>5, <1>8 DEF Surjection

\* The audit rows of the configuration the system starts with.
StartRows == {AuditRow("set", at, [old |-> NoRow, new |-> InitConfig[at]]) :
                at \in DOMAIN InitConfig}

LEMMA InitTells ==
    ASSUME NEW log, log = SetToSeq(StartRows)
    PROVE  /\ LogOK(log)
           /\ \A i \in DOMAIN log : log[i].at \in DOMAIN InitConfig
           /\ \A at \in DOMAIN InitConfig : \A row :
                 row # NoRow /\ row.value = InitConfig[at] => Tells(log, at, row)
<1>1. IsFiniteSet(StartRows)
  <2> DEFINE Row(at) == AuditRow("set", at, [old |-> NoRow, new |-> InitConfig[at]])
  <2>1. PICK image : image = [at \in DOMAIN InitConfig |-> Row(at)]
    BY Zenon
  <2>2. image \in Surjection(DOMAIN InitConfig, StartRows)
    BY <2>1 DEF Surjection, StartRows
  <2> QED
    BY <2>2, FS_Surjection, ConfigAssumption
<1>2. /\ log \in Seq(StartRows)
      /\ \A i, j \in DOMAIN log : log[i] = log[j] => i = j
      /\ \A x \in StartRows : \E i \in DOMAIN log : log[i] = x
  BY <1>1, Listed, Zenon
<1>3. ASSUME NEW a \in StartRows
      PROVE  /\ a.at \in DOMAIN InitConfig /\ a.action = "set"
             /\ a = AuditRow("set", a.at, [old |-> NoRow, new |-> InitConfig[a.at]])
             /\ a.meta.new = InitConfig[a.at]
             /\ a.feature = FeatureAt(a.at) /\ a.env = EnvAt(a.at)
  <2>1. PICK at \in DOMAIN InitConfig :
            a = AuditRow("set", at, [old |-> NoRow, new |-> InitConfig[at]])
    BY DEF StartRows
  <2>2. a.at = at /\ a.action = "set" /\ a.meta.new = InitConfig[at]
        /\ a.feature = FeatureAt(at) /\ a.env = EnvAt(at)
    BY <2>1 DEF AuditRow
  <2> QED
    BY <2>1, <2>2
<1>4. \A i \in DOMAIN log : i \in Nat /\ log[i] \in StartRows
  BY <1>2, RangeOfLog, Zenon
<1>5. log \in Seq(Range(log))
  BY <1>2, RangeOfLog, Zenon
<1>6. LogOK(log)
  <2>1. ASSUME NEW i \in DOMAIN log
        PROVE  /\ ValueAddress(log[i].at)
               /\ log[i].feature = FeatureAt(log[i].at) /\ log[i].env = EnvAt(log[i].at)
    BY <1>3, <1>4, ConfigAssumption
  <2> QED
    BY <1>5, <2>1 DEF LogOK
<1>7. ASSUME NEW at \in DOMAIN InitConfig, NEW row, row # NoRow, row.value = InitConfig[at]
      PROVE  Tells(log, at, row)
  <2>1. PICK a : a = AuditRow("set", at, [old |-> NoRow, new |-> InitConfig[at]])
    BY Zenon
  <2>2. a \in StartRows /\ a.at = at
    BY <2>1 DEF AuditRow, StartRows
  <2>3. PICK i \in DOMAIN log : log[i] = a
    BY <1>2, <2>2
  <2>4. i \in About(log, at, {"set"})
    BY <1>3, <2>2, <2>3 DEF About
  <2>5. ASSUME NEW j \in About(log, at, {"set"}) PROVE j <= i
    <3>1. j \in DOMAIN log /\ log[j] \in StartRows /\ log[j].at = at
      BY <1>4 DEF About
    <3>2. log[j] = a
      BY <1>3, <2>1, <3>1
    <3>3. j = i /\ i \in Nat
      BY <1>2, <1>4, <2>3, <3>1, <3>2
    <3> QED
      BY <3>3
  <2>6. LastOf(log, at, {"set"}, i) /\ log[i].meta.new = row.value
    BY <1>3, <1>7, <2>2, <2>3, <2>4, <2>5 DEF LastOf
  <2> QED
    BY <1>7, <2>6 DEF Tells
<1> QED
  BY <1>3, <1>4, <1>6, <1>7

LEMMA InitTold ==
    ASSUME NEW log, LogOK(log), \A i \in DOMAIN log : log[i].at \in DOMAIN InitConfig,
           \A at \in DOMAIN InitConfig : \A row :
               row # NoRow /\ row.value = InitConfig[at] => Tells(log, at, row),
           NEW name, NEW table, table = InitTable(name)
    PROVE  Told(log, name, table)
<1>1. \A at \in DOMAIN InitConfig : at = <<at[1], at[2]>> /\ InitConfig[at] \in Values
  BY ConfigAssumption DEF ValueAddress
<1>2. PICK keys : keys = {at[2] : at \in {x \in DOMAIN InitConfig : x[1] = name}}
  BY Zenon
<1>3. DOMAIN table = keys /\ \A k \in keys : table[k] = InitRow(<<name, k>>)
  BY <1>2 DEF InitTable
<1>4. ASSUME NEW k \in DOMAIN table PROVE table[k] \in ConfigRow /\ Tells(log, <<name, k>>, table[k])
  <2>1. PICK at \in DOMAIN InitConfig : at[1] = name /\ at[2] = k
    BY <1>2, <1>3
  <2>2. at = <<name, k>>
    BY <1>1, <2>1
  <2>3. PICK row : row = table[k]
    BY Zenon
  <2>4. row = [id |-> 0, value |-> InitConfig[at], secret |-> FALSE]
    BY <1>3, <2>2, <2>3 DEF InitRow
  <2>5. row \in ConfigRow /\ row.value = InitConfig[at]
    BY <1>1, <2>4 DEF ConfigRow
  <2>6. row # NoRow
    BY <2>5, ConfigAssumption
  <2> QED
    BY <2>2, <2>3, <2>5, <2>6
<1>5. ASSUME NEW n \in DOMAIN log, log[n].at[1] = name PROVE log[n].at[2] \in DOMAIN table
  BY <1>2, <1>3, <1>5
<1> QED
  BY <1>4, <1>5 DEF Told

LEMMA InitStep == ASSUME Init PROVE ConfigInv
<1>2. audits = SetToSeq(StartRows)
  BY DEF Init, StartRows
<1>3. /\ LogOK(audits)
      /\ \A i \in DOMAIN audits : audits[i].at \in DOMAIN InitConfig
      /\ \A at \in DOMAIN InitConfig : \A row :
            row # NoRow /\ row.value = InitConfig[at] => Tells(audits, at, row)
  BY <1>2, InitTells
<1>4. globalConfig = InitTable("global") /\ envConfig = InitTable("env")
  BY DEF Init
<1>5. Told(audits, "global", globalConfig)
  BY <1>3, <1>4, InitTold
<1>6. Told(audits, "env", envConfig)
  BY <1>3, <1>4, InitTold
<1>7. ReqOK(Waiting)
  <2>1. /\ Waiting.pc = "idle" /\ Waiting.todo = <<>> /\ Waiting.audits = <<>>
        /\ Waiting.writes = EmptyTable
    BY DEF Waiting
  <2>2. DOMAIN <<>> = {} /\ DOMAIN EmptyTable = {} /\ <<>> \in Seq(Range(<<>>))
    BY DEF EmptyTable
  <2>3. LogOK(<<>>)
    BY <2>2 DEF LogOK
  <2> QED
    BY <2>1, <2>2, <2>3 DEF ReqOK
<1>8. req = [r \in Requests |-> Waiting] /\ nextId \in Nat /\ disabledFeatures = {}
  BY DEF Init
<1> QED
  BY <1>3, <1>5, <1>6, <1>7, <1>8 DEF ConfigInv, Explained

-----------------------------------------------------------------------------
(* The theorems *)

\* Every step of the handlers, the provisioner and the faults keeps it.
LEMMA NextStep == ASSUME ConfigInv, [Next]_vars PROVE ConfigInv'
<1>1. CASE UNCHANGED vars
  BY <1>1 DEF ConfigInv, Told, Explained, vars, tables
<1>2. CASE AllEnded
  BY <1>1, <1>2 DEF AllEnded
<1>3. CASE Crash
  BY <1>3, CrashStep
<1>4. ASSUME NEW r \in Requests,
             \/ \E form \in Forms : Submit(r, form)
             \/ Read(r)
             \/ Write(r)
             \/ Commit(r)
             \/ \E call \in Provisions : Call(r, call)
             \/ writeAudit(r)
             \/ Fail(r)
      PROVE  ConfigInv'
  BY <1>4, SubmitStep, ReadStep, WriteStep, CommitStep, CallStep, WriteAuditStep, FailStep
<1> QED
  BY <1>1, <1>2, <1>3, <1>4 DEF Next

\* What a transaction will write and what its audit rows say belong together at
\* every statement, and so do the tables and the audit log at every commit,
\* whatever the other requests do and wherever one fails.
THEOREM ConfigInvariant == Spec => []ConfigInv
<1>1. Init => ConfigInv
  BY InitStep
<1>2. ConfigInv /\ [Next]_vars => ConfigInv'
  BY NextStep
<1> QED
  BY <1>1, <1>2, PTL DEF Spec

\* Every entry about the value of an address is in every list that shows it.
LEMMA ListFacts ==
    ASSUME ConfigInv, NEW at, ValueAddress(at), NEW list \in ActivityOf(at), NEW i, NEW A,
           A = {"set"} \/ A = {"set", "delete"}, LastOf(audits, at, A, i)
    PROVE  i \in list /\ LatestAbout(list, i, at, A)
<1>1. list \subseteq DOMAIN audits
  BY DEF ActivityOf, ListForFeature, ListGlobalConfigForFeature, ListForEnvironmentAudits,
         ListForFeatureInEnvironment
<1>2. i \in DOMAIN audits /\ audits[i].at = at /\ audits[i].action \in A
  BY DEF LastOf, About
<1>3. audits[i].action # "provision" /\ audits[i].feature = FeatureAt(at) /\ audits[i].env = EnvAt(at)
  BY <1>2 DEF ConfigInv, LogOK
<1>4. at[1] = "global" => EnvAt(at) = NoRow
  BY DEF EnvAt
<1>5. i \in list
  BY <1>2, <1>3, <1>4 DEF ActivityOf, ListForFeature, ListGlobalConfigForFeature,
         ListForEnvironmentAudits, ListForFeatureInEnvironment
<1>6. ASSUME NEW j \in list, audits[j].at = at, audits[j].action \in A PROVE j <= i
  BY <1>1, <1>6 DEF LastOf, About
<1> QED
  BY <1>2, <1>5, <1>6 DEF LatestAbout

\* The value of a key is the one that the latest change in every activity list
\* of its pages names, and a key without a row has a deletion there: for any
\* operators, forms and failures, though CreateEnvConfig and its like read
\* outside of any lock and the activity is written with the change.
THEOREM AuditsNameTheValues == Spec => []AuditNamesTheValue
<1>1. ConfigInv => AuditNamesTheValue
  <2> SUFFICES ASSUME ConfigInv PROVE AuditNamesTheValue
    OBVIOUS
  <2>1. ASSUME NEW at \in Addresses, NEW list \in ActivityOf(at)
        PROVE  \E i \in list : /\ LatestAbout(list, i, at, {"set"})
                               /\ audits[i].meta.new \in {Redacted, Committed(at).value}
    <3>1. at = <<at[1], at[2]>>
          /\ \/ at[1] = "global" /\ at[2] \in DOMAIN globalConfig
             \/ at[1] = "env" /\ at[2] \in DOMAIN envConfig
      BY DEF Addresses
    <3>2. Committed(at) \in ConfigRow /\ Tells(audits, at, Committed(at))
      <4>1. CASE at[1] = "global"
        <5>1. Committed(at) = globalConfig[at[2]] /\ at = <<"global", at[2]>> /\ at[2] \in DOMAIN globalConfig
          BY <3>1, <4>1 DEF Committed, GetGlobalConfigByKey, Lookup
        <5> QED
          BY <5>1 DEF ConfigInv, Told
      <4>2. CASE at[1] = "env"
        <5>1. Committed(at) = envConfig[at[2]] /\ at = <<"env", at[2]>> /\ at[2] \in DOMAIN envConfig
          BY <3>1, <4>2 DEF Committed, GetEnvConfigByKey, Lookup
        <5> QED
          BY <5>1 DEF ConfigInv, Told
      <4> QED
        BY <3>1, <4>1, <4>2
    <3>3. PICK i \in DOMAIN audits : /\ LastOf(audits, at, {"set"}, i)
                                     /\ audits[i].meta.new \in {Redacted, Committed(at).value}
      BY <3>2, ConfigAssumption DEF Tells
    <3>4. ValueAddress(at)
      BY <3>3 DEF ConfigInv, LogOK, LastOf, About
    <3>5. i \in list /\ LatestAbout(list, i, at, {"set"})
      BY <3>3, <3>4, ListFacts
    <3> QED
      BY <3>3, <3>5
  <2>2. ASSUME NEW n \in DOMAIN audits, audits[n].action \in {"set", "delete"},
               audits[n].at \notin Addresses, NEW list \in ActivityOf(audits[n].at)
        PROVE  \E i \in list : /\ LatestAbout(list, i, audits[n].at, {"set", "delete"})
                               /\ audits[i].action = "delete"
    <3>1. PICK at : at = audits[n].at
      BY Zenon
    <3>2. ValueAddress(at)
      BY <2>2, <3>1 DEF ConfigInv, LogOK
    <3>3. \/ at[1] = "global" /\ at[2] \notin DOMAIN globalConfig
          \/ at[1] = "env" /\ at[2] \notin DOMAIN envConfig
      BY <2>2, <3>1, <3>2 DEF ValueAddress, Addresses
    <3>4. Tells(audits, at, NoRow)
      BY <2>2, <3>1, <3>3 DEF ConfigInv, Told
    <3>5. PICK i \in DOMAIN audits : LastOf(audits, at, {"set", "delete"}, i) /\ audits[i].action = "delete"
      BY <3>4 DEF Tells
    <3>6. i \in list /\ LatestAbout(list, i, at, {"set", "delete"})
      BY <2>2, <3>1, <3>2, <3>5, ListFacts
    <3> QED
      BY <3>1, <3>5, <3>6
  <2> QED
    BY <2>1, <2>2 DEF AuditNamesTheValue
<1> QED
  BY <1>1, ConfigInvariant, PTL

\* A feature that is off in an environment has the reason where the page of
\* the feature looks for it: DisableFeature commits its row and the audit row
\* together, and one that finds the row of another request is audited too.
THEOREM DisabledIsExplained == Spec => []DisabledHasReason
<1>1. ConfigInv => DisabledHasReason
  <2> SUFFICES ASSUME ConfigInv, NEW k \in disabledFeatures
               PROVE  LatestDisableReason(k[1], k[2]) # NoRow
    BY DEF DisabledHasReason
  <2>1. PICK at : at = <<"off", k>>
    BY Zenon
  <2>2. k = <<k[1], k[2]>> /\ About(audits, at, {"disable"}) # {}
    BY <2>1 DEF ConfigInv, Explained
  <2>3. PICK i \in DOMAIN audits : audits[i].at = at /\ audits[i].action = "disable"
    BY <2>2 DEF About
  <2>4. audits[i].feature = k[2] /\ audits[i].env = k[1]
    <3>1. at[1] # "global" /\ at[2] = k
      BY <2>1
    <3>2. audits[i].feature = FeatureAt(at) /\ audits[i].env = EnvAt(at)
      BY <2>3 DEF ConfigInv, LogOK
    <3> QED
      BY <3>1, <3>2 DEF FeatureAt, EnvAt
  <2>5. PICK S : S = {j \in ListForFeatureInEnvironment(k[1], k[2]) : audits[j].action = "disable"}
    BY Zenon
  <2>6. PICK n \in Nat : DOMAIN audits = 1 .. n
    BY DEF ConfigInv, LogOK
  <2>7. S \in SUBSET (1 .. n) /\ S # {}
    BY <2>3, <2>4, <2>5, <2>6 DEF ListForFeatureInEnvironment
  <2>8. PICK last \in S : \A j \in S : j <= last
    BY <2>7, LastPosition
  <2>9. PICK T : T = {j \in ListForFeatureInEnvironment(k[1], k[2]) :
                        /\ audits[j].action = "disable"
                        /\ \A m \in ListForFeatureInEnvironment(k[1], k[2]) :
                              audits[m].action = "disable" => m <= j}
    BY Zenon
  <2>10. last \in T /\ T \subseteq S
    BY <2>5, <2>8, <2>9
  <2>11. LatestDisableReason(k[1], k[2]) \in T
    <3>1. LatestDisableReason(k[1], k[2]) = One(T)
      BY <2>9 DEF LatestDisableReason
    <3> QED
      BY <2>10, <3>1 DEF One
  <2>12. LatestDisableReason(k[1], k[2]) \in Nat
    <3>1. \A j \in 1 .. n : j \in Nat
      OBVIOUS
    <3> QED
      BY <2>7, <2>10, <2>11, <3>1, Zenon
  <2> QED
    BY <2>12, ConfigAssumption, Zenon
<1> QED
  BY <1>1, ConfigInvariant, PTL
-----------------------------------------------------------------------------
(* What is provisioned and assigned *)

LEMMA CallProvisions ==
    ASSUME ProvisionedInv, NEW r \in Requests, NEW call \in Provisions, Call(r, call)
    PROVE  ProvisionedInv'
<1>1. featureData' = featureData /\ featureAssignments' = featureAssignments
  BY DEF Call, assigned
<1>2. CASE CreateTenant(call)
  BY <1>1, <1>2 DEF CreateTenant, ProvisionedInv
<1>3. CASE CreateEnvironment(call)
  <2>1. TenantOf(call.env) \in tenants
    BY <1>3 DEF CreateEnvironment, GetTenant
  <2>2. DOMAIN environments' = DOMAIN environments \cup {call.env}
    BY <1>3 DEF CreateEnvironment, Put
  <2> QED
    BY <1>1, <1>3, <2>1, <2>2 DEF CreateEnvironment, ProvisionedInv
<1>4. CASE UpdateEnvironment(call)
  <2>1. DOMAIN environments' = DOMAIN environments
    BY <1>4 DEF UpdateEnvironment
  <2> QED
    BY <1>1, <1>4, <2>1 DEF UpdateEnvironment, ProvisionedInv
<1>5. CASE SetEnvironmentValue(call)
  <2>1. PICK k : k = <<call.env, call.key>>
    BY Zenon
  <2>2. k = <<k[1], k[2]>> /\ call.row # NoRow
    BY <1>5, <2>1, ConfigAssumption DEF SetEnvironmentValue
  <2>3. environmentValues' = [x \in DOMAIN environmentValues \cup {k} |->
                                IF x = k THEN call.row ELSE environmentValues[x]]
    BY <1>5, <2>1 DEF SetEnvironmentValue, Put
  <2>4. \A x \in DOMAIN environmentValues' :
           x = <<x[1], x[2]>> /\ environmentValues'[x] # NoRow
    BY <2>2, <2>3 DEF ProvisionedInv
  <2> QED
    BY <1>1, <1>5, <2>4 DEF SetEnvironmentValue, ProvisionedInv
<1>6. CASE DeleteEnvironmentValue(call)
  <2>1. \A x \in DOMAIN environmentValues' :
           x \in DOMAIN environmentValues /\ environmentValues'[x] = environmentValues[x]
    BY <1>6 DEF DeleteEnvironmentValue, Drop, Restrict
  <2> QED
    BY <1>1, <1>6, <2>1 DEF DeleteEnvironmentValue, ProvisionedInv
<1> QED
  BY <1>2, <1>3, <1>4, <1>5, <1>6 DEF Call

\* Only the calls of the provisioner touch any of it.
LEMMA ProvisionedInvariant == Spec => []ProvisionedInv
<1>1. Init => ProvisionedInv
  <2> SUFFICES ASSUME Init PROVE ProvisionedInv
    OBVIOUS
  <2>1. DOMAIN environmentValues = {}
    BY DEF Init, EmptyTable
  <2> QED
    BY <2>1 DEF Init, ProvisionedInv
<1>2. ProvisionedInv /\ [Next]_vars => ProvisionedInv'
  <2> SUFFICES ASSUME ProvisionedInv, [Next]_vars PROVE ProvisionedInv'
    OBVIOUS
  <2> DEFINE same == /\ featureData' = featureData /\ featureAssignments' = featureAssignments
                     /\ environments' = environments /\ tenants' = tenants
                     /\ environmentValues' = environmentValues
  <2>1. same => ProvisionedInv'
    BY DEF ProvisionedInv
  <2>2. ASSUME NEW r \in Requests,
               \/ \E form \in Forms : Submit(r, form)
               \/ Read(r) \/ Write(r) \/ Commit(r) \/ writeAudit(r) \/ Fail(r)
        PROVE  same
    BY <2>2 DEF Submit, Read, Write, Commit, writeAudit, Fail, tables, provisioned, assigned
  <2>3. Crash \/ AllEnded \/ UNCHANGED vars => same
    BY DEF Crash, AllEnded, vars, tables
  <2> QED
    BY <2>1, <2>2, <2>3, CallProvisions DEF Next
<1> QED
  BY <1>1, <1>2, PTL DEF Spec

-----------------------------------------------------------------------------
(* What the pages show *)

\* ORDER BY created DESC lists every row once, newer ones first.
LEMMA OrderedRows ==
    ASSUME NEW S, IsFiniteSet(S), \A d \in S : d.created \in Nat,
           \A a, b \in S : a.created = b.created => a = b,
           NEW s, s = NewestFirst(S)
    PROVE  /\ DOMAIN s = 1 .. Cardinality(S) /\ Cardinality(S) \in Nat
           /\ \A i \in DOMAIN s : s[i] \in S
           /\ \A x \in S : \E i \in DOMAIN s : s[i] = x
           /\ \A i, j \in DOMAIN s : s[i] = s[j] => i = j
           /\ \A i, j \in DOMAIN s : i < j => s[i].created > s[j].created
<1> DEFINE newer(d) == {x \in S : x.created > d.created}
<1>1. PICK n : n = Cardinality(S) BY Zenon
<1>2. n \in Nat BY <1>1, FS_CardinalityType
<1>3. ASSUME NEW d \in S
      PROVE  Cardinality(newer(d)) \in Nat /\ Cardinality(newer(d)) < n
  <2>1. newer(d) \in SUBSET S /\ newer(d) # S OBVIOUS
  <2>2. IsFiniteSet(newer(d)) /\ Cardinality(newer(d)) <= n /\ Cardinality(newer(d)) # n
    BY <1>1, <2>1, FS_Subset
  <2> QED BY <1>2, <2>2, FS_CardinalityType
<1>4. ASSUME NEW a \in S, NEW b \in S, a.created > b.created
      PROVE  Cardinality(newer(a)) < Cardinality(newer(b))
  <2>1. newer(a) \in SUBSET newer(b) /\ a \in newer(b) /\ a \notin newer(a) BY <1>4
  <2>2. IsFiniteSet(newer(b))
    <3>1. newer(b) \in SUBSET S OBVIOUS
    <3> QED BY <3>1, FS_Subset
  <2>3. PICK A, B : A = newer(a) /\ B = newer(b) BY Zenon
  <2>4. Cardinality(A) <= Cardinality(B) /\ Cardinality(A) # Cardinality(B)
    BY <2>1, <2>2, <2>3, FS_Subset
  <2> QED BY <1>3, <2>3, <2>4
<1>5. PICK rank : rank = [d \in S |-> Cardinality(newer(d)) + 1] BY Zenon
<1>6. \A d \in S : rank[d] = Cardinality(newer(d)) + 1 BY <1>5
<1>7. rank \in [S -> 1 .. n] BY <1>2, <1>3, <1>5
<1>8. \A a, b \in S : a.created > b.created => rank[a] < rank[b]
  <2> SUFFICES ASSUME NEW a \in S, NEW b \in S, a.created > b.created PROVE rank[a] < rank[b]
    OBVIOUS
  <2>1. PICK p, q : p = Cardinality(newer(a)) /\ q = Cardinality(newer(b)) BY Zenon
  <2>2. p \in Nat /\ q \in Nat /\ p < q BY <1>3, <1>4, <2>1
  <2>3. rank[a] = p + 1 /\ rank[b] = q + 1 BY <1>6, <2>1
  <2> QED BY <2>2, <2>3
<1>9. \A a, b \in S : rank[a] = rank[b] => a = b
  <2> SUFFICES ASSUME NEW a \in S, NEW b \in S, rank[a] = rank[b], a # b PROVE FALSE
    BY Zenon
  <2>1. a.created > b.created \/ b.created > a.created
    <3>1. a.created # b.created BY Zenon
    <3>2. a.created \in Nat /\ b.created \in Nat BY Zenon
    <3> QED BY <3>1, <3>2
  <2>2. rank[a] \in Nat /\ rank[b] \in Nat BY <1>7
  <2> QED BY <1>8, <2>1, <2>2
<1>10. rank \in Injection(S, 1 .. n) BY <1>7, <1>9 DEF Injection, IsInjective
<1>11. IsFiniteSet(1 .. n) /\ Cardinality(1 .. n) = n BY <1>2, FS_Interval
<1>12. rank \in Surjection(S, 1 .. n) BY <1>1, <1>10, <1>11, FS_Injection
<1>13. ASSUME NEW i \in 1 .. n PROVE s[i] \in S /\ rank[s[i]] = i
  <2>1. s[i] = CHOOSE d \in S : Cardinality(newer(d)) = i - 1 BY <1>1 DEF NewestFirst
  <2>2. PICK d \in S : rank[d] = i BY <1>12 DEF Surjection
  <2>3. Cardinality(newer(d)) = i - 1 BY <1>2, <1>3, <1>6, <2>2
  <2>4. s[i] \in S /\ Cardinality(newer(s[i])) = i - 1 BY <2>1, <2>3
  <2> QED BY <1>2, <1>6, <2>4
<1>14. DOMAIN s = 1 .. n BY <1>1 DEF NewestFirst
<1>15. \A x \in S : \E i \in DOMAIN s : s[i] = x BY <1>7, <1>9, <1>13, <1>14
<1>16. \A i, j \in DOMAIN s : s[i] = s[j] => i = j BY <1>13, <1>14
<1>17. ASSUME NEW i \in DOMAIN s, NEW j \in DOMAIN s, i < j
       PROVE  s[i].created > s[j].created
  <2>1. s[i] \in S /\ s[j] \in S /\ rank[s[i]] = i /\ rank[s[j]] = j BY <1>13, <1>14
  <2>2. ~(s[j].created > s[i].created) BY <1>2, <1>8, <1>14, <1>17, <2>1
  <2>3. s[i].created # s[j].created BY <1>2, <1>14, <1>17, <2>1
  <2> QED BY <2>1, <2>2, <2>3
<1> QED BY <1>1, <1>2, <1>13, <1>14, <1>15, <1>16, <1>17

\* The assignments of the table.
LEMMA RowFacts ==
    ASSUME ProvisionedInv
    PROVE  /\ IsFiniteSet(AssignmentRows)
           /\ \A d \in AssignmentRows :
                 /\ d.created \in Nat /\ d.active
                 /\ IsFiniteSet(DOMAIN d.target) /\ Cardinality(DOMAIN d.target) \in Nat
                 /\ ChartOf(d).name = d.feature
                 /\ TargetsHaveValues => \A k \in DOMAIN d.target : d.target[k] # EmptyValue
           /\ \A a, b \in AssignmentRows : a.created = b.created => a = b
<1>1. PICK n \in Nat : DOMAIN InitAssigned = 1 .. n
  BY ConfigAssumption
<1>2. PICK rows : rows = InitAssignments
  BY Zenon
<1>3. /\ DOMAIN rows = 1 .. n
      /\ \A id \in 1 .. n :
            rows[id] = [id |-> id, feature |-> InitAssigned[id][1].name,
                        version |-> InitAssigned[id][1].version, target |-> InitAssigned[id][2],
                        created |-> id, active |-> TRUE]
  BY <1>1, <1>2 DEF InitAssignments
<1>4. featureAssignments = rows /\ AssignmentRows = {rows[id] : id \in 1 .. n}
  BY <1>2, <1>3 DEF ProvisionedInv, AssignmentRows, Range
<1>5. IsFiniteSet(AssignmentRows)
  <2>1. IsFiniteSet(1 .. n)
    BY <1>1, FS_Interval
  <2>2. rows \in Surjection(1 .. n, AssignmentRows)
    <3>1. rows \in [1 .. n -> AssignmentRows]
      BY <1>2, <1>3, <1>4 DEF InitAssignments
    <3> QED
      BY <1>4, <3>1 DEF Surjection
  <2> QED
    BY <2>1, <2>2, FS_Surjection
<1>6. ASSUME NEW d \in AssignmentRows
      PROVE  /\ d.created \in Nat /\ d.active
             /\ IsFiniteSet(DOMAIN d.target) /\ Cardinality(DOMAIN d.target) \in Nat
             /\ ChartOf(d).name = d.feature
             /\ TargetsHaveValues => \A k \in DOMAIN d.target : d.target[k] # EmptyValue
  <2>1. PICK id \in 1 .. n : d = rows[id]
    BY <1>4
  <2>2. PICK a : a = InitAssigned[id]
    BY Zenon
  <2>3. a \in Range(InitAssigned)
    BY <1>1, <2>2 DEF Range
  <2>4. a[1] \in Charts /\ IsFiniteSet(DOMAIN a[2])
    BY <2>3, ConfigAssumption
  <2>5. /\ d.feature = a[1].name /\ d.version = a[1].version /\ d.target = a[2]
        /\ d.created = id /\ d.active = TRUE
    BY <1>3, <2>1, <2>2
  <2>6. Cardinality(DOMAIN a[2]) \in Nat
    BY <2>4, FS_CardinalityType
  <2>7. ChartOf(d).name = a[1].name
    <3>1. PICK k : k = <<a[1].name, a[1].version>>
      BY Zenon
    <3>2. ChartOf(d) = InitData[k]
      BY <2>5, <3>1 DEF ChartOf, ProvisionedInv
    <3>3. InitData[k] = CHOOSE c \in Charts : k = <<c.name, c.version>>
      BY <2>3, <3>1 DEF InitData
    <3>4. PICK c : c = InitData[k]
      BY Zenon
    <3>5. k = <<c.name, c.version>>
      BY <2>4, <3>1, <3>3, <3>4
    <3> QED
      BY <3>1, <3>2, <3>4, <3>5
  <2> QED
    BY <2>3, <2>4, <2>5, <2>6, <2>7 DEF TargetsHaveValues
<1>7. \A a, b \in AssignmentRows : a.created = b.created => a = b
  BY <1>3, <1>4
<1> QED
  BY <1>5, <1>6, <1>7

\* Of some assignments one is at least as specific as every other.
LEMMA MostSpecificExists ==
    ASSUME ProvisionedInv, NEW S \in SUBSET AssignmentRows, S # {}
    PROVE  \E d \in S : \A x \in S : ~IsMoreSpecific(x, d)
<1> DEFINE Above(d) == {x \in S : IsMoreSpecific(x, d)}
           R == {p \in Nat \X Nat : p[1] < p[2]}
<1>1. \A d \in S : IsFiniteSet(Above(d)) /\ Cardinality(Above(d)) \in Nat
  <2>1. IsFiniteSet(S)
    BY RowFacts, FS_Subset
  <2>2. \A d \in S : Above(d) \in SUBSET S
    OBVIOUS
  <2> HIDE DEF Above
  <2> QED
    BY <2>1, <2>2, FS_Subset, FS_CardinalityType
<1>2. PICK N : N = {Cardinality(Above(d)) : d \in S}
  BY Zenon
<1>3. N \in SUBSET Nat /\ N # {}
  BY <1>1, <1>2
<1>4. IsWellFoundedOn(R, Nat)
  BY NatLessThanWellFounded DEF OpToRel
<1>5. \E m \in N : \A y \in N : <<y, m>> \notin R
  <2> HIDE DEF R
  <2> QED
    BY <1>3, <1>4, WFMin
<1>6. PICK d \in S : \A y \in S : ~(Cardinality(Above(y)) < Cardinality(Above(d)))
  BY <1>1, <1>2, <1>5
<1>7. ASSUME NEW x \in S, IsMoreSpecific(x, d) PROVE FALSE
  <2>1. x \in Above(d) /\ x \notin Above(x)
    BY <1>7, RowFacts DEF IsMoreSpecific
  <2>2. Above(x) \in SUBSET Above(d)
    <3> SUFFICES ASSUME NEW y \in S, IsMoreSpecific(y, x) PROVE IsMoreSpecific(y, d)
      OBVIOUS
    <3>1. \A z \in {x, y, d} : z.created \in Nat /\ Cardinality(DOMAIN z.target) \in Nat
      BY RowFacts
    <3> QED
      BY <1>7, <3>1 DEF IsMoreSpecific
  <2>3. PICK A, B : A = Above(x) /\ B = Above(d)
    BY Zenon
  <2>4. Cardinality(A) <= Cardinality(B) /\ Cardinality(A) # Cardinality(B)
    BY <1>1, <2>1, <2>2, <2>3, FS_Subset
  <2> QED
    BY <1>1, <1>6, <2>3, <2>4
<1> QED
  BY <1>7
\* An environment that the pages of a feature list gets a chart of it, and so
\* do these pages.
LEMMA ListedHasChart ==
    ASSUME ProvisionedInv, TargetsHaveValues, NEW f, NEW e \in featureEnvironments(f)
    PROVE  /\ e \in DOMAIN environments
           /\ FeatureForEnvironment(e, f).name = f /\ FeatureByName(f).name = f
<1>1. PICK rows : rows = {d \in ActiveAssignments : d.feature = f}
  BY Zenon
<1>2. PICK s : s = ListByFeature(f)
  BY Zenon
<1>3. rows \in SUBSET AssignmentRows /\ IsFiniteSet(rows)
  <2>1. rows \in SUBSET AssignmentRows
    BY <1>1 DEF ActiveAssignments
  <2> QED
    BY <2>1, RowFacts, FS_Subset
<1>4. /\ DOMAIN s = 1 .. Cardinality(rows) /\ Cardinality(rows) \in Nat
      /\ \A i \in DOMAIN s : s[i] \in rows
  <2>1. s = NewestFirst(rows)
    BY <1>1, <1>2 DEF ListByFeature
  <2>2. (\A d \in rows : d.created \in Nat) /\ \A a, b \in rows : a.created = b.created => a = b
    BY <1>3, RowFacts
  <2> QED
    BY <1>3, <2>1, <2>2, OrderedRows
<1>5. PICK i \in DOMAIN s : targetMatchesLabels(s[i].target, environments[e].labels)
  BY <1>2 DEF featureEnvironments, latestAssignmentPerTarget
<1>6. e \in DOMAIN environments
  BY DEF featureEnvironments, ListTenantEnvironments
<1>7. FeatureByName(f).name = f
  <2>1. 1 \in DOMAIN s /\ s # <<>>
    BY <1>4, <1>5
  <2>2. FeatureByName(f) = ChartOf(s[1])
    BY <1>2, <2>1 DEF FeatureByName
  <2>3. s[1] \in AssignmentRows /\ s[1].feature = f
    BY <1>1, <1>3, <1>4, <2>1
  <2> QED
    BY <2>2, <2>3, RowFacts
<1>8. FeatureForEnvironment(e, f).name = f
  <2>1. PICK S : S = {d \in ActiveAssignments :
                        d.feature = f /\ jsonbContains(environments[e].labels, d.target)}
    BY Zenon
  <2>2. S \in SUBSET AssignmentRows
    BY <2>1 DEF ActiveAssignments
  <2>3. s[i] \in S
    <3>1. s[i] \in ActiveAssignments /\ s[i].feature = f /\ s[i] \in AssignmentRows
      BY <1>1, <1>3, <1>4, <1>5
    <3>2. \A k \in DOMAIN s[i].target : s[i].target[k] # EmptyValue
      BY <3>1, RowFacts
    <3>3. jsonbContains(environments[e].labels, s[i].target)
      BY <1>5, <3>2 DEF targetMatchesLabels, LabelAt, jsonbContains
    <3> QED
      BY <2>1, <3>1, <3>3
  <2>4. PICK d \in S : \A x \in S : ~IsMoreSpecific(x, d)
    BY <2>2, <2>3, MostSpecificExists
  <2>5. PICK T : T = DistinctOnTarget(S)
    BY Zenon
  <2>6. T \in SUBSET S /\ d \in T
    <3>1. ASSUME NEW x \in S, x.target = d.target PROVE x.created <= d.created
      <4>1. x.created \in Nat /\ d.created \in Nat
        BY <2>2, RowFacts
      <4>2. ~(x.created > d.created)
        BY <2>4, <3>1 DEF IsMoreSpecific
      <4> QED
        BY <4>1, <4>2
    <3> QED
      BY <2>5, <3>1 DEF DistinctOnTarget
  <2>7. PICK W : W = mostSpecificPerFeature(T)
    BY Zenon
  <2>8. d \in W /\ W \subseteq T
    BY <2>4, <2>6, <2>7 DEF mostSpecificPerFeature
  <2>9. PICK w : w = mostSpecificAssignment(e, f)
    BY Zenon
  <2>10. w \in S
    <3>1. w = One(W)
      BY <2>1, <2>5, <2>7, <2>9 DEF mostSpecificAssignment, winnerOf,
         ListFeatureAssignmentsForFeatureInEnvironment
    <3>2. w \in W
      BY <2>8, <3>1 DEF One
    <3> QED
      BY <2>6, <2>8, <3>2
  <2>11. w \in AssignmentRows /\ w.feature = f
    BY <2>1, <2>2, <2>10
  <2>12. w # NoRow
    BY <2>11, ConfigAssumption DEF AssignmentRows, ProvisionedInv
  <2>13. FeatureForEnvironment(e, f) = ChartOf(w)
    BY <2>9, <2>12 DEF FeatureForEnvironment
  <2> QED
    BY <2>11, <2>13, RowFacts
<1> QED
  BY <1>6, <1>7, <1>8

\* The rows of configuration of a feature, and of one in an environment, have
\* the keys that the tables have them under.
LEMMA ConfigKeys ==
    ASSUME ConfigInv, NEW e, NEW f, NEW k
    PROVE  /\ k \in DOMAIN ListGlobalConfigByFeature(f) <=> <<f, k>> \in DOMAIN globalConfig
           /\ k \in DOMAIN ListEnvConfigByFeature(e, f) <=> <<e, f, k>> \in DOMAIN envConfig
<1>1. ASSUME NEW name \in {"global", "env"}, NEW table, NEW x \in DOMAIN table,
             Told(audits, name, table)
      PROVE  KeyOfTable(name, x)
  <2>1. PICK at : at = <<name, x>>
    BY Zenon
  <2>2. at[1] = name /\ at[2] = x
    BY <2>1
  <2>3. table[x] # NoRow /\ Tells(audits, at, table[x])
    BY <1>1, <2>1, ConfigAssumption DEF Told
  <2>4. PICK i \in DOMAIN audits : audits[i].at = at /\ audits[i].action = "set"
    BY <2>3 DEF Tells, LastOf, About
  <2>5. ValueAddress(at)
    BY <2>4 DEF ConfigInv, LogOK
  <2> QED
    BY <2>2, <2>5 DEF ValueAddress
<1>2. \A x \in DOMAIN globalConfig : x = <<x[1], x[2]>>
  BY <1>1 DEF ConfigInv, KeyOfTable
<1>3. \A x \in DOMAIN envConfig : x = <<x[1], x[2], x[3]>>
  <2>1. \A x \in DOMAIN envConfig : KeyOfTable("env", x)
    BY <1>1 DEF ConfigInv
  <2> QED
    BY <2>1 DEF KeyOfTable
<1>4. k \in DOMAIN ListGlobalConfigByFeature(f) <=> <<f, k>> \in DOMAIN globalConfig
  BY <1>2 DEF ListGlobalConfigByFeature
<1>5. k \in DOMAIN ListEnvConfigByFeature(e, f) <=> <<e, f, k>> \in DOMAIN envConfig
  BY <1>3 DEF ListEnvConfigByFeature
<1> QED
  BY <1>4, <1>5

\* What a merge has at a key that it includes.
LEMMA MergedAt ==
    ASSUME NEW global, NEW env, NEW keys, NEW k, keys = {} \/ k \in keys,
           NEW merged, merged = Over(Included(env, keys), Included(global, keys))
    PROVE  /\ k \in DOMAIN merged <=> k \in DOMAIN env \cup DOMAIN global
           /\ k \in DOMAIN env => merged[k] = env[k]
           /\ k \in DOMAIN global \ DOMAIN env => merged[k] = global[k]
<1>1. ASSUME NEW rows, NEW got, got = Included(rows, keys)
      PROVE  /\ k \in DOMAIN got <=> k \in DOMAIN rows
             /\ k \in DOMAIN rows => got[k] = rows[k]
  BY <1>1 DEF Included, Restrict
<1>2. PICK over, under : over = Included(env, keys) /\ under = Included(global, keys)
  BY Zenon
<1>3. merged = [x \in DOMAIN over \cup DOMAIN under |-> IF x \in DOMAIN over THEN over[x] ELSE under[x]]
  BY <1>2 DEF Over
<1> QED
  BY <1>1, <1>2, <1>3
\* The page of an environment and the REST API.
LEMMA ValuesAreShown ==
    ASSUME ProvisionedInv, NEW e \in DOMAIN environments
    PROVE  LET shown == ListEnvironmentValuesForEnvironment(e, TRUE)
               given == buildEnvValues(environments, environmentValues, e).Env
               masked == ListEnvironmentValuesForEnvironment(e, FALSE)
               open == /\ ProjectKey \in DOMAIN masked
                       /\ ~environmentValues[<<e, ProjectKey>>].secret
           IN  /\ DOMAIN given = DOMAIN shown \cup ReservedKeys
               /\ \A k \in DOMAIN shown : given[k] = shown[k]
               /\ {r.project : r \in {x \in GetTenants[TenantOf(e)] : x.env = e}} =
                     {IF open THEN masked[ProjectKey] ELSE NoRow}
<1>1. PICK shown, masked, keys :
          /\ shown = ListEnvironmentValuesForEnvironment(e, TRUE)
          /\ masked = ListEnvironmentValuesForEnvironment(e, FALSE)
          /\ keys = ValueKeys(environmentValues, e)
  BY Zenon
<1>2. PICK given : given = buildEnvValues(environments, environmentValues, e).Env
  BY Zenon
<1>3. \A k \in keys : <<e, k>> \in DOMAIN environmentValues
  BY <1>1 DEF ValueKeys, ProvisionedInv
<1>4. \A k : <<e, k>> \in DOMAIN environmentValues => k \in keys
  BY <1>1 DEF ValueKeys
<1>5. /\ shown = [k \in keys |-> MappingValue(environmentValues[<<e, k>>], TRUE)]
      /\ masked = [k \in keys |-> MappingValue(environmentValues[<<e, k>>], FALSE)]
  BY <1>1, Zenon DEF ListEnvironmentValuesForEnvironment
<1>6. given = [k \in keys \cup ReservedKeys |->
                 IF <<e, k>> \in DOMAIN environmentValues THEN environmentValues[<<e, k>>].value
                 ELSE Identity(e, environments[e].kind, k)]
  <2>1. given = SnapshotValues(environments, environmentValues, e)
    BY <1>2 DEF buildEnvValues
  <2> QED
    BY <1>1, <2>1 DEF SnapshotValues
<1>7. DOMAIN given = DOMAIN shown \cup ReservedKeys /\ DOMAIN masked = keys
  BY <1>5, <1>6
<1>8. \A k \in DOMAIN shown : given[k] = shown[k]
  <2> SUFFICES ASSUME NEW k \in keys PROVE given[k] = shown[k]
    BY <1>5
  <2>1. shown[k] = environmentValues[<<e, k>>].value
    BY <1>5 DEF MappingValue
  <2> QED
    BY <1>3, <1>6, <2>1
<1>9. PICK name : name = IF ProjectKey \in keys /\ ~environmentValues[<<e, ProjectKey>>].secret
                          THEN masked[ProjectKey] ELSE NoRow
  BY Zenon
<1>10. PICK L : L = ListTenantsWithEnvironments
  BY Zenon
<1>11. PICK row \in L : row.env = e /\ row.project = name
  <2>1. PICK v : v = Lookup(environmentValues, <<e, ProjectKey>>)
    BY Zenon
  <2>2. (IF v # NoRow /\ ~v.secret THEN v.value ELSE NoRow) = name
    <3>1. CASE ProjectKey \in keys
      <4>1. v = environmentValues[<<e, ProjectKey>>] /\ v # NoRow
        BY <1>3, <2>1, <3>1 DEF Lookup, ProvisionedInv
      <4>2. masked[ProjectKey] = IF v.secret THEN Redacted ELSE v.value
        BY <1>5, <3>1, <4>1 DEF MappingValue
      <4> QED
        BY <1>9, <3>1, <4>1, <4>2
    <3>2. CASE ProjectKey \notin keys
      <4>1. v = NoRow
        BY <1>4, <2>1, <3>2 DEF Lookup
      <4> QED
        BY <1>9, <3>2, <4>1
    <3> QED
      BY <3>1, <3>2
  <2>3. TenantOf(e) \in tenants
    BY DEF ProvisionedInv
  <2>4. PICK row : row = [env |-> e, kind |-> environments[e].kind,
                          labels |-> environments[e].labels,
                          project |-> IF v # NoRow /\ ~v.secret THEN v.value ELSE NoRow]
    BY Zenon
  <2>5. row \in L
    BY <1>10, <2>1, <2>3, <2>4, Zenon DEF ListTenantsWithEnvironments
  <2>6. row.env = e /\ row.project = name
    BY <2>2, <2>4
  <2> QED
    BY <2>5, <2>6
<1>12. \A x \in L : x.env = e => x = row
  <2> DEFINE Row(y) ==
        [env |-> y, kind |-> environments[y].kind, labels |-> environments[y].labels,
         project |-> LET v == Lookup(environmentValues, <<y, ProjectKey>>)
                     IN  IF v # NoRow /\ ~v.secret THEN v.value ELSE NoRow]
  <2>1. \A x \in L : \E y \in DOMAIN environments : x = Row(y)
    BY <1>10 DEF ListTenantsWithEnvironments
  <2>2. \A y : Row(y).env = y
    OBVIOUS
  <2> HIDE DEF Row
  <2> QED
    BY <1>11, <2>1, <2>2
<1>13. GetTenants[TenantOf(e)] = {r \in L : TenantOf(r.env) = TenantOf(e)}
  <2>1. TenantOf(e) \in {TenantOf(r.env) : r \in L}
    BY <1>11
  <2> QED
    BY <1>10, <2>1 DEF GetTenants
<1>14. {x \in GetTenants[TenantOf(e)] : x.env = e} = {row}
  BY <1>11, <1>12, <1>13
<1>15. {r.project : r \in {x \in GetTenants[TenantOf(e)] : x.env = e}} = {name}
  BY <1>11, <1>14
<1> QED
  BY <1>1, <1>2, <1>7, <1>8, <1>9, <1>15

\* The pages of configuration.
LEMMA ConfigIsShown ==
    ASSUME ConfigInv, ProvisionedInv, TargetsHaveValues, NEW f, NEW e \in featureEnvironments(f),
           NEW chart, chart = FeatureForEnvironment(e, f),
           NEW k \in configIncludeKeys(chart, environments[e].kind)
    PROVE  LET merged == mergeConfigRows(buildGlobalConfigMap(globalConfig, f),
                                         buildEnvConfigMap(envConfig, e, f),
                                         configIncludeKeys(chart, environments[e].kind))
               items == loadFeatureConfigItems(chart, e)
               shared == loadGlobalConfigItems(FeatureByName(f))
               value == IF k \in DOMAIN merged THEN merged[k].value ELSE HelmDefault
           IN  /\ compareKeyAcrossEnvs(f, k)[e] = value
               /\ items[k].value = value
               /\ (k \in DOMAIN shared /\ <<e, f, k>> \notin DOMAIN envConfig)
                     => shared[k].value = value
<1>1. chart.name = f /\ FeatureByName(f).name = f
  BY ListedHasChart
<1>2. PICK keys : keys = configIncludeKeys(chart, environments[e].kind)
  BY Zenon
<1>3. k \in keys
  BY <1>2
<1>4. PICK global, env : /\ global = ListGlobalConfigByFeature(f)
                         /\ env = ListEnvConfigByFeature(e, f)
  BY Zenon
<1>5. buildGlobalConfigMap(globalConfig, f) = global /\ buildEnvConfigMap(envConfig, e, f) = env
  BY <1>4, Zenon DEF buildGlobalConfigMap, buildEnvConfigMap, ListGlobalConfigByFeature,
                     ListEnvConfigByFeature
<1>6. PICK merged : merged = mergeConfigRows(global, env, keys)
  BY Zenon
<1>7. PICK stored : stored = MergeConfigs(global, env, {})
  BY Zenon
<1>8. PICK value : value = IF <<e, f, k>> \in DOMAIN envConfig THEN envConfig[<<e, f, k>>].value
                           ELSE IF <<f, k>> \in DOMAIN globalConfig THEN globalConfig[<<f, k>>].value
                           ELSE HelmDefault
  BY Zenon
<1>9. /\ k \in DOMAIN global <=> <<f, k>> \in DOMAIN globalConfig
      /\ k \in DOMAIN env <=> <<e, f, k>> \in DOMAIN envConfig
      /\ k \in DOMAIN global => global[k] = globalConfig[<<f, k>>]
      /\ k \in DOMAIN env => env[k] = envConfig[<<e, f, k>>]
  <2>1. /\ k \in DOMAIN global <=> <<f, k>> \in DOMAIN globalConfig
        /\ k \in DOMAIN env <=> <<e, f, k>> \in DOMAIN envConfig
    BY <1>4, ConfigKeys
  <2>2. k \in DOMAIN global => global[k] = globalConfig[<<f, k>>]
    BY <1>4 DEF ListGlobalConfigByFeature
  <2>3. k \in DOMAIN env => env[k] = envConfig[<<e, f, k>>]
    BY <1>4 DEF ListEnvConfigByFeature
  <2> QED
    BY <2>1, <2>2, <2>3
<1>10. ASSUME NEW rows, rows = merged \/ rows = stored
       PROVE  (IF k \in DOMAIN rows THEN rows[k].value ELSE HelmDefault) = value
  <2>1. /\ k \in DOMAIN rows <=> k \in DOMAIN env \cup DOMAIN global
        /\ k \in DOMAIN env => rows[k] = env[k]
        /\ k \in DOMAIN global \ DOMAIN env => rows[k] = global[k]
    <3>1. CASE rows = merged
      <4>1. rows = Over(Included(env, keys), Included(global, keys))
        BY <1>6, <3>1 DEF mergeConfigRows
      <4> QED
        BY <1>3, <4>1, MergedAt
    <3>2. CASE rows = stored
      <4>1. PICK none : none = {}
        BY Zenon
      <4>2. rows = Over(Included(env, none), Included(global, none))
        BY <1>7, <3>2, <4>1 DEF MergeConfigs
      <4> QED
        BY <4>1, <4>2, MergedAt
    <3> QED
      BY <1>10, <3>1, <3>2
  <2> QED
    BY <1>8, <1>9, <2>1
<1>11. compareKeyAcrossEnvs(f, k)[e] = value
  BY <1>8 DEF compareKeyAcrossEnvs
<1>12. loadFeatureConfigItems(chart, e)[k].value = value
  <2>1. GetEnvConfig(chart.name, e) = stored
    BY <1>1, <1>4, <1>7 DEF GetEnvConfig
  <2>2. k \in DOMAIN chart.values /\ chart.values[k].config
    BY DEF configIncludeKeys
  <2>3. loadFeatureConfigItems(chart, e)[k].value =
           IF k \in DOMAIN stored THEN stored[k].value ELSE HelmDefault
    BY <2>1, <2>2 DEF loadFeatureConfigItems
  <2> QED
    BY <1>10, <2>3
<1>13. ASSUME k \in DOMAIN loadGlobalConfigItems(FeatureByName(f)),
              <<e, f, k>> \notin DOMAIN envConfig
       PROVE  loadGlobalConfigItems(FeatureByName(f))[k].value = value
  <2>1. GetGlobalConfig(FeatureByName(f).name) = global
    BY <1>1, <1>4 DEF GetGlobalConfig
  <2>2. loadGlobalConfigItems(FeatureByName(f))[k].value =
           IF k \in DOMAIN global THEN global[k].value ELSE HelmDefault
    BY <1>13, <2>1 DEF loadGlobalConfigItems
  <2> QED
    BY <1>8, <1>9, <1>13, <2>2
<1>14. (IF k \in DOMAIN merged THEN merged[k].value ELSE HelmDefault) = value
  BY <1>10
<1> HIDE DEF loadGlobalConfigItems
<1> QED
  BY <1>2, <1>5, <1>6, <1>11, <1>12, <1>13, <1>14

\* Every page that shows configuration shows what the reconcile loop renders:
\* the copies of the merge, of the match and of the lookup of a chart agree in
\* every committed state, for any charts, assignments, operators and calls of the
\* provisioner, as long as no assignment asks for an empty label.
THEOREM PagesAreFaithful == TargetsHaveValues => (Spec => []PagesShowWhatIsRendered)
<1> SUFFICES ASSUME TargetsHaveValues PROVE Spec => []PagesShowWhatIsRendered
  OBVIOUS
<1>1. ConfigInv /\ ProvisionedInv => PagesShowWhatIsRendered
  <2> SUFFICES ASSUME ConfigInv, ProvisionedInv PROVE PagesShowWhatIsRendered
    OBVIOUS
  <2>1. \A f \in FeatureNames : \A e \in featureEnvironments(f) :
          \A k \in configIncludeKeys(FeatureForEnvironment(e, f), environments[e].kind) :
            LET merged == mergeConfigRows(buildGlobalConfigMap(globalConfig, f),
                             buildEnvConfigMap(envConfig, e, f),
                             configIncludeKeys(FeatureForEnvironment(e, f), environments[e].kind))
                items == loadFeatureConfigItems(FeatureForEnvironment(e, f), e)
                shared == loadGlobalConfigItems(FeatureByName(f))
                value == IF k \in DOMAIN merged THEN merged[k].value ELSE HelmDefault
            IN  /\ compareKeyAcrossEnvs(f, k)[e] = value
                /\ items[k].value = value
                /\ (k \in DOMAIN shared /\ <<e, f, k>> \notin DOMAIN envConfig)
                      => shared[k].value = value
    BY ConfigIsShown, Zenon
  <2> QED
    BY <2>1, ValuesAreShown, Zenon DEF PagesShowWhatIsRendered
<1> QED
  BY <1>1, ConfigInvariant, ProvisionedInvariant, PTL
=============================================================================
