------------------------------ MODULE FlowProofs ------------------------------
(***************************************************************************)
(* Theorems about the flow tracker, FlowTable and FlowFeatures: a packet   *)
(* in progress keeps its flow in the table, the requests to the ML service *)
(* are spaced and blame the host that opened the connection, what a stream *)
(* holds came from one end, and the features that are sent are those of    *)
(* the packets that came.                                                  *)
(***************************************************************************)
EXTENDS FlowTable, FlowFeatures, BasicLemmas, FiniteSetTheorems, SequenceTheorems, TLAPS

LoopPCs == {"idle", "update", "mlread", "mlwrite"}
LoopRecords ==
    [pc : LoopPCs, src : Endpoints \cup {0}, dst : Endpoints \cup {0},
     kind : PacketKinds \cup {"none"}, seq : Nat, flow : Nat, since : Nat, at : Nat]
Requests == [loop : Loops, flow : Nat, at : Nat, host : Endpoints, lapsed : BOOLEAN]

\* A flow object, whatever its streams hold.
IsFlow(f) ==
    /\ f = [key |-> f.key, Original |-> f.Original, LastSeen |-> f.LastSeen,
            PacketCount |-> f.PacketCount, State |-> f.State, LastMLCheck |-> f.LastMLCheck,
            Client |-> f.Client, Server |-> f.Server]
    /\ f.key \in FlowKeys /\ f.Original \in Endpoints
    /\ f.State \in {"New", "Established", "Closing"}
    /\ f.LastSeen \in Nat /\ f.LastMLCheck \in Int

Shapes ==
    /\ time \in 0..MaxFlowTime
    /\ \E S : flows \in Seq(S)
    /\ \A i \in 1..Len(flows) : IsFlow(flows[i]) /\ flows[i].LastSeen <= time
    /\ table \in [Engines -> [FlowKeys -> 0..Len(flows)]]
    /\ handling \in [Loops -> LoopRecords]
    /\ handled \in 0..MaxFlowPackets /\ Len(flows) <= handled
    /\ asked \in Seq(Requests)
    /\ opened \subseteq Connections
    /\ lapsed \subseteq FlowKeys

\* A loop at work has the flow it was given, which it has seen no longer than
\* HandlerLag ago, and which is still the one in the table.
Held(l) ==
    LET p == handling[l] IN
    p.pc # "idle" =>
      /\ p.src \in Endpoints /\ p.dst \in Endpoints /\ NewKey(p.src, p.dst) \in FlowKeys
      /\ p.flow \in 1..Len(flows)
      /\ table[EngineOf(p)][NewKey(p.src, p.dst)] = p.flow
      /\ flows[p.flow].LastSeen >= p.since
      /\ p.since <= time /\ time - p.since <= HandlerLag

HeldInv == \A l \in Loops : Held(l)

TableInv == Shapes /\ HeldInv

-------------------------------------------------------------------------------
(* Keys, records and the steps of GetOrCreate *)

LEMMA Constants ==
    /\ Endpoints \subseteq Nat /\ Connections \subseteq Endpoints \X Endpoints
    /\ \A s, d \in Endpoints : EngineFor[s][d] \in Engines
    /\ MaxFlowPackets \in Nat /\ MaxFlowTime \in Nat /\ HandlerLag \in Nat /\ IdleTimeout \in Nat
    /\ MaxFlows \in Nat /\ MLInterval \in Nat /\ Length \in Nat /\ HandlerLag < IdleTimeout
BY FlowAssumption

\* Both directions of a connection have one key.
LEMMA KeyOfBoth ==
    ASSUME NEW s \in Endpoints, NEW d \in Endpoints
    PROVE  NewKey(s, d) = NewKey(d, s)
BY Constants DEF NewKey

LEMMA KeyOfPacket ==
    ASSUME opened \subseteq Connections, NEW s \in Endpoints, NEW d \in Endpoints, NEW kind, Sends(s, d, kind)
    PROVE  NewKey(s, d) \in FlowKeys
<1>1. PICK c \in Connections : c = <<s, d>> \/ c = <<d, s>>
  BY DEF Sends
<1>2. NewKey(c[1], c[2]) \in FlowKeys /\ NewKey(c[2], c[1]) \in FlowKeys
  BY DEF FlowKeys
<1> QED
  BY <1>1, <1>2

LEMMA NewFlowFields ==
    ASSUME NEW key \in FlowKeys, NEW src \in Endpoints, NEW t \in Nat
    PROVE  /\ IsFlow(NewFlow(key, src, t))
           /\ NewFlow(key, src, t).key = key /\ NewFlow(key, src, t).Original = src
           /\ NewFlow(key, src, t).LastSeen = t
BY Constants DEF NewFlow, IsFlow, NotChecked

LEMMA SeenFields ==
    ASSUME NEW f, IsFlow(f), NEW t \in Nat
    PROVE  LET g == [f EXCEPT !.LastSeen = t] IN
           /\ IsFlow(g) /\ g.key = f.key /\ g.Original = f.Original
           /\ g.LastSeen = t /\ g.LastMLCheck = f.LastMLCheck
<1> DEFINE g == [f EXCEPT !.LastSeen = t]
<1>1. /\ g = [key |-> g.key, Original |-> g.Original, LastSeen |-> g.LastSeen,
              PacketCount |-> g.PacketCount, State |-> g.State, LastMLCheck |-> g.LastMLCheck,
              Client |-> g.Client, Server |-> g.Server]
      /\ g.key = f.key /\ g.Original = f.Original /\ g.LastSeen = t /\ g.LastMLCheck = f.LastMLCheck
      /\ g.State = f.State
  BY DEF IsFlow
<1> HIDE DEF g
<1>2. IsFlow(g)
  BY <1>1 DEF IsFlow
<1> QED
  BY <1>1, <1>2 DEF g

LEMMA CheckFields ==
    ASSUME NEW f, IsFlow(f), NEW t \in Int
    PROVE  LET g == [f EXCEPT !.LastMLCheck = t] IN
           /\ IsFlow(g) /\ g.key = f.key /\ g.Original = f.Original
           /\ g.LastSeen = f.LastSeen /\ g.LastMLCheck = t
<1> DEFINE g == [f EXCEPT !.LastMLCheck = t]
<1>1. /\ g = [key |-> g.key, Original |-> g.Original, LastSeen |-> g.LastSeen,
              PacketCount |-> g.PacketCount, State |-> g.State, LastMLCheck |-> g.LastMLCheck,
              Client |-> g.Client, Server |-> g.Server]
      /\ g.key = f.key /\ g.Original = f.Original /\ g.LastSeen = f.LastSeen /\ g.LastMLCheck = t
      /\ g.State = f.State
  BY DEF IsFlow
<1> HIDE DEF g
<1>2. IsFlow(g)
  BY <1>1 DEF IsFlow
<1> QED
  BY <1>1, <1>2 DEF g

LEMMA UpdateFields ==
    ASSUME NEW f, IsFlow(f), NEW src, NEW kind, NEW seq, NEW t \in Nat
    PROVE  LET g == UpdateFlow(f, src, kind, seq, t) IN
           /\ IsFlow(g) /\ g.key = f.key /\ g.Original = f.Original
           /\ g.LastSeen = t /\ g.LastMLCheck = f.LastMLCheck
<1> DEFINE side == IF f.Original = src THEN "Client" ELSE "Server"
           payload == IF kind = "data" THEN <<(<<src, seq>>)>> ELSE <<>>
           s == AddSegment(Initialise(f, side, kind), seq, payload)
           state == NextState(f, kind)
           g == UpdateFlow(f, src, kind, seq, t)
<1>1. g = [f EXCEPT !.LastSeen = t, !.PacketCount = f.PacketCount + 1, !.State = state, ![side] = s]
  BY DEF UpdateFlow
<1>2. side \in {"Client", "Server"}
  OBVIOUS
<1>3. state \in {"New", "Established", "Closing"}
  BY DEF NextState, IsFlow
<1> HIDE DEF side, s, state, g
<1>4. /\ g = [key |-> g.key, Original |-> g.Original, LastSeen |-> g.LastSeen,
              PacketCount |-> g.PacketCount, State |-> g.State, LastMLCheck |-> g.LastMLCheck,
              Client |-> g.Client, Server |-> g.Server]
      /\ g.key = f.key /\ g.Original = f.Original /\ g.LastSeen = t /\ g.LastMLCheck = f.LastMLCheck
      /\ g.State = state
  BY <1>1, <1>2 DEF IsFlow
<1>5. IsFlow(g)
  BY <1>3, <1>4 DEF IsFlow
<1> QED
  BY <1>4, <1>5 DEF g

\* One flow object is changed.
FlowSet(i, g) ==
    /\ i \in 1..Len(flows) /\ IsFlow(g)
    /\ g.key = flows[i].key /\ g.Original = flows[i].Original
    /\ g.LastSeen >= flows[i].LastSeen /\ g.LastSeen <= time
    /\ flows' = [flows EXCEPT ![i] = g]

\* No flow but i changes, and that one only as a flow does.
FlowsKept(i) ==
    /\ \E S : flows' \in Seq(S)
    /\ Len(flows') = Len(flows) /\ Len(flows) \in Nat
    /\ \A j \in 1..Len(flows) : j # i => flows'[j] = flows[j]
    /\ \A j \in 1..Len(flows) :
          /\ IsFlow(flows'[j]) /\ flows'[j].LastSeen \in Nat
          /\ flows'[j].key = flows[j].key /\ flows'[j].Original = flows[j].Original
          /\ flows'[j].LastSeen >= flows[j].LastSeen /\ flows'[j].LastSeen <= time

LEMMA FlowSetKeeps ==
    ASSUME Shapes, NEW i, NEW g, FlowSet(i, g)
    PROVE  FlowsKept(i) /\ flows'[i] = g
<1>1. PICK S : flows \in Seq(S)
  BY DEF Shapes
<1>2. flows \in Seq(S \cup {g})
  BY <1>1
<1>3. flows' \in Seq(S \cup {g}) /\ Len(flows') = Len(flows) /\ flows'[i] = g
  BY <1>2 DEF FlowSet
<1>4. \A j \in 1..Len(flows) : j # i => flows'[j] = flows[j]
  BY <1>2 DEF FlowSet
<1>5. \A j \in 1..Len(flows) : IsFlow(flows[j]) /\ flows[j].LastSeen <= time /\ flows[j].LastSeen \in Nat
  BY DEF Shapes, IsFlow
<1>6. Len(flows) \in Nat /\ g.LastSeen \in Nat
  BY DEF Shapes, FlowSet, IsFlow
<1> QED
  BY <1>3, <1>4, <1>5, <1>6 DEF FlowSet, FlowsKept

\* What a packet gets from GetOrCreate: the flow in the table, nothing, or a new one.
Packet(src, dst, kind, seq) ==
    [IdleLoop EXCEPT !.pc = "update", !.src = src, !.dst = dst, !.kind = kind, !.seq = seq,
                     !.since = time]

Found(l, p, id) ==
    /\ id \in 1..Len(flows) /\ table[EngineOf(p)][NewKey(p.src, p.dst)] = id
    /\ FlowSet(id, [flows[id] EXCEPT !.LastSeen = time])
    /\ handling' = [handling EXCEPT ![l] = [p EXCEPT !.flow = id]]
    /\ table' = table /\ lapsed' = lapsed

Refused(l, p) ==
    /\ lapsed' = lapsed \cup {NewKey(p.src, p.dst)}
    /\ flows' = flows /\ table' = table /\ handling' = handling

Created(l, p) ==
    LET key == NewKey(p.src, p.dst)
        e == EngineOf(p)
        n == Len(flows) + 1
    IN
    /\ table[e][key] = NoFlow /\ Cardinality(InUse(e)) < MaxFlows
    /\ flows' = Append(flows, NewFlow(key, p.src, time)) /\ Len(flows') = n
    /\ table' = [table EXCEPT ![e][key] = n]
    /\ handling' = [handling EXCEPT ![l] = [p EXCEPT !.flow = n]]
    /\ lapsed' = lapsed

Arrives(l, p) ==
    /\ handling[l].pc = "idle" /\ p \in LoopRecords /\ p.pc = "update"
    /\ p.since = time
    /\ p.src \in Endpoints /\ p.dst \in Endpoints /\ NewKey(p.src, p.dst) \in FlowKeys
    /\ EngineOf(p) \in Engines /\ EngineOf(p) = EngineFor[p.src][p.dst]
    /\ <<p.src, p.dst>> \in Connections \/ <<p.dst, p.src>> \in opened
    /\ opened' = opened \cup ({<<p.src, p.dst>>} \cap Connections)
    /\ handled < MaxFlowPackets /\ handled' = handled + 1
    /\ time' = time /\ asked' = asked

LEMMA GetOrCreateCases ==
    ASSUME Shapes, NEW l \in Loops, NEW src \in Endpoints, NEW dst \in Endpoints,
           NEW kind \in PacketKinds, NEW seq \in SeqsOf(kind), GetOrCreate(l, src, dst, kind, seq)
    PROVE  \E p : Arrives(l, p) /\ (Refused(l, p) \/ Created(l, p) \/ \E id : Found(l, p, id))
<1> DEFINE p == Packet(src, dst, kind, seq)
           key == NewKey(src, dst)
           e == EngineFor[src][dst]
           id == table[e][key]
<1>1. key \in FlowKeys /\ e \in Engines
  BY KeyOfPacket, Constants DEF GetOrCreate, Shapes
<1>2. seq \in Nat /\ time \in Nat
  BY Constants DEF SeqsOf, Shapes
<1>3. /\ p \in LoopRecords /\ p.pc = "update" /\ p.since = time /\ p.src = src /\ p.dst = dst
      /\ EngineOf(p) = e
  BY <1>2 DEF Packet, IdleLoop, LoopRecords, LoopPCs, NoFlow, EngineOf
<1>4. Arrives(l, p)
  BY <1>1, <1>3 DEF GetOrCreate, Sends, Arrives
<1>5. \/ /\ id # NoFlow
         /\ flows' = [flows EXCEPT ![id].LastSeen = time]
         /\ handling' = [handling EXCEPT ![l] = [p EXCEPT !.flow = id]]
         /\ UNCHANGED <<table, lapsed>>
      \/ /\ lapsed' = lapsed \cup {key}
         /\ UNCHANGED <<flows, table, handling>>
      \/ /\ id = NoFlow /\ Cardinality(InUse(e)) < MaxFlows
         /\ flows' = Append(flows, NewFlow(key, src, time))
         /\ table' = [table EXCEPT ![e][key] = Len(flows')]
         /\ handling' = [handling EXCEPT ![l] = [p EXCEPT !.flow = Len(flows')]]
         /\ UNCHANGED lapsed
  BY <1>3 DEF GetOrCreate, Packet
<1>6. id \in 0..Len(flows) /\ Len(flows) \in Nat
  BY <1>1 DEF Shapes
<1> HIDE DEF p
<1>7. CASE /\ id # NoFlow
           /\ flows' = [flows EXCEPT ![id].LastSeen = time]
           /\ handling' = [handling EXCEPT ![l] = [p EXCEPT !.flow = id]]
           /\ UNCHANGED <<table, lapsed>>
  <2> DEFINE g == [flows[id] EXCEPT !.LastSeen = time]
  <2>1. id \in 1..Len(flows)
    BY <1>6, <1>7 DEF NoFlow
  <2>2. IsFlow(flows[id]) /\ flows[id].LastSeen <= time
    BY <2>1, SMTT(40) DEF Shapes
  <2>3. IsFlow(g) /\ g.key = flows[id].key /\ g.Original = flows[id].Original /\ g.LastSeen = time
    <3>1. PICK f : f = flows[id] /\ IsFlow(f)
      BY <2>2
    <3>2. IsFlow([f EXCEPT !.LastSeen = time])
      BY <1>2, <3>1, SeenFields
    <3> QED
      BY <1>2, <3>1, <3>2, SeenFields
  <2>4. flows' = [flows EXCEPT ![id] = g]
    BY <1>7, SMTT(40)
  <2> HIDE DEF g
  <2>5. FlowSet(id, g)
    BY <1>2, <2>1, <2>2, <2>3, <2>4 DEF FlowSet
  <2> QED
    BY <1>3, <1>4, <1>7, <2>1, <2>5 DEF Found, g
<1>8. CASE /\ lapsed' = lapsed \cup {key}
           /\ UNCHANGED <<flows, table, handling>>
  BY <1>3, <1>4, <1>8 DEF Refused
<1>9. CASE /\ id = NoFlow /\ Cardinality(InUse(e)) < MaxFlows
           /\ flows' = Append(flows, NewFlow(key, src, time))
           /\ table' = [table EXCEPT ![e][key] = Len(flows')]
           /\ handling' = [handling EXCEPT ![l] = [p EXCEPT !.flow = Len(flows')]]
           /\ UNCHANGED lapsed
  <2>1. Len(flows') = Len(flows) + 1
    <3>1. PICK S : flows \in Seq(S)
      BY DEF Shapes
    <3>2. flows \in Seq(S \cup {NewFlow(key, src, time)})
      BY <3>1
    <3> QED
      BY <1>9, <3>2
  <2> QED
    BY <1>3, <1>4, <1>9, <2>1 DEF Created
<1> QED
  BY <1>5, <1>7, <1>8, <1>9

\* The other steps, by what they change.
Clocked ==
    /\ time < MaxFlowTime /\ time' = time + 1
    /\ \A l \in Loops : handling[l].pc = "idle" \/ time - handling[l].since < HandlerLag
    /\ UNCHANGED <<flows, table, handling, handled, asked, opened, lapsed>>

Goes(l, pc) ==
    LET p == handling[l] IN
    /\ p.pc # "idle"
    /\ \/ pc = "idle" /\ handling' = [handling EXCEPT ![l] = IdleLoop]
       \/ pc = "mlread" /\ handling' = [handling EXCEPT ![l] = [p EXCEPT !.pc = "mlread"]]
       \/ /\ pc = "mlwrite" /\ p.pc = "mlread"
          /\ handling' = [handling EXCEPT ![l] = [p EXCEPT !.pc = "mlwrite", !.at = time]]

Sets(i, check) ==
    \E g : FlowSet(i, g) /\ g.LastMLCheck = check

Works(l) ==
    LET p == handling[l]
        f == flows[p.flow]
    IN
    /\ time' = time /\ table' = table /\ handled' = handled /\ opened' = opened /\ lapsed' = lapsed
    /\ \/ Goes(l, "mlread") /\ Sets(p.flow, f.LastMLCheck) /\ asked' = asked
       \/ Goes(l, "idle") /\ flows' = flows /\ asked' = asked
       \/ /\ Goes(l, "mlwrite") /\ flows' = flows /\ asked' = asked
          /\ f.Original \notin Local /\ time - f.LastMLCheck > MLInterval
       \/ /\ Goes(l, "idle") /\ p.pc = "mlwrite" /\ Sets(p.flow, p.at)
          /\ asked' = Append(asked, [loop |-> l, flow |-> p.flow, at |-> p.at, host |-> f.Original,
                                     lapsed |-> f.key \in lapsed])

LEMMA StepCases ==
    ASSUME TableInv, FTNext
    PROVE  \/ Clocked
           \/ \E l \in Loops : \/ Works(l)
                               \/ \E p : Arrives(l, p) /\ (Refused(l, p) \/ Created(l, p) \/ \E id : Found(l, p, id))
           \/ \E e \in Engines : Prune(e)
<1>1. ASSUME NEW l \in Loops, Update(l) \/ ReadThrottle(l) \/ WriteThrottle(l) PROVE Works(l)
  <2> PICK p : p = handling[l]
    OBVIOUS
  <2>1. /\ handling \in [Loops -> LoopRecords] /\ p \in LoopRecords /\ p.pc # "idle"
        /\ p.flow \in 1..Len(flows) /\ time \in Nat
    BY <1>1, Constants DEF Update, ReadThrottle, WriteThrottle, TableInv, Shapes, HeldInv, Held
  <2> PICK f : f = flows[p.flow]
    OBVIOUS
  <2>2. IsFlow(f) /\ f.LastSeen <= time /\ f.LastSeen \in Nat /\ f.LastMLCheck \in Int
    BY <2>1 DEF TableInv, Shapes, IsFlow
  <2>3. CASE Update(l)
    <3> DEFINE g == UpdateFlow(f, p.src, p.kind, p.seq, time)
    <3>1. IsFlow(g) /\ g.key = f.key /\ g.Original = f.Original /\ g.LastSeen = time /\ g.LastMLCheck = f.LastMLCheck
      BY <2>1, <2>2, UpdateFields
    <3>2. /\ flows' = [flows EXCEPT ![p.flow] = g]
          /\ handling' = [handling EXCEPT ![l] = [p EXCEPT !.pc = "mlread"]]
      BY <2>3 DEF Update
    <3> HIDE DEF g
    <3>3. FlowSet(p.flow, g)
      BY <2>1, <2>2, <3>1, <3>2 DEF FlowSet
    <3> QED
      BY <2>1, <2>3, <3>1, <3>2, <3>3 DEF Works, Goes, Sets, Update
  <2>4. CASE ReadThrottle(l)
    BY <2>1, <2>4 DEF Works, Goes, ReadThrottle
  <2>5. CASE WriteThrottle(l)
    <3> DEFINE g == [f EXCEPT !.LastMLCheck = p.at]
    <3>1. IsFlow(g) /\ g.key = f.key /\ g.Original = f.Original /\ g.LastSeen = f.LastSeen /\ g.LastMLCheck = p.at
      BY <2>1, <2>2, CheckFields DEF LoopRecords
    <3>2. flows' = [flows EXCEPT ![p.flow] = g]
      BY <2>5 DEF WriteThrottle
    <3> HIDE DEF g
    <3>3. FlowSet(p.flow, g)
      BY <2>1, <2>2, <3>1, <3>2 DEF FlowSet
    <3> QED
      BY <2>1, <2>5, <3>1, <3>3 DEF Works, Goes, Sets, WriteThrottle
  <2> QED
    BY <1>1, <2>3, <2>4, <2>5
<1>2. Tick => Clocked
  BY DEF Tick, Clocked
<1> QED
  BY <1>1, <1>2, GetOrCreateCases DEF FTNext, TableInv

-------------------------------------------------------------------------------
(* A packet in progress keeps its flow *)

LEMMA TableInit == FTInit => TableInv
<1> SUFFICES ASSUME FTInit PROVE TableInv
  OBVIOUS
<1>1. flows \in Seq({}) /\ Len(flows) = 0 /\ asked \in Seq(Requests)
  BY DEF FTInit
<1>2. IdleLoop \in LoopRecords /\ IdleLoop.pc = "idle"
  BY DEF IdleLoop, LoopRecords, LoopPCs, NoFlow
<1>3. table \in [Engines -> [FlowKeys -> 0..Len(flows)]]
  BY <1>1 DEF FTInit, NoFlow
<1> QED
  BY <1>1, <1>2, <1>3, Constants DEF FTInit, TableInv, Shapes, HeldInv, Held

LEMMA FlowGiven ==
    ASSUME NEW p \in LoopRecords, NEW n \in Nat
    PROVE  /\ [p EXCEPT !.flow = n] \in LoopRecords
           /\ [p EXCEPT !.flow = n].flow = n /\ [p EXCEPT !.flow = n].pc = p.pc
           /\ [p EXCEPT !.flow = n].src = p.src /\ [p EXCEPT !.flow = n].dst = p.dst
           /\ [p EXCEPT !.flow = n].since = p.since
BY DEF LoopRecords

\* Where a loop is set to work, or goes on, the others keep what they hold.
LEMMA HeldKept ==
    ASSUME Shapes, NEW k \in Loops, Held(k), handling'[k] = handling[k], time' = time,
           Len(flows') \in Nat, Len(flows') >= Len(flows),
           \A i \in 1..Len(flows) : flows'[i].LastSeen \in Nat /\ flows'[i].LastSeen >= flows[i].LastSeen,
           \A e \in Engines, key \in FlowKeys : table[e][key] # NoFlow => table'[e][key] = table[e][key]
    PROVE  Held(k)'
<1>1. handling[k] \in LoopRecords /\ \A i \in 1..Len(flows) : flows[i].LastSeen \in Nat
  BY DEF Shapes, IsFlow
<1>2. Len(flows) \in Nat
  BY DEF Shapes
<1> SUFFICES ASSUME handling[k].pc # "idle" PROVE Held(k)'
  BY DEF Held
<1> PICK p : p = handling[k]
  OBVIOUS
<1>3. /\ p.src \in Endpoints /\ p.dst \in Endpoints /\ NewKey(p.src, p.dst) \in FlowKeys
      /\ p.flow \in 1..Len(flows) /\ p.since \in Nat
      /\ table[EngineOf(p)][NewKey(p.src, p.dst)] = p.flow
      /\ flows[p.flow].LastSeen >= p.since
      /\ p.since <= time /\ time - p.since <= HandlerLag
  BY <1>1 DEF Held, LoopRecords
<1>4. EngineOf(p) \in Engines /\ p.flow # NoFlow
  <2>1. EngineOf(p) \in Engines
    BY <1>3, Constants DEF EngineOf
  <2>2. p.flow # NoFlow
    BY <1>2, <1>3 DEF NoFlow
  <2> QED
    BY <2>1, <2>2
<1>5. table'[EngineOf(p)][NewKey(p.src, p.dst)] = p.flow
  BY <1>3, <1>4
<1>6. p.flow \in 1..Len(flows') /\ flows'[p.flow].LastSeen >= p.since
  BY <1>1, <1>2, <1>3
<1> QED
  BY <1>3, <1>5, <1>6 DEF Held, EngineOf

LEMMA ArrivalStep ==
    ASSUME TableInv, NEW l \in Loops, NEW p, Arrives(l, p),
           Refused(l, p) \/ Created(l, p) \/ \E id : Found(l, p, id)
    PROVE  TableInv'
<1>1. /\ opened' \subseteq Connections /\ handled' \in 0..MaxFlowPackets /\ handled' = handled + 1
      /\ time \in 0..MaxFlowTime /\ time \in Nat /\ time' = time /\ asked' = asked
      /\ asked \in Seq(Requests) /\ Len(flows) <= handled /\ Len(flows) \in Nat
      /\ handling \in [Loops -> LoopRecords]
  BY Constants DEF TableInv, Shapes, Arrives
<1> PICK key : key = NewKey(p.src, p.dst)
  OBVIOUS
<1> PICK e : e = EngineOf(p)
  OBVIOUS
<1>2. /\ key \in FlowKeys /\ e \in Engines /\ p \in LoopRecords /\ p.pc = "update" /\ p.since = time
      /\ p.src \in Endpoints /\ p.dst \in Endpoints /\ e = EngineFor[p.src][p.dst]
  BY DEF Arrives
<1>3. \A i \in 1..Len(flows) : flows[i].LastSeen \in Nat
  BY DEF TableInv, Shapes, IsFlow
<1>4. CASE Refused(l, p)
  <2>1. Shapes'
    BY <1>1, <1>2, <1>4 DEF TableInv, Shapes, Refused
  <2>2. ASSUME NEW k \in Loops PROVE Held(k)'
    BY <1>1, <1>3, <1>4, HeldKept DEF TableInv, HeldInv, Refused
  <2> QED
    BY <2>1, <2>2 DEF TableInv, HeldInv
<1>5. ASSUME NEW n \in 1..Len(flows'), handling' = [handling EXCEPT ![l] = [p EXCEPT !.flow = n]],
             table'[e][key] = n, flows'[n].LastSeen = time
      PROVE  Held(l)'
  <2>1. handling'[l] = [p EXCEPT !.flow = n]
    BY <1>1, <1>5
  <2> PICK q : q = handling'[l]
    OBVIOUS
  <2>2. q.pc = "update" /\ q.src = p.src /\ q.dst = p.dst /\ q.flow = n /\ q.since = time
    BY <1>2, <2>1 DEF LoopRecords
  <2>3. EngineOf(q) = e /\ NewKey(q.src, q.dst) = key
    BY <1>2, <2>2 DEF EngineOf
  <2>4. time - time = 0 /\ 0 <= HandlerLag
    BY <1>1, Constants
  <2> QED
    BY <1>1, <1>2, <1>5, <2>2, <2>3, <2>4 DEF Held, EngineOf
<1>6. ASSUME NEW id, Found(l, p, id) PROVE TableInv'
  <2> PICK g : g = [flows[id] EXCEPT !.LastSeen = time] /\ FlowSet(id, g)
    BY <1>6 DEF Found
  <2>1. id \in 1..Len(flows) /\ IsFlow(flows[id])
    BY <1>6 DEF Found, TableInv, Shapes
  <2>2. g.LastSeen = time
    BY <1>1, <2>1, SeenFields
  <2>3. /\ \E S : flows' \in Seq(S)
        /\ Len(flows') = Len(flows) /\ flows'[id] = g
        /\ \A j \in 1..Len(flows) : /\ IsFlow(flows'[j]) /\ flows'[j].LastSeen >= flows[j].LastSeen
                                    /\ flows'[j].LastSeen <= time
    BY FlowSetKeeps DEF TableInv, FlowsKept
  <2>4. handling' = [handling EXCEPT ![l] = [p EXCEPT !.flow = id]] /\ table' = table /\ lapsed' = lapsed
    BY <1>6 DEF Found
  <2>5. handling' \in [Loops -> LoopRecords]
    <3>1. [p EXCEPT !.flow = id] \in LoopRecords
      BY <1>1, <1>2, <2>1, FlowGiven
    <3> QED
      BY <1>1, <2>4, <3>1
  <2>6. Shapes'
    BY <1>1, <2>3, <2>4, <2>5 DEF TableInv, Shapes
  <2>7. Held(l)'
    <3>1. table'[e][key] = id
      BY <1>6, <2>4 DEF Found
    <3> QED
      BY <1>5, <2>1, <2>2, <2>3, <2>4, <3>1
  <2>8. ASSUME NEW k \in Loops, k # l PROVE Held(k)'
    <3>1. handling'[k] = handling[k]
      BY <1>1, <2>4, <2>8
    <3>2. \A i \in 1..Len(flows) : flows'[i].LastSeen \in Nat
      BY <2>3 DEF IsFlow
    <3> QED
      BY <1>1, <2>3, <2>4, <3>1, <3>2, HeldKept DEF TableInv, HeldInv
  <2> QED
    BY <2>6, <2>7, <2>8 DEF TableInv, HeldInv
<1>7. CASE Created(l, p)
  <2> DEFINE n == Len(flows) + 1
             g == NewFlow(key, p.src, time)
  <2>1. IsFlow(g) /\ g.LastSeen = time
    BY <1>1, <1>2, NewFlowFields
  <2>2. /\ table[e][key] = NoFlow /\ flows' = Append(flows, g) /\ lapsed' = lapsed
        /\ table' = [table EXCEPT ![e][key] = n]
        /\ handling' = [handling EXCEPT ![l] = [p EXCEPT !.flow = n]]
    BY <1>7 DEF Created
  <2> HIDE DEF g
  <2>3. /\ \E S : flows' \in Seq(S)
        /\ Len(flows') = n /\ flows'[n] = g
        /\ \A j \in 1..Len(flows) : flows'[j] = flows[j]
    <3>1. PICK S : flows \in Seq(S)
      BY DEF TableInv, Shapes
    <3>2. flows \in Seq(S \cup {g})
      BY <3>1
    <3> QED
      BY <2>2, <3>2
  <2>4. handling' \in [Loops -> LoopRecords]
    <3>1. [p EXCEPT !.flow = n] \in LoopRecords
      BY <1>1, <1>2, FlowGiven
    <3> QED
      BY <1>1, <2>2, <3>1
  <2>5. /\ table \in [Engines -> [FlowKeys -> 0..Len(flows)]]
        /\ table' \in [Engines -> [FlowKeys -> 0..n]]
        /\ table'[e][key] = n
        /\ \A f \in Engines, k \in FlowKeys : f # e \/ k # key => table'[f][k] = table[f][k]
    <3>1. table \in [Engines -> [FlowKeys -> 0..Len(flows)]]
      BY DEF TableInv, Shapes
    <3>2. table \in [Engines -> [FlowKeys -> 0..n]] /\ n \in 0..n
      BY <1>1, <3>1
    <3> HIDE DEF n
    <3> QED
      BY <1>2, <2>2, <3>1, <3>2
  <2>6. \A j \in 1..n : IsFlow(flows'[j]) /\ flows'[j].LastSeen <= time
    BY <1>1, <2>1, <2>3 DEF TableInv, Shapes
  <2>7. Shapes'
    BY <1>1, <2>2, <2>3, <2>4, <2>5, <2>6 DEF TableInv, Shapes
  <2>8. Held(l)'
    <3>1. n \in 1..Len(flows') /\ flows'[n].LastSeen = time
      BY <1>1, <2>1, <2>3
    <3> HIDE DEF n
    <3> QED
      BY <1>5, <2>2, <2>5, <3>1
  <2>9. ASSUME NEW k \in Loops, k # l PROVE Held(k)'
    <3>1. handling'[k] = handling[k]
      BY <1>1, <2>2, <2>9
    <3>2. \A f \in Engines, i \in FlowKeys : table[f][i] # NoFlow => table'[f][i] = table[f][i]
      BY <2>2, <2>5
    <3>3. \A i \in 1..Len(flows) : flows'[i].LastSeen \in Nat /\ flows'[i].LastSeen >= flows[i].LastSeen
      BY <1>3, <2>3
    <3>4. Len(flows') \in Nat /\ Len(flows') >= Len(flows)
      BY <1>1, <2>3
    <3>5. Held(k) /\ Shapes /\ time' = time
      BY <1>1 DEF TableInv, HeldInv
    <3> QED
      BY <3>1, <3>2, <3>3, <3>4, <3>5, HeldKept
  <2> QED
    BY <2>7, <2>8, <2>9 DEF TableInv, HeldInv
<1> QED
  BY <1>4, <1>6, <1>7

\* A loop goes on with its packet, or is done with it.
GoesOn(l, pc) ==
    /\ pc \in {"mlread", "mlwrite"} /\ handling'[l].pc = pc
    /\ handling'[l].src = handling[l].src /\ handling'[l].dst = handling[l].dst
    /\ handling'[l].flow = handling[l].flow /\ handling'[l].since = handling[l].since
    /\ pc = "mlwrite" => handling'[l].at = time

LEMMA GoesFields ==
    ASSUME Shapes, NEW l \in Loops, NEW pc, Goes(l, pc)
    PROVE  /\ handling' \in [Loops -> LoopRecords]
           /\ \A k \in Loops : k # l => handling'[k] = handling[k]
           /\ handling'[l] = IdleLoop \/ GoesOn(l, pc)
<1>1. handling \in [Loops -> LoopRecords] /\ time \in Nat
  BY Constants DEF Shapes
<1> PICK p : p = handling[l]
  OBVIOUS
<1>2. p \in LoopRecords
  BY <1>1
<1>3. CASE pc = "idle" /\ handling' = [handling EXCEPT ![l] = IdleLoop]
  BY <1>1, <1>3 DEF IdleLoop, LoopRecords, LoopPCs, NoFlow
<1>4. ASSUME NEW q \in LoopRecords, handling' = [handling EXCEPT ![l] = q], q.pc = pc,
             q.src = p.src, q.dst = p.dst, q.flow = p.flow, q.since = p.since,
             pc \in {"mlread", "mlwrite"}, pc = "mlwrite" => q.at = time
      PROVE  /\ handling' \in [Loops -> LoopRecords]
             /\ \A k \in Loops : k # l => handling'[k] = handling[k]
             /\ GoesOn(l, pc)
  <2>1. handling'[l] = q
    BY <1>1, <1>4
  <2> QED
    BY <1>1, <1>4, <2>1 DEF GoesOn
<1>5. CASE pc = "mlread" /\ handling' = [handling EXCEPT ![l] = [p EXCEPT !.pc = "mlread"]]
  <2> PICK q : q = [p EXCEPT !.pc = "mlread"]
    OBVIOUS
  <2>1. /\ q \in LoopRecords /\ q.pc = "mlread" /\ q.src = p.src /\ q.dst = p.dst
        /\ q.flow = p.flow /\ q.since = p.since
    BY <1>2 DEF LoopRecords, LoopPCs
  <2>2. handling' = [handling EXCEPT ![l] = q]
    BY <1>5
  <2> QED
    BY <1>4, <1>5, <2>1, <2>2
<1>6. CASE pc = "mlwrite" /\ handling' = [handling EXCEPT ![l] = [p EXCEPT !.pc = "mlwrite", !.at = time]]
  <2> PICK q : q = [p EXCEPT !.pc = "mlwrite", !.at = time]
    OBVIOUS
  <2>1. /\ q \in LoopRecords /\ q.pc = "mlwrite" /\ q.src = p.src /\ q.dst = p.dst
        /\ q.flow = p.flow /\ q.since = p.since /\ q.at = time
    BY <1>1, <1>2 DEF LoopRecords, LoopPCs
  <2>2. handling' = [handling EXCEPT ![l] = q]
    BY <1>6
  <2> QED
    BY <1>4, <1>6, <2>1, <2>2
<1> QED
  BY <1>3, <1>5, <1>6 DEF Goes

LEMMA WorkFields ==
    ASSUME TableInv, NEW l \in Loops, Works(l)
    PROVE  /\ handling' \in [Loops -> LoopRecords]
           /\ \A k \in Loops : k # l => handling'[k] = handling[k]
           /\ handling[l].pc # "idle" /\ handling[l].flow \in 1..Len(flows)
           /\ handling'[l] = IdleLoop \/ \E pc : GoesOn(l, pc)
           /\ FlowsKept(handling[l].flow)
           /\ asked' \in Seq(Requests)
<1> PICK p : p = handling[l]
  OBVIOUS
<1>1. Shapes /\ Held(l)
  BY DEF TableInv, HeldInv
<1>2. p.pc # "idle" /\ p.flow \in 1..Len(flows) /\ p \in LoopRecords
  BY <1>1 DEF Works, Goes, Held, Shapes
<1>3. /\ handling' \in [Loops -> LoopRecords]
      /\ \A k \in Loops : k # l => handling'[k] = handling[k]
      /\ handling'[l] = IdleLoop \/ \E pc : GoesOn(l, pc)
  BY <1>1, GoesFields DEF Works
<1>4. FlowsKept(p.flow)
  <2>1. CASE flows' = flows
    <3>1. \A j \in 1..Len(flows) : IsFlow(flows[j]) /\ flows[j].LastSeen \in Nat /\ flows[j].LastSeen <= time
      BY <1>1 DEF Shapes, IsFlow
    <3>2. (\E S : flows \in Seq(S)) /\ Len(flows) \in Nat
      BY <1>1 DEF Shapes
    <3> QED
      BY <2>1, <3>1, <3>2 DEF FlowsKept
  <2>2. ASSUME NEW g, FlowSet(p.flow, g) PROVE FlowsKept(p.flow)
    BY <1>1, <2>2, FlowSetKeeps
  <2> QED
    BY <2>1, <2>2 DEF Works, Sets
<1>5. asked' \in Seq(Requests)
  <2>1. CASE asked' = asked
    BY <1>1, <2>1 DEF Shapes
  <2>2. CASE asked' = Append(asked, [loop |-> l, flow |-> p.flow, at |-> p.at, host |-> flows[p.flow].Original,
                                     lapsed |-> flows[p.flow].key \in lapsed])
    <3>1. IsFlow(flows[p.flow])
      BY <1>1, <1>2 DEF Shapes
    <3>2. [loop |-> l, flow |-> p.flow, at |-> p.at, host |-> flows[p.flow].Original,
           lapsed |-> flows[p.flow].key \in lapsed] \in Requests
      BY <1>2, <3>1 DEF Requests, LoopRecords, IsFlow
    <3> QED
      BY <1>1, <2>2, <3>2 DEF Shapes
  <2> QED
    BY <2>1, <2>2 DEF Works
<1> QED
  BY <1>2, <1>3, <1>4, <1>5

LEMMA WorkStep ==
    ASSUME TableInv, NEW l \in Loops, Works(l)
    PROVE  TableInv'
<1>1. Shapes /\ \A k \in Loops : Held(k)
  BY DEF TableInv, HeldInv
<1>2. time' = time /\ table' = table /\ handled' = handled /\ opened' = opened /\ lapsed' = lapsed
  BY DEF Works
<1>3. Shapes'
  BY <1>1, <1>2, WorkFields DEF Shapes, FlowsKept
<1>4. /\ Len(flows) \in Nat /\ Len(flows') = Len(flows)
      /\ \A i \in 1..Len(flows) : flows'[i].LastSeen \in Nat /\ flows'[i].LastSeen >= flows[i].LastSeen
  BY WorkFields DEF FlowsKept
<1>5. ASSUME NEW k \in Loops, k # l PROVE Held(k)'
  BY <1>1, <1>2, <1>4, <1>5, WorkFields, HeldKept
<1>6. Held(l)'
  <2> SUFFICES ASSUME handling'[l].pc # "idle" PROVE Held(l)'
    BY DEF Held
  <2> PICK p : p = handling[l]
    OBVIOUS
  <2> PICK q : q = handling'[l]
    OBVIOUS
  <2>1. q.src = p.src /\ q.dst = p.dst /\ q.flow = p.flow /\ q.since = p.since /\ p.pc # "idle"
    BY WorkFields DEF GoesOn, IdleLoop
  <2>2. EngineOf(q) = EngineOf(p)
    BY <2>1 DEF EngineOf
  <2>3. p \in LoopRecords /\ p.since \in Nat /\ \A i \in 1..Len(flows) : flows[i].LastSeen \in Nat
    BY <1>1 DEF Shapes, LoopRecords, IsFlow
  <2> QED
    BY <1>1, <1>2, <1>4, <2>1, <2>2, <2>3 DEF Held, EngineOf
<1> QED
  BY <1>3, <1>5, <1>6 DEF TableInv, HeldInv

LEMMA ClockStep ==
    ASSUME TableInv, Clocked
    PROVE  TableInv'
<1>1. /\ time' = time + 1 /\ time \in Nat /\ time' \in 0..MaxFlowTime
      /\ flows' = flows /\ table' = table /\ handling' = handling /\ handled' = handled
      /\ asked' = asked /\ opened' = opened /\ lapsed' = lapsed
  BY Constants DEF Clocked, TableInv, Shapes
<1>2. Shapes'
  <2>1. \A i \in 1..Len(flows) : IsFlow(flows'[i]) /\ flows'[i].LastSeen <= time'
    BY <1>1 DEF TableInv, Shapes, IsFlow
  <2> QED
    BY <1>1, <2>1 DEF TableInv, Shapes
<1>3. ASSUME NEW l \in Loops PROVE Held(l)'
  <2>1. handling[l].since \in Nat
    BY DEF TableInv, Shapes, LoopRecords
  <2>2. handling[l].pc # "idle" => time - handling[l].since < HandlerLag
    BY DEF Clocked
  <2>3. Held(l)
    BY DEF TableInv, HeldInv
  <2> QED
    BY <1>1, <2>1, <2>2, <2>3, Constants DEF Held, EngineOf
<1> QED
  BY <1>2, <1>3 DEF TableInv, HeldInv

\* No handler works on a flow that is old enough to be pruned.
LEMMA PruneStep ==
    ASSUME TableInv, NEW e \in Engines, Prune(e)
    PROVE  TableInv'
<1> DEFINE gone == {k \in InUse(e) : Expired(flows[table[e][k]])}
<1>1. /\ table' = [table EXCEPT ![e] = [k \in FlowKeys |-> IF k \in gone THEN NoFlow ELSE table[e][k]]]
      /\ lapsed' = lapsed \cup gone
      /\ time' = time /\ flows' = flows /\ handling' = handling /\ handled' = handled
      /\ asked' = asked /\ opened' = opened
  BY DEF Prune
<1>2. gone \subseteq FlowKeys
  BY DEF InUse
<1>3. /\ table \in [Engines -> [FlowKeys -> 0..Len(flows)]] /\ 0 \in 0..Len(flows)
  BY DEF TableInv, Shapes
<1>4. table' \in [Engines -> [FlowKeys -> 0..Len(flows)]]
  <2> HIDE DEF gone
  <2> QED
    BY <1>1, <1>3 DEF NoFlow
<1>5. Shapes'
  BY <1>1, <1>2, <1>4 DEF TableInv, Shapes
<1>6. ASSUME NEW l \in Loops, handling[l].pc # "idle" PROVE Held(l)'
  <2> PICK p : p = handling[l]
    OBVIOUS
  <2> PICK key : key = NewKey(p.src, p.dst)
    OBVIOUS
  <2> PICK f : f = EngineOf(p)
    OBVIOUS
  <2>1. /\ p \in LoopRecords /\ key \in FlowKeys /\ f = EngineFor[p.src][p.dst]
        /\ p.src \in Endpoints /\ p.dst \in Endpoints /\ p.flow \in 1..Len(flows)
        /\ table[f][key] = p.flow /\ flows[p.flow].LastSeen >= p.since
        /\ p.since <= time /\ time - p.since <= HandlerLag
    BY <1>6 DEF TableInv, Shapes, HeldInv, Held, EngineOf
  <2>2. f \in Engines
    BY <2>1, Constants
  <2>3. ~Expired(flows[p.flow])
    <3>1. p.since \in Nat /\ IsFlow(flows[p.flow]) /\ time \in Nat
      BY <2>1, Constants DEF LoopRecords, TableInv, Shapes
    <3>2. flows[p.flow].LastSeen \in Nat
      BY <3>1 DEF IsFlow
    <3>3. HandlerLag \in Nat /\ IdleTimeout \in Nat /\ HandlerLag < IdleTimeout
      BY Constants
    <3>4. flows[p.flow].LastSeen >= p.since /\ time - p.since <= HandlerLag
      BY <2>1
    <3>5. time - flows[p.flow].LastSeen <= IdleTimeout
      BY <3>1, <3>2, <3>3, <3>4
    <3> QED
      BY <3>1, <3>2, <3>3, <3>5 DEF Expired
  <2>4. table'[f][key] = p.flow
    <3>1. CASE f = e
      <4>1. key \notin gone
        BY <2>1, <2>3, <3>1
      <4> HIDE DEF gone
      <4> QED
        BY <1>1, <1>3, <2>1, <2>2, <3>1, <4>1
    <3>2. CASE f # e
      <4> HIDE DEF gone
      <4> QED
        BY <1>1, <1>3, <2>1, <2>2, <3>2
    <3> QED
      BY <3>1, <3>2
  <2> QED
    BY <1>1, <2>1, <2>4 DEF Held, EngineOf
<1>7. \A l \in Loops : Held(l)'
  BY <1>1, <1>6 DEF Held
<1> QED
  BY <1>5, <1>7 DEF TableInv, HeldInv

LEMMA TableStep ==
    ASSUME TableInv, [FTNext]_ftvars
    PROVE  TableInv'
<1>1. CASE UNCHANGED ftvars
  BY <1>1 DEF ftvars, TableInv, Shapes, HeldInv, Held, EngineOf
<1> QED
  BY <1>1, StepCases, ArrivalStep, WorkStep, ClockStep, PruneStep

LEMMA TableCorrect == FlowSpec => []TableInv
BY TableInit, TableStep, PTL DEF FlowSpec

\* A flow that a packet is being counted in stays in the table: a handler is done
\* with it before it can expire, and no table entry in use is written again.
THEOREM HandlersKeepFlows == FlowSpec => []HeldIsTracked
<1>1. TableInv => HeldIsTracked
  BY DEF TableInv, HeldInv, Held, HeldIsTracked
<1> QED
  BY <1>1, TableCorrect, PTL

-------------------------------------------------------------------------------
(* The limit on a table *)

LimitInv ==
    /\ \A e \in Engines : IsFiniteSet(InUse(e)) /\ Cardinality(InUse(e)) <= MaxFlows
    /\ \A l \in Loops : handling[l].pc = "idle" => handling[l].flow = NoFlow

\* The entries a step leaves in use, or adds.
LEMMA InUseChange ==
    ASSUME TableInv, FTNext, NEW e \in Engines
    PROVE  \/ InUse(e)' \subseteq InUse(e)
           \/ \E key : InUse(e)' \subseteq InUse(e) \cup {key} /\ Cardinality(InUse(e)) < MaxFlows
<1>1. CASE table' = table
  BY <1>1 DEF InUse
<1>2. ASSUME NEW f \in Engines, Prune(f) PROVE InUse(e)' \subseteq InUse(e)
  <2>1. /\ table \in [Engines -> [FlowKeys -> 0..Len(flows)]]
        /\ table' = [table EXCEPT ![f] = [k \in FlowKeys |->
                       IF k \in {x \in InUse(f) : Expired(flows[table[f][x]])} THEN NoFlow ELSE table[f][k]]]
    BY <1>2 DEF Prune, TableInv, Shapes
  <2>2. \A k \in FlowKeys : table'[e][k] \in {NoFlow, table[e][k]}
    BY <2>1
  <2> QED
    BY <2>2 DEF InUse
<1>3. ASSUME NEW l, NEW p, Arrives(l, p), Created(l, p)
      PROVE  \/ InUse(e)' \subseteq InUse(e)
             \/ \E key : InUse(e)' \subseteq InUse(e) \cup {key} /\ Cardinality(InUse(e)) < MaxFlows
  <2> PICK key : key = NewKey(p.src, p.dst)
    OBVIOUS
  <2> PICK f : f = EngineOf(p)
    BY SMTT(40)
  <2>1. /\ table \in [Engines -> [FlowKeys -> 0..Len(flows)]] /\ f \in Engines /\ key \in FlowKeys
        /\ Cardinality(InUse(f)) < MaxFlows
        /\ \E n : table' = [table EXCEPT ![f][key] = n]
    BY <1>3 DEF Arrives, Created, TableInv, Shapes
  <2>2. \A k \in FlowKeys : f # e \/ k # key => table'[e][k] = table[e][k]
    BY <2>1
  <2>3. CASE f = e
    <3>1. InUse(e)' \subseteq InUse(e) \cup {key}
      BY <2>2, <2>3 DEF InUse
    <3> QED
      BY <2>1, <2>3, <3>1
  <2>4. CASE f # e
    BY <2>2, <2>4 DEF InUse
  <2> QED
    BY <2>3, <2>4
<1> QED
  BY <1>1, <1>2, <1>3, StepCases DEF Clocked, Works, Refused, Found

LEMMA LimitStep ==
    ASSUME TableInv, LimitInv, [FTNext]_ftvars
    PROVE  LimitInv'
<1>1. CASE UNCHANGED ftvars
  BY <1>1 DEF ftvars, LimitInv, InUse
<1>2. ASSUME FTNext, NEW e \in Engines PROVE IsFiniteSet(InUse(e)') /\ Cardinality(InUse(e)') <= MaxFlows
  <2>1. IsFiniteSet(InUse(e)) /\ Cardinality(InUse(e)) <= MaxFlows /\ Cardinality(InUse(e)) \in Nat
    BY FS_CardinalityType DEF LimitInv
  <2>2. CASE InUse(e)' \subseteq InUse(e)
    <3>1. IsFiniteSet(InUse(e)') /\ Cardinality(InUse(e)') <= Cardinality(InUse(e))
      BY <2>1, <2>2, FS_Subset
    <3>2. Cardinality(InUse(e)') \in Nat
      BY <3>1, FS_CardinalityType
    <3> QED
      BY <2>1, <3>1, <3>2, Constants
  <2>3. ASSUME NEW key, InUse(e)' \subseteq InUse(e) \cup {key}, Cardinality(InUse(e)) < MaxFlows
        PROVE  IsFiniteSet(InUse(e)') /\ Cardinality(InUse(e)') <= MaxFlows
    <3>1. IsFiniteSet(InUse(e) \cup {key})
      BY <2>1, FS_AddElement
    <3>2. Cardinality(InUse(e) \cup {key})
            = IF key \in InUse(e) THEN Cardinality(InUse(e)) ELSE Cardinality(InUse(e)) + 1
      BY <2>1, FS_AddElement
    <3>3. IsFiniteSet(InUse(e)') /\ Cardinality(InUse(e)') <= Cardinality(InUse(e) \cup {key})
      BY <2>3, <3>1, FS_Subset
    <3>4. Cardinality(InUse(e)') \in Nat
      BY <3>3, FS_CardinalityType
    <3> QED
      BY <2>1, <2>3, <3>2, <3>3, <3>4, Constants
  <2> QED
    BY <1>2, <2>2, <2>3, InUseChange
<1>3. ASSUME FTNext, NEW l \in Loops, handling'[l].pc = "idle" PROVE handling'[l].flow = NoFlow
  <2>1. CASE handling'[l] = handling[l]
    BY <1>3, <2>1 DEF LimitInv
  <2>2. ASSUME NEW k \in Loops, Works(k) PROVE handling'[l].flow = NoFlow
    <3>1. CASE k = l
      BY <1>3, <2>2, <3>1, WorkFields DEF IdleLoop, GoesOn
    <3>2. CASE k # l
      BY <2>1, <2>2, <3>2, WorkFields
    <3> QED
      BY <3>1, <3>2
  <2>3. ASSUME NEW k \in Loops, NEW p, Arrives(k, p), NEW n, handling' = [handling EXCEPT ![k] = [p EXCEPT !.flow = n]]
        PROVE  handling'[l].flow = NoFlow
    <3>1. handling \in [Loops -> LoopRecords] /\ p \in LoopRecords /\ p.pc = "update"
      BY <2>3 DEF TableInv, Shapes, Arrives
    <3>2. [p EXCEPT !.flow = n].pc = "update"
      BY <3>1 DEF LoopRecords
    <3> QED
      BY <1>3, <2>1, <2>3, <3>1, <3>2
  <2> QED
    BY <1>3, <2>1, <2>2, <2>3, StepCases, ZenonT(40) DEF Clocked, Prune, Refused, Created, Found
<1> QED
  BY <1>1, <1>2, <1>3 DEF LimitInv, ftvars

\* Whatever packets come and whichever loops handle them, no table outgrows its
\* limit, and every reference to a flow is to one that exists.
THEOREM TablesBounded == FlowSpec => []FlowTypeOK
<1>1. FTInit => LimitInv
  <2>1. FTInit => \A e \in Engines : InUse(e) = {}
    BY DEF FTInit, InUse
  <2>2. FTInit => \A l \in Loops : handling[l].flow = NoFlow
    BY DEF FTInit, IdleLoop
  <2> QED
    BY <2>1, <2>2, FS_EmptySet, Constants DEF LimitInv
<1>2. TableInv /\ LimitInv => FlowTypeOK
  <2> SUFFICES ASSUME TableInv, LimitInv PROVE FlowTypeOK
    OBVIOUS
  <2>1. DOMAIN flows = 1..Len(flows) /\ Len(flows) \in Nat
    BY DEF TableInv, Shapes
  <2>2. \A i \in 1..Len(flows) : flows[i].State \in {"New", "Established", "Closing"}
                                 /\ flows[i].LastSeen \in 0..time
    <3>1. time \in Nat
      BY Constants DEF TableInv, Shapes
    <3>2. ASSUME NEW i \in 1..Len(flows)
          PROVE  flows[i].State \in {"New", "Established", "Closing"} /\ flows[i].LastSeen \in 0..time
      <4>1. PICK f : f = flows[i] /\ IsFlow(f) /\ f.LastSeen <= time
        BY DEF TableInv, Shapes
      <4> QED
        BY <3>1, <4>1 DEF IsFlow
    <3> QED
      BY <3>2
  <2>3. \A l \in Loops : handling[l].flow \in 0..Len(flows)
    BY <2>1 DEF TableInv, HeldInv, Held, LimitInv, NoFlow
  <2>4. Len(flows) <= MaxFlowPackets
    BY <2>1, Constants DEF TableInv, Shapes
  <2> QED
    BY <2>1, <2>2, <2>3, <2>4 DEF FlowTypeOK, TableInv, Shapes, LimitInv
<1> QED
  BY <1>1, <1>2, TableCorrect, LimitStep, PTL DEF FlowSpec

-------------------------------------------------------------------------------
(* The requests to the ML service *)

\* A packet that arrives disturbs no flow that is there.
LEMMA RequestFields ==
    ASSUME Shapes
    PROVE  /\ Len(asked) \in Nat /\ DOMAIN asked = 1..Len(asked) /\ time \in Nat
           /\ \A i \in 1..Len(asked) : asked[i].at \in Nat
           /\ \A l \in Loops : handling[l].at \in Nat /\ handling[l].since \in Nat
<1>1. asked \in Seq(Requests) /\ handling \in [Loops -> LoopRecords] /\ time \in Nat
  BY Constants DEF Shapes
<1>2. \A i \in 1..Len(asked) : asked[i] \in Requests
  BY <1>1
<1>3. \A l \in Loops : handling[l] \in LoopRecords
  BY <1>1
<1>4. \A i \in 1..Len(asked) : asked[i].at \in Nat
  BY <1>2 DEF Requests
<1>5. \A l \in Loops : handling[l].at \in Nat /\ handling[l].since \in Nat
  BY <1>3 DEF LoopRecords
<1>6. Len(asked) \in Nat /\ DOMAIN asked = 1..Len(asked)
  BY <1>1
<1> QED
  BY <1>1, <1>4, <1>5, <1>6

LEMMA ArrivalFlows ==
    ASSUME TableInv, NEW l \in Loops, NEW p, Arrives(l, p),
           Refused(l, p) \/ Created(l, p) \/ \E id : Found(l, p, id)
    PROVE  /\ Len(flows) \in Nat /\ Len(flows') \in Nat /\ Len(flows') >= Len(flows)
           /\ \A j \in 1..Len(flows) :
                 /\ flows'[j].key = flows[j].key /\ flows'[j].Original = flows[j].Original
                 /\ flows'[j].LastMLCheck = flows[j].LastMLCheck
           /\ \A k \in Loops : handling'[k] = handling[k] \/ handling'[k].pc = "update"
<1>1. /\ time \in Nat /\ Len(flows) \in Nat /\ handling \in [Loops -> LoopRecords]
      /\ p \in LoopRecords /\ p.pc = "update"
  BY Constants DEF TableInv, Shapes, Arrives
<1>2. ASSUME NEW n, handling' = [handling EXCEPT ![l] = [p EXCEPT !.flow = n]]
      PROVE  \A k \in Loops : handling'[k] = handling[k] \/ handling'[k].pc = "update"
  <2>1. [p EXCEPT !.flow = n].pc = "update"
    BY <1>1 DEF LoopRecords
  <2> QED
    BY <1>1, <1>2, <2>1
<1>3. CASE Refused(l, p)
  BY <1>1, <1>3 DEF Refused
<1>4. ASSUME NEW id, Found(l, p, id)
      PROVE  /\ Len(flows') = Len(flows)
             /\ \A j \in 1..Len(flows) :
                   /\ flows'[j].key = flows[j].key /\ flows'[j].Original = flows[j].Original
                   /\ flows'[j].LastMLCheck = flows[j].LastMLCheck
  <2> PICK g : g = [flows[id] EXCEPT !.LastSeen = time] /\ FlowSet(id, g)
    BY <1>4 DEF Found
  <2>1. id \in 1..Len(flows) /\ IsFlow(flows[id])
    BY <1>4 DEF Found, TableInv, Shapes
  <2>2. g.LastMLCheck = flows[id].LastMLCheck
    BY <1>1, <2>1, SeenFields
  <2>3. FlowsKept(id) /\ flows'[id] = g
    BY FlowSetKeeps DEF TableInv
  <2> QED
    BY <2>1, <2>2, <2>3 DEF FlowsKept
<1>5. CASE Created(l, p)
  <2>1. PICK S : flows \in Seq(S)
    BY DEF TableInv, Shapes
  <2> PICK g : flows' = Append(flows, g)
    BY <1>5 DEF Created
  <2>2. flows \in Seq(S \cup {g})
    BY <2>1
  <2>3. Len(flows') = Len(flows) + 1 /\ \A j \in 1..Len(flows) : flows'[j] = flows[j]
    BY <2>2
  <2>4. \A k \in Loops : handling'[k] = handling[k] \/ handling'[k].pc = "update"
    BY <1>2, <1>5 DEF Created
  <2> QED
    BY <1>1, <2>3, <2>4
<1>6. ASSUME NEW id, Found(l, p, id)
      PROVE  \A k \in Loops : handling'[k] = handling[k] \/ handling'[k].pc = "update"
  BY <1>2, <1>6 DEF Found
<1> QED
  BY <1>1, <1>3, <1>4, <1>5, <1>6

\* The throttle of a flow is not behind the last request about it by more than the
\* lag of a handler, and a loop that is about to ask has waited since its last.
AskedChecked ==
    \A i \in 1..Len(asked) :
        /\ asked[i].flow \in 1..Len(flows) /\ asked[i].at <= time
        /\ flows[asked[i].flow].LastMLCheck >= asked[i].at - HandlerLag
PendingSpaced ==
    \A l \in Loops : handling[l].pc = "mlwrite" =>
        /\ handling[l].since <= handling[l].at /\ handling[l].at <= time
        /\ \A i \in 1..Len(asked) :
              asked[i].loop = l /\ asked[i].flow = handling[l].flow
                => handling[l].at - asked[i].at > MLInterval - HandlerLag
SpacingInv == AskedChecked /\ PendingSpaced /\ MLSpacing

\* A step under which no request is made and no throttle is written.
LEMMA NothingAsked ==
    ASSUME TableInv, SpacingInv, asked' = asked, time' \in Nat, time' >= time,
           Len(flows) \in Nat, Len(flows') \in Nat, Len(flows') >= Len(flows),
           \A j \in 1..Len(flows) : flows'[j].LastMLCheck = flows[j].LastMLCheck,
           \A l \in Loops : handling'[l] = handling[l] \/ handling'[l].pc # "mlwrite"
    PROVE  SpacingInv'
<1>1. /\ time \in Nat /\ \A i \in 1..Len(asked) : asked[i].at \in Nat
      /\ \A l \in Loops : handling[l].at \in Nat
  BY RequestFields DEF TableInv
<1>3. AskedChecked'
  <2> SUFFICES ASSUME NEW i \in 1..Len(asked)
               PROVE  /\ asked[i].flow \in 1..Len(flows') /\ asked[i].at <= time'
                      /\ flows'[asked[i].flow].LastMLCheck >= asked[i].at - HandlerLag
    BY DEF AskedChecked
  <2>1. /\ asked[i].flow \in 1..Len(flows) /\ asked[i].at <= time
        /\ flows[asked[i].flow].LastMLCheck >= asked[i].at - HandlerLag
    BY DEF SpacingInv, AskedChecked
  <2> QED
    BY <1>1, <2>1
<1>4. PendingSpaced'
  <2> SUFFICES ASSUME NEW l \in Loops, handling'[l].pc = "mlwrite"
               PROVE  /\ handling[l].since <= handling[l].at /\ handling[l].at <= time'
                      /\ handling'[l] = handling[l] /\ handling[l].pc = "mlwrite"
    BY DEF SpacingInv, PendingSpaced
  <2>1. handling'[l] = handling[l] /\ handling[l].pc = "mlwrite"
    OBVIOUS
  <2>2. handling[l].since <= handling[l].at /\ handling[l].at <= time
    BY <2>1 DEF SpacingInv, PendingSpaced
  <2> QED
    BY <1>1, <2>1, <2>2
<1>5. MLSpacing'
  BY DEF SpacingInv, MLSpacing
<1> QED
  BY <1>3, <1>4, <1>5 DEF SpacingInv

LEMMA SpacingStep ==
    ASSUME TableInv, TableInv', SpacingInv, [FTNext]_ftvars
    PROVE  SpacingInv'
<1>1. /\ time \in Nat /\ time' \in Nat /\ Len(flows) \in Nat /\ HandlerLag \in Nat /\ MLInterval \in Nat
      /\ asked \in Seq(Requests) /\ handling \in [Loops -> LoopRecords]
      /\ \A i \in 1..Len(flows) : flows[i].LastMLCheck \in Int
  <2>1. \A i \in 1..Len(flows) : IsFlow(flows[i])
    BY DEF TableInv, Shapes
  <2>2. time \in Nat /\ time' \in Nat
    BY Constants DEF TableInv, Shapes
  <2>3. asked \in Seq(Requests) /\ handling \in [Loops -> LoopRecords] /\ Len(flows) \in Nat
    BY DEF TableInv, Shapes
  <2> QED
    BY <2>1, <2>2, <2>3, Constants DEF IsFlow
<1>2. CASE UNCHANGED ftvars \/ Clocked \/ \E e \in Engines : Prune(e)
  BY <1>1, <1>2, NothingAsked DEF ftvars, Clocked, Prune
<1>3. ASSUME NEW l \in Loops, NEW p, Arrives(l, p),
             Refused(l, p) \/ Created(l, p) \/ \E id : Found(l, p, id)
      PROVE  SpacingInv'
  <2>1. asked' = asked /\ time' = time
    BY <1>3 DEF Arrives
  <2>2. "update" # "mlwrite"
    OBVIOUS
  <2> QED
    BY <1>1, <1>3, <2>1, <2>2, ArrivalFlows, NothingAsked
<1>4. ASSUME NEW l \in Loops, Works(l) PROVE SpacingInv'
  <2> PICK p : p = handling[l]
    OBVIOUS
  <2>1. /\ p \in LoopRecords /\ p.flow \in 1..Len(flows) /\ FlowsKept(p.flow) /\ time' = time
        /\ \A k \in Loops : k # l => handling'[k] = handling[k]
        /\ p.since \in Nat /\ p.at \in Nat /\ p.since <= time /\ time - p.since <= HandlerLag
    BY <1>1, <1>4, WorkFields DEF Works, LoopRecords, TableInv, HeldInv, Held
  <2>2. /\ Len(flows') = Len(flows)
        /\ \A j \in 1..Len(flows) : j # p.flow => flows'[j] = flows[j]
    BY <2>1 DEF FlowsKept
  <2>3. \A i \in 1..Len(asked) : asked[i].at \in Nat
    BY RequestFields DEF TableInv
  <2>4. ASSUME asked' = asked, flows'[p.flow].LastMLCheck = flows[p.flow].LastMLCheck,
               handling'[l].pc # "mlwrite"
        PROVE  SpacingInv'
    <3>1. \A k \in Loops : handling'[k] = handling[k] \/ handling'[k].pc # "mlwrite"
      BY <2>1, <2>4
    <3>2. \A j \in 1..Len(flows) : flows'[j].LastMLCheck = flows[j].LastMLCheck
      BY <2>2, <2>4
    <3>3. time' >= time /\ Len(flows') \in Nat /\ Len(flows') >= Len(flows)
      BY <1>1, <2>1, <2>2
    <3> QED
      BY <1>1, <2>4, <3>1, <3>2, <3>3, NothingAsked
  <2>5. CASE Goes(l, "mlread") /\ Sets(p.flow, flows[p.flow].LastMLCheck) /\ asked' = asked
    <3>1. handling'[l].pc # "mlwrite"
      BY <2>5, GoesFields DEF TableInv, GoesOn, IdleLoop
    <3>2. flows'[p.flow].LastMLCheck = flows[p.flow].LastMLCheck
      BY <2>5, FlowSetKeeps DEF Sets, TableInv
    <3> QED
      BY <2>4, <2>5, <3>1, <3>2
  <2>6. CASE Goes(l, "idle") /\ flows' = flows /\ asked' = asked
    <3>1. handling'[l].pc # "mlwrite"
      BY <2>6, GoesFields DEF TableInv, GoesOn, IdleLoop
    <3> QED
      BY <2>4, <2>6, <3>1
  <2>7. CASE /\ Goes(l, "mlwrite") /\ flows' = flows /\ asked' = asked
             /\ time - flows[p.flow].LastMLCheck > MLInterval
    <3>1. handling'[l] = IdleLoop \/ GoesOn(l, "mlwrite")
      BY <2>7, GoesFields DEF TableInv
    <3>2. AskedChecked' /\ MLSpacing'
      BY <2>1, <2>7 DEF SpacingInv, AskedChecked, MLSpacing
    <3>3. ASSUME NEW k \in Loops, handling'[k].pc = "mlwrite"
          PROVE  /\ handling'[k].since <= handling'[k].at /\ handling'[k].at <= time'
                 /\ \A i \in 1..Len(asked) :
                       asked[i].loop = k /\ asked[i].flow = handling'[k].flow
                         => handling'[k].at - asked[i].at > MLInterval - HandlerLag
      <4>1. CASE k # l
        <5>1. handling'[k] = handling[k]
          BY <2>1, <4>1
        <5> QED
          BY <2>1, <3>3, <5>1 DEF SpacingInv, PendingSpaced
      <4>2. CASE k = l
        <5>1. handling'[l].at = time /\ handling'[l].since = p.since /\ handling'[l].flow = p.flow
          BY <3>1, <3>3, <4>2 DEF GoesOn, IdleLoop
        <5>2. ASSUME NEW i \in 1..Len(asked), asked[i].flow = p.flow
              PROVE  time - asked[i].at > MLInterval - HandlerLag
          <6>1. flows[p.flow].LastMLCheck >= asked[i].at - HandlerLag
            BY <5>2 DEF SpacingInv, AskedChecked
          <6>2. flows[p.flow].LastMLCheck \in Int
            BY <1>1, <2>1
          <6> PICK check : check = flows[p.flow].LastMLCheck
            OBVIOUS
          <6> PICK at : at = asked[i].at
            OBVIOUS
          <6>3. at \in Nat /\ time - check > MLInterval
            BY <2>3, <2>7
          <6>4. ASSUME NEW t \in Int, NEW c \in Int, NEW a \in Int, NEW h \in Int, NEW m \in Int,
                       t - c > m, c >= a - h
                PROVE  t - a > m - h
            BY <6>4
          <6>5. time \in Int /\ at \in Int /\ HandlerLag \in Int /\ MLInterval \in Int
            BY <1>1, <6>3
          <6> QED
            BY <6>1, <6>2, <6>3, <6>4, <6>5
        <5>3. handling'[k].since <= handling'[k].at /\ handling'[k].at <= time'
          BY <1>1, <2>1, <4>2, <5>1
        <5> QED
          BY <4>2, <5>1, <5>2, <5>3
      <4> QED
        BY <4>1, <4>2
    <3>4. PendingSpaced'
      BY <2>7, <3>3 DEF PendingSpaced
    <3> QED
      BY <3>2, <3>4 DEF SpacingInv
  <2>8. CASE /\ Goes(l, "idle") /\ p.pc = "mlwrite" /\ Sets(p.flow, p.at)
             /\ \E r : /\ asked' = Append(asked, r)
                       /\ r.loop = l /\ r.flow = p.flow /\ r.at = p.at
    <3> PICK r : asked' = Append(asked, r) /\ r.loop = l /\ r.flow = p.flow /\ r.at = p.at
      BY <2>8
    <3> PICK n : n = Len(asked) + 1
      OBVIOUS
    <3>1. n \in Nat /\ Len(asked') = n /\ asked'[n] = r /\ \A i \in 1..Len(asked) : asked'[i] = asked[i]
      BY <1>1
    <3>2. p.since <= p.at /\ p.at <= time /\ p.at >= time - HandlerLag
      BY <1>1, <2>1, <2>8 DEF SpacingInv, PendingSpaced
    <3>3. flows'[p.flow].LastMLCheck = p.at
      BY <2>8, FlowSetKeeps DEF Sets, TableInv
    <3>4. handling'[l].pc # "mlwrite"
      BY <2>8, GoesFields DEF TableInv, GoesOn, IdleLoop
    <3>5. \A i \in 1..n : i = n \/ i \in 1..Len(asked)
      BY <1>1
    <3>6. AskedChecked'
      <4>1. ASSUME NEW i \in 1..Len(asked)
            PROVE  /\ asked[i].flow \in 1..Len(flows) /\ asked[i].at <= time
                   /\ flows'[asked[i].flow].LastMLCheck >= asked[i].at - HandlerLag
        <5>1. /\ asked[i].flow \in 1..Len(flows) /\ asked[i].at <= time
              /\ flows[asked[i].flow].LastMLCheck >= asked[i].at - HandlerLag
          BY DEF SpacingInv, AskedChecked
        <5>2. CASE asked[i].flow = p.flow
          BY <1>1, <2>1, <2>3, <3>2, <3>3, <5>1, <5>2
        <5>3. CASE asked[i].flow # p.flow
          BY <2>2, <5>1, <5>3
        <5> QED
          BY <5>2, <5>3
      <4>2. p.at >= p.at - HandlerLag
        BY <1>1, <2>1
      <4> QED
        BY <2>1, <2>2, <3>1, <3>2, <3>3, <3>5, <4>1, <4>2 DEF AskedChecked
    <3>7. PendingSpaced'
      <4>1. ASSUME NEW k \in Loops, handling'[k].pc = "mlwrite" PROVE k # l /\ handling'[k] = handling[k]
        BY <2>1, <3>4, <4>1
      <4> QED
        BY <2>1, <3>1, <3>5, <4>1 DEF SpacingInv, PendingSpaced
    <3>8. MLSpacing'
      <4>1. ASSUME NEW i \in 1..n, NEW j \in 1..n, i < j,
                   asked'[i].loop = asked'[j].loop, asked'[i].flow = asked'[j].flow
            PROVE  asked'[j].at - asked'[i].at > MLInterval - HandlerLag
        <5>1. i \in 1..Len(asked)
          BY <1>1, <4>1
        <5>2. CASE j = n
          <6>1. asked'[i] = asked[i] /\ asked'[j] = r
            BY <3>1, <5>1, <5>2
          <6>2. asked[i].loop = l /\ asked[i].flow = p.flow
            BY <4>1, <6>1
          <6>3. p.at - asked[i].at > MLInterval - HandlerLag
            BY <2>8, <5>1, <6>2 DEF SpacingInv, PendingSpaced
          <6> QED
            BY <6>1, <6>3
        <5>3. CASE j \in 1..Len(asked)
          <6>1. asked'[i] = asked[i] /\ asked'[j] = asked[j]
            BY <3>1, <5>1, <5>3
          <6>2. i \in DOMAIN asked /\ j \in DOMAIN asked
            BY <5>1, <5>3, RequestFields DEF TableInv
          <6>3. asked[j].at - asked[i].at > MLInterval - HandlerLag
            BY <4>1, <6>1, <6>2 DEF SpacingInv, MLSpacing
          <6> QED
            BY <6>1, <6>3
        <5> QED
          BY <3>5, <5>2, <5>3
      <4>2. DOMAIN asked' = 1..n
        BY <1>1, <3>1
      <4> QED
        BY <4>1, <4>2 DEF MLSpacing
    <3> QED
      BY <3>6, <3>7, <3>8 DEF SpacingInv
  <2> QED
    BY <1>4, <2>5, <2>6, <2>7, <2>8 DEF Works
<1> QED
  BY <1>2, <1>3, <1>4, StepCases

LEMMA SpacingInit == FTInit => SpacingInv
<1> SUFFICES ASSUME FTInit PROVE SpacingInv
  OBVIOUS
<1>1. Len(asked) = 0 /\ asked = <<>>
  BY DEF FTInit
<1>2. \A l \in Loops : handling[l].pc = "idle"
  BY DEF FTInit, IdleLoop
<1> QED
  BY <1>1, <1>2 DEF SpacingInv, AskedChecked, PendingSpaced, MLSpacing

\* One loop does not ask the ML service about a flow twice within the interval, less
\* the lag of another loop that writes an older time over a newer one.
THEOREM RequestsSpaced == FlowSpec => []MLSpacing
<1>1. SpacingInv => MLSpacing
  BY DEF SpacingInv
<1> QED
  BY <1>1, TableCorrect, SpacingInit, SpacingStep, PTL DEF FlowSpec

-------------------------------------------------------------------------------
(* Whom a request blames *)

\* The capture gives both directions of a connection to one engine.
BothDirections == \A s, d \in Endpoints : EngineFor[s][d] = EngineFor[d][s]

\* A host outside that a local one opens connections to opens none itself.
ServersOnlyAnswer ==
    \A c, d \in Connections : c[1] \in Local /\ d[1] = c[2] => d[1] \in Local

Opens(host, key) == \E c \in Connections : c[1] = host /\ NewKey(c[1], c[2]) = key

\* As long as a connection has been followed from its first packet, its flow was
\* begun by its opener and is in the table of its engine.
FlowsOfOpeners == \A i \in 1..Len(flows) : flows[i].key \in lapsed \/ Opens(flows[i].Original, flows[i].key)
OpenedAreTracked ==
    \A c \in opened : LET key == NewKey(c[1], c[2]) IN
        key \in lapsed \/ table[EngineFor[c[1]][c[2]]][key] # NoFlow
PendingBlame ==
    \A l \in Loops : handling[l].pc = "mlwrite" => flows[handling[l].flow].Original \notin Local
AskedBlame ==
    \A i \in 1..Len(asked) :
        /\ asked[i].host \notin Local
        /\ asked[i].lapsed \/ \E c \in Connections : c[1] = asked[i].host
BlameInv == FlowsOfOpeners /\ OpenedAreTracked /\ PendingBlame /\ AskedBlame

LEMMA ArrivalBlame ==
    ASSUME BothDirections, TableInv, TableInv', BlameInv, NEW l \in Loops, NEW p, Arrives(l, p),
           Refused(l, p) \/ Created(l, p) \/ \E id : Found(l, p, id)
    PROVE  BlameInv'
<1> PICK key : key = NewKey(p.src, p.dst)
  OBVIOUS
<1> PICK e : e = EngineOf(p)
  OBVIOUS
<1>1. /\ key \in FlowKeys /\ e \in Engines /\ e = EngineFor[p.src][p.dst]
      /\ p.src \in Endpoints /\ p.dst \in Endpoints /\ time \in Nat
      /\ opened' = opened \cup ({<<p.src, p.dst>>} \cap Connections)
      /\ <<p.src, p.dst>> \in Connections \/ <<p.dst, p.src>> \in opened
      /\ asked' = asked /\ lapsed \subseteq lapsed'
      /\ opened \subseteq Connections
  <2>1. /\ opened \subseteq Connections /\ time \in Nat
    BY Constants DEF TableInv, Shapes
  <2>2. /\ p.src \in Endpoints /\ p.dst \in Endpoints /\ key \in FlowKeys /\ e \in Engines
    BY DEF Arrives
  <2>3. /\ opened' = opened \cup ({<<p.src, p.dst>>} \cap Connections) /\ asked' = asked
        /\ <<p.src, p.dst>> \in Connections \/ <<p.dst, p.src>> \in opened
    BY DEF Arrives
  <2>4. e = EngineFor[p.src][p.dst]
    BY DEF EngineOf
  <2>5. lapsed \subseteq lapsed'
    <3>1. ASSUME Refused(l, p) PROVE lapsed \subseteq lapsed'
      BY <3>1 DEF Refused
    <3>2. ASSUME Created(l, p) PROVE lapsed \subseteq lapsed'
      BY <3>2 DEF Created
    <3>3. ASSUME NEW id, Found(l, p, id) PROVE lapsed \subseteq lapsed'
      BY <3>3 DEF Found
    <3> QED
      BY <3>1, <3>2, <3>3
  <2> QED
    BY <2>1, <2>2, <2>3, <2>4, <2>5
<1>2. EngineFor[p.dst][p.src] = e /\ NewKey(p.dst, p.src) = key
  BY <1>1, KeyOfBoth DEF BothDirections
<1>3. /\ Len(flows) \in Nat /\ Len(flows') >= Len(flows) /\ Len(flows') \in Nat
      /\ \A j \in 1..Len(flows) :
            flows'[j].key = flows[j].key /\ flows'[j].Original = flows[j].Original
      /\ \A k \in Loops : handling'[k] = handling[k] \/ handling'[k].pc = "update"
  BY ArrivalFlows
<1>4. /\ table \in [Engines -> [FlowKeys -> 0..Len(flows)]]
      /\ \A f \in Engines, k \in FlowKeys : table[f][k] # NoFlow => table'[f][k] # NoFlow
      /\ key \in lapsed' \/ table'[e][key] # NoFlow
  <2>1. table \in [Engines -> [FlowKeys -> 0..Len(flows)]]
    BY DEF TableInv, Shapes
  <2>2. CASE Refused(l, p)
    BY <2>1, <2>2 DEF Refused
  <2>3. ASSUME NEW id, Found(l, p, id) PROVE <1>4!2 /\ <1>4!3
    <3>1. table' = table /\ table[e][key] = id /\ id \in 1..Len(flows)
      BY <2>3 DEF Found
    <3>2. id # NoFlow
      BY <1>3, <3>1 DEF NoFlow
    <3> QED
      BY <3>1, <3>2
  <2>4. CASE Created(l, p)
    <3> PICK n : n = Len(flows) + 1
      OBVIOUS
    <3>1. table' = [table EXCEPT ![e][key] = n] /\ n # NoFlow
      BY <1>3, <2>4 DEF Created, NoFlow
    <3> QED
      BY <1>1, <2>1, <3>1
  <2> QED
    BY <2>1, <2>2, <2>3, <2>4
<1>5. FlowsOfOpeners'
  <2>1. ASSUME NEW j \in 1..Len(flows) PROVE flows'[j].key \in lapsed' \/ Opens(flows'[j].Original, flows'[j].key)
    BY <1>1, <1>3 DEF BlameInv, FlowsOfOpeners
  <2>2. CASE Len(flows') = Len(flows)
    BY <2>1, <2>2 DEF FlowsOfOpeners
  <2>3. CASE Created(l, p)
    <3> DEFINE g == NewFlow(key, p.src, time)
    <3>1. g.key = key /\ g.Original = p.src
      BY <1>1, NewFlowFields
    <3>2. flows' = Append(flows, g) /\ table[e][key] = NoFlow
      BY <2>3 DEF Created
    <3> HIDE DEF g
    <3>3. PICK S : flows \in Seq(S)
      BY DEF TableInv, Shapes
    <3>4. flows \in Seq(S \cup {g})
      BY <3>3
    <3>5. Len(flows') = Len(flows) + 1 /\ flows'[Len(flows) + 1] = g
      BY <3>2, <3>4
    <3>6. key \in lapsed \/ Opens(p.src, key)
      <4>1. CASE <<p.src, p.dst>> \in Connections
        <5>1. PICK c \in Connections : c[1] = p.src /\ c[2] = p.dst
          BY <4>1
        <5> QED
          BY <5>1 DEF Opens
      <4>2. CASE <<p.dst, p.src>> \in opened
        <5>1. PICK c \in opened : c[1] = p.dst /\ c[2] = p.src
          BY <4>2
        <5>2. key \in lapsed \/ table[e][key] # NoFlow
          BY <1>2, <5>1 DEF BlameInv, OpenedAreTracked
        <5> QED
          BY <3>2, <5>2
      <4> QED
        BY <1>1, <4>1, <4>2
    <3> QED
      BY <1>1, <1>3, <2>1, <3>1, <3>5, <3>6 DEF FlowsOfOpeners
  <2>4. Len(flows') = Len(flows) \/ Created(l, p)
    <3>1. ASSUME NEW id, Found(l, p, id) PROVE Len(flows') = Len(flows)
      BY <3>1, FlowSetKeeps DEF Found, FlowsKept, TableInv
    <3> QED
      BY <3>1 DEF Refused
  <2> QED
    BY <2>2, <2>3, <2>4
<1>6. OpenedAreTracked'
  <2> SUFFICES ASSUME NEW c \in opened'
               PROVE  NewKey(c[1], c[2]) \in lapsed' \/ table'[EngineFor[c[1]][c[2]]][NewKey(c[1], c[2])] # NoFlow
    BY DEF OpenedAreTracked
  <2>1. CASE c \in opened
    <3>1. c[1] \in Endpoints /\ c[2] \in Endpoints /\ NewKey(c[1], c[2]) \in FlowKeys
      BY <1>1, <2>1, Constants DEF FlowKeys
    <3>2. EngineFor[c[1]][c[2]] \in Engines
      BY <3>1, Constants
    <3> QED
      BY <1>1, <1>4, <2>1, <3>1, <3>2 DEF BlameInv, OpenedAreTracked
  <2>2. CASE c = <<p.src, p.dst>>
    BY <1>1, <1>4, <2>2
  <2> QED
    BY <1>1, <2>1, <2>2
<1>7. PendingBlame'
  <2> SUFFICES ASSUME NEW k \in Loops, handling'[k].pc = "mlwrite"
               PROVE  flows'[handling'[k].flow].Original \notin Local
    BY DEF PendingBlame
  <2>1. handling'[k] = handling[k] /\ handling[k].pc = "mlwrite"
    BY <1>3
  <2>2. handling[k].flow \in 1..Len(flows)
    BY <2>1 DEF TableInv, HeldInv, Held
  <2> QED
    BY <1>3, <2>1, <2>2 DEF BlameInv, PendingBlame
<1>8. AskedBlame'
  BY <1>1 DEF BlameInv, AskedBlame
<1> QED
  BY <1>5, <1>6, <1>7, <1>8 DEF BlameInv

LEMMA WorkBlame ==
    ASSUME TableInv, TableInv', BlameInv, NEW l \in Loops, Works(l)
    PROVE  BlameInv'
<1> PICK p : p = handling[l]
  OBVIOUS
<1>1. /\ p.flow \in 1..Len(flows) /\ FlowsKept(p.flow)
      /\ \A k \in Loops : k # l => handling'[k] = handling[k]
      /\ table' = table /\ opened' = opened /\ lapsed' = lapsed
  BY WorkFields DEF Works
<1>2. /\ Len(flows') = Len(flows)
      /\ \A j \in 1..Len(flows) : flows'[j].key = flows[j].key /\ flows'[j].Original = flows[j].Original
  BY <1>1 DEF FlowsKept
<1>3. FlowsOfOpeners' /\ OpenedAreTracked'
  BY <1>1, <1>2 DEF BlameInv, FlowsOfOpeners, OpenedAreTracked
<1>4. PendingBlame'
  <2> SUFFICES ASSUME NEW k \in Loops, handling'[k].pc = "mlwrite"
               PROVE  flows'[handling'[k].flow].Original \notin Local
    BY DEF PendingBlame
  <2>1. CASE k # l
    <3>1. handling'[k] = handling[k] /\ handling[k].pc = "mlwrite"
      BY <1>1, <2>1
    <3>2. handling[k].flow \in 1..Len(flows)
      BY <3>1 DEF TableInv, HeldInv, Held
    <3> QED
      BY <1>2, <3>1, <3>2 DEF BlameInv, PendingBlame
  <2>2. CASE k = l
    <3>1. flows[p.flow].Original \notin Local
      <4>1. ~Goes(l, "mlread") /\ ~Goes(l, "idle")
        BY <2>2, GoesFields DEF TableInv, GoesOn, IdleLoop
      <4> QED
        BY <4>1 DEF Works
    <3>2. handling'[l].flow = p.flow
      BY <2>2, WorkFields DEF GoesOn, IdleLoop
    <3> QED
      BY <1>1, <1>2, <2>2, <3>1, <3>2
  <2> QED
    BY <2>1, <2>2
<1>5. AskedBlame'
  <2>1. CASE asked' = asked
    BY <2>1 DEF BlameInv, AskedBlame
  <2>2. CASE /\ p.pc = "mlwrite"
             /\ \E r : /\ asked' = Append(asked, r) /\ r.host = flows[p.flow].Original
                       /\ r.lapsed = (flows[p.flow].key \in lapsed)
    <3> PICK r : /\ asked' = Append(asked, r) /\ r.host = flows[p.flow].Original
                 /\ r.lapsed = (flows[p.flow].key \in lapsed)
      BY <2>2
    <3>1. r.host \notin Local
      BY <2>2 DEF BlameInv, PendingBlame
    <3>2. r.lapsed \/ \E c \in Connections : c[1] = r.host
      BY <1>1 DEF BlameInv, FlowsOfOpeners, Opens
    <3>3. asked \in Seq(Requests)
      BY DEF TableInv, Shapes
    <3>4. /\ Len(asked) \in Nat /\ Len(asked') = Len(asked) + 1 /\ asked'[Len(asked) + 1] = r
          /\ \A i \in 1..Len(asked) : asked'[i] = asked[i]
      BY <3>3
    <3>5. \A i \in 1..Len(asked') : i \in 1..Len(asked) \/ i = Len(asked) + 1
      BY <3>4
    <3> QED
      BY <3>1, <3>2, <3>4, <3>5 DEF BlameInv, AskedBlame
  <2> QED
    BY <2>1, <2>2 DEF Works
<1> QED
  BY <1>3, <1>4, <1>5 DEF BlameInv

LEMMA PruneBlame ==
    ASSUME TableInv, BlameInv, NEW e \in Engines, Prune(e)
    PROVE  BlameInv'
<1> PICK gone : gone = {k \in InUse(e) : Expired(flows[table[e][k]])}
  OBVIOUS
<1>1. /\ table' = [table EXCEPT ![e] = [k \in FlowKeys |-> IF k \in gone THEN NoFlow ELSE table[e][k]]]
      /\ lapsed' = lapsed \cup gone
      /\ flows' = flows /\ handling' = handling /\ asked' = asked /\ opened' = opened
      /\ table \in [Engines -> [FlowKeys -> 0..Len(flows)]]
      /\ opened \subseteq Connections
  BY DEF Prune, TableInv, Shapes
<1>2. \A f \in Engines, k \in FlowKeys : k \in gone \/ table'[f][k] = table[f][k]
  BY <1>1
<1>3. \A c \in opened : NewKey(c[1], c[2]) \in FlowKeys /\ EngineFor[c[1]][c[2]] \in Engines
  BY <1>1, Constants DEF FlowKeys
<1> QED
  BY <1>1, <1>2, <1>3 DEF BlameInv, FlowsOfOpeners, OpenedAreTracked, PendingBlame, AskedBlame

LEMMA BlameStep ==
    ASSUME BothDirections, TableInv, TableInv', BlameInv, [FTNext]_ftvars
    PROVE  BlameInv'
<1>1. CASE UNCHANGED ftvars \/ Clocked
  BY <1>1 DEF ftvars, Clocked, BlameInv, FlowsOfOpeners, OpenedAreTracked, PendingBlame, AskedBlame
<1> QED
  BY <1>1, ArrivalBlame, WorkBlame, PruneBlame, StepCases

\* The ML service is asked to blame the host that opened the connection, never the
\* server it went to, about every connection followed from its first packet on, for
\* any two-way assignment of connections to engines and any hosts that only answer.
THEOREM BlameSound ==
    ASSUME BothDirections, ServersOnlyAnswer
    PROVE  FlowSpec => []BlameFollowsOpener
<1>1. FTInit => BlameInv
  <2> SUFFICES ASSUME FTInit PROVE BlameInv
    OBVIOUS
  <2>1. Len(flows) = 0 /\ Len(asked) = 0 /\ opened = {} /\ \A l \in Loops : handling[l].pc = "idle"
    BY DEF FTInit, IdleLoop
  <2> QED
    BY <2>1 DEF BlameInv, FlowsOfOpeners, OpenedAreTracked, PendingBlame, AskedBlame
<1>2. TableInv /\ TableInv' /\ BlameInv /\ [FTNext]_ftvars => BlameInv'
  BY BlameStep
<1>3. TableInv /\ BlameInv => BlameFollowsOpener
  <2> SUFFICES ASSUME TableInv, BlameInv, NEW b \in Range(asked), Visited(b.host) PROVE b.lapsed
    BY DEF BlameFollowsOpener
  <2>1. PICK i \in 1..Len(asked) : b = asked[i]
    BY RequestFields DEF TableInv, Range
  <2>2. b.host \notin Local /\ (b.lapsed \/ \E d \in Connections : d[1] = b.host)
    BY <2>1 DEF BlameInv, AskedBlame
  <2> QED
    BY <2>2 DEF ServersOnlyAnswer, Visited
<1> QED
  BY <1>1, <1>2, <1>3, TableCorrect, PTL DEF FlowSpec

-------------------------------------------------------------------------------
(* What the streams hold *)

\* The segments a side sends have one byte each, whose number is the segment's.
ByteOf(s, n) == <<(<<s, n>>)>>
ChunksOf(s) == {[seq |-> n, data |-> ByteOf(s, n)] : n \in 1..Length}
StreamsFrom(s) ==
    [Initialized : BOOLEAN, NextSeq : 0..(Length + 1), Data : Seq({s} \X Nat), chunks : Seq(ChunksOf(s))]

\* A stream with the bytes of s only, one after the other, and what comes next the one
\* that NextSeq says, as long as the limit was not reached.
OneSide(st, s) ==
    /\ st \in StreamsFrom(s)
    /\ st.Data # <<>> => st.Initialized
    /\ \A i \in 1..Len(st.Data) : st.Data[i] = <<s, st.Data[1][2] + i - 1>>
    /\ st.Data # <<>> /\ Len(st.Data) < MaxDepth => st.NextSeq = st.Data[1][2] + Len(st.Data)

SidesOf(f) ==
    /\ f.key[1] \in Endpoints /\ f.key[2] \in Endpoints /\ f.Original \in {f.key[1], f.key[2]}
    /\ OneSide(f.Client, f.Original) /\ OneSide(f.Server, Other(f))

\* The flow in the table has the key it is found by, and so the packet a loop counts in
\* it is from one of its two ends.
KeyedTable ==
    \A e \in Engines, k \in FlowKeys : table[e][k] # NoFlow => flows[table[e][k]].key = k
PacketsSent ==
    \A l \in Loops : handling[l].pc = "update" /\ handling[l].kind = "data" => handling[l].seq \in 1..Length
SidesInv == (\A i \in 1..Len(flows) : SidesOf(flows[i])) /\ KeyedTable /\ PacketsSent

LEMMA StreamConstants ==
    /\ Modulus \in Nat /\ MaxDepth \in Nat /\ MaxDepth > 0 /\ MaxChunks \in Nat /\ Length \in Nat
    /\ Length + 1 < Modulus
<1>1. Modulus \in Nat \ {0} /\ Length \in Nat /\ Length < Modulus \div 2
  BY LimitsAssumption, FlowAssumption
<1>2. Length + 1 < Modulus
  BY <1>1
<1> QED
  BY <1>1, <1>2, LimitsAssumption

\* What drainChunks does to one chunk keeps, drainChunks keeps.
LEMMA DrainKeeps ==
    ASSUME NEW C, NEW q \in Seq(C), NEW X, NEW base \in X, \A x \in X : \A c \in C : DrainOne(x, c) \in X
    PROVE  FoldLeft(DrainOne, base, q) \in X
<1> PICK S : S = 1..Len(q)
  OBVIOUS
<1>1. DOMAIN q = S /\ Len(q) \in Nat /\ IsFiniteSet(S) /\ S \subseteq Nat /\ \A i \in S : q[i] \in C
  <2>1. Len(q) \in Nat /\ DOMAIN q = 1..Len(q)
    OBVIOUS
  <2> QED
    BY <2>1, FS_Interval
<1> DEFINE pick == [s \in SUBSET S |-> Max(s)]
           step == [i \in S |-> [x \in X |-> DrainOne(x, q[i])]]
<1>2. \A s \in SUBSET S : s # {} => Max(s) \in s
  <2> SUFFICES ASSUME NEW s \in SUBSET S, s # {}
               PROVE  Max(s) \in s
    OBVIOUS
  <2>1. s \subseteq Int /\ Len(q) \in Int /\ \A y \in s : y <= Len(q)
    BY <1>1
  <2> QED
    BY <2>1, MaxOf
<1>3. PicksFrom(pick, S) /\ step \in [S -> [X -> X]]
  BY <1>1, <1>2 DEF PicksFrom
<1> HIDE DEF pick, step
<1>4. PICK f \in [SUBSET S -> X] : Recursion(f, S, base, pick, step)
  BY <1>1, <1>3, RecursionOverSubsets
<1>5. \A s \in SUBSET S : f[s] = IF s = {} THEN base ELSE DrainOne(f[s \ {Max(s)}], q[Max(s)])
  <2> TAKE s \in SUBSET S
  <2>1. CASE s = {}
    BY <1>4, <2>1 DEF Recursion
  <2>2. CASE s # {}
    <3>1. Max(s) \in S /\ pick[s] = Max(s) /\ f[s \ {Max(s)}] \in X
      BY <1>2, <2>2 DEF pick
    <3>2. f[s] = step[pick[s]][f[s \ {pick[s]}]]
      BY <1>4, <2>2 DEF Recursion
    <3> QED
      BY <2>2, <3>1, <3>2 DEF step
  <2> QED
    BY <2>1, <2>2
<1> DEFINE Eq(g) == g = [s \in SUBSET S |-> IF s = {} THEN base ELSE LET x == Max(s) IN DrainOne(g[s \ {x}], q[x])]
           it == CHOOSE g : Eq(g)
<1>6. FoldLeft(DrainOne, base, q) = it[S]
  BY <1>1 DEF FoldLeft, MapThenFoldSet
<1>7. Eq(f)
  <2>1. \A s \in SUBSET S : f[s] = IF s = {} THEN base ELSE LET x == Max(s) IN DrainOne(f[s \ {x}], q[x])
    BY <1>5, Zenon
  <2>2. f = [s \in SUBSET S |-> f[s]]
    OBVIOUS
  <2> QED
    BY <2>1, <2>2, Zenon
<1>8. Eq(it)
  <2> HIDE DEF Eq
  <2> QED
    BY <1>7, Zenon
<1>9. \A s \in SUBSET S : it[s] = IF s = {} THEN base ELSE DrainOne(it[s \ {Max(s)}], q[Max(s)])
  <2>1. \A s \in SUBSET S : it[s] = IF s = {} THEN base ELSE LET x == Max(s) IN DrainOne(it[s \ {x}], q[x])
    BY <1>8, Zenon
  <2> QED
    BY <2>1, Zenon
<1> HIDE DEF Eq, it
<1>10. SUBSET S \subseteq {s \in SUBSET S : it[s] \in X}
  <2> DEFINE T == {s \in SUBSET S : it[s] \in X}
  <2>1. {} \in T
    BY <1>9
  <2>2. ASSUME NEW s \in SUBSET S, s # {}, s \ {pick[s]} \in T PROVE s \in T
    <3>1. pick[s] = Max(s) /\ Max(s) \in S
      BY <1>2, <2>2 DEF pick
    <3>2. it[s \ {Max(s)}] \in X /\ q[Max(s)] \in C
      BY <1>1, <2>2, <3>1
    <3>3. it[s] = DrainOne(it[s \ {Max(s)}], q[Max(s)])
      BY <1>9, <2>2
    <3>4. it[s] \in X
      BY <3>2, <3>3
    <3> QED
      BY <2>2, <3>4
  <2>3. SUBSET S \subseteq T
    <3>1. IsFiniteSet(S) /\ PicksFrom(pick, S)
      BY <1>1, <1>3
    <3>2. \A s \in SUBSET S : s # {} /\ s \ {pick[s]} \in T => s \in T
      BY <2>2
    <3> HIDE DEF T
    <3> QED
      BY <3>1, <2>1, <3>2, SubsetInduction, Zenon
  <2> QED
    BY <2>3 DEF T
<1> QED
  BY <1>6, <1>10

LEMMA StreamFields ==
    ASSUME NEW s, NEW st, OneSide(st, s)
    PROVE  /\ st.Initialized \in BOOLEAN /\ st.NextSeq \in 0..(Length + 1)
           /\ st.Data \in Seq({s} \X Nat) /\ st.chunks \in Seq(ChunksOf(s))
           /\ Len(st.Data) \in Nat /\ (st.Data # <<>> <=> Len(st.Data) > 0)
BY DEF OneSide, StreamsFrom

\* appendData of the byte that is due.
LEMMA AppendOne ==
    ASSUME NEW s, NEW st, OneSide(st, s), st.Initialized, NEW n \in 1..Length, st.NextSeq = n
    PROVE  OneSide(AppendData(st, ByteOf(s, n)), s) /\ AppendData(st, ByteOf(s, n)).Initialized
<1> PICK T : T = {s} \X Nat
  OBVIOUS
<1> PICK D : D = st.Data
  OBVIOUS
<1> PICK N : N = Len(D)
  OBVIOUS
<1> DEFINE e == <<s, n>>
           all == D \o <<e>>
           cut == SubSeq(all, 1, Min({Len(all), MaxDepth}))
           nt == AppendData(st, ByteOf(s, n))
<1>1. N \in Nat /\ D \in Seq(T) /\ (D # <<>> <=> N > 0) /\ n \in Nat
  <2>1. st.Data \in Seq({s} \X Nat)
    BY StreamFields
  <2>2. D \in Seq(T)
    BY <2>1
  <2>3. N \in Nat /\ (D # <<>> <=> N > 0)
    BY <2>2
  <2>4. n \in Nat
    BY StreamConstants
  <2> QED
    BY <2>2, <2>3, <2>4
<1>2. e \in T
  BY <1>1
<1>3. /\ all \in Seq(T) /\ Len(all) = N + 1 /\ all[N + 1] = e
      /\ \A i \in 1..N : all[i] = D[i]
  <2> HIDE DEF e
  <2>1. D \in Seq(T) /\ e \in T
    BY <1>1, <1>2
  <2>2. /\ D \o <<e>> \in Seq(T) /\ Len(D \o <<e>>) = Len(D) + 1
        /\ \A i \in 1..Len(D) : (D \o <<e>>)[i] = D[i]
        /\ (D \o <<e>>)[Len(D) + 1] = e
    BY <2>1, OneMore
  <2> QED
    BY <2>2
<1> HIDE DEF all
<1> PICK m : m = Min({Len(all), MaxDepth})
  OBVIOUS
<1>4. m = IF N + 1 <= MaxDepth THEN N + 1 ELSE MaxDepth
  <2>1. Len(all) \in Int /\ MaxDepth \in Int
    BY <1>1, <1>3, StreamConstants
  <2> QED
    BY <1>1, <1>3, <2>1, MinOfTwo
<1>5. m \in 1..(N + 1) /\ m \in Nat
  BY <1>1, <1>4, StreamConstants
<1>6. /\ cut \in Seq(T) /\ Len(cut) = m /\ \A i \in 1..m : cut[i] = all[i]
  <2>1. cut = SubSeq(all, 1, m)
    OBVIOUS
  <2> HIDE DEF cut
  <2>2. 1..m \subseteq 1..Len(all)
    BY <1>1, <1>3, <1>5
  <2>3. 1 \in 1..(Len(all) + 1) /\ m \in (1 - 1)..Len(all)
    BY <1>1, <1>3, <1>5
  <2>4. /\ SubSeq(all, 1, m) \in Seq(T) /\ Len(SubSeq(all, 1, m)) = m - 1 + 1
        /\ \A i \in 1..(m - 1 + 1) : SubSeq(all, 1, m)[i] = all[1 + i - 1]
    <3>1. all \in Seq(T)
      BY <1>3
    <3>2. \A a \in 1..(Len(all) + 1) : \A b \in (a - 1)..Len(all) :
             /\ SubSeq(all, a, b) \in Seq(T) /\ Len(SubSeq(all, a, b)) = b - a + 1
             /\ \A i \in 1..(b - a + 1) : SubSeq(all, a, b)[i] = all[a + i - 1]
      BY <3>1, CutOf
    <3> QED
      BY <2>3, <3>2
  <2>5. m - 1 + 1 = m /\ \A i \in 1..m : 1 + i - 1 = i
    BY <1>5
  <2> QED
    BY <2>1, <2>4, <2>5
<1>7. Len(ByteOf(s, n)) = 1 /\ (n + 1) % Modulus = n + 1
  <2>1. n + 1 < Modulus /\ n + 1 \in Nat
    BY <1>1, StreamConstants
  <2> QED
    BY <2>1, StreamConstants DEF ByteOf
<1>8. nt = [st EXCEPT !.Data = cut, !.NextSeq = n + 1]
  BY <1>7 DEF AppendData, ByteOf, all
<1> HIDE DEF cut, nt
<1>9. /\ nt \in StreamsFrom(s) /\ nt.Initialized
      /\ nt.Data = cut /\ nt.NextSeq = n + 1
  <2>1. n + 1 \in 0..(Length + 1) /\ cut \in Seq({s} \X Nat)
    BY <1>1, <1>6, StreamConstants
  <2>2. st \in [Initialized : BOOLEAN, NextSeq : 0..(Length + 1), Data : Seq({s} \X Nat), chunks : Seq(ChunksOf(s))]
    BY DEF OneSide, StreamsFrom
  <2> QED
    BY <1>8, <2>1, <2>2 DEF StreamsFrom
<1>10. N < MaxDepth => \A i \in 1..(N + 1) : all[i] = <<s, all[1][2] + i - 1>>
  <2> SUFFICES ASSUME N < MaxDepth
               PROVE  \A i \in 1..(N + 1) : all[i] = <<s, all[1][2] + i - 1>>
    OBVIOUS
  <2>1. CASE N = 0
    BY <1>1, <1>3, <2>1
  <2>2. CASE N > 0
    <3>1. 1 \in 1..N /\ all[1] = D[1]
      BY <1>1, <1>3, <2>2
    <3>2. D[1] \in {s} \X Nat
      BY <1>1, <3>1
    <3>3. \A i \in 1..N : D[i] = <<s, D[1][2] + i - 1>>
      BY DEF OneSide
    <3>4. n = D[1][2] + N
      BY <1>1, <2>2 DEF OneSide
    <3>5. ASSUME NEW i \in 1..(N + 1) PROVE all[i] = <<s, all[1][2] + i - 1>>
      <4>1. CASE i \in 1..N
        BY <1>3, <3>1, <3>3, <4>1
      <4>2. CASE i = N + 1
        <5>1. all[1][2] + i - 1 = n
          BY <1>1, <3>1, <3>2, <3>4, <4>2
        <5> QED
          BY <1>3, <4>2, <5>1
      <4> QED
        BY <1>1, <4>1, <4>2
    <3> QED
      BY <3>5
  <2> QED
    BY <1>1, <2>1, <2>2
<1>11. \A i \in 1..m : cut[i] = <<s, cut[1][2] + i - 1>>
  <2>1. 1 \in 1..m /\ cut[1] = all[1]
    <3>1. 1 \in 1..m
      BY <1>5
    <3> QED
      BY <1>6, <3>1
  <2>2. CASE N < MaxDepth
    <3>1. m = N + 1
      BY <1>1, <1>4, <2>2, StreamConstants
    <3> QED
      BY <1>6, <1>10, <2>1, <2>2, <3>1
  <2>3. CASE ~(N < MaxDepth)
    <3>1. m \in 1..N /\ m = MaxDepth
      <4>1. m = MaxDepth /\ MaxDepth <= N
        BY <1>1, <1>4, <2>3, StreamConstants
      <4> QED
        BY <1>1, <1>5, <4>1
    <3>2. \A i \in 1..m : cut[i] = D[i] /\ i \in 1..N
      <4>1. 1..m \subseteq 1..N
        BY <1>1, <3>1
      <4> QED
        BY <1>3, <1>6, <4>1
    <3>3. \A i \in 1..N : D[i] = <<s, D[1][2] + i - 1>>
      BY DEF OneSide
    <3> QED
      BY <2>1, <3>1, <3>2, <3>3
  <2> QED
    BY <2>2, <2>3
<1>12. m < MaxDepth => n + 1 = cut[1][2] + m
  <2> SUFFICES ASSUME m < MaxDepth PROVE n + 1 = cut[1][2] + m
    OBVIOUS
  <2>1. N < MaxDepth /\ m = N + 1
    BY <1>1, <1>4, StreamConstants
  <2>2. 1 \in 1..m /\ N + 1 \in 1..(N + 1) /\ cut[1] = all[1]
    <3>1. 1 \in 1..m /\ N + 1 \in 1..(N + 1)
      BY <1>1, <1>5
    <3> QED
      BY <1>6, <3>1
  <2>3. all[1] \in {s} \X Nat
    BY <1>3, <2>1, <2>2
  <2>4. all[N + 1] = <<s, all[1][2] + (N + 1) - 1>>
    BY <1>10, <2>1, <2>2
  <2>5. n = all[1][2] + (N + 1) - 1
    BY <1>3, <2>4
  <2> QED
    BY <1>1, <2>1, <2>2, <2>3, <2>5
<1>13. OneSide(nt, s)
  <2>1. Len(nt.Data) = m
    BY <1>6, <1>9
  <2>2. \A i \in 1..Len(nt.Data) : nt.Data[i] = <<s, nt.Data[1][2] + i - 1>>
    BY <1>9, <1>11, <2>1
  <2>3. Len(nt.Data) < MaxDepth => nt.NextSeq = nt.Data[1][2] + Len(nt.Data)
    BY <1>9, <1>12, <2>1
  <2> QED
    BY <1>9, <2>2, <2>3 DEF OneSide
<1> QED
  BY <1>9, <1>13 DEF nt

\* A queue with another chunk, or without any.
LEMMA QueueChanges ==
    ASSUME NEW s, NEW st, OneSide(st, s), NEW q, q \in Seq(ChunksOf(s)), NEW nt, nt = [st EXCEPT !.chunks = q]
    PROVE  OneSide(nt, s) /\ nt.Initialized = st.Initialized
<1>1. /\ nt \in StreamsFrom(s)
      /\ nt.Initialized = st.Initialized /\ nt.NextSeq = st.NextSeq /\ nt.Data = st.Data
  BY DEF OneSide, StreamsFrom
<1>2. OneSide(nt, s)
  BY <1>1 DEF OneSide
<1> QED
  BY <1>1, <1>2

LEMMA DrainOneKeeps ==
    ASSUME NEW s, NEW st, OneSide(st, s), st.Initialized, NEW c \in ChunksOf(s)
    PROVE  OneSide(DrainOne(st, c), s) /\ DrainOne(st, c).Initialized
<1>1. PICK n \in 1..Length : c = [seq |-> n, data |-> ByteOf(s, n)]
  BY DEF ChunksOf
<1>2. c.seq = n /\ c.data = ByteOf(s, n) /\ n \in Nat /\ st.NextSeq \in Nat /\ Len(c.data) = 1
  <2>1. n \in Nat /\ st.NextSeq \in Nat
    <3>1. Length \in Nat /\ n \in 1..Length
      BY StreamConstants
    <3>2. st.NextSeq \in 0..(Length + 1)
      BY StreamFields
    <3> QED
      BY <3>1, <3>2
  <2>2. c.seq = n /\ c.data = ByteOf(s, n)
    BY <1>1
  <2>3. Len(ByteOf(s, n)) = 1
    BY DEF ByteOf
  <2> QED
    BY <2>1, <2>2, <2>3
<1>3. CASE n > st.NextSeq
  <2>1. st.chunks \in Seq(ChunksOf(s))
    BY StreamFields
  <2>2. Append(st.chunks, c) \in Seq(ChunksOf(s))
    BY <2>1
  <2>3. DrainOne(st, c) = [st EXCEPT !.chunks = Append(st.chunks, c)]
    BY <1>2, <1>3 DEF DrainOne
  <2> PICK q : q = Append(st.chunks, c)
    OBVIOUS
  <2> PICK nt : nt = [st EXCEPT !.chunks = q]
    OBVIOUS
  <2>4. OneSide(nt, s) /\ nt.Initialized = st.Initialized
    BY <2>2, QueueChanges
  <2> QED
    BY <2>3, <2>4
<1>4. CASE n = st.NextSeq
  <2>1. st.NextSeq - c.seq = 0 /\ ~(c.seq > st.NextSeq)
    BY <1>2, <1>4
  <2>2. SubSeq(c.data, 0 + 1, Len(c.data)) = ByteOf(s, n)
    <3> PICK e : e = <<s, n>>
      OBVIOUS
    <3>1. <<e>> \in Seq({e})
      OBVIOUS
    <3>2. SubSeq(<<e>>, 1, Len(<<e>>)) = <<e>>
      BY <3>1, SubSeqFull
    <3>3. c.data = <<e>> /\ 0 + 1 = 1
      BY <1>2 DEF ByteOf
    <3> QED
      BY <1>2, <3>2, <3>3
  <2>3. DrainOne(st, c) = AppendData(st, SubSeq(c.data, 0 + 1, Len(c.data)))
    BY <1>2, <2>1 DEF DrainOne
  <2> QED
    BY <1>4, <2>2, <2>3, AppendOne
<1>5. CASE n < st.NextSeq
  <2>1. ~(c.seq > st.NextSeq) /\ ~(st.NextSeq - c.seq < Len(c.data))
    BY <1>2, <1>5
  <2>2. DrainOne(st, c) = st
    BY <2>1 DEF DrainOne
  <2> QED
    BY <2>2
<1> QED
  BY <1>2, <1>3, <1>4, <1>5

LEMMA DrainChunksKeeps ==
    ASSUME NEW s, NEW st, OneSide(st, s), st.Initialized
    PROVE  OneSide(DrainChunks(st), s)
<1> DEFINE X == {x \in StreamsFrom(s) : OneSide(x, s) /\ x.Initialized}
           base == [st EXCEPT !.chunks = <<>>]
           q == st.chunks
<1>1. q \in Seq(ChunksOf(s))
  BY StreamFields
<1>2. base \in X
  <2>1. OneSide(base, s) /\ base.Initialized = st.Initialized
    <3>1. <<>> \in Seq(ChunksOf(s))
      OBVIOUS
    <3> PICK z : z = <<>> /\ z \in Seq(ChunksOf(s))
      BY <3>1
    <3> PICK nt : nt = [st EXCEPT !.chunks = z]
      OBVIOUS
    <3>2. OneSide(nt, s) /\ nt.Initialized = st.Initialized
      BY QueueChanges
    <3> QED
      BY <3>2
  <2> QED
    BY <2>1 DEF OneSide
<1>3. \A x \in X : \A c \in ChunksOf(s) : DrainOne(x, c) \in X
  <2> TAKE x \in X
  <2> TAKE c \in ChunksOf(s)
  <2>1. OneSide(DrainOne(x, c), s) /\ DrainOne(x, c).Initialized
    BY DrainOneKeeps
  <2> QED
    BY <2>1 DEF OneSide
<1>4. FoldLeft(DrainOne, base, q) \in X
  <2> HIDE DEF X, base, q
  <2> QED
    BY <1>1, <1>2, <1>3, DrainKeeps
<1> QED
  BY <1>4 DEF DrainChunks

LEMMA QueueKeeps ==
    ASSUME NEW s, NEW st, OneSide(st, s), st.Initialized, NEW c \in ChunksOf(s)
    PROVE  OneSide(Queue(st, c), s) /\ Queue(st, c).Initialized
<1> PICK q : q = st.chunks
  OBVIOUS
<1> PICK P : P = {0} \cup {i \in DOMAIN q : q[i].seq <= c.seq}
  OBVIOUS
<1> PICK m : m = Max(P)
  OBVIOUS
<1>1. q \in Seq(ChunksOf(s)) /\ Len(q) \in Nat /\ DOMAIN q = 1..Len(q)
  <2>1. q \in Seq(ChunksOf(s))
    BY StreamFields
  <2> QED
    BY <2>1
<1>2. m \in 0..Len(q)
  <2>1. P \subseteq 0..Len(q) /\ P # {}
    BY <1>1
  <2>2. Len(q) \in Int /\ P \subseteq Int /\ \A y \in P : y <= Len(q)
    BY <1>1, <2>1
  <2>3. m \in P
    BY <2>1, <2>2, MaxOf
  <2> QED
    BY <2>1, <2>3
<1> DEFINE front == SubSeq(q, 1, m)
           back == SubSeq(q, m + 1, Len(q))
           r == InsertAt(q, m + 1, c)
<1>3. \A a \in 1..(Len(q) + 1) : \A b \in (a - 1)..Len(q) : SubSeq(q, a, b) \in Seq(ChunksOf(s))
  BY <1>1, CutOf
<1>4. front \in Seq(ChunksOf(s)) /\ back \in Seq(ChunksOf(s))
  <2>1. 1 \in 1..(Len(q) + 1) /\ m \in (1 - 1)..Len(q)
    BY <1>1, <1>2
  <2>2. m + 1 \in 1..(Len(q) + 1) /\ Len(q) \in ((m + 1) - 1)..Len(q)
    BY <1>1, <1>2
  <2> QED
    BY <1>3, <2>1, <2>2
<1>5. r = front \o <<c>> \o back
  <2>1. (m + 1) - 1 = m
    BY <1>2
  <2> QED
    BY <2>1, Zenon DEF InsertAt
<1> HIDE DEF front, back, r
<1>6. r \in Seq(ChunksOf(s))
  <2>1. front \o <<c>> \in Seq(ChunksOf(s))
    BY <1>4
  <2> QED
    BY <1>4, <1>5, <2>1
<1>7. Queue(st, c) = [st EXCEPT !.chunks = r]
  BY DEF Queue, r
<1> PICK nt : nt = [st EXCEPT !.chunks = r]
  OBVIOUS
<1>8. OneSide(nt, s) /\ nt.Initialized = st.Initialized
  BY <1>6, QueueChanges
<1> QED
  BY <1>7, <1>8

LEMMA SetNextSeqKeeps ==
    ASSUME NEW s, NEW st, OneSide(st, s), NEW n \in 0..(Length + 1)
    PROVE  OneSide(SetNextSeq(st, n), s) /\ SetNextSeq(st, n).Initialized
<1>1. CASE st.Initialized
  BY <1>1 DEF SetNextSeq
<1>2. CASE ~st.Initialized
  <2> PICK nt : nt = [st EXCEPT !.Initialized = TRUE, !.NextSeq = n]
    OBVIOUS
  <2>1. nt \in StreamsFrom(s) /\ nt.Initialized /\ nt.Data = st.Data /\ st.Data = <<>>
    BY <1>2 DEF OneSide, StreamsFrom
  <2>2. OneSide(nt, s)
    BY <2>1 DEF OneSide
  <2> QED
    BY <1>2, <2>1, <2>2 DEF SetNextSeq
<1> QED
  BY <1>1, <1>2

\* A segment of its sender, or one without payload, leaves a stream its sender's.
LEMMA AddSegmentKeeps ==
    ASSUME NEW s, NEW st, OneSide(st, s), NEW n, NEW d, d = <<>> \/ (n \in 1..Length /\ d = ByteOf(s, n))
    PROVE  OneSide(AddSegment(st, n, d), s)
<1>1. CASE d = <<>>
  BY <1>1 DEF AddSegment
<1>2. CASE n \in 1..Length /\ d = ByteOf(s, n)
  <2> DEFINE nt == SetNextSeq(st, n)
             diff == (n - nt.NextSeq) % Modulus
  <2>1. OneSide(nt, s) /\ nt.Initialized
    BY <1>2, SetNextSeqKeeps, StreamConstants
  <2>2. n \in Nat /\ n <= Length /\ nt.NextSeq \in 0..(Length + 1)
    <3>1. n \in Nat /\ n <= Length
      BY <1>2, StreamConstants
    <3> HIDE DEF nt
    <3> QED
      BY <2>1, <3>1, StreamFields
  <2> HIDE DEF nt
  <2>3. diff = 0 => n = nt.NextSeq
    <3> PICK k : k = nt.NextSeq
      OBVIOUS
    <3>1. k \in Nat /\ n - k < Modulus /\ k - n < Modulus /\ Modulus \in Nat /\ Modulus > 0
      BY <2>2, StreamConstants
    <3>2. (n - k) % Modulus = 0 => n = k
      <4> PICK x \in Int : x = n - k
        BY <2>2, <3>1
      <4>1. x % Modulus = IF x >= 0 THEN x ELSE x + Modulus
        <5>1. x \in 0..(Modulus - 1) \/ (x < 0 /\ x \in (-Modulus)..(-1))
          BY <2>2, <3>1
        <5> QED
          BY <3>1, <5>1, ModOf
      <4> QED
        BY <2>2, <3>1, <4>1
    <3> QED
      BY <3>2
  <2> PICK c : c = [seq |-> n, data |-> d]
    OBVIOUS
  <2>4. c \in ChunksOf(s)
    BY <1>2 DEF ChunksOf
  <2>5. \/ AddSegment(st, n, d) = st
        \/ diff = 0 /\ AddSegment(st, n, d) = DrainChunks(AppendData(nt, d))
        \/ AddSegment(st, n, d) = nt
        \/ AddSegment(st, n, d) = DrainChunks(Queue(nt, c))
    BY DEF AddSegment, nt
  <2> HIDE DEF diff
  <2>6. ASSUME diff = 0 PROVE OneSide(DrainChunks(AppendData(nt, d)), s)
    <3>1. OneSide(AppendData(nt, d), s) /\ AppendData(nt, d).Initialized
      BY <1>2, <2>1, <2>3, <2>6, AppendOne
    <3> QED
      BY <3>1, DrainChunksKeeps
  <2>7. OneSide(DrainChunks(Queue(nt, c)), s)
    <3>1. OneSide(Queue(nt, c), s) /\ Queue(nt, c).Initialized
      BY <2>1, <2>4, QueueKeeps
    <3> QED
      BY <3>1, DrainChunksKeeps
  <2> QED
    BY <2>1, <2>5, <2>6, <2>7
<1> QED
  BY <1>1, <1>2

\* The other end of a flow, of which one began it.
LEMMA OtherEnd ==
    ASSUME NEW f, SidesOf(f), NEW src \in {f.key[1], f.key[2]}, src # f.Original
    PROVE  Other(f) = src
<1>1. f.Original \in {f.key[1], f.key[2]}
  BY DEF SidesOf
<1> DEFINE Is(x) == x \in {f.key[1], f.key[2]} /\ x # f.Original
<1>2. Is(Other(f))
  <2>1. Other(f) \in {f.key[1], f.key[2]} /\ Other(f) # f.Original
    BY DEF Other
  <2> QED
    BY <2>1
<1> QED
  BY <1>1, <1>2

\* What SidesOf says of a flow depends on four fields of it.
LEMMA SidesDepend ==
    ASSUME NEW f, SidesOf(f), NEW g, g.key = f.key, g.Original = f.Original,
           g.Client = f.Client, g.Server = f.Server
    PROVE  SidesOf(g)
BY DEF SidesOf, Other

LEMMA NewStreamOneSide == \A s : OneSide(NewStreamReassembler, s)
<1> SUFFICES ASSUME NEW s PROVE OneSide(NewStreamReassembler, s)
  OBVIOUS
<1> PICK st : st = NewStreamReassembler
  OBVIOUS
<1>1. st = [Initialized |-> FALSE, NextSeq |-> 0, Data |-> <<>>, chunks |-> <<>>]
  BY DEF NewStreamReassembler
<1>2. <<>> \in Seq({s} \X Nat) /\ <<>> \in Seq(ChunksOf(s)) /\ 0 \in 0..(Length + 1)
  BY StreamConstants
<1>3. st \in StreamsFrom(s) /\ st.Data = <<>>
  BY <1>1, <1>2 DEF StreamsFrom
<1> QED
  BY <1>3 DEF OneSide

LEMMA UpdateSides ==
    ASSUME NEW f, IsFlow(f), SidesOf(f), NEW src \in {f.key[1], f.key[2]}, NEW kind, NEW seq, NEW t,
           kind = "data" => seq \in 1..Length
    PROVE  SidesOf(UpdateFlow(f, src, kind, seq, t))
<1> DEFINE side == IF f.Original = src THEN "Client" ELSE "Server"
           payload == IF kind = "data" THEN <<(<<src, seq>>)>> ELSE <<>>
           begun == Initialise(f, side, kind)
           st == AddSegment(begun, seq, payload)
           state == NextState(f, kind)
           g == UpdateFlow(f, src, kind, seq, t)
<1>1. g = [f EXCEPT !.LastSeen = t, !.PacketCount = f.PacketCount + 1, !.State = state, ![side] = st]
  BY DEF UpdateFlow
<1>2. OneSide(f[side], src)
  <2>1. CASE f.Original = src
    BY <2>1 DEF SidesOf
  <2>2. CASE f.Original # src
    BY <2>2, OtherEnd DEF SidesOf
  <2> QED
    BY <2>1, <2>2
<1>3. OneSide(begun, src)
  <2> HIDE DEF side
  <2>1. 1 \in 0..(Length + 1)
    BY StreamConstants
  <2>2. OneSide(SetNextSeq(f[side], 1), src)
    BY <1>2, <2>1, SetNextSeqKeeps
  <2> QED
    BY <1>2, <2>2 DEF Initialise
<1>4. OneSide(st, src)
  <2>1. payload = <<>> \/ (seq \in 1..Length /\ payload = ByteOf(src, seq))
    BY DEF ByteOf
  <2> HIDE DEF payload, begun
  <2> QED
    BY <1>3, <2>1, AddSegmentKeeps
<1>5. (side = "Client" /\ src = f.Original) \/ (side = "Server" /\ src = Other(f))
  BY OtherEnd
<1> HIDE DEF side, st, state, g
<1>6. /\ g.key = f.key /\ g.Original = f.Original
      /\ side = "Client" => g.Client = st /\ g.Server = f.Server
      /\ side = "Server" => g.Server = st /\ g.Client = f.Client
  <2>1. /\ g.key = f.key /\ g.Original = f.Original
    BY <1>1, <1>5 DEF IsFlow
  <2>2. ASSUME side = "Client" PROVE g.Client = st /\ g.Server = f.Server
    BY <1>1, <2>2 DEF IsFlow
  <2>3. ASSUME side = "Server" PROVE g.Server = st /\ g.Client = f.Client
    BY <1>1, <2>3 DEF IsFlow
  <2> QED
    BY <2>1, <2>2, <2>3
<1>7. Other(g) = Other(f)
  BY <1>6 DEF Other
<1>8. OneSide(g.Client, g.Original) /\ OneSide(g.Server, Other(g))
  BY <1>4, <1>5, <1>6, <1>7 DEF SidesOf
<1> QED
  BY <1>6, <1>8 DEF SidesOf, g

\* Steps that change no stream.
LEMMA SidesKept ==
    ASSUME SidesInv, Len(flows') = Len(flows),
           \A i \in 1..Len(flows) : SidesOf(flows'[i]) /\ flows'[i].key = flows[i].key,
           table \in [Engines -> [FlowKeys -> 0..Len(flows)]], Len(flows) \in Nat,
           \A e \in Engines, k \in FlowKeys : table'[e][k] # NoFlow => table'[e][k] = table[e][k],
           \A l \in Loops : handling'[l].pc = "update" => handling'[l] = handling[l]
    PROVE  SidesInv'
<1>1. \A i \in 1..Len(flows') : SidesOf(flows'[i])
  OBVIOUS
<1>2. KeyedTable'
  <2> SUFFICES ASSUME NEW e \in Engines, NEW k \in FlowKeys, table'[e][k] # NoFlow
               PROVE  flows'[table'[e][k]].key = k
    BY DEF KeyedTable
  <2> PICK i : i = table[e][k]
    OBVIOUS
  <2>1. table'[e][k] = i /\ i # NoFlow /\ i \in 0..Len(flows)
    OBVIOUS
  <2>2. i \in 1..Len(flows)
    BY <2>1 DEF NoFlow
  <2>3. flows[i].key = k
    BY <2>1 DEF SidesInv, KeyedTable
  <2> QED
    BY <2>1, <2>2, <2>3
<1>3. PacketsSent'
  BY DEF SidesInv, PacketsSent
<1> QED
  BY <1>1, <1>2, <1>3 DEF SidesInv

\* The packet a loop counts is from one of the ends of its flow.
LEMMA SourceOfFlow ==
    ASSUME TableInv, SidesInv, NEW l \in Loops, handling[l].pc # "idle"
    PROVE  LET p == handling[l] IN
           /\ p.flow \in 1..Len(flows) /\ IsFlow(flows[p.flow]) /\ SidesOf(flows[p.flow])
           /\ p.src \in {flows[p.flow].key[1], flows[p.flow].key[2]}
<1> PICK p : p = handling[l]
  OBVIOUS
<1>1. /\ p.src \in Endpoints /\ p.dst \in Endpoints /\ NewKey(p.src, p.dst) \in FlowKeys
      /\ p.flow \in 1..Len(flows) /\ table[EngineOf(p)][NewKey(p.src, p.dst)] = p.flow
  BY DEF TableInv, HeldInv, Held
<1>2. EngineOf(p) \in Engines
  BY <1>1, Constants DEF EngineOf
<1>3. p.flow # NoFlow
  <2>1. Len(flows) \in Nat
    BY DEF TableInv, Shapes
  <2> QED
    BY <1>1, <2>1 DEF NoFlow
<1>4. flows[p.flow].key = NewKey(p.src, p.dst)
  BY <1>1, <1>2, <1>3 DEF SidesInv, KeyedTable
<1>5. p.src \in {NewKey(p.src, p.dst)[1], NewKey(p.src, p.dst)[2]}
  BY DEF NewKey
<1> QED
  BY <1>1, <1>4, <1>5 DEF SidesInv, TableInv, Shapes

LEMMA SidesInit == FTInit => SidesInv
<1> SUFFICES ASSUME FTInit PROVE SidesInv
  OBVIOUS
<1>1. Len(flows) = 0 /\ \A l \in Loops : handling[l].pc = "idle"
  BY DEF FTInit, IdleLoop
<1>2. \A e \in Engines, k \in FlowKeys : table[e][k] = NoFlow
  BY DEF FTInit
<1> QED
  BY <1>1, <1>2 DEF SidesInv, KeyedTable, PacketsSent

\* A packet seen on a flow changes neither its key nor its sides.
LEMMA FoundSides ==
    ASSUME TableInv, SidesInv, PacketsSent', NEW i \in 1..Len(flows),
           flows' = [flows EXCEPT ![i].LastSeen = time], table' = table
    PROVE  SidesInv'
<1>1. /\ Len(flows) \in Nat /\ time \in Nat /\ IsFlow(flows[i]) /\ SidesOf(flows[i])
      /\ table \in [Engines -> [FlowKeys -> 0..Len(flows)]]
  BY Constants DEF TableInv, Shapes, SidesInv
<1>2. PICK S : flows \in Seq(S)
  BY DEF TableInv, Shapes
<1>3. PICK g : g = [flows[i] EXCEPT !.LastSeen = time] /\ flows' = [flows EXCEPT ![i] = g]
  OBVIOUS
<1>4. /\ g.key = flows[i].key /\ g.Original = flows[i].Original
      /\ g.Client = flows[i].Client /\ g.Server = flows[i].Server
  BY <1>1, <1>3 DEF IsFlow
<1>5. SidesOf(g)
  <2>1. IsFlow(g)
    BY <1>1, <1>3, SeenFields
  <2> QED
    BY <1>1, <1>4, <2>1, SidesDepend
<1>6. Len(flows') = Len(flows) /\ flows'[i] = g /\ \A j \in 1..Len(flows) : j # i => flows'[j] = flows[j]
  BY <1>2, <1>3
<1>7. \A j \in 1..Len(flows') : SidesOf(flows'[j]) /\ flows'[j].key = flows[j].key
  BY <1>4, <1>5, <1>6 DEF SidesInv
<1>8. KeyedTable'
  <2> SUFFICES ASSUME NEW a \in Engines, NEW k \in FlowKeys, table[a][k] # NoFlow
               PROVE  flows'[table[a][k]].key = k
    BY DEF KeyedTable
  <2>1. table[a][k] \in 1..Len(flows)
    <3>1. table[a][k] \in 0..Len(flows)
      BY <1>1
    <3> QED
      BY <1>1, <3>1 DEF NoFlow
  <2>2. flows[table[a][k]].key = k
    BY DEF SidesInv, KeyedTable
  <2> QED
    BY <1>6, <1>7, <2>1, <2>2
<1> QED
  BY <1>7, <1>8 DEF SidesInv

\* GetOrCreate finds a flow or makes one, or there is no room.
LEMMA GetOrCreateSides ==
    ASSUME TableInv, SidesInv, NEW l \in Loops, NEW src \in Endpoints, NEW dst \in Endpoints,
           NEW kind \in PacketKinds, NEW seq \in SeqsOf(kind), GetOrCreate(l, src, dst, kind, seq)
    PROVE  SidesInv'
<1> DEFINE p == Packet(src, dst, kind, seq)
           key == NewKey(src, dst)
           e == EngineFor[src][dst]
           id == table[e][key]
<1>1. key \in FlowKeys /\ e \in Engines
  BY KeyOfPacket, Constants, SMTT(40) DEF GetOrCreate, TableInv, Shapes
<1>2. /\ Len(flows) \in Nat /\ \A i \in 1..Len(flows) : IsFlow(flows[i]) /\ SidesOf(flows[i])
      /\ table \in [Engines -> [FlowKeys -> 0..Len(flows)]]
      /\ handling \in [Loops -> LoopRecords] /\ time \in Nat
  BY Constants DEF TableInv, Shapes, SidesInv
<1>3. EngineOf(p) = e /\ p.kind = kind /\ p.seq = seq
  BY DEF Packet, IdleLoop, EngineOf
<1>4. \/ /\ id # NoFlow
         /\ flows' = [flows EXCEPT ![id].LastSeen = time]
         /\ handling' = [handling EXCEPT ![l] = [p EXCEPT !.flow = id]]
         /\ UNCHANGED <<table, lapsed>>
      \/ UNCHANGED <<flows, table, handling>>
      \/ /\ id = NoFlow
         /\ flows' = Append(flows, NewFlow(key, src, time))
         /\ table' = [table EXCEPT ![e][key] = Len(flows')]
         /\ handling' = [handling EXCEPT ![l] = [p EXCEPT !.flow = Len(flows')]]
  BY <1>3 DEF GetOrCreate, Packet
<1>5. ASSUME NEW n, handling' = [handling EXCEPT ![l] = [p EXCEPT !.flow = n]] PROVE PacketsSent'
  <2>1. [p EXCEPT !.flow = n].kind = kind /\ [p EXCEPT !.flow = n].seq = seq
    BY DEF Packet, IdleLoop
  <2>2. kind = "data" => seq \in 1..Length
    BY DEF SeqsOf
  <2>3. handling'[l].kind = kind /\ handling'[l].seq = seq
    BY <1>2, <1>5, <2>1
  <2>4. \A k \in Loops : k # l => handling'[k] = handling[k]
    BY <1>2, <1>5, SMTT(40)
  <2> QED
    BY <2>2, <2>3, <2>4 DEF SidesInv, PacketsSent
<1> HIDE DEF p
<1>6. CASE /\ id # NoFlow
           /\ flows' = [flows EXCEPT ![id].LastSeen = time]
           /\ handling' = [handling EXCEPT ![l] = [p EXCEPT !.flow = id]]
           /\ UNCHANGED <<table, lapsed>>
  <2>1. id \in 1..Len(flows)
    <3>1. id \in 0..Len(flows)
      BY <1>1, <1>2
    <3> QED
      BY <1>2, <1>6, <3>1 DEF NoFlow
  <2>2. PacketsSent' /\ flows' = [flows EXCEPT ![id].LastSeen = time] /\ table' = table
    BY <1>5, <1>6
  <2> HIDE DEF id
  <2> QED
    BY <2>1, <2>2, FoundSides
<1>7. CASE UNCHANGED <<flows, table, handling>>
  BY <1>7 DEF SidesInv, KeyedTable, PacketsSent
<1>8. CASE /\ id = NoFlow
           /\ flows' = Append(flows, NewFlow(key, src, time))
           /\ table' = [table EXCEPT ![e][key] = Len(flows')]
           /\ handling' = [handling EXCEPT ![l] = [p EXCEPT !.flow = Len(flows')]]
  <2> PICK g : g = NewFlow(key, src, time)
    OBVIOUS
  <2>1. g.key = key /\ SidesOf(g)
    <3>1. /\ g.key = key /\ g.Original = src
          /\ g.Client = NewStreamReassembler /\ g.Server = NewStreamReassembler
      BY DEF NewFlow
    <3>2. key[1] \in Endpoints /\ key[2] \in Endpoints /\ src \in {key[1], key[2]}
      BY DEF NewKey
    <3> QED
      BY <3>1, <3>2, NewStreamOneSide DEF SidesOf
  <2>2. PICK S : flows \in Seq(S)
    BY DEF TableInv, Shapes
  <2>3. flows \in Seq(S \cup {g})
    BY <2>2
  <2> PICK n : n = Len(flows')
    OBVIOUS
  <2>4. n = Len(flows) + 1 /\ flows'[n] = g /\ \A j \in 1..Len(flows) : flows'[j] = flows[j]
    BY <1>8, <2>3
  <2>5. \A j \in 1..Len(flows') : SidesOf(flows'[j])
    <3> TAKE j \in 1..Len(flows')
    <3>1. j \in 1..Len(flows) \/ j = n
      BY <1>2, <2>4
    <3> QED
      BY <1>2, <2>1, <2>4, <3>1
  <2>6. KeyedTable'
    <3>1. ASSUME NEW a \in Engines, NEW k \in FlowKeys, table'[a][k] # NoFlow
          PROVE  flows'[table'[a][k]].key = k
      <4>1. table' = [table EXCEPT ![e][key] = n]
        BY <1>8
      <4>2. CASE a = e /\ k = key
        <5>1. table'[a][k] = n
          BY <1>1, <1>2, <4>1, <4>2
        <5> QED
          BY <2>1, <2>4, <4>2, <5>1
      <4>3. CASE ~(a = e /\ k = key)
        <5> PICK j : j = table[a][k]
          OBVIOUS
        <5>1. table'[a][k] = j
          BY <1>1, <1>2, <4>1, <4>3
        <5>2. j \in 1..Len(flows)
          <6>1. j \in 0..Len(flows) /\ j # NoFlow
            BY <1>2, <3>1, <5>1
          <6> QED
            BY <1>2, <6>1 DEF NoFlow
        <5>3. flows[j].key = k
          BY <3>1, <5>1 DEF SidesInv, KeyedTable
        <5> QED
          BY <2>4, <5>1, <5>2, <5>3
      <4> QED
        BY <4>2, <4>3
    <3> QED
      BY <3>1 DEF KeyedTable
  <2> QED
    BY <1>5, <1>8, <2>5, <2>6 DEF SidesInv
<1> QED
  BY <1>4, <1>6, <1>7, <1>8

\* UpdateFlowML and the throttle change the flow of their packet.
LEMMA HandlingSides ==
    ASSUME TableInv, SidesInv, NEW l \in Loops, Update(l) \/ ReadThrottle(l) \/ WriteThrottle(l)
    PROVE  SidesInv'
<1> PICK p : p = handling[l]
  OBVIOUS
<1> PICK f : f = flows[p.flow]
  OBVIOUS
<1>1. p.pc # "idle" /\ table' = table
  BY DEF Update, ReadThrottle, WriteThrottle
<1>2. /\ p.flow \in 1..Len(flows) /\ IsFlow(f) /\ SidesOf(f) /\ p.src \in {f.key[1], f.key[2]}
  BY <1>1, SourceOfFlow
<1>3. /\ Len(flows) \in Nat /\ \A i \in 1..Len(flows) : SidesOf(flows[i])
      /\ table \in [Engines -> [FlowKeys -> 0..Len(flows)]]
      /\ handling \in [Loops -> LoopRecords]
  BY DEF TableInv, Shapes, SidesInv
<1>4. \A k \in Loops : handling'[k].pc = "update" => handling'[k] = handling[k]
  <2>1. ASSUME NEW r, handling' = [handling EXCEPT ![l] = r], r.pc # "update"
        PROVE  \A k \in Loops : handling'[k].pc = "update" => handling'[k] = handling[k]
    BY <1>3, <2>1
  <2>2. CASE Update(l)
    <3>1. [p EXCEPT !.pc = "mlread"].pc = "mlread"
      BY <1>3 DEF LoopRecords
    <3>2. handling' = [handling EXCEPT ![l] = [p EXCEPT !.pc = "mlread"]]
      BY <2>2 DEF Update
    <3> QED
      BY <2>1, <3>1, <3>2
  <2>3. CASE ReadThrottle(l)
    <3>1. [p EXCEPT !.pc = "mlwrite", !.at = time].pc = "mlwrite" /\ IdleLoop.pc = "idle"
      BY <1>3 DEF LoopRecords, IdleLoop
    <3>2. \/ handling' = [handling EXCEPT ![l] = [p EXCEPT !.pc = "mlwrite", !.at = time]]
          \/ handling' = [handling EXCEPT ![l] = IdleLoop]
      BY <2>3 DEF ReadThrottle
    <3> QED
      BY <2>1, <3>1, <3>2
  <2>4. CASE WriteThrottle(l)
    BY <2>1, <2>4 DEF WriteThrottle, IdleLoop
  <2> QED
    BY <2>2, <2>3, <2>4
<1>5. ASSUME NEW g, SidesOf(g), g.key = f.key, flows' = [flows EXCEPT ![p.flow] = g]
      PROVE  SidesInv'
  <2>1. PICK S : flows \in Seq(S)
    BY DEF TableInv, Shapes
  <2>2. /\ Len(flows') = Len(flows)
        /\ \A i \in 1..Len(flows) : flows'[i] = IF i = p.flow THEN g ELSE flows[i]
    BY <1>2, <1>5, <2>1
  <2>3. \A i \in 1..Len(flows) : SidesOf(flows'[i]) /\ flows'[i].key = flows[i].key
    BY <1>3, <1>5, <2>2
  <2> QED
    BY <1>1, <1>3, <1>4, <2>2, <2>3, SidesKept
<1>6. CASE Update(l)
  <2> PICK g : g = UpdateFlow(f, p.src, p.kind, p.seq, time)
    OBVIOUS
  <2>1. flows' = [flows EXCEPT ![p.flow] = g]
    BY <1>6 DEF Update
  <2>2. p.kind = "data" => p.seq \in 1..Length
    BY <1>6 DEF Update, SidesInv, PacketsSent
  <2>3. SidesOf(g)
    BY <1>2, <2>2, UpdateSides
  <2>4. g.key = f.key
    <3>1. time \in Nat
      BY Constants DEF TableInv, Shapes
    <3> QED
      BY <1>2, <3>1, UpdateFields
  <2> QED
    BY <1>5, <2>1, <2>3, <2>4
<1>7. CASE ReadThrottle(l)
  <2>1. flows' = flows
    BY <1>7 DEF ReadThrottle
  <2> QED
    BY <1>1, <1>3, <1>4, <2>1, SidesKept
<1>8. CASE WriteThrottle(l)
  <2> PICK g : g = [f EXCEPT !.LastMLCheck = p.at]
    OBVIOUS
  <2>1. flows' = [flows EXCEPT ![p.flow] = g]
    BY <1>8 DEF WriteThrottle
  <2>2. g.key = f.key /\ g.Original = f.Original /\ g.Client = f.Client /\ g.Server = f.Server
    BY <1>2 DEF IsFlow
  <2>3. SidesOf(g)
    BY <1>2, <2>2, SidesDepend
  <2> QED
    BY <1>5, <2>1, <2>2, <2>3
<1> QED
  BY <1>6, <1>7, <1>8

LEMMA SidesStep == TableInv /\ SidesInv /\ [FTNext]_ftvars => SidesInv'
<1> SUFFICES ASSUME TableInv, SidesInv, [FTNext]_ftvars PROVE SidesInv'
  OBVIOUS
<1>1. CASE UNCHANGED <<flows, table, handling>>
  BY <1>1 DEF SidesInv, KeyedTable, PacketsSent
<1>2. ASSUME NEW e \in Engines, Prune(e) PROVE SidesInv'
  <2>1. /\ Len(flows) \in Nat /\ \A i \in 1..Len(flows) : SidesOf(flows[i])
        /\ table \in [Engines -> [FlowKeys -> 0..Len(flows)]]
    BY DEF TableInv, Shapes, SidesInv
  <2>2. flows' = flows /\ handling' = handling
    BY <1>2 DEF Prune
  <2>3. PICK gone : table' = [table EXCEPT ![e] = [k \in FlowKeys |-> IF k \in gone THEN NoFlow ELSE table[e][k]]]
    BY <1>2 DEF Prune
  <2>4. \A a \in Engines, k \in FlowKeys : table'[a][k] # NoFlow => table'[a][k] = table[a][k]
    BY <2>1, <2>3
  <2> QED
    BY <2>1, <2>2, <2>4, SidesKept
<1>3. Tick => UNCHANGED <<flows, table, handling>>
  BY DEF Tick
<1> QED
  BY <1>1, <1>2, <1>3, GetOrCreateSides, HandlingSides DEF FTNext, ftvars

\* Whichever packet of a connection comes first, in whatever order the segments are
\* handled, and however often the flow was forgotten and begun anew: what is searched as
\* the client's stream is a contiguous piece of what one end sent, and the server's of
\* what the other did.
THEOREM StreamsNotMixed == FlowSpec => []StreamsOfOneSide
<1>1. TableInv /\ SidesInv => StreamsOfOneSide
  <2> SUFFICES ASSUME TableInv, SidesInv, NEW i \in DOMAIN flows
               PROVE  PieceOf(flows[i].Client.Data, flows[i].Original)
                      /\ PieceOf(flows[i].Server.Data, Other(flows[i]))
    BY DEF StreamsOfOneSide
  <2>1. ASSUME NEW st, NEW s, OneSide(st, s) PROVE PieceOf(st.Data, s)
    <3>1. DOMAIN st.Data = 1..Len(st.Data)
      <4>1. st.Data \in Seq({s} \X Nat)
        BY <2>1, StreamFields
      <4> QED
        BY <4>1
    <3> QED
      BY <2>1, <3>1 DEF OneSide, PieceOf
  <2>2. SidesOf(flows[i])
    <3>1. PICK S : flows \in Seq(S)
      BY DEF TableInv, Shapes
    <3>2. i \in 1..Len(flows)
      BY <3>1
    <3> QED
      BY <3>2 DEF SidesInv
  <2> QED
    BY <2>1, <2>2 DEF SidesOf
<1> QED
  BY <1>1, TableCorrect, SidesInit, SidesStep, PTL DEF FlowSpec

-------------------------------------------------------------------------------
(* The fields of a flow, and what the steps of UpdateFlowML do to them *)

BothAndAll == Directions \cup {"all"}
RunRecords == [packets : Nat, bytes : Nat, start : Int, end : Int]
BulkRecords == [count : Nat, packets : Nat, bytes : Nat, duration : Int]

IsFeatures(f) ==
    /\ f = [run |-> f.run, bulk |-> f.bulk, IATs |-> f.IATs, last |-> f.last,
            packets |-> f.packets, bytes |-> f.bytes,
            ActivePeriods |-> f.ActivePeriods, IdlePeriods |-> f.IdlePeriods,
            ActiveStart |-> f.ActiveStart, ActiveEnd |-> f.ActiveEnd]
    /\ f.run \in [Directions -> RunRecords] /\ f.bulk \in [Directions -> BulkRecords]
    /\ f.IATs \in [BothAndAll -> Seq(Int)] /\ f.last \in [BothAndAll -> Int]
    /\ f.packets \in [Directions -> Nat] /\ f.bytes \in [Directions -> Nat]
    /\ f.ActivePeriods \in Seq(Int) /\ f.IdlePeriods \in Seq(Int)
    /\ f.ActiveStart \in Int /\ f.ActiveEnd \in Int

LEMMA FeatureConstants ==
    /\ IdleGap \in Nat /\ MinBulk \in Nat /\ MinBulk > 0 /\ MaxEntries \in Nat
    /\ Sizes \subseteq Nat /\ Gaps \subseteq Nat
BY FeatureAssumption

LEMMA KeepType ==
    ASSUME NEW list \in Seq(Int), NEW value \in Int
    PROVE  Keep(list, value) \in Seq(Int)
BY DEF Keep

\* The part of the step that a direction, or all, sees of an arrival.
WithArrival(iats, last, now) == IF last = Unset THEN iats ELSE Keep(iats, now - last)

LEMMA ArrivalFields ==
    ASSUME NEW f, IsFeatures(f), NEW x \in BothAndAll, NEW now \in Int
    PROVE  /\ IsFeatures(TrackArrival(f, x, now))
           /\ LET g == TrackArrival(f, x, now)
              IN  /\ g.IATs = [f.IATs EXCEPT ![x] = WithArrival(f.IATs[x], f.last[x], now)]
                  /\ g.last = [f.last EXCEPT ![x] = now]
                  /\ g.run = f.run /\ g.bulk = f.bulk /\ g.packets = f.packets /\ g.bytes = f.bytes
                  /\ g.ActivePeriods = f.ActivePeriods /\ g.IdlePeriods = f.IdlePeriods
                  /\ g.ActiveStart = f.ActiveStart /\ g.ActiveEnd = f.ActiveEnd
<1> PICK iats : iats = [f.IATs EXCEPT ![x] = WithArrival(f.IATs[x], f.last[x], now)]
  OBVIOUS
<1> PICK last : last = [f.last EXCEPT ![x] = now]
  OBVIOUS
<1>1. iats \in [BothAndAll -> Seq(Int)] /\ last \in [BothAndAll -> Int]
  <2>1. f.IATs \in [BothAndAll -> Seq(Int)] /\ f.last \in [BothAndAll -> Int]
    BY DEF IsFeatures
  <2>2. f.IATs[x] \in Seq(Int) /\ f.last[x] \in Int /\ now - f.last[x] \in Int
    BY <2>1
  <2>3. WithArrival(f.IATs[x], f.last[x], now) \in Seq(Int)
    BY <2>2, KeepType DEF WithArrival
  <2> QED
    BY <2>1, <2>3
<1> PICK g : g = [f EXCEPT !.IATs = iats, !.last = last]
  OBVIOUS
<1>2. TrackArrival(f, x, now) = g
  BY DEF TrackArrival, WithArrival
<1>3. g = [run |-> f.run, bulk |-> f.bulk, IATs |-> iats, last |-> last,
           packets |-> f.packets, bytes |-> f.bytes,
           ActivePeriods |-> f.ActivePeriods, IdlePeriods |-> f.IdlePeriods,
           ActiveStart |-> f.ActiveStart, ActiveEnd |-> f.ActiveEnd]
  BY DEF IsFeatures
<1>4. IsFeatures(g)
  BY <1>1, <1>3 DEF IsFeatures
<1> QED
  BY <1>2, <1>3, <1>4

LEMMA ActivityFields ==
    ASSUME NEW f, IsFeatures(f), NEW now \in Int
    PROVE  /\ IsFeatures(TrackActivity(f, now))
           /\ LET g == TrackActivity(f, now)
                  first == f.last["all"] = Unset
                  idles == ~first /\ now - f.last["all"] > IdleGap
              IN  /\ g.ActivePeriods = IF idles THEN Keep(f.ActivePeriods, f.ActiveEnd - f.ActiveStart)
                                       ELSE f.ActivePeriods
                  /\ g.IdlePeriods = IF idles THEN Keep(f.IdlePeriods, now - f.last["all"]) ELSE f.IdlePeriods
                  /\ g.ActiveStart = IF first \/ idles THEN now ELSE f.ActiveStart
                  /\ g.ActiveEnd = now
                  /\ g.run = f.run /\ g.bulk = f.bulk /\ g.packets = f.packets /\ g.bytes = f.bytes
                  /\ g.IATs = f.IATs /\ g.last = f.last
<1> DEFINE first == f.last["all"] = Unset
           idles == ~first /\ now - f.last["all"] > IdleGap
           acts == IF idles THEN Keep(f.ActivePeriods, f.ActiveEnd - f.ActiveStart) ELSE f.ActivePeriods
           idle == IF idles THEN Keep(f.IdlePeriods, now - f.last["all"]) ELSE f.IdlePeriods
           start == IF first \/ idles THEN now ELSE f.ActiveStart
<1>1. acts \in Seq(Int) /\ idle \in Seq(Int) /\ start \in Int
  <2>1. f.last["all"] \in Int /\ f.ActiveEnd \in Int /\ f.ActiveStart \in Int
        /\ f.ActivePeriods \in Seq(Int) /\ f.IdlePeriods \in Seq(Int)
    BY DEF IsFeatures, BothAndAll
  <2>2. f.ActiveEnd - f.ActiveStart \in Int /\ now - f.last["all"] \in Int
    BY <2>1
  <2>3. /\ Keep(f.ActivePeriods, f.ActiveEnd - f.ActiveStart) \in Seq(Int)
        /\ Keep(f.IdlePeriods, now - f.last["all"]) \in Seq(Int)
    BY <2>1, <2>2, KeepType
  <2> QED
    BY <2>1, <2>3
<1>2. TrackActivity(f, now) = [f EXCEPT !.ActivePeriods = acts, !.IdlePeriods = idle, !.ActiveStart = start, !.ActiveEnd = now]
  BY DEF TrackActivity
<1> HIDE DEF acts, idle, start
<1>3. TrackActivity(f, now) =
         [run |-> f.run, bulk |-> f.bulk, IATs |-> f.IATs, last |-> f.last,
          packets |-> f.packets, bytes |-> f.bytes,
          ActivePeriods |-> acts, IdlePeriods |-> idle, ActiveStart |-> start, ActiveEnd |-> now]
  BY <1>2 DEF IsFeatures
<1> PICK g : g = TrackActivity(f, now)
  OBVIOUS
<1>4. IsFeatures(g)
  BY <1>1, <1>3 DEF IsFeatures
<1> QED
  BY <1>3, <1>4 DEF acts, idle, start

\* The run and the bulks of the direction of a packet.
Closes(run, now) == run.packets > 0 /\ now - run.end > IdleGap
Runs(run, size, now) ==
    IF size = 0 THEN run
    ELSE IF Closes(run, now) \/ run.packets = 0
         THEN [packets |-> 1, bytes |-> size, start |-> now, end |-> now]
         ELSE [packets |-> run.packets + 1, bytes |-> run.bytes + size, start |-> run.start, end |-> now]
Closed(bulk, run, size, now) == IF size # 0 /\ Closes(run, now) THEN AddRun(bulk, run) ELSE bulk

LEMMA AddRunType ==
    ASSUME NEW bulk \in BulkRecords, NEW run \in RunRecords
    PROVE  AddRun(bulk, run) \in BulkRecords
<1>1. /\ bulk.count \in Nat /\ bulk.packets \in Nat /\ bulk.bytes \in Nat /\ bulk.duration \in Int
      /\ run.packets \in Nat /\ run.bytes \in Nat /\ run.start \in Int /\ run.end \in Int
  BY DEF BulkRecords, RunRecords
<1>2. /\ bulk.count + 1 \in Nat /\ bulk.packets + run.packets \in Nat
      /\ bulk.bytes + run.bytes \in Nat /\ bulk.duration + run.end - run.start \in Int
  BY <1>1
<1> QED
  BY <1>2 DEF AddRun, BulkRecords

OneMorePacket(r, size, now) == [r EXCEPT !.packets = @ + 1, !.bytes = @ + size, !.end = now]

LEMMA RunOfOneMore ==
    ASSUME NEW a, NEW b, NEW start, NEW end, NEW size, NEW now,
           NEW r, r = [packets |-> a, bytes |-> b, start |-> start, end |-> end]
    PROVE  OneMorePacket(r, size, now)
             = [packets |-> a + 1, bytes |-> b + size, start |-> start, end |-> now]
<1> PICK x : x = a + 1
  OBVIOUS
<1> PICK y : y = b + size
  OBVIOUS
<1>1. r.packets + 1 = x /\ r.bytes + size = y
  OBVIOUS
<1>2. [r EXCEPT !.packets = x, !.bytes = y, !.end = now]
         = [[[r EXCEPT !.packets = x] EXCEPT !.bytes = y] EXCEPT !.end = now]
  OBVIOUS
<1>3. [r EXCEPT !.packets = x] = [packets |-> x, bytes |-> b, start |-> start, end |-> end]
  OBVIOUS
<1>4. [[packets |-> x, bytes |-> b, start |-> start, end |-> end] EXCEPT !.bytes = y]
         = [packets |-> x, bytes |-> y, start |-> start, end |-> end]
  OBVIOUS
<1>5. [[packets |-> x, bytes |-> y, start |-> start, end |-> end] EXCEPT !.end = now]
         = [packets |-> x, bytes |-> y, start |-> start, end |-> now]
  OBVIOUS
<1> QED
  BY <1>1, <1>2, <1>3, <1>4, <1>5, Zenon DEF OneMorePacket

LEMMA BulkFields ==
    ASSUME NEW f, IsFeatures(f), NEW d \in Directions, NEW size \in Nat, NEW now \in Int
    PROVE  /\ IsFeatures(TrackBulk(f, d, size, now))
           /\ LET g == TrackBulk(f, d, size, now)
              IN  /\ g.run = [f.run EXCEPT ![d] = Runs(f.run[d], size, now)]
                  /\ g.bulk = [f.bulk EXCEPT ![d] = Closed(f.bulk[d], f.run[d], size, now)]
                  /\ g.IATs = f.IATs /\ g.last = f.last /\ g.packets = f.packets /\ g.bytes = f.bytes
                  /\ g.ActivePeriods = f.ActivePeriods /\ g.IdlePeriods = f.IdlePeriods
                  /\ g.ActiveStart = f.ActiveStart /\ g.ActiveEnd = f.ActiveEnd
<1>1. f.run \in [Directions -> RunRecords] /\ f.bulk \in [Directions -> BulkRecords]
  BY DEF IsFeatures
<1>2. f.run[d] \in RunRecords /\ f.bulk[d] \in BulkRecords
  BY <1>1
<1> PICK r : r = f.run[d]
  OBVIOUS
<1>3. /\ r.packets \in Nat /\ r.bytes \in Nat /\ r.start \in Int /\ r.end \in Int
      /\ r = [packets |-> r.packets, bytes |-> r.bytes, start |-> r.start, end |-> r.end]
  BY <1>2 DEF RunRecords
<1>4. CASE size = 0
  <2>1. TrackBulk(f, d, size, now) = f
    BY <1>4 DEF TrackBulk
  <2>2. f.run = [f.run EXCEPT ![d] = Runs(f.run[d], size, now)]
    BY <1>1, <1>4 DEF Runs
  <2>3. f.bulk = [f.bulk EXCEPT ![d] = Closed(f.bulk[d], f.run[d], size, now)]
    BY <1>1, <1>4 DEF Closed
  <2> QED
    BY <2>1, <2>2, <2>3
<1>5. CASE size # 0
  <2> DEFINE closes == f.run[d].packets > 0 /\ now - f.run[d].end > IdleGap
             run == IF closes \/ f.run[d].packets = 0 THEN [NoRun EXCEPT !.start = now] ELSE f.run[d]
             bulk == IF closes THEN AddRun(f.bulk[d], f.run[d]) ELSE f.bulk[d]
             more == OneMorePacket(run, size, now)
  <2>1. bulk = Closed(f.bulk[d], f.run[d], size, now)
    BY <1>5 DEF Closed, Closes
  <2>2. more = Runs(f.run[d], size, now)
    <3>1. CASE closes \/ r.packets = 0
      <4>1. run = [packets |-> 0, bytes |-> 0, start |-> now, end |-> Unset]
        BY <3>1 DEF NoRun
      <4>2. more = [packets |-> 0 + 1, bytes |-> 0 + size, start |-> now, end |-> now]
        <5> HIDE DEF run
        <5>1. OneMorePacket([packets |-> 0, bytes |-> 0, start |-> now, end |-> Unset], size, now)
                 = [packets |-> 0 + 1, bytes |-> 0 + size, start |-> now, end |-> now]
          BY RunOfOneMore
        <5> QED
          BY <4>1, <5>1, Zenon
      <4> QED
        BY <1>5, <3>1, <4>2 DEF Runs, Closes
    <3>2. CASE ~(closes \/ r.packets = 0)
      <4>1. run = r
        BY <3>2
      <4>2. more = [packets |-> r.packets + 1, bytes |-> r.bytes + size, start |-> r.start, end |-> now]
        <5> HIDE DEF run
        <5>1. OneMorePacket(r, size, now)
                 = [packets |-> r.packets + 1, bytes |-> r.bytes + size, start |-> r.start, end |-> now]
          BY <1>3, RunOfOneMore
        <5> QED
          BY <4>1, <5>1, Zenon
      <4> QED
        BY <1>5, <3>2, <4>2 DEF Runs, Closes
    <3> QED
      BY <3>1, <3>2
  <2>3. more \in RunRecords /\ bulk \in BulkRecords
    <3>1. more \in RunRecords
      <4>1. size \in Nat /\ now \in Int /\ 1 \in Nat /\ r.packets + 1 \in Nat /\ r.bytes + size \in Nat
        BY <1>3
      <4> HIDE DEF more
      <4> QED
        BY <1>3, <1>5, <2>2, <4>1 DEF Runs, RunRecords
    <3>2. bulk \in BulkRecords
      BY <1>2, AddRunType
    <3> QED
      BY <3>1, <3>2
  <2>4. TrackBulk(f, d, size, now) =
           [f EXCEPT !.bulk = [f.bulk EXCEPT ![d] = bulk], !.run = [f.run EXCEPT ![d] = more]]
    BY <1>5 DEF TrackBulk, OneMorePacket
  <2> HIDE DEF closes, run, bulk, more
  <2> PICK g : g = TrackBulk(f, d, size, now)
    OBVIOUS
  <2> PICK bulks : bulks = [f.bulk EXCEPT ![d] = bulk]
    OBVIOUS
  <2> PICK runs : runs = [f.run EXCEPT ![d] = more]
    OBVIOUS
  <2>5. bulks \in [Directions -> BulkRecords] /\ runs \in [Directions -> RunRecords]
    BY <1>1, <2>3
  <2>6. g = [run |-> runs, bulk |-> bulks, IATs |-> f.IATs, last |-> f.last,
             packets |-> f.packets, bytes |-> f.bytes,
             ActivePeriods |-> f.ActivePeriods, IdlePeriods |-> f.IdlePeriods,
             ActiveStart |-> f.ActiveStart, ActiveEnd |-> f.ActiveEnd]
    BY <2>4 DEF IsFeatures
  <2>7. IsFeatures(g)
    BY <2>5, <2>6 DEF IsFeatures
  <2> QED
    BY <2>1, <2>2, <2>6, <2>7
<1> QED
  BY <1>4, <1>5

Counted(f, d, size) == [f EXCEPT !.packets[d] = @ + 1, !.bytes[d] = @ + size]

LEMMA CountedFields ==
    ASSUME NEW f, IsFeatures(f), NEW d \in Directions, NEW size \in Nat
    PROVE  LET g == Counted(f, d, size)
           IN  /\ IsFeatures(g)
               /\ g.run = f.run /\ g.bulk = f.bulk /\ g.IATs = f.IATs /\ g.last = f.last
               /\ g.ActivePeriods = f.ActivePeriods /\ g.IdlePeriods = f.IdlePeriods
               /\ g.ActiveStart = f.ActiveStart /\ g.ActiveEnd = f.ActiveEnd
<1> PICK packets : packets = [f.packets EXCEPT ![d] = @ + 1]
  OBVIOUS
<1> PICK bytes : bytes = [f.bytes EXCEPT ![d] = @ + size]
  OBVIOUS
<1>1. packets \in [Directions -> Nat] /\ bytes \in [Directions -> Nat]
  BY DEF IsFeatures
<1> PICK g : g = [f EXCEPT !.packets = packets, !.bytes = bytes]
  OBVIOUS
<1>2. g = Counted(f, d, size)
  BY DEF Counted
<1>3. g = [run |-> f.run, bulk |-> f.bulk, IATs |-> f.IATs, last |-> f.last,
           packets |-> packets, bytes |-> bytes,
           ActivePeriods |-> f.ActivePeriods, IdlePeriods |-> f.IdlePeriods,
           ActiveStart |-> f.ActiveStart, ActiveEnd |-> f.ActiveEnd]
  BY DEF IsFeatures
<1>4. IsFeatures(g)
  BY <1>1, <1>3 DEF IsFeatures
<1>5. /\ g.run = f.run /\ g.bulk = f.bulk /\ g.IATs = f.IATs /\ g.last = f.last
      /\ g.ActivePeriods = f.ActivePeriods /\ g.IdlePeriods = f.IdlePeriods
      /\ g.ActiveStart = f.ActiveStart /\ g.ActiveEnd = f.ActiveEnd
  BY <1>3
<1> QED
  BY <1>2, <1>4, <1>5, Zenon

\* What a packet of direction d does to the flow f.
Updated(f, n, d, size, now) ==
    LET first == f.last["all"] = Unset
        idles == ~first /\ now - f.last["all"] > IdleGap
    IN  /\ n.run = [f.run EXCEPT ![d] = Runs(f.run[d], size, now)]
        /\ n.bulk = [f.bulk EXCEPT ![d] = Closed(f.bulk[d], f.run[d], size, now)]
        /\ \A x \in BothAndAll :
             /\ n.IATs[x] = IF x \in {d, "all"} THEN WithArrival(f.IATs[x], f.last[x], now) ELSE f.IATs[x]
             /\ n.last[x] = IF x \in {d, "all"} THEN now ELSE f.last[x]
        /\ n.ActivePeriods = IF idles THEN Keep(f.ActivePeriods, f.ActiveEnd - f.ActiveStart) ELSE f.ActivePeriods
        /\ n.IdlePeriods = IF idles THEN Keep(f.IdlePeriods, now - f.last["all"]) ELSE f.IdlePeriods
        /\ n.ActiveStart = IF first \/ idles THEN now ELSE f.ActiveStart
        /\ n.ActiveEnd = now

LEMMA FeatureFields ==
    ASSUME NEW f, IsFeatures(f), NEW d \in Directions, NEW size \in Nat, NEW now \in Int
    PROVE  IsFeatures(UpdateFlowML(f, d, size, now)) /\ Updated(f, UpdateFlowML(f, d, size, now), d, size, now)
<1> PICK c : c = Counted(f, d, size)
  OBVIOUS
<1> PICK a : a = TrackActivity(c, now)
  OBVIOUS
<1> PICK b : b = TrackArrival(a, "all", now)
  OBVIOUS
<1> PICK e : e = TrackArrival(b, d, now)
  OBVIOUS
<1> PICK n : n = TrackBulk(e, d, size, now)
  OBVIOUS
<1>1. UpdateFlowML(f, d, size, now) = n
  BY DEF UpdateFlowML, Counted
<1>2. d \in BothAndAll /\ "all" \in BothAndAll /\ d # "all"
  BY DEF BothAndAll, Directions
<1>3. /\ IsFeatures(c)
      /\ c.run = f.run /\ c.bulk = f.bulk /\ c.IATs = f.IATs /\ c.last = f.last
      /\ c.ActivePeriods = f.ActivePeriods /\ c.IdlePeriods = f.IdlePeriods
      /\ c.ActiveStart = f.ActiveStart /\ c.ActiveEnd = f.ActiveEnd
  BY CountedFields
<1> DEFINE first == f.last["all"] = Unset
           idles == ~first /\ now - f.last["all"] > IdleGap
<1>4. /\ IsFeatures(a)
      /\ a.ActivePeriods = IF idles THEN Keep(f.ActivePeriods, f.ActiveEnd - f.ActiveStart) ELSE f.ActivePeriods
      /\ a.IdlePeriods = IF idles THEN Keep(f.IdlePeriods, now - f.last["all"]) ELSE f.IdlePeriods
      /\ a.ActiveStart = IF first \/ idles THEN now ELSE f.ActiveStart
      /\ a.ActiveEnd = now
      /\ a.run = f.run /\ a.bulk = f.bulk /\ a.IATs = f.IATs /\ a.last = f.last
  <2> DEFINE firstOf(g) == g.last["all"] = Unset
             idlesOf(g) == ~firstOf(g) /\ now - g.last["all"] > IdleGap
  <2>1. IsFeatures(a)
    BY <1>3, ActivityFields
  <2>2. /\ a.ActivePeriods = IF idlesOf(c) THEN Keep(c.ActivePeriods, c.ActiveEnd - c.ActiveStart)
                             ELSE c.ActivePeriods
        /\ a.IdlePeriods = IF idlesOf(c) THEN Keep(c.IdlePeriods, now - c.last["all"]) ELSE c.IdlePeriods
        /\ a.ActiveStart = IF firstOf(c) \/ idlesOf(c) THEN now ELSE c.ActiveStart
        /\ a.ActiveEnd = now
        /\ a.run = c.run /\ a.bulk = c.bulk /\ a.IATs = c.IATs /\ a.last = c.last
    <3>1. IsFeatures(c)
      BY <1>3
    <3> HIDE DEF first, idles
    <3> QED
      BY <3>1, ActivityFields, ZenonT(40)
  <2>3. idlesOf(c) = idles /\ firstOf(c) = first
    BY <1>3, Zenon
  <2> HIDE DEF idlesOf, firstOf, first, idles
  <2> QED
    BY <1>3, <2>1, <2>2, <2>3, Zenon
<1>5. /\ IsFeatures(b)
      /\ b.IATs = [f.IATs EXCEPT !["all"] = WithArrival(f.IATs["all"], f.last["all"], now)]
      /\ b.last = [f.last EXCEPT !["all"] = now]
      /\ b.run = f.run /\ b.bulk = f.bulk
      /\ b.ActivePeriods = a.ActivePeriods /\ b.IdlePeriods = a.IdlePeriods
      /\ b.ActiveStart = a.ActiveStart /\ b.ActiveEnd = a.ActiveEnd
  BY <1>2, <1>4, ArrivalFields
<1>6. /\ IsFeatures(e)
      /\ e.IATs = [b.IATs EXCEPT ![d] = WithArrival(b.IATs[d], b.last[d], now)]
      /\ e.last = [b.last EXCEPT ![d] = now]
      /\ e.run = f.run /\ e.bulk = f.bulk
      /\ e.ActivePeriods = a.ActivePeriods /\ e.IdlePeriods = a.IdlePeriods
      /\ e.ActiveStart = a.ActiveStart /\ e.ActiveEnd = a.ActiveEnd
  BY <1>2, <1>5, ArrivalFields
<1>7. /\ IsFeatures(n)
      /\ n.run = [f.run EXCEPT ![d] = Runs(f.run[d], size, now)]
      /\ n.bulk = [f.bulk EXCEPT ![d] = Closed(f.bulk[d], f.run[d], size, now)]
      /\ n.IATs = e.IATs /\ n.last = e.last
      /\ n.ActivePeriods = a.ActivePeriods /\ n.IdlePeriods = a.IdlePeriods
      /\ n.ActiveStart = a.ActiveStart /\ n.ActiveEnd = a.ActiveEnd
  BY <1>6, BulkFields
<1>8. DOMAIN f.IATs = BothAndAll /\ DOMAIN f.last = BothAndAll
  BY DEF IsFeatures
<1>9. b.IATs[d] = f.IATs[d] /\ b.last[d] = f.last[d] /\ DOMAIN b.IATs = BothAndAll /\ DOMAIN b.last = BothAndAll
  BY <1>2, <1>5, <1>8
<1>10. \A x \in BothAndAll :
             /\ n.IATs[x] = IF x \in {d, "all"} THEN WithArrival(f.IATs[x], f.last[x], now) ELSE f.IATs[x]
             /\ n.last[x] = IF x \in {d, "all"} THEN now ELSE f.last[x]
  <2> TAKE x \in BothAndAll
  <2>1. n.IATs[x] = IF x = d THEN WithArrival(f.IATs[d], f.last[d], now) ELSE b.IATs[x]
    BY <1>6, <1>7, <1>9
  <2>2. b.IATs[x] = IF x = "all" THEN WithArrival(f.IATs["all"], f.last["all"], now) ELSE f.IATs[x]
    BY <1>5, <1>8
  <2>3. n.last[x] = IF x = d THEN now ELSE b.last[x]
    BY <1>6, <1>7, <1>9
  <2>4. b.last[x] = IF x = "all" THEN now ELSE f.last[x]
    BY <1>5, <1>8
  <2> QED
    BY <1>2, <2>1, <2>2, <2>3, <2>4
<1>11. Updated(f, n, d, size, now)
  BY <1>4, <1>7, <1>10, Zenon DEF Updated
<1> QED
  BY <1>1, <1>7, <1>11

-------------------------------------------------------------------------------
(* The log and the times between its packets *)

Packets == [dir : Directions, size : Sizes, at : Nat]
InOrder(p) == \A i, j \in DOMAIN p : i <= j => p[i].at <= p[j].at

\* q has one packet more than p, at the place m, not earlier than those of p.
OneLater(p, q, m) ==
    /\ m = Len(p) + 1 /\ p \in Seq(Packets) /\ q \in Seq(Packets) /\ Len(q) = Len(p) + 1
    /\ \A i \in 1..Len(p) : q[i] = p[i]
    /\ InOrder(p) /\ InOrder(q)

LEMMA PacketFields ==
    ASSUME NEW p \in Seq(Packets), NEW i \in DOMAIN p
    PROVE  /\ p[i].dir \in Directions /\ p[i].size \in Nat /\ p[i].at \in Nat
           /\ i \in Nat /\ DOMAIN p = 1..Len(p) /\ Len(p) \in Nat
<1>1. i \in 1..Len(p) /\ Len(p) \in Nat /\ DOMAIN p = 1..Len(p)
  OBVIOUS
<1> PICK e : e = p[i]
  OBVIOUS
<1>2. e \in Packets
  BY <1>1, ElementOfSeq
<1>3. e.dir \in Directions /\ e.size \in Sizes /\ e.at \in Nat
  BY <1>2 DEF Packets
<1>4. e.size \in Nat
  BY <1>3, FeatureConstants
<1> QED
  BY <1>1, <1>3, <1>4

\* What OneLater says of places.
PlacesOf(p, q, m) ==
    /\ m \in Nat /\ DOMAIN p = 1..(m - 1) /\ DOMAIN q = 1..m
    /\ DOMAIN q = DOMAIN p \cup {m} /\ m \notin DOMAIN p
    /\ \A i \in DOMAIN p : i \in Nat /\ 1 <= i /\ i < m /\ q[i] = p[i] /\ q[i].at \in Nat /\ q[i].size \in Nat
    /\ q[m].at \in Nat /\ q[m].size \in Nat
    /\ \A i, j \in DOMAIN q : i <= j => q[i].at <= q[j].at

LEMMA Places ==
    ASSUME NEW p, NEW q, NEW m, OneLater(p, q, m)
    PROVE  PlacesOf(p, q, m)
<1>1. /\ p \in Seq(Packets) /\ q \in Seq(Packets) /\ Len(q) = Len(p) + 1 /\ m = Len(p) + 1 /\ InOrder(q)
      /\ \A i \in 1..Len(p) : q[i] = p[i]
  BY DEF OneLater
<1>2. Len(p) \in Nat /\ m \in Nat /\ DOMAIN p = 1..(m - 1) /\ DOMAIN q = 1..m
  BY <1>1
<1>3. DOMAIN q = DOMAIN p \cup {m} /\ m \notin DOMAIN p
  <2>1. m >= 1
    BY <1>1
  <2> QED
    BY <1>2, <2>1
<1>4. \A i \in DOMAIN q : q[i].at \in Nat /\ q[i].size \in Nat
  BY <1>1, PacketFields
<1>5. \A i \in DOMAIN p : i \in Nat /\ 1 <= i /\ i < m /\ q[i] = p[i]
  BY <1>1, <1>2
<1> QED
  BY <1>1, <1>2, <1>3, <1>4, <1>5 DEF InOrder, PlacesOf

LEMMA GreatestPlace ==
    ASSUME NEW P, NEW m \in Nat, \A i \in P : i \in Nat /\ i < m
    PROVE  Max(P \cup {m}) = m
<1> PICK Q : Q = P \cup {m}
  OBVIOUS
<1>1. Q \subseteq Int /\ Q # {} /\ m \in Int /\ \A y \in Q : y <= m
  OBVIOUS
<1>2. Max(Q) \in Q /\ \A y \in Q : y <= Max(Q)
  BY <1>1, MaxOf
<1>3. m \in Q /\ \A y \in Q : y \in Int
  BY <1>1
<1>4. Max(Q) = m
  <2> PICK g : g = Max(Q)
    OBVIOUS
  <2>1. g \in Int /\ g <= m /\ m <= g
    BY <1>1, <1>2, <1>3
  <2> QED
    BY <2>1
<1> QED
  BY <1>4, Zenon

LEMMA LeastPlace ==
    ASSUME NEW P, P # {}, NEW m \in Nat, \A i \in P : i \in Nat /\ i < m
    PROVE  Min(P \cup {m}) = Min(P) /\ Min(P) \in P
<1> PICK Q : Q = P \cup {m}
  OBVIOUS
<1>1. Q \subseteq Nat /\ Q # {} /\ P \subseteq Nat
  OBVIOUS
<1>2. Min(Q) \in Q /\ \A y \in Q : Min(Q) <= y
  BY <1>1, MinOf
<1>3. Min(P) \in P /\ \A y \in P : Min(P) <= y
  BY <1>1, MinOf
<1>4. Min(P) \in Q /\ Min(P) < m /\ Min(P) \in Nat /\ Min(Q) \in Nat
  BY <1>1, <1>2, <1>3
<1>5. Min(Q) <= Min(P) /\ Min(Q) # m
  BY <1>2, <1>4
<1>6. Min(Q) = Min(P)
  BY <1>2, <1>3, <1>4, <1>5
<1> QED
  BY <1>3, <1>6, Zenon

LEMMA OnlyPlace ==
    ASSUME NEW m \in Nat
    PROVE  Max({m}) = m /\ Min({m}) = m
BY DEF Max, Min

ArrivalInv(p, P, iats, last) ==
    /\ iats \in Seq(Int) /\ Len(iats) <= MaxEntries
    /\ \/ P = {} /\ last = Unset /\ iats = <<>>
       \/ /\ P # {} /\ last = p[Max(P)].at
          /\ Len(iats) < MaxEntries => Total(iats) = SpanOf(p, P)

\* A packet that does not count changes nothing.
LEMMA NoArrival ==
    ASSUME NEW p, NEW q, NEW m, OneLater(p, q, m), NEW P, P \subseteq DOMAIN p, NEW iats, NEW last,
           ArrivalInv(p, P, iats, last)
    PROVE  ArrivalInv(q, P, iats, last)
<1>p. PlacesOf(p, q, m)
  BY Places
<1>0. m \in Nat /\ \A i \in DOMAIN p : i \in Nat /\ 1 <= i /\ i < m /\ q[i] = p[i]
  BY <1>p DEF PlacesOf
<1>1. \A i \in P : i \in Nat /\ i < m /\ q[i] = p[i]
  BY <1>0
<1>2. m \in Nat
  BY <1>0
<1>3. CASE P = {}
  BY <1>3 DEF ArrivalInv, SpanOf
<1>4. CASE P # {}
  <2>1. Min(P) \in P
    BY <1>1, <1>4, MinOf
  <2>2. Max(P) \in P
    <3>1. P \subseteq Int /\ m \in Int /\ \A y \in P : y <= m
      BY <1>1, <1>2
    <3> QED
      BY <1>4, <3>1, MaxOf
  <2>3. q[Max(P)] = p[Max(P)] /\ SpanOf(q, P) = SpanOf(p, P)
    BY <1>1, <2>1, <2>2 DEF SpanOf
  <2> QED
    BY <2>3 DEF ArrivalInv
<1> QED
  BY <1>3, <1>4

LEMMA OneArrival ==
    ASSUME NEW p, NEW q, NEW m, OneLater(p, q, m),
           NEW P, P \subseteq DOMAIN p, NEW iats, NEW last, ArrivalInv(p, P, iats, last)
    PROVE  ArrivalInv(q, P \cup {m}, WithArrival(iats, last, q[m].at), q[m].at)
<1>p. PlacesOf(p, q, m)
  BY Places
<1>0. /\ \A i \in DOMAIN p : i \in Nat /\ 1 <= i /\ i < m /\ q[i] = p[i] /\ q[i].at \in Nat
      /\ m \in Nat /\ q[m].at \in Nat
  BY <1>p DEF PlacesOf
<1>1. /\ \A i \in P : i \in Nat /\ i < m /\ q[i] = p[i] /\ q[i].at \in Nat
      /\ m \in Nat /\ q[m].at \in Nat
  BY <1>0
<1> PICK Q : Q = P \cup {m}
  OBVIOUS
<1>2. Max(Q) = m /\ Q # {}
  BY <1>1, GreatestPlace
<1> PICK now : now = q[m].at
  OBVIOUS
<1> PICK nt : nt = WithArrival(iats, last, now)
  OBVIOUS
<1>3. iats \in Seq(Int) /\ Len(iats) <= MaxEntries /\ Len(iats) \in Nat
  BY DEF ArrivalInv
<1>4. CASE P = {}
  <2>1. last = Unset /\ iats = <<>>
    BY <1>4 DEF ArrivalInv
  <2>2. nt = <<>> /\ Len(nt) = 0 /\ nt \in Seq(Int)
    BY <2>1 DEF WithArrival
  <2>3. SpanOf(q, Q) = 0
    <3>1. Max(Q) = m /\ Min(Q) = m
      BY <1>1, <1>4, OnlyPlace
    <3> QED
      BY <1>1, <1>2, <3>1 DEF SpanOf
  <2>4. Total(nt) = 0
    BY <2>2, SumOfEmptySeq DEF Total
  <2> QED
    BY <1>2, <2>2, <2>3, <2>4, FeatureConstants DEF ArrivalInv
<1>5. CASE P # {}
  <2>1. Min(Q) = Min(P) /\ Min(P) \in P
    BY <1>1, <1>5, LeastPlace
  <2>2. Max(P) \in P
    <3>1. P \subseteq Int /\ m \in Int /\ \A y \in P : y <= m
      BY <1>1
    <3> QED
      BY <1>5, <3>1, MaxOf
  <2>3. last = p[Max(P)].at /\ (Len(iats) < MaxEntries => Total(iats) = SpanOf(p, P))
    BY <1>5 DEF ArrivalInv
  <2>4. last \in Nat /\ last = q[Max(P)].at
    BY <1>1, <2>2, <2>3
  <2>5. last # Unset /\ now - last \in Int /\ now \in Nat
    BY <1>1, <2>4 DEF Unset
  <2>6. nt = IF Len(iats) < MaxEntries THEN Append(iats, now - last) ELSE iats
    BY <2>5 DEF WithArrival, Keep
  <2>7. CASE Len(iats) < MaxEntries
    <3>1. nt \in Seq(Int) /\ Len(nt) = Len(iats) + 1
      BY <1>3, <2>5, <2>6, <2>7, AppendProperties
    <3>2. Total(nt) = Total(iats) + (now - last)
      BY <1>3, <2>5, <2>6, <2>7, SumOfAppend DEF Total
    <3>3. SpanOf(p, P) = last - q[Min(P)].at /\ SpanOf(q, Q) = now - q[Min(P)].at
      BY <1>1, <1>2, <1>5, <2>1, <2>3 DEF SpanOf
    <3>4. q[Min(P)].at \in Nat
      BY <1>1, <2>1
    <3>5. Total(nt) = SpanOf(q, Q)
      BY <2>3, <2>4, <2>5, <2>7, <3>2, <3>3, <3>4
    <3>6. Len(nt) <= MaxEntries
      BY <1>3, <2>7, <3>1, FeatureConstants
    <3> QED
      BY <1>2, <3>1, <3>5, <3>6 DEF ArrivalInv
  <2>8. CASE ~(Len(iats) < MaxEntries)
    BY <1>2, <1>3, <2>6, <2>8 DEF ArrivalInv
  <2> QED
    BY <2>7, <2>8
<1> QED
  BY <1>4, <1>5

-------------------------------------------------------------------------------
(* Activity *)

\* Activity and silence add up to the time since o.
AddUp(acts, idles, o, start, end) == acts + (end - start) + idles = end - o

ActivityInv(p, act, idle, start, end) ==
    /\ act \in Seq(Int) /\ idle \in Seq(Int) /\ Len(act) = Len(idle) /\ Len(act) <= MaxEntries
    /\ \A i \in 1..Len(act) : act[i] \in Nat /\ idle[i] \in Nat
    /\ \/ p = <<>> /\ start = Unset /\ end = Unset /\ act = <<>> /\ idle = <<>>
       \/ /\ p # <<>> /\ end = p[Len(p)].at /\ start \in Nat /\ start <= end
          /\ Len(idle) < MaxEntries =>
               AddUp(Total(act), Total(idle), p[1].at, start, end)

LEMMA FirstActivity ==
    ASSUME NEW p, NEW q, NEW m, OneLater(p, q, m), p = <<>>, NEW act, NEW idle, NEW start, NEW end,
           ActivityInv(p, act, idle, start, end)
    PROVE  ActivityInv(q, act, idle, q[1].at, q[1].at)
<1>1. act = <<>> /\ idle = <<>> /\ Len(act) = 0
  BY DEF ActivityInv
<1>2. Len(q) = 1 /\ q # <<>> /\ q[1].at \in Nat
  <2>1. Len(q) = 1 /\ q \in Seq(Packets)
    BY DEF OneLater
  <2>2. 1 \in DOMAIN q
    BY <2>1
  <2> QED
    BY <2>1, <2>2, PacketFields
<1>3. Total(act) = 0 /\ Total(idle) = 0
  BY <1>1, SumOfEmptySeq DEF Total
<1>4. AddUp(Total(act), Total(idle), q[1].at, q[1].at, q[1].at)
  BY <1>2, <1>3 DEF AddUp
<1> QED
  BY <1>1, <1>2, <1>4 DEF ActivityInv

LEMMA AppendNumber ==
    ASSUME NEW s \in Seq(Int), NEW e \in Int, NEW t, t = Append(s, e)
    PROVE  /\ t \in Seq(Int) /\ Len(t) = Len(s) + 1 /\ t[Len(s) + 1] = e
           /\ \A i \in 1..Len(s) : t[i] = s[i]
BY AppendProperties

LEMMA ShiftedSum ==
    ASSUME NEW ta \in Int, NEW ti \in Int, NEW o \in Int, NEW start \in Int, NEW end \in Int,
           NEW now \in Int, AddUp(ta, ti, o, start, end)
    PROVE  /\ AddUp(ta, ti, o, start, now)
           /\ AddUp(ta + (end - start), ti + (now - end), o, now, now)
BY DEF AddUp

\* Two lists of the same length, of naturals.
BothLists(a, b) ==
    /\ a \in Seq(Int) /\ b \in Seq(Int) /\ Len(a) = Len(b) /\ Len(a) <= MaxEntries
    /\ \A i \in 1..Len(a) : a[i] \in Nat /\ b[i] \in Nat

LEMMA KeepBoth ==
    ASSUME NEW act, NEW idle, BothLists(act, idle), NEW x \in Nat, NEW y \in Nat
    PROVE  /\ BothLists(Keep(act, x), Keep(idle, y))
           /\ Len(Keep(idle, y)) < MaxEntries =>
                /\ Len(idle) < MaxEntries
                /\ Total(Keep(act, x)) = Total(act) + x /\ Total(Keep(idle, y)) = Total(idle) + y
<1> PICK a : a = Keep(act, x)
  OBVIOUS
<1> PICK b : b = Keep(idle, y)
  OBVIOUS
<1>1. /\ act \in Seq(Int) /\ idle \in Seq(Int) /\ Len(act) = Len(idle) /\ Len(act) <= MaxEntries
      /\ Len(act) \in Nat /\ Len(idle) \in Nat
      /\ \A i \in 1..Len(act) : act[i] \in Nat /\ idle[i] \in Nat
  BY DEF BothLists
<1>2. CASE Len(act) < MaxEntries
  <2>1. a = Append(act, x) /\ b = Append(idle, y)
    BY <1>1, <1>2 DEF Keep
  <2>2. /\ a \in Seq(Int) /\ Len(a) = Len(act) + 1 /\ a[Len(act) + 1] = x
        /\ \A i \in 1..Len(act) : a[i] = act[i]
    BY <1>1, <2>1, AppendNumber
  <2>3. /\ b \in Seq(Int) /\ Len(b) = Len(idle) + 1 /\ b[Len(idle) + 1] = y
        /\ \A i \in 1..Len(idle) : b[i] = idle[i]
    BY <1>1, <2>1, AppendNumber
  <2>4. ASSUME NEW i \in 1..Len(a) PROVE a[i] \in Nat /\ b[i] \in Nat
    <3>1. CASE i = Len(act) + 1
      BY <1>1, <2>2, <2>3, <3>1
    <3>2. CASE i # Len(act) + 1
      <4>1. i \in 1..Len(act)
        BY <1>1, <2>2, <3>2
      <4> QED
        BY <1>1, <2>2, <2>3, <4>1
    <3> QED
      BY <3>1, <3>2
  <2>5. Total(a) = Total(act) + x /\ Total(b) = Total(idle) + y
    <3>1. x \in Int /\ y \in Int
      OBVIOUS
    <3>2. SumFunction(Append(act, x)) = SumFunction(act) + x /\ SumFunction(Append(idle, y)) = SumFunction(idle) + y
      BY <1>1, <3>1, SumOfAppend
    <3> QED
      BY <2>1, <3>2 DEF Total
  <2>6. Len(a) = Len(b) /\ Len(a) <= MaxEntries
    BY <1>1, <1>2, <2>2, <2>3, FeatureConstants
  <2>7. BothLists(a, b)
    BY <2>2, <2>3, <2>4, <2>6 DEF BothLists
  <2> QED
    BY <1>1, <1>2, <2>5, <2>7
<1>3. CASE ~(Len(act) < MaxEntries)
  <2>1. a = act /\ b = idle
    BY <1>1, <1>3 DEF Keep
  <2> QED
    BY <1>1, <1>3, <2>1
<1> QED
  BY <1>2, <1>3

AtPlace(q, m, now) == now = q[m].at

LEMMA Differences ==
    ASSUME NEW i \in Nat, NEW j \in Nat, NEW k \in Nat, i <= j, j <= k
    PROVE  i <= k /\ j - i \in Nat /\ k - j \in Nat /\ j - i \in Int /\ k - j \in Int
OBVIOUS

LEMMA NaturalIsInteger == \A n \in Nat : n \in Int
OBVIOUS

LEMMA NextActivity ==
    ASSUME NEW p, NEW q, NEW m, OneLater(p, q, m), p # <<>>,
           NEW act, NEW idle, NEW start, NEW end,
           ActivityInv(p, act, idle, start, end), NEW now, AtPlace(q, m, now)
    PROVE  /\ ActivityInv(q, act, idle, start, now)
           /\ ActivityInv(q, Keep(act, end - start), Keep(idle, now - end), now, now)
<1>1. /\ Len(p) \in Nat /\ Len(p) > 0 /\ Len(q) = m /\ m \in Nat /\ now \in Nat /\ q # <<>>
      /\ p[1] = q[1] /\ p[Len(p)] = q[Len(p)] /\ q[1].at \in Nat /\ q[Len(p)].at \in Nat
      /\ q[Len(p)].at <= now /\ now = q[m].at
  <2>1. p \in Seq(Packets) /\ q \in Seq(Packets) /\ Len(q) = m
    BY DEF OneLater
  <2>2. Len(p) \in Nat /\ Len(p) > 0 /\ DOMAIN p = 1..Len(p)
    BY <2>1
  <2>3. 1 \in DOMAIN p /\ Len(p) \in DOMAIN p
    BY <2>2
  <2>q. PlacesOf(p, q, m)
    BY Places
  <2>p. /\ \A i \in DOMAIN p : i \in Nat /\ 1 <= i /\ i < m /\ q[i] = p[i] /\ q[i].at \in Nat
        /\ m \in Nat /\ q[m].at \in Nat /\ DOMAIN q = 1..m
        /\ \A i, j \in DOMAIN q : i <= j => q[i].at <= q[j].at
    BY <2>q DEF PlacesOf
  <2>4. /\ p[1] = q[1] /\ p[Len(p)] = q[Len(p)] /\ q[1].at \in Nat /\ q[Len(p)].at \in Nat
        /\ m \in Nat /\ q[m].at \in Nat
    BY <2>3, <2>p
  <2>8. now = q[m].at
    BY DEF AtPlace
  <2>5. Len(p) \in DOMAIN q /\ m \in DOMAIN q /\ Len(p) <= m
    BY <2>2, <2>p
  <2>6. q[Len(p)].at <= q[m].at
    BY <2>5, <2>p
  <2>7. q # <<>>
    <3>1. Len(q) = Len(p) + 1
      BY DEF OneLater
    <3>2. Len(q) # 0
      BY <2>2, <3>1
    <3> QED
      BY <3>2
  <2> QED
    BY <2>1, <2>2, <2>4, <2>6, <2>7, <2>8
<1>2. /\ BothLists(act, idle) /\ act \in Seq(Int) /\ idle \in Seq(Int)
      /\ end = q[Len(p)].at /\ start \in Nat /\ start <= end
      /\ Len(idle) < MaxEntries => AddUp(Total(act), Total(idle), q[1].at, start, end)
  <2>1. BothLists(act, idle) /\ act \in Seq(Int) /\ idle \in Seq(Int)
    BY DEF ActivityInv, BothLists
  <2> QED
    BY <1>1, <2>1 DEF ActivityInv
<1>3. /\ end \in Nat /\ start <= now
      /\ end - start \in Nat /\ now - end \in Nat /\ end - start \in Int /\ now - end \in Int
  <2>1. end \in Nat /\ start \in Nat /\ now \in Nat /\ start <= end /\ end <= now
    BY <1>1, <1>2, Zenon
  <2> QED
    BY <2>1, Differences, Zenon
<1>4. Total(act) \in Int /\ Total(idle) \in Int
  <2>1. 0 \in Int
    OBVIOUS
  <2> QED
    BY <1>2, <2>1, SumOfAppend DEF Total
<1>6. /\ Total(act) \in Int /\ Total(idle) \in Int /\ q[1].at \in Int
      /\ now \in Int /\ start \in Int /\ end \in Int
  BY <1>1, <1>2, <1>3, <1>4, NaturalIsInteger, Zenon
<1>5. ActivityInv(q, act, idle, start, now)
  <2>1. start \in Nat /\ start <= now /\ now = q[Len(q)].at
    BY <1>1, <1>2, <1>3, Zenon
  <2>2. ASSUME Len(idle) < MaxEntries PROVE AddUp(Total(act), Total(idle), q[1].at, start, now)
    <3>1. AddUp(Total(act), Total(idle), q[1].at, start, end)
      BY <1>2, <2>2
    <3> QED
      BY <1>6, <3>1, ShiftedSum, Zenon
  <2> QED
    BY <1>1, <1>2, <2>1, <2>2 DEF ActivityInv, BothLists
<1>7. ActivityInv(q, Keep(act, end - start), Keep(idle, now - end), now, now)
  <2> DEFINE a == Keep(act, end - start)
             b == Keep(idle, now - end)
  <2>1. BothLists(a, b)
    BY <1>2, <1>3, KeepBoth
  <2>2. ASSUME Len(b) < MaxEntries PROVE AddUp(Total(a), Total(b), q[1].at, now, now)
    <3>1. Len(idle) < MaxEntries /\ Total(a) = Total(act) + (end - start) /\ Total(b) = Total(idle) + (now - end)
      BY <1>2, <1>3, <2>2, KeepBoth
    <3>2. AddUp(Total(act), Total(idle), q[1].at, start, end)
      BY <1>2, <3>1
    <3>3. AddUp(Total(act) + (end - start), Total(idle) + (now - end), q[1].at, now, now)
      BY <1>6, <3>2, ShiftedSum, Zenon
    <3> QED
      BY <3>1, <3>3, Zenon
  <2> HIDE DEF a, b
  <2>3. ActivityInv(q, a, b, now, now)
    BY <1>1, <2>1, <2>2 DEF ActivityInv, BothLists
  <2> QED
    BY <2>3 DEF a, b
<1> QED
  BY <1>5, <1>7

-------------------------------------------------------------------------------
(* Bulks *)

\* D is a set of places of data packets, in the order of their times.
Data(p, D) ==
    /\ D \subseteq Nat /\ IsFiniteSet(D)
    /\ \A i \in D : p[i].at \in Nat /\ p[i].size \in Nat
    /\ \A i, j \in D : i <= j => p[i].at <= p[j].at

Starts(p, D, s) == (\A k \in D : k >= s) \/ \E k \in D : Parted(p, D, k, s)
Ends(p, D, e) == (\A k \in D : k <= e) \/ \E k \in D : Parted(p, D, e, k)
Whole(p, D, i, j) == \A k, l \in D : Parted(p, D, k, l) => l <= i \/ k >= j

\* The run in progress: from s to e, the last.
OpenRun(p, D, s, e) ==
    /\ s \in D /\ e \in D /\ s <= e
    /\ \A k \in D : k <= e
    /\ Starts(p, D, s)
    /\ \A k, l \in D : Parted(p, D, k, l) => l <= s
RunOf(p, D, s, e) ==
    [packets |-> Cardinality(D \cap (s..e)), bytes |-> SizeOf(p, D \cap (s..e)),
     start |-> p[s].at, end |-> p[e].at]
Earlier(p, D, s) == {b \in BulksOf(p, D) : b[1] < s}

RunInv(p, D, run, bulk) ==
    \/ D = {} /\ run = NoRun /\ bulk = NoBulk
    \/ \E s, e \in D : /\ OpenRun(p, D, s, e) /\ run = RunOf(p, D, s, e)
                       /\ Describes(bulk, p, D, Earlier(p, D, s))

LEMMA BulkIs ==
    ASSUME NEW p, NEW D, NEW i, NEW j
    PROVE  IsBulk(p, D, i, j) <=>
              /\ i <= j /\ Whole(p, D, i, j) /\ Starts(p, D, i) /\ Ends(p, D, j)
              /\ Cardinality(D \cap (i..j)) >= MinBulk
BY DEF IsBulk, Whole, Starts, Ends

LEMMA BulkMember ==
    ASSUME NEW p, NEW D, NEW b
    PROVE  b \in BulksOf(p, D) <=> b \in D \X D /\ IsBulk(p, D, b[1], b[2])
BY DEF BulksOf

\* Two sets of pairs.
LEMMA SamePairs ==
    ASSUME NEW D, NEW B, NEW C, B \subseteq D \X D, C \subseteq D \X D,
           \A i, j \in D : <<i, j>> \in B <=> <<i, j>> \in C
    PROVE  B = C
<1>1. \A b \in D \X D : b = <<b[1], b[2]>> /\ b[1] \in D /\ b[2] \in D
  OBVIOUS
<1>2. \A b \in D \X D : b \in B <=> b \in C
  <2> TAKE b \in D \X D
  <2> PICK i : i = b[1]
    OBVIOUS
  <2> PICK j : j = b[2]
    OBVIOUS
  <2>1. b = <<i, j>> /\ i \in D /\ j \in D
    BY <1>1
  <2> QED
    BY <2>1, Zenon
<1> QED
  BY <1>2, Zenon

\* What is summed over the packets of a bulk, and over bulks.
LEMMA BulkNumbers ==
    ASSUME NEW p, NEW D, Data(p, D), NEW i \in D, NEW j \in D
    PROVE  /\ IsFiniteSet(D \cap (i..j)) /\ Cardinality(D \cap (i..j)) \in Nat
           /\ SizeOf(p, D \cap (i..j)) \in Int
           /\ p[j].at - p[i].at \in Int
<1> PICK V : V = D \cap (i..j)
  OBVIOUS
<1>1. IsFiniteSet(V) /\ Cardinality(V) \in Nat
  BY FS_Subset, FS_CardinalityType DEF Data
<1> PICK g : g = [k \in V |-> p[k].size]
  OBVIOUS
<1>2. DOMAIN g = V /\ \A k \in DOMAIN g : g[k] \in Int
  BY DEF Data
<1>3. SumFunction(g) \in Int
  BY <1>1, <1>2, SumIsSame
<1>4. SizeOf(p, V) \in Int
  BY <1>3 DEF SizeOf
<1>5. p[j].at - p[i].at \in Int
  BY DEF Data
<1> QED
  BY <1>1, <1>4, <1>5

\* Which packets are there beside those of V does not matter.
LEMMA SizeAgrees ==
    ASSUME NEW p, NEW D, Data(p, D), NEW V, V \subseteq D, NEW q, \A k \in V : q[k] = p[k]
    PROVE  SizeOf(q, V) = SizeOf(p, V) /\ SizeOf(p, V) \in Int
<1>1. IsFiniteSet(V)
  BY FS_Subset DEF Data
<1> PICK g : g = [k \in V |-> p[k].size]
  OBVIOUS
<1> PICK h : h = [k \in V |-> q[k].size]
  OBVIOUS
<1>2. DOMAIN g = V /\ DOMAIN h = DOMAIN g /\ \A k \in DOMAIN g : g[k] \in Int /\ h[k] = g[k]
  <2>1. \A k \in V : p[k].size \in Int
    BY DEF Data
  <2>2. \A k \in V : q[k].size = p[k].size
    BY Zenon
  <2> QED
    BY <2>1, <2>2
<1>3. SumFunction(g) \in Int /\ SumFunction(h) = SumFunction(g)
  BY <1>1, <1>2, SumIsSame
<1> QED
  BY <1>3 DEF SizeOf

\* One packet more.
LEMMA SizeOneMore ==
    ASSUME NEW p, NEW D, Data(p, D), NEW V, V \subseteq D, NEW m \in D, m \notin V
    PROVE  SizeOf(p, V \cup {m}) = SizeOf(p, V) + p[m].size
<1>1. IsFiniteSet(V)
  BY FS_Subset DEF Data
<1> PICK g : g = [k \in V |-> p[k].size]
  OBVIOUS
<1> PICK h : h = [k \in V \cup {m} |-> p[k].size]
  OBVIOUS
<1>2. Grows(g, h, m)
  <2>0. \A k \in D : p[k].size \in Int
    BY DEF Data
  <2>1. \A k \in V \cup {m} : p[k].size \in Int
    BY <2>0
  <2>2. DOMAIN g = V /\ DOMAIN h = V \cup {m}
    OBVIOUS
  <2>3. (\A k \in V : g[k] = p[k].size) /\ (\A k \in V \cup {m} : h[k] = p[k].size)
    OBVIOUS
  <2>4. (\A k \in V : g[k] \in Int /\ h[k] = g[k]) /\ h[m] \in Int
    BY <2>1, <2>3
  <2> QED
    BY <1>1, <2>2, <2>4 DEF Grows
<1>3. SumFunction(h) = SumFunction(g) + h[m]
  BY <1>2, SumGrows
<1>4. h[m] = p[m].size
  OBVIOUS
<1> QED
  BY <1>3, <1>4 DEF SizeOf

\* Bulks are described by what is between their ends.
Alike(p, C, q, D, b) ==
    /\ Cardinality(D \cap (b[1]..b[2])) = Cardinality(C \cap (b[1]..b[2]))
    /\ Cardinality(C \cap (b[1]..b[2])) \in Int
    /\ SizeOf(q, D \cap (b[1]..b[2])) = SizeOf(p, C \cap (b[1]..b[2]))
    /\ SizeOf(p, C \cap (b[1]..b[2])) \in Int
    /\ q[b[2]].at - q[b[1]].at = p[b[2]].at - p[b[1]].at
    /\ p[b[2]].at - p[b[1]].at \in Int

LEMMA DescribesAlike ==
    ASSUME NEW p, NEW C, NEW q, NEW D, NEW B, IsFiniteSet(B), \A b \in B : Alike(p, C, q, D, b),
           NEW sent, Describes(sent, p, C, B)
    PROVE  Describes(sent, q, D, B)
<1> DEFINE counts(X) == [b \in B |-> Cardinality(X \cap (b[1]..b[2]))]
           sizes(r, X) == [b \in B |-> SizeOf(r, X \cap (b[1]..b[2]))]
           times(r) == [b \in B |-> r[b[2]].at - r[b[1]].at]
<1>1. SumFunction(counts(D)) = SumFunction(counts(C))
  <2>1. DOMAIN counts(D) = B /\ DOMAIN counts(C) = B
        /\ \A b \in B : counts(C)[b] \in Int /\ counts(D)[b] = counts(C)[b]
    BY DEF Alike
  <2> HIDE DEF counts
  <2> QED
    BY <2>1, SumIsSame
<1>2. SumFunction(sizes(q, D)) = SumFunction(sizes(p, C))
  <2>1. DOMAIN sizes(q, D) = B /\ DOMAIN sizes(p, C) = B
        /\ \A b \in B : sizes(p, C)[b] \in Int /\ sizes(q, D)[b] = sizes(p, C)[b]
    BY DEF Alike
  <2> HIDE DEF sizes
  <2> QED
    BY <2>1, SumIsSame
<1>3. SumFunction(times(q)) = SumFunction(times(p))
  <2>1. DOMAIN times(q) = B /\ DOMAIN times(p) = B
        /\ \A b \in B : times(p)[b] \in Int /\ times(q)[b] = times(p)[b]
    BY DEF Alike
  <2> HIDE DEF times
  <2> QED
    BY <2>1, SumIsSame
<1>4. /\ sent.count = Cardinality(B) /\ sent.packets = SumFunction(counts(C))
      /\ sent.bytes = SumFunction(sizes(p, C)) /\ sent.duration = SumFunction(times(p))
  BY DEF Describes
<1>5. /\ sent.count = Cardinality(B) /\ sent.packets = SumFunction(counts(D))
      /\ sent.bytes = SumFunction(sizes(q, D)) /\ sent.duration = SumFunction(times(q))
  <2> HIDE DEF counts, sizes, times
  <2> QED
    BY <1>1, <1>2, <1>3, <1>4
<1> QED
  BY <1>5 DEF Describes

\* The run a is the bulk b.
IsRunOf(run, p, D, b) ==
    /\ run.packets = Cardinality(D \cap (b[1]..b[2])) /\ run.bytes = SizeOf(p, D \cap (b[1]..b[2]))
    /\ run.start = p[b[1]].at /\ run.end = p[b[2]].at

LEMMA DescribesOneMore ==
    ASSUME NEW p, NEW D, Data(p, D), NEW B, IsFiniteSet(B), B \subseteq D \X D,
           NEW c \in D \X D, c \notin B,
           NEW sent, Describes(sent, p, D, B), NEW run, IsRunOf(run, p, D, c), run.packets >= MinBulk
    PROVE  Describes(AddRun(sent, run), p, D, B \cup {c})
<1> DEFINE counts(X) == [b \in X |-> Cardinality(D \cap (b[1]..b[2]))]
           sizes(X) == [b \in X |-> SizeOf(p, D \cap (b[1]..b[2]))]
           times(X) == [b \in X |-> p[b[2]].at - p[b[1]].at]
<1> PICK C : C = B \cup {c}
  OBVIOUS
<1>0. \A b \in C : /\ Cardinality(D \cap (b[1]..b[2])) \in Int /\ SizeOf(p, D \cap (b[1]..b[2])) \in Int
                   /\ p[b[2]].at - p[b[1]].at \in Int
  <2> TAKE b \in C
  <2> PICK i : i = b[1]
    OBVIOUS
  <2> PICK j : j = b[2]
    OBVIOUS
  <2>1. i \in D /\ j \in D
    OBVIOUS
  <2>2. Cardinality(D \cap (i..j)) \in Nat /\ SizeOf(p, D \cap (i..j)) \in Int /\ p[j].at - p[i].at \in Int
    BY <2>1, BulkNumbers
  <2> QED
    BY <2>2
<1>1. Grows(counts(B), counts(C), c) /\ Grows(sizes(B), sizes(C), c) /\ Grows(times(B), times(C), c)
  <2>1. c \in C /\ c \notin B /\ B \subseteq C /\ C = B \cup {c}
    OBVIOUS
  <2>2. Grows(counts(B), counts(C), c)
    BY <1>0, <2>1 DEF Grows
  <2>3. Grows(sizes(B), sizes(C), c)
    BY <1>0, <2>1 DEF Grows
  <2>4. Grows(times(B), times(C), c)
    BY <1>0, <2>1 DEF Grows
  <2> QED
    BY <2>2, <2>3, <2>4
<1>2. /\ counts(C)[c] = Cardinality(D \cap (c[1]..c[2])) /\ sizes(C)[c] = SizeOf(p, D \cap (c[1]..c[2]))
      /\ times(C)[c] = p[c[2]].at - p[c[1]].at
  OBVIOUS
<1>3. Cardinality(C) = Cardinality(B) + 1 /\ Cardinality(B) \in Nat
  BY FS_AddElement, FS_CardinalityType
<1>4. /\ sent.count = Cardinality(B) /\ sent.packets = SumFunction(counts(B))
      /\ sent.bytes = SumFunction(sizes(B)) /\ sent.duration = SumFunction(times(B))
  BY DEF Describes
<1> PICK n : n = AddRun(sent, run)
  OBVIOUS
<1>5. /\ n.count = sent.count + 1 /\ n.packets = sent.packets + run.packets
      /\ n.bytes = sent.bytes + run.bytes /\ n.duration = sent.duration + run.end - run.start
  <2>1. ~(run.packets < MinBulk)
    <3>1. run.packets \in Int
      BY <1>0 DEF IsRunOf
    <3> QED
      BY <3>1, FeatureConstants
  <2> QED
    BY <2>1 DEF AddRun
<1>6. /\ n.count = Cardinality(C) /\ n.packets = SumFunction(counts(C))
      /\ n.bytes = SumFunction(sizes(C)) /\ n.duration = SumFunction(times(C))
  <2>1. c \in D \X D /\ c[1] \in D /\ c[2] \in D /\ p[c[1]].at \in Int /\ p[c[2]].at \in Int
    BY DEF Data
  <2> HIDE DEF counts, sizes, times
  <2>2. /\ SumFunction(counts(C)) = SumFunction(counts(B)) + counts(C)[c]
        /\ SumFunction(sizes(C)) = SumFunction(sizes(B)) + sizes(C)[c]
        /\ SumFunction(times(C)) = SumFunction(times(B)) + times(C)[c]
        /\ SumFunction(times(B)) \in Int
    BY <1>1, SumGrows
  <2>3. n.duration = SumFunction(times(C))
    BY <1>2, <1>4, <1>5, <2>1, <2>2 DEF IsRunOf
  <2>4. n.packets = SumFunction(counts(C)) /\ n.bytes = SumFunction(sizes(C))
    BY <1>2, <1>4, <1>5, <2>2 DEF IsRunOf
  <2> QED
    BY <1>3, <1>4, <1>5, <2>3, <2>4
<1> QED
  BY <1>6 DEF Describes

\* The bulks are those that are over and, if it is long enough, the run in progress.
LEMMA OpenIsLast ==
    ASSUME NEW p, NEW D, Data(p, D), NEW s, NEW e, OpenRun(p, D, s, e), NEW i \in D, NEW j \in D,
           IsBulk(p, D, i, j), ~(i < s)
    PROVE  i = s /\ j = e
<1>1. s \in D /\ e \in D /\ s \in Nat /\ e \in Nat /\ i \in Nat /\ j \in Nat /\ s <= e
  BY DEF Data, OpenRun
<1>2. (\A k \in D : k <= e) /\ (\A k, l \in D : Parted(p, D, k, l) => l <= s)
  BY DEF OpenRun
<1>3. Starts(p, D, i) /\ Ends(p, D, j) /\ i <= j
  BY BulkIs
<1>4. i = s
  <2>1. CASE \A k \in D : k >= i
    BY <1>1, <2>1
  <2>2. CASE \E k \in D : Parted(p, D, k, i)
    <3>1. i <= s
      BY <1>2, <2>2
    <3> QED
      BY <1>1, <3>1
  <2> QED
    BY <1>3, <2>1, <2>2 DEF Starts
<1>5. j = e
  <2>1. CASE \A k \in D : k <= j
    BY <1>1, <1>2, <2>1
  <2>2. CASE \E k \in D : Parted(p, D, j, k)
    <3> PICK k \in D : Parted(p, D, j, k)
      BY <2>2
    <3>1. k <= s /\ j < k /\ k \in Nat
      <4>1. j < k
        BY DEF Parted
      <4> QED
        BY <1>2, <4>1 DEF Data
    <3> QED
      BY <1>1, <1>3, <1>4, <3>1
  <2> QED
    BY <1>3, <2>1, <2>2 DEF Ends
<1> QED
  BY <1>4, <1>5

LEMMA OpenBulk ==
    ASSUME NEW p, NEW D, Data(p, D), NEW s, NEW e, OpenRun(p, D, s, e)
    PROVE  /\ <<s, e>> \notin Earlier(p, D, s)
           /\ Cardinality(D \cap (s..e)) >= MinBulk => BulksOf(p, D) = Earlier(p, D, s) \cup {<<s, e>>}
           /\ ~(Cardinality(D \cap (s..e)) >= MinBulk) => BulksOf(p, D) = Earlier(p, D, s)
<1>1. s \in D /\ e \in D /\ s \in Nat /\ e \in Nat /\ s <= e
  BY DEF Data, OpenRun
<1>2. <<s, e>> \notin Earlier(p, D, s)
  BY <1>1 DEF Earlier
<1>3. BulksOf(p, D) \subseteq D \X D /\ Earlier(p, D, s) \subseteq BulksOf(p, D)
  BY DEF BulksOf, Earlier
<1>4. ASSUME NEW i \in D, NEW j \in D
      PROVE  /\ <<i, j>> \in BulksOf(p, D) <=> IsBulk(p, D, i, j)
             /\ <<i, j>> \in Earlier(p, D, s) <=> IsBulk(p, D, i, j) /\ i < s
  BY DEF BulksOf, Earlier
<1>5. IsBulk(p, D, s, e) <=> Cardinality(D \cap (s..e)) >= MinBulk
  <2>1. Whole(p, D, s, e) /\ Starts(p, D, s) /\ Ends(p, D, e)
    <3>1. Whole(p, D, s, e)
      BY DEF OpenRun, Whole
    <3>2. Starts(p, D, s) /\ Ends(p, D, e)
      BY DEF OpenRun, Ends
    <3> QED
      BY <3>1, <3>2
  <2> QED
    BY <1>1, <2>1, BulkIs
<1>6. ASSUME NEW i \in D, NEW j \in D, IsBulk(p, D, i, j)
      PROVE  i < s \/ (i = s /\ j = e)
  BY <1>6, OpenIsLast
<1>7. CASE Cardinality(D \cap (s..e)) >= MinBulk
  <2> PICK C : C = Earlier(p, D, s) \cup {<<s, e>>}
    OBVIOUS
  <2>1. C \subseteq D \X D
    BY <1>1, <1>3
  <2>2. ASSUME NEW i \in D, NEW j \in D PROVE <<i, j>> \in BulksOf(p, D) <=> <<i, j>> \in C
    <3>1. <<i, j>> \in C <=> <<i, j>> \in Earlier(p, D, s) \/ (i = s /\ j = e)
      OBVIOUS
    <3> QED
      BY <1>4, <1>5, <1>6, <1>7, <3>1
  <2>3. BulksOf(p, D) = C
    BY <1>3, <2>1, <2>2, SamePairs
  <2> QED
    BY <1>2, <1>7, <2>3
<1>8. CASE ~(Cardinality(D \cap (s..e)) >= MinBulk)
  <2>1. ASSUME NEW i \in D, NEW j \in D PROVE <<i, j>> \in BulksOf(p, D) <=> <<i, j>> \in Earlier(p, D, s)
    BY <1>4, <1>5, <1>6, <1>8
  <2>2. BulksOf(p, D) = Earlier(p, D, s)
    <3>1. Earlier(p, D, s) \subseteq D \X D
      BY <1>3
    <3> QED
      BY <1>3, <2>1, <3>1, SamePairs
  <2> QED
    BY <1>2, <1>8, <2>2
<1> QED
  BY <1>7, <1>8

LEMMA FinitelyMany ==
    ASSUME NEW p, NEW D, Data(p, D), NEW B, B \subseteq D \X D
    PROVE  IsFiniteSet(B)
<1>1. IsFiniteSet(D \X D)
  BY FS_Product DEF Data
<1> QED
  BY <1>1, FS_Subset

LEMMA NothingIsDescribed ==
    ASSUME NEW p, NEW D
    PROVE  Describes(NoBulk, p, D, {})
<1>1. \A g : DOMAIN g = {} => SumFunction(g) = 0
  BY SumOfNoArguments
<1> PICK a : a = [b \in {} |-> Cardinality(D \cap (b[1]..b[2]))]
  OBVIOUS
<1> PICK c : c = [b \in {} |-> SizeOf(p, D \cap (b[1]..b[2]))]
  OBVIOUS
<1> PICK t : t = [b \in {} |-> p[b[2]].at - p[b[1]].at]
  OBVIOUS
<1>2. SumFunction(a) = 0 /\ SumFunction(c) = 0 /\ SumFunction(t) = 0
  <2>1. DOMAIN a = {} /\ DOMAIN c = {} /\ DOMAIN t = {}
    OBVIOUS
  <2> QED
    BY <1>1, <2>1
<1>3. Cardinality({}) = 0
  BY FS_EmptySet
<1> QED
  BY <1>2, <1>3 DEF Describes, NoBulk

\* What would be sent describes all bulks.
LEMMA SentIsDescribed ==
    ASSUME NEW p, NEW D, Data(p, D), NEW run, NEW bulk, RunInv(p, D, run, bulk)
    PROVE  Describes(AddRun(bulk, run), p, D, BulksOf(p, D))
<1>1. CASE D = {} /\ run = NoRun /\ bulk = NoBulk
  <2>1. BulksOf(p, D) = {}
    BY <1>1 DEF BulksOf
  <2>2. AddRun(bulk, run) = NoBulk
    BY <1>1, FeatureConstants DEF AddRun, NoRun
  <2> QED
    BY <2>1, <2>2, NothingIsDescribed
<1>2. CASE \E s, e \in D : /\ OpenRun(p, D, s, e) /\ run = RunOf(p, D, s, e)
                           /\ Describes(bulk, p, D, Earlier(p, D, s))
  <2> PICK s \in D, e \in D : /\ OpenRun(p, D, s, e) /\ run = RunOf(p, D, s, e)
                              /\ Describes(bulk, p, D, Earlier(p, D, s))
    BY <1>2
  <2> PICK B : B = Earlier(p, D, s)
    OBVIOUS
  <2>1. B \subseteq D \X D /\ IsFiniteSet(B)
    <3>1. B \subseteq D \X D
      BY DEF Earlier, BulksOf
    <3> QED
      BY <3>1, FinitelyMany
  <2> PICK n : n = Cardinality(D \cap (s..e))
    OBVIOUS
  <2>2. run.packets = n /\ n \in Nat
    BY BulkNumbers DEF RunOf
  <2>3. CASE n >= MinBulk
    <3> PICK c : c = <<s, e>>
      OBVIOUS
    <3>1. c \in D \X D /\ c[1] = s /\ c[2] = e
      OBVIOUS
    <3>2. IsRunOf(run, p, D, c)
      BY <3>1 DEF IsRunOf, RunOf
    <3>3. c \notin B /\ BulksOf(p, D) = B \cup {c}
      BY <2>3, OpenBulk
    <3>4. run.packets >= MinBulk /\ Describes(bulk, p, D, B)
      BY <2>2, <2>3
    <3>5. Describes(AddRun(bulk, run), p, D, B \cup {c})
      BY <2>1, <3>1, <3>2, <3>3, <3>4, DescribesOneMore, Zenon
    <3> QED
      BY <3>3, <3>5, Zenon
  <2>4. CASE ~(n >= MinBulk)
    <3>1. BulksOf(p, D) = B
      BY <2>4, OpenBulk
    <3>2. AddRun(bulk, run) = bulk
      BY <2>2, <2>4, FeatureConstants DEF AddRun
    <3> QED
      BY <3>1, <3>2
  <2> QED
    BY <2>3, <2>4
<1> QED
  BY <1>1, <1>2 DEF RunInv

\* m is the place of a packet after those of D.
MoreData(q, D, m) == Data(q, D \cup {m}) /\ m \in Nat /\ \A i \in D : i \in Nat /\ i < m

LEMMA MoreIsData ==
    ASSUME NEW q, NEW D, NEW m, MoreData(q, D, m)
    PROVE  Data(q, D)
<1>1. IsFiniteSet(D)
  <2>1. IsFiniteSet(D \cup {m}) /\ D \subseteq D \cup {m}
    BY DEF MoreData, Data
  <2> QED
    BY <2>1, FS_Subset
<1> QED
  BY <1>1 DEF MoreData, Data

\* A gap between data packets was there before, or is the one before the last packet.
LEMMA PartedNow ==
    ASSUME NEW q, NEW D, NEW m, MoreData(q, D, m), NEW e \in D, \A k \in D : k <= e,
           NEW k \in D \cup {m}, NEW l \in D \cup {m}
    PROVE  Parted(q, D \cup {m}, k, l) <=>
              \/ k \in D /\ l \in D /\ Parted(q, D, k, l)
              \/ k = e /\ l = m /\ q[m].at - q[e].at > IdleGap
<1>1. /\ m \in Nat /\ k \in Nat /\ l \in Nat /\ e \in Nat
      /\ \A i \in D : i \in Nat /\ i < m
  BY DEF MoreData
<1>2. Parted(q, D \cup {m}, k, l) <=>
        /\ k < l /\ \A i \in D : i <= k \/ i >= l
        /\ m <= k \/ m >= l
        /\ q[l].at - q[k].at > IdleGap
  BY DEF Parted
<1>3. CASE l = m /\ k \in D
  <2>1. k < l /\ m >= l /\ (l \notin D)
    BY <1>1, <1>3
  <2>2. (\A i \in D : i <= k \/ i >= l) <=> k = e
    BY <1>1, <1>3
  <2> QED
    BY <1>2, <1>3, <2>1, <2>2
<1>4. CASE k = m
  <2>1. ~(k < l) /\ k \notin D /\ k # e
    BY <1>1, <1>4
  <2> QED
    BY <1>2, <2>1
<1>5. CASE l \in D /\ k \in D
  <2>1. m >= l /\ l # m
    BY <1>1, <1>5
  <2> QED
    BY <1>2, <1>5, <2>1 DEF Parted
<1> QED
  BY <1>3, <1>4, <1>5

GapsNow(q, D, m, e) ==
    \A k, l \in D \cup {m} : Parted(q, D \cup {m}, k, l) <=>
        \/ k \in D /\ l \in D /\ Parted(q, D, k, l)
        \/ k = e /\ l = m /\ q[m].at - q[e].at > IdleGap

LEMMA GapsAreNow ==
    ASSUME NEW q, NEW D, NEW m, MoreData(q, D, m), NEW e \in D, \A k \in D : k <= e
    PROVE  GapsNow(q, D, m, e)
BY PartedNow DEF GapsNow

\* Among the packets before the last.
LEMMA BulkNow ==
    ASSUME NEW q, NEW D, NEW m, MoreData(q, D, m), NEW e \in D, \A k \in D : k <= e,
           NEW i \in D, NEW j \in D
    PROVE  IsBulk(q, D \cup {m}, i, j) <=>
              /\ i <= j /\ Whole(q, D, i, j) /\ Starts(q, D, i)
              /\ \/ \E k \in D : Parted(q, D, j, k)
                 \/ j = e /\ q[m].at - q[e].at > IdleGap
              /\ Cardinality(D \cap (i..j)) >= MinBulk
<1> DEFINE E == D \cup {m}
<1>1. /\ m \in Nat /\ i \in Nat /\ j \in Nat /\ e \in Nat /\ i < m /\ j < m /\ m \notin D
      /\ \A k \in D : k \in Nat /\ k < m
  BY DEF MoreData
<1>2. \A k, l \in E : Parted(q, E, k, l) <=>
              \/ k \in D /\ l \in D /\ Parted(q, D, k, l)
              \/ k = e /\ l = m /\ q[m].at - q[e].at > IdleGap
  BY PartedNow
<1>3. Whole(q, E, i, j) <=> Whole(q, D, i, j)
  <2>1. ASSUME Whole(q, D, i, j) PROVE Whole(q, E, i, j)
    <3> SUFFICES ASSUME NEW k \in E, NEW l \in E, Parted(q, E, k, l)
                 PROVE  l <= i \/ k >= j
      BY DEF Whole
    <3>1. CASE k \in D /\ l \in D /\ Parted(q, D, k, l)
      BY <2>1, <3>1 DEF Whole
    <3>2. CASE k = e
      BY <1>1, <3>2
    <3> QED
      BY <1>2, <3>1, <3>2
  <2>2. ASSUME Whole(q, E, i, j) PROVE Whole(q, D, i, j)
    <3> SUFFICES ASSUME NEW k \in D, NEW l \in D, Parted(q, D, k, l)
                 PROVE  l <= i \/ k >= j
      BY DEF Whole
    <3>1. Parted(q, E, k, l)
      BY <1>2
    <3> QED
      BY <2>2, <3>1 DEF Whole
  <2> QED
    BY <2>1, <2>2
<1>4. Starts(q, E, i) <=> Starts(q, D, i)
  <2>1. (\A k \in E : k >= i) <=> (\A k \in D : k >= i)
    BY <1>1
  <2>2. (\E k \in E : Parted(q, E, k, i)) <=> (\E k \in D : Parted(q, D, k, i))
    <3>1. i # m
      BY <1>1
    <3>2. \A k \in E : Parted(q, E, k, i) <=> k \in D /\ Parted(q, D, k, i)
      BY <1>2, <3>1
    <3> QED
      BY <3>2
  <2> QED
    BY <2>1, <2>2 DEF Starts
<1>5. Ends(q, E, j) <=> \/ \E k \in D : Parted(q, D, j, k)
                        \/ j = e /\ q[m].at - q[e].at > IdleGap
  <2>1. ~ \A k \in E : k <= j
    <3>1. m \in E /\ ~(m <= j)
      BY <1>1
    <3> QED
      BY <3>1
  <2>2. \A k \in E : Parted(q, E, j, k) <=>
              \/ k \in D /\ Parted(q, D, j, k)
              \/ j = e /\ k = m /\ q[m].at - q[e].at > IdleGap
    BY <1>2
  <2>3. m \in E /\ D \subseteq E
    OBVIOUS
  <2> HIDE DEF E
  <2> QED
    BY <2>1, <2>2, <2>3 DEF Ends
<1>6. E \cap (i..j) = D \cap (i..j)
  <2>1. m \notin i..j
    BY <1>1
  <2> QED
    BY <2>1
<1>7. IsBulk(q, E, i, j) <=>
              /\ i <= j /\ Whole(q, E, i, j) /\ Starts(q, E, i) /\ Ends(q, E, j)
              /\ Cardinality(E \cap (i..j)) >= MinBulk
  BY BulkIs
<1> QED
  <2> HIDE DEF E
  <2>1. IsBulk(q, E, i, j) <=>
              /\ i <= j /\ Whole(q, D, i, j) /\ Starts(q, D, i)
              /\ \/ \E k \in D : Parted(q, D, j, k)
                 \/ j = e /\ q[m].at - q[e].at > IdleGap
              /\ Cardinality(D \cap (i..j)) >= MinBulk
    BY <1>3, <1>4, <1>5, <1>6, <1>7, Zenon
  <2> QED
    BY <2>1 DEF E

\* A bulk that the last packet belongs to starts at the packet that the run starts with.
LEMMA BulkToLast ==
    ASSUME NEW q, NEW D, NEW m, MoreData(q, D, m), NEW k \in D \cup {m}, NEW s \in D \cup {m},
           Parted(q, D \cup {m}, k, s), NEW i \in D \cup {m}, IsBulk(q, D \cup {m}, i, m)
    PROVE  ~(i < s)
<1>1. /\ m \in Nat /\ i \in Nat /\ s \in Nat /\ k \in Nat /\ k <= m /\ s <= m
      /\ k < s /\ k < m
  BY DEF MoreData, Parted
<1>2. s <= i \/ k >= m
  BY BulkIs DEF Whole
<1> QED
  BY <1>1, <1>2

LEMMA ClosingBulks ==
    ASSUME NEW q, NEW D, NEW m, MoreData(q, D, m), NEW s, NEW e, OpenRun(q, D, s, e),
           q[m].at - q[e].at > IdleGap
    PROVE  Earlier(q, D \cup {m}, m) = BulksOf(q, D) /\ OpenRun(q, D \cup {m}, m, m)
<1> DEFINE E == D \cup {m}
<1>1. /\ m \in Nat /\ e \in D /\ \A k \in D : k \in Nat /\ k < m
      /\ \A k \in D : k <= e
  BY DEF MoreData, OpenRun
<1>2. \A k, l \in E : Parted(q, E, k, l) <=>
              \/ k \in D /\ l \in D /\ Parted(q, D, k, l)
              \/ k = e /\ l = m /\ q[m].at - q[e].at > IdleGap
  <2>1. GapsNow(q, D, m, e)
    BY <1>1, GapsAreNow
  <2> QED
    BY <2>1, Zenon DEF GapsNow
<1>3. Parted(q, E, e, m) /\ e \in E /\ m \in E
  BY <1>1, <1>2
<1>4. OpenRun(q, E, m, m)
  <2>1. (\A k \in E : k <= m) /\ m <= m
    BY <1>1
  <2>2. Starts(q, E, m)
    BY <1>3 DEF Starts
  <2>3. \A k, l \in E : Parted(q, E, k, l) => l <= m
    BY <2>1
  <2> HIDE DEF E
  <2> QED
    BY <1>3, <2>1, <2>2, <2>3 DEF OpenRun
<1>5. Earlier(q, E, m) \subseteq E \X E /\ BulksOf(q, D) \subseteq E \X E
  BY DEF Earlier, BulksOf
<1>6. ASSUME NEW i \in E, NEW j \in E
      PROVE  <<i, j>> \in Earlier(q, E, m) <=> <<i, j>> \in BulksOf(q, D)
  <2>1. <<i, j>> \in Earlier(q, E, m) <=> IsBulk(q, E, i, j) /\ i < m
    <3> HIDE DEF E
    <3> QED
      BY DEF Earlier, BulksOf
  <2>2. <<i, j>> \in BulksOf(q, D) <=> i \in D /\ j \in D /\ IsBulk(q, D, i, j)
    BY DEF BulksOf
  <2>3. CASE i \in D /\ j \in D
    <3>1. i < m /\ i \in Nat /\ j \in Nat /\ e \in Nat
      BY <1>1, <2>3
    <3>2. IsBulk(q, E, i, j) <=>
              /\ i <= j /\ Whole(q, D, i, j) /\ Starts(q, D, i)
              /\ \/ \E k \in D : Parted(q, D, j, k)
                 \/ j = e /\ q[m].at - q[e].at > IdleGap
              /\ Cardinality(D \cap (i..j)) >= MinBulk
      BY <1>1, <2>3, BulkNow
    <3>3. (\A k \in D : k <= j) <=> j = e
      BY <1>1, <2>3, <3>1
    <3>4. Ends(q, D, j) <=> \/ \E k \in D : Parted(q, D, j, k)
                            \/ j = e /\ q[m].at - q[e].at > IdleGap
      BY <3>3 DEF Ends
    <3>5. IsBulk(q, D, i, j) <=>
              /\ i <= j /\ Whole(q, D, i, j) /\ Starts(q, D, i) /\ Ends(q, D, j)
              /\ Cardinality(D \cap (i..j)) >= MinBulk
      BY BulkIs
    <3>6. IsBulk(q, E, i, j) <=> IsBulk(q, D, i, j)
      <4> HIDE DEF E
      <4> QED
        BY <3>2, <3>4, <3>5, Zenon
    <3> HIDE DEF E
    <3> QED
      BY <2>1, <2>2, <2>3, <3>1, <3>6, Zenon
  <2>4. CASE i = m
    <3>1. ~(i < m) /\ i \notin D
      BY <1>1, <2>4
    <3> QED
      BY <2>1, <2>2, <3>1
  <2>5. CASE i \in D /\ j = m
    <3>1. IsBulk(q, E, i, m) => ~(i < m)
      BY <1>3, BulkToLast
    <3>2. j \notin D /\ i < m
      BY <1>1, <2>5
    <3> HIDE DEF E
    <3> QED
      BY <2>1, <2>2, <2>5, <3>1, <3>2
  <2> QED
    BY <2>3, <2>4, <2>5
<1>7. Earlier(q, E, m) = BulksOf(q, D)
  <2> HIDE DEF E
  <2> QED
    BY <1>5, <1>6, SamePairs
<1> QED
  BY <1>4, <1>7

LEMMA KeepingBulks ==
    ASSUME NEW q, NEW D, NEW m, MoreData(q, D, m), NEW s, NEW e, OpenRun(q, D, s, e),
           ~(q[m].at - q[e].at > IdleGap)
    PROVE  Earlier(q, D \cup {m}, s) = Earlier(q, D, s) /\ OpenRun(q, D \cup {m}, s, m)
<1> DEFINE E == D \cup {m}
<1>1. /\ m \in Nat /\ e \in D /\ s \in D /\ \A k \in D : k \in Nat /\ k < m
      /\ \A k \in D : k <= e
  BY DEF MoreData, OpenRun
<1>2. \A k, l \in E : Parted(q, E, k, l) <=> k \in D /\ l \in D /\ Parted(q, D, k, l)
  BY <1>1, PartedNow
<1>3. Starts(q, D, s) /\ \A k, l \in D : Parted(q, D, k, l) => l <= s
  BY DEF OpenRun
<1>4. OpenRun(q, E, s, m)
  <2>1. (\A k \in E : k <= m) /\ s <= m /\ s \in E /\ m \in E
    BY <1>1
  <2>2. Starts(q, E, s)
    <3>1. CASE \A k \in D : k >= s
      <4>1. \A k \in E : k >= s
        BY <1>1, <3>1
      <4> QED
        BY <4>1 DEF Starts
    <3>2. CASE \E k \in D : Parted(q, D, k, s)
      <4>1. \E k \in E : Parted(q, E, k, s)
        BY <1>1, <1>2, <3>2
      <4> QED
        BY <4>1 DEF Starts
    <3> QED
      BY <1>3, <3>1, <3>2 DEF Starts
  <2>3. \A k, l \in E : Parted(q, E, k, l) => l <= s
    BY <1>2, <1>3
  <2> HIDE DEF E
  <2> QED
    BY <2>1, <2>2, <2>3 DEF OpenRun
<1>5. Earlier(q, E, s) \subseteq E \X E /\ Earlier(q, D, s) \subseteq E \X E
  BY DEF Earlier, BulksOf
<1>6. ASSUME NEW i \in E, NEW j \in E
      PROVE  <<i, j>> \in Earlier(q, E, s) <=> <<i, j>> \in Earlier(q, D, s)
  <2>1. <<i, j>> \in Earlier(q, E, s) <=> IsBulk(q, E, i, j) /\ i < s
    <3> HIDE DEF E
    <3> QED
      BY DEF Earlier, BulksOf
  <2>2. <<i, j>> \in Earlier(q, D, s) <=> i \in D /\ j \in D /\ IsBulk(q, D, i, j) /\ i < s
    BY DEF Earlier, BulksOf
  <2> SUFFICES ASSUME i < s
               PROVE  IsBulk(q, E, i, j) <=> i \in D /\ j \in D /\ IsBulk(q, D, i, j)
    <3> HIDE DEF E
    <3> QED
      BY <2>1, <2>2, Zenon
  <2>3. i \in D /\ i \in Nat /\ s \in Nat /\ s < m
    BY <1>1
  <2>4. PICK k \in D : Parted(q, D, k, s)
    <3>1. ~(s <= i)
      BY <2>3
    <3> QED
      BY <1>3, <2>3, <3>1 DEF Starts
  <2>5. k < s /\ k \in Nat /\ Parted(q, E, k, s)
    <3>1. k < s
      BY <2>4 DEF Parted
    <3> QED
      BY <1>1, <1>2, <2>4, <3>1
  <2>6. CASE j = m
    <3>1. ~IsBulk(q, E, i, m)
      BY <1>1, <2>3, <2>4, <2>5, BulkToLast
    <3>2. j \notin D
      BY <1>1, <2>6
    <3> QED
      BY <2>6, <3>1, <3>2
  <2>7. CASE j \in D
    <3>1. IsBulk(q, E, i, j) <=>
              /\ i <= j /\ Whole(q, D, i, j) /\ Starts(q, D, i)
              /\ \E l \in D : Parted(q, D, j, l)
              /\ Cardinality(D \cap (i..j)) >= MinBulk
      <4>1. IsBulk(q, E, i, j) <=>
              /\ i <= j /\ Whole(q, D, i, j) /\ Starts(q, D, i)
              /\ \/ \E l \in D : Parted(q, D, j, l)
                 \/ j = e /\ q[m].at - q[e].at > IdleGap
              /\ Cardinality(D \cap (i..j)) >= MinBulk
        BY <1>1, <2>3, <2>7, BulkNow
      <4> HIDE DEF E
      <4> QED
        BY <4>1
    <3>2. IsBulk(q, D, i, j) <=>
              /\ i <= j /\ Whole(q, D, i, j) /\ Starts(q, D, i) /\ Ends(q, D, j)
              /\ Cardinality(D \cap (i..j)) >= MinBulk
      BY BulkIs
    <3>3. ASSUME Whole(q, D, i, j)
          PROVE  Ends(q, D, j) <=> \E l \in D : Parted(q, D, j, l)
      <4>1. ~(\A l \in D : l <= j)
        <5>1. k >= j
          <6>1. s <= i \/ k >= j
            BY <1>1, <2>4, <3>3 DEF Whole
          <6> QED
            BY <2>3, <6>1
        <5>2. ~(s <= j)
          BY <1>1, <2>3, <2>5, <2>7, <5>1
        <5> QED
          BY <1>1, <5>2
      <4> QED
        BY <4>1 DEF Ends
    <3> HIDE DEF E
    <3>4. IsBulk(q, E, i, j) <=> IsBulk(q, D, i, j)
      BY <3>1, <3>2, <3>3, Zenon
    <3> QED
      BY <2>3, <2>7, <3>4
  <2> QED
    BY <2>6, <2>7
<1>7. Earlier(q, E, s) = Earlier(q, D, s)
  <2> HIDE DEF E
  <2> QED
    BY <1>5, <1>6, SamePairs
<1> QED
  BY <1>4, <1>7

\* What is said of the data packets does not depend on the others.
LEMMA BulksSame ==
    ASSUME NEW p, NEW q, NEW D, \A k \in D : q[k] = p[k]
    PROVE  /\ \A i, j \in D : Parted(q, D, i, j) <=> Parted(p, D, i, j)
           /\ \A s \in D : Starts(q, D, s) <=> Starts(p, D, s)
           /\ BulksOf(q, D) = BulksOf(p, D)
<1>1. \A i, j \in D : Parted(q, D, i, j) <=> Parted(p, D, i, j)
  BY DEF Parted
<1>2. \A i \in D : Starts(q, D, i) <=> Starts(p, D, i)
  BY <1>1 DEF Starts
<1>3. \A j \in D : Ends(q, D, j) <=> Ends(p, D, j)
  BY <1>1 DEF Ends
<1>4. \A i, j \in D : Whole(q, D, i, j) <=> Whole(p, D, i, j)
  BY <1>1 DEF Whole
<1>5. ASSUME NEW i \in D, NEW j \in D PROVE IsBulk(q, D, i, j) <=> IsBulk(p, D, i, j)
  <2>1. /\ IsBulk(q, D, i, j) <=> /\ i <= j /\ Whole(q, D, i, j) /\ Starts(q, D, i) /\ Ends(q, D, j)
                                  /\ Cardinality(D \cap (i..j)) >= MinBulk
        /\ IsBulk(p, D, i, j) <=> /\ i <= j /\ Whole(p, D, i, j) /\ Starts(p, D, i) /\ Ends(p, D, j)
                                  /\ Cardinality(D \cap (i..j)) >= MinBulk
    BY BulkIs
  <2> QED
    BY <1>2, <1>3, <1>4, <2>1, Zenon
<1>6. BulksOf(q, D) = BulksOf(p, D)
  <2>1. BulksOf(q, D) \subseteq D \X D /\ BulksOf(p, D) \subseteq D \X D
    BY DEF BulksOf
  <2>2. \A i, j \in D : <<i, j>> \in BulksOf(q, D) <=> <<i, j>> \in BulksOf(p, D)
    BY <1>5 DEF BulksOf
  <2> QED
    BY <2>1, <2>2, SamePairs
<1> QED
  BY <1>1, <1>2, <1>6

LEMMA RunSame ==
    ASSUME NEW p, NEW q, NEW D, Data(p, D), \A k \in D : q[k] = p[k],
           NEW run, NEW bulk, RunInv(p, D, run, bulk)
    PROVE  RunInv(q, D, run, bulk)
<1>1. CASE D = {} /\ run = NoRun /\ bulk = NoBulk
  BY <1>1 DEF RunInv
<1>2. CASE \E s, e \in D : /\ OpenRun(p, D, s, e) /\ run = RunOf(p, D, s, e)
                           /\ Describes(bulk, p, D, Earlier(p, D, s))
  <2> PICK s \in D, e \in D : /\ OpenRun(p, D, s, e) /\ run = RunOf(p, D, s, e)
                              /\ Describes(bulk, p, D, Earlier(p, D, s))
    BY <1>2
  <2>1. OpenRun(q, D, s, e)
    BY BulksSame DEF OpenRun
  <2>2. RunOf(q, D, s, e) = RunOf(p, D, s, e)
    <3>1. SizeOf(q, D \cap (s..e)) = SizeOf(p, D \cap (s..e))
      BY SizeAgrees
    <3>2. q[s] = p[s] /\ q[e] = p[e]
      OBVIOUS
    <3> QED
      BY <3>1, <3>2 DEF RunOf
  <2> PICK B : B = Earlier(p, D, s)
    OBVIOUS
  <2>3. B = Earlier(q, D, s) /\ B \subseteq D \X D
    <3>1. BulksOf(q, D) = BulksOf(p, D)
      BY BulksSame
    <3> QED
      BY <3>1 DEF Earlier, BulksOf
  <2>4. \A b \in B : Alike(p, D, q, D, b)
    <3> TAKE b \in B
    <3> PICK i : i = b[1]
      OBVIOUS
    <3> PICK j : j = b[2]
      OBVIOUS
    <3>1. i \in D /\ j \in D
      BY <2>3
    <3>2. q[i] = p[i] /\ q[j] = p[j]
      BY <3>1
    <3>3. SizeOf(q, D \cap (i..j)) = SizeOf(p, D \cap (i..j))
      BY SizeAgrees
    <3>4. /\ Cardinality(D \cap (i..j)) \in Nat /\ SizeOf(p, D \cap (i..j)) \in Int
          /\ p[j].at - p[i].at \in Int
      BY <3>1, BulkNumbers
    <3> QED
      BY <3>2, <3>3, <3>4 DEF Alike
  <2>5. Describes(bulk, q, D, B)
    <3>1. IsFiniteSet(B)
      BY <2>3, FinitelyMany
    <3> QED
      BY <2>4, <3>1, DescribesAlike
  <2> QED
    BY <2>1, <2>2, <2>3, <2>5 DEF RunInv
<1> QED
  BY <1>1, <1>2 DEF RunInv

\* Bulks among the packets before the last.
LEMMA StillDescribed ==
    ASSUME NEW q, NEW D, NEW m, MoreData(q, D, m), NEW B, B \subseteq D \X D,
           NEW sent, Describes(sent, q, D, B)
    PROVE  Describes(sent, q, D \cup {m}, B)
<1>1. Data(q, D) /\ IsFiniteSet(B)
  BY MoreIsData, FinitelyMany
<1>2. \A b \in B : Alike(q, D, q, D \cup {m}, b)
  <2> TAKE b \in B
  <2> PICK i : i = b[1]
    OBVIOUS
  <2> PICK j : j = b[2]
    OBVIOUS
  <2>1. i \in D /\ j \in D
    OBVIOUS
  <2>2. m \notin i..j
    BY <2>1 DEF MoreData
  <2>3. (D \cup {m}) \cap (i..j) = D \cap (i..j)
    BY <2>2
  <2>4. /\ Cardinality(D \cap (i..j)) \in Nat /\ SizeOf(q, D \cap (i..j)) \in Int
        /\ q[j].at - q[i].at \in Int
    BY <1>1, <2>1, BulkNumbers
  <2>5. b[1] = i /\ b[2] = j /\ Cardinality(D \cap (i..j)) \in Int
    BY <2>4
  <2> QED
    BY <2>3, <2>4, <2>5, Zenon DEF Alike
<1> QED
  BY <1>1, <1>2, DescribesAlike

\* A run of one packet.
LEMMA RunOfOne ==
    ASSUME NEW q, NEW D, NEW m, MoreData(q, D, m)
    PROVE  RunOf(q, D \cup {m}, m, m)
             = [packets |-> 1, bytes |-> q[m].size, start |-> q[m].at, end |-> q[m].at]
<1> DEFINE E == D \cup {m}
<1>1. m \in Nat /\ m \in E /\ Data(q, E) /\ q[m].size \in Nat
  BY DEF MoreData, Data
<1>2. E \cap (m..m) = {m}
  BY <1>1
<1>3. Cardinality({m}) = 1
  BY FS_Singleton
<1>4. SizeOf(q, {m}) = q[m].size
  <2> HIDE DEF E
  <2>1. SizeOf(q, {} \cup {m}) = SizeOf(q, {}) + q[m].size
    BY <1>1, SizeOneMore
  <2>2. SizeOf(q, {}) = 0
    <3>1. DOMAIN [k \in {} |-> q[k].size] = {}
      OBVIOUS
    <3> QED
      BY <3>1, SumOfNoArguments DEF SizeOf
  <2>3. {} \cup {m} = {m}
    OBVIOUS
  <2> QED
    BY <1>1, <2>1, <2>2, <2>3
<1> QED
  BY <1>2, <1>3, <1>4 DEF RunOf

LEMMA RunOfMore ==
    ASSUME NEW q, NEW D, NEW m, MoreData(q, D, m), NEW s, NEW e, OpenRun(q, D, s, e)
    PROVE  /\ RunOf(q, D \cup {m}, s, m)
                = [packets |-> RunOf(q, D, s, e).packets + 1, bytes |-> RunOf(q, D, s, e).bytes + q[m].size,
                   start |-> q[s].at, end |-> q[m].at]
           /\ RunOf(q, D, s, e).packets \in Nat /\ RunOf(q, D, s, e).packets > 0
<1> DEFINE E == D \cup {m}
<1>1. /\ m \in Nat /\ m \in E /\ Data(q, E) /\ Data(q, D) /\ s \in D /\ e \in D /\ s <= e
      /\ \A k \in D : k \in Nat /\ k < m /\ k <= e
  BY MoreIsData DEF MoreData, OpenRun
<1> PICK V : V = D \cap (s..e)
  OBVIOUS
<1>2. E \cap (s..m) = V \cup {m} /\ m \notin V /\ V \subseteq E /\ s \in V
  BY <1>1
<1>3. IsFiniteSet(V) /\ Cardinality(V) \in Nat
  BY <1>1, BulkNumbers
<1>4. Cardinality(V \cup {m}) = Cardinality(V) + 1
  <2>1. IsFiniteSet(V) /\ m \notin V
    BY <1>2, <1>3
  <2>2. Cardinality(V \cup {m}) = IF m \in V THEN Cardinality(V) ELSE Cardinality(V) + 1
    BY <2>1, FS_AddElement, Zenon
  <2> QED
    BY <2>1, <2>2, Zenon
<1>5. SizeOf(q, V \cup {m}) = SizeOf(q, V) + q[m].size
  <2> HIDE DEF E
  <2> QED
    BY <1>1, <1>2, SizeOneMore
<1>6. Cardinality(V) > 0
  <2>1. Cardinality(V) # 0
    BY <1>2, <1>3, FS_EmptySet
  <2> QED
    BY <1>3, <2>1
<1>7. RunOf(q, D, s, e).packets = Cardinality(V) /\ RunOf(q, D, s, e).bytes = SizeOf(q, V)
  BY DEF RunOf
<1>8. RunOf(q, E, s, m) = [packets |-> Cardinality(V) + 1, bytes |-> SizeOf(q, V) + q[m].size,
                           start |-> q[s].at, end |-> q[m].at]
  BY <1>2, <1>4, <1>5 DEF RunOf
<1> QED
  BY <1>3, <1>6, <1>7, <1>8

\* A data packet.
LEMMA RunStep ==
    ASSUME NEW q, NEW D, NEW m, MoreData(q, D, m), NEW run, NEW bulk, RunInv(q, D, run, bulk),
           q[m].size # 0
    PROVE  RunInv(q, D \cup {m}, Runs(run, q[m].size, q[m].at), Closed(bulk, run, q[m].size, q[m].at))
<1> DEFINE E == D \cup {m}
           nrun == Runs(run, q[m].size, q[m].at)
           nbulk == Closed(bulk, run, q[m].size, q[m].at)
<1>1. m \in E /\ m \in Nat /\ Data(q, D)
  BY MoreIsData DEF MoreData
<1>2. CASE D = {} /\ run = NoRun /\ bulk = NoBulk
  <2>1. nrun = RunOf(q, E, m, m) /\ nbulk = bulk
    <3>1. RunOf(q, E, m, m) = [packets |-> 1, bytes |-> q[m].size, start |-> q[m].at, end |-> q[m].at]
      BY RunOfOne
    <3>2. run.packets = 0
      BY <1>2 DEF NoRun
    <3>3. ~Closes(run, q[m].at)
      BY <3>2 DEF Closes
    <3> HIDE DEF E
    <3> QED
      BY <3>1, <3>2, <3>3 DEF Runs, Closed
  <2>2. E = {m}
    BY <1>2
  <2>3. OpenRun(q, E, m, m)
    <3>1. \A k, l \in {m} : ~Parted(q, {m}, k, l)
      BY <1>1 DEF Parted
    <3>2. Starts(q, {m}, m)
      BY <1>1 DEF Starts
    <3>3. OpenRun(q, {m}, m, m)
      BY <1>1, <3>1, <3>2 DEF OpenRun
    <3> QED
      BY <2>2, <3>3, Zenon
  <2>4. Earlier(q, E, m) = {}
    <3>1. \A b \in {m} \X {m} : ~(b[1] < m)
      BY <1>1
    <3> QED
      BY <2>2, <3>1 DEF Earlier, BulksOf
  <2>5. Describes(nbulk, q, E, Earlier(q, E, m))
    BY <1>2, <2>1, <2>4, NothingIsDescribed, Zenon
  <2> HIDE DEF E, nrun, nbulk
  <2>6. RunInv(q, E, nrun, nbulk)
    BY <1>1, <2>1, <2>3, <2>5 DEF RunInv
  <2> QED
    BY <2>6 DEF E, nrun, nbulk
<1>3. CASE \E s, e \in D : /\ OpenRun(q, D, s, e) /\ run = RunOf(q, D, s, e)
                           /\ Describes(bulk, q, D, Earlier(q, D, s))
  <2> PICK s \in D, e \in D : /\ OpenRun(q, D, s, e) /\ run = RunOf(q, D, s, e)
                              /\ Describes(bulk, q, D, Earlier(q, D, s))
    BY <1>3
  <2>1. /\ RunOf(q, E, s, m)
                = [packets |-> run.packets + 1, bytes |-> run.bytes + q[m].size,
                   start |-> q[s].at, end |-> q[m].at]
        /\ run.packets \in Nat /\ run.packets > 0
    BY RunOfMore
  <2>2. run.end = q[e].at /\ run.start = q[s].at
    BY DEF RunOf
  <2>3. Closes(run, q[m].at) <=> q[m].at - q[e].at > IdleGap
    BY <2>1, <2>2 DEF Closes
  <2>4. run.packets # 0
    BY <2>1
  <2>5. CASE q[m].at - q[e].at > IdleGap
    <3>1. nrun = RunOf(q, E, m, m) /\ nbulk = AddRun(bulk, run)
      <4>1. RunOf(q, E, m, m) = [packets |-> 1, bytes |-> q[m].size, start |-> q[m].at, end |-> q[m].at]
        BY RunOfOne
      <4> HIDE DEF E
      <4> QED
        BY <2>3, <2>5, <4>1 DEF Runs, Closed
    <3>2. Earlier(q, E, m) = BulksOf(q, D) /\ OpenRun(q, E, m, m)
      BY <2>5, ClosingBulks
    <3>3. Describes(AddRun(bulk, run), q, D, BulksOf(q, D))
      <4>1. RunInv(q, D, run, bulk)
        OBVIOUS
      <4> QED
        BY <1>1, <4>1, SentIsDescribed
    <3>4. Describes(nbulk, q, E, Earlier(q, E, m))
      <4>1. BulksOf(q, D) \subseteq D \X D
        BY DEF BulksOf
      <4>2. Describes(AddRun(bulk, run), q, E, BulksOf(q, D))
        BY <3>3, <4>1, StillDescribed
      <4> HIDE DEF E, nbulk
      <4> QED
        BY <3>1, <3>2, <4>2
    <3> HIDE DEF E, nrun, nbulk
    <3>5. RunInv(q, E, nrun, nbulk)
      BY <1>1, <3>1, <3>2, <3>4 DEF RunInv
    <3> QED
      BY <3>5 DEF E, nrun, nbulk
  <2>6. CASE ~(q[m].at - q[e].at > IdleGap)
    <3>1. nrun = RunOf(q, E, s, m) /\ nbulk = bulk
      <4>1. nrun = [packets |-> run.packets + 1, bytes |-> run.bytes + q[m].size, start |-> run.start, end |-> q[m].at]
        BY <2>3, <2>4, <2>6 DEF Runs
      <4> HIDE DEF E
      <4> QED
        BY <2>1, <2>2, <2>3, <2>6, <4>1 DEF Closed
    <3>2. Earlier(q, E, s) = Earlier(q, D, s) /\ OpenRun(q, E, s, m)
      BY <2>6, KeepingBulks
    <3>3. Describes(nbulk, q, E, Earlier(q, E, s))
      <4>1. Earlier(q, D, s) \subseteq D \X D
        BY DEF Earlier, BulksOf
      <4>2. Describes(bulk, q, E, Earlier(q, D, s))
        BY <4>1, StillDescribed
      <4> HIDE DEF E, nbulk
      <4> QED
        BY <3>1, <3>2, <4>2
    <3>4. s \in E
      OBVIOUS
    <3> HIDE DEF E, nrun, nbulk
    <3>5. RunInv(q, E, nrun, nbulk)
      BY <1>1, <3>1, <3>2, <3>3, <3>4 DEF RunInv
    <3> QED
      BY <3>5 DEF E, nrun, nbulk
  <2> QED
    BY <2>5, <2>6
<1> QED
  BY <1>2, <1>3 DEF RunInv

-------------------------------------------------------------------------------
(* The invariant *)

LogInv == log \in Seq(Packets) /\ InOrder(log)

ArrivalsInv == \A x \in BothAndAll : ArrivalInv(log, PacketsOf(log, x), flow.IATs[x], flow.last[x])
PeriodsInv ==
    ActivityInv(log, flow.ActivePeriods, flow.IdlePeriods, flow.ActiveStart, flow.ActiveEnd)
RunsInv == \A d \in Directions : RunInv(log, DataOf(log, d), flow.run[d], flow.bulk[d])

FeaturesInv == IsFeatures(flow) /\ LogInv /\ ArrivalsInv /\ PeriodsInv /\ RunsInv

LEMMA DataOfLog ==
    ASSUME NEW p \in Seq(Packets), InOrder(p), NEW d
    PROVE  Data(p, DataOf(p, d))
<1> PICK D : D = DataOf(p, d)
  OBVIOUS
<1>1. D \subseteq DOMAIN p /\ DOMAIN p = 1..Len(p) /\ Len(p) \in Nat
  BY DEF DataOf
<1>2. D \subseteq Nat
  BY <1>1
<1>3. IsFiniteSet(D)
  <2>1. IsFiniteSet(1..Len(p))
    BY <1>1, FS_Interval
  <2> QED
    BY <1>1, <2>1, FS_Subset
<1>4. \A i \in D : p[i].at \in Nat /\ p[i].size \in Nat
  BY <1>1, PacketFields
<1>5. \A i, j \in D : i <= j => p[i].at <= p[j].at
  BY <1>1 DEF InOrder
<1>6. Data(p, D)
  BY <1>2, <1>3, <1>4, <1>5 DEF Data
<1> QED
  BY <1>6

LEMMA FeaturesInit == FInit => FeaturesInv
<1> SUFFICES ASSUME FInit
             PROVE  FeaturesInv
  OBVIOUS
<1>1. log = <<>> /\ DOMAIN log = {} /\ flow = NewFeatures
  BY DEF FInit
<1>2. IsFeatures(flow)
  BY <1>1 DEF NewFeatures, IsFeatures, NoRun, NoBulk, RunRecords, BulkRecords, BothAndAll, Unset
<1>3. LogInv
  BY <1>1 DEF LogInv, InOrder
<1>4. ArrivalsInv
  <2> SUFFICES ASSUME NEW x \in BothAndAll
               PROVE  ArrivalInv(log, PacketsOf(log, x), flow.IATs[x], flow.last[x])
    BY DEF ArrivalsInv
  <2>1. flow.IATs[x] = <<>> /\ flow.last[x] = Unset
    BY <1>1 DEF NewFeatures, BothAndAll
  <2>2. PacketsOf(log, x) = {}
    BY <1>1 DEF PacketsOf
  <2> QED
    BY <2>1, <2>2, FeatureConstants DEF ArrivalInv
<1>5. PeriodsInv
  BY <1>1, FeatureConstants DEF PeriodsInv, ActivityInv, NewFeatures
<1>6. RunsInv
  <2> SUFFICES ASSUME NEW d \in Directions
               PROVE  RunInv(log, DataOf(log, d), flow.run[d], flow.bulk[d])
    BY DEF RunsInv
  <2>1. flow.run[d] = NoRun /\ flow.bulk[d] = NoBulk
    BY <1>1 DEF NewFeatures
  <2>2. DataOf(log, d) = {}
    BY <1>1 DEF DataOf
  <2> QED
    BY <2>1, <2>2 DEF RunInv
<1> QED
  BY <1>2, <1>3, <1>4, <1>5, <1>6 DEF FeaturesInv

\* The log of a step.
LEMMA LogStep ==
    ASSUME FeaturesInv, NEW d \in Directions, NEW size \in Sizes, NEW gap \in Gaps, FlowPacket(d, size, gap)
    PROVE  \E m, now \in Nat :
             /\ OneLater(log, log', m) /\ AtPlace(log', m, now)
             /\ log'[m].dir = d /\ log'[m].size = size /\ log'[m].at = now
             /\ flow' = UpdateFlowML(flow, d, size, now)
<1> PICK now : now = IF log = <<>> THEN 0 ELSE Last(log).at + gap
  OBVIOUS
<1> PICK r : r = [dir |-> d, size |-> size, at |-> now]
  OBVIOUS
<1> PICK p : p = log
  OBVIOUS
<1>1. p \in Seq(Packets) /\ InOrder(p) /\ Len(p) \in Nat /\ DOMAIN p = 1..Len(p)
  BY DEF FeaturesInv, LogInv
<1>2. now \in Nat /\ \A i \in 1..Len(p) : p[i].at <= now
  <2>1. CASE p = <<>>
    BY <2>1
  <2>2. CASE p # <<>>
    <3>1. Len(p) \in 1..Len(p) /\ Last(p) = p[Len(p)]
      BY <1>1, <2>2 DEF Last
    <3>2. p[Len(p)].at \in Nat
      BY <1>1, <3>1, PacketFields
    <3>3. now = p[Len(p)].at + gap /\ gap \in Nat
      BY <2>2, <3>1, FeatureConstants
    <3>4. now \in Nat /\ p[Len(p)].at <= now
      BY <3>2, <3>3
    <3>5. ASSUME NEW i \in 1..Len(p) PROVE p[i].at <= now
      <4>1. i \in DOMAIN p /\ Len(p) \in DOMAIN p /\ i <= Len(p)
        BY <1>1, <3>1
      <4>2. p[i].at <= p[Len(p)].at /\ p[i].at \in Nat
        BY <1>1, <4>1, PacketFields DEF InOrder
      <4> QED
        BY <3>2, <3>4, <4>2
    <3> QED
      BY <3>4, <3>5
  <2> QED
    BY <2>1, <2>2
<1>3. r \in Packets
  BY <1>2 DEF Packets
<1> PICK q : q = Append(p, r)
  OBVIOUS
<1>4. log' = q /\ flow' = UpdateFlowML(flow, d, size, now)
  BY DEF FlowPacket
<1>5. /\ q \in Seq(Packets) /\ Len(q) = Len(p) + 1 /\ q[Len(p) + 1] = r
      /\ \A i \in 1..Len(p) : q[i] = p[i]
  BY <1>1, <1>3, AppendProperties
<1> PICK m : m = Len(p) + 1
  OBVIOUS
<1>6. m \in Nat /\ DOMAIN q = 1..m /\ q[m] = r
  BY <1>1, <1>5
<1>7. r.at = now /\ r.dir = d /\ r.size = size
  OBVIOUS
<1>8. InOrder(q)
  <2> SUFFICES ASSUME NEW i \in 1..m, NEW j \in 1..m, i <= j
               PROVE  q[i].at <= q[j].at
    BY <1>6 DEF InOrder
  <2>1. CASE j = m /\ i = m
    BY <1>2, <1>6, <1>7, <2>1
  <2>2. CASE j = m /\ i # m
    <3>1. i \in 1..Len(p)
      BY <1>1, <2>2
    <3> QED
      BY <1>2, <1>5, <1>6, <1>7, <2>2, <3>1
  <2>3. CASE j # m
    <3>1. i \in 1..Len(p) /\ j \in 1..Len(p)
      BY <1>1, <2>3
    <3>2. p[i].at <= p[j].at
      BY <1>1, <3>1 DEF InOrder
    <3> QED
      BY <1>5, <3>1, <3>2
  <2> QED
    BY <2>1, <2>2, <2>3
<1>9. OneLater(p, q, m)
  BY <1>1, <1>5, <1>8 DEF OneLater
<1>10. OneLater(log, log', m) /\ AtPlace(log', m, now) /\ log'[m].dir = d /\ log'[m].size = size /\ log'[m].at = now
  BY <1>4, <1>6, <1>7, <1>9 DEF AtPlace
<1> QED
  BY <1>2, <1>4, <1>6, <1>10

\* A packet more, which is of direction d.
Logged(p, q, m, d, size, now) ==
    /\ OneLater(p, q, m) /\ AtPlace(q, m, now)
    /\ q[m].dir = d /\ q[m].size = size /\ q[m].at = now
    /\ d \in Directions /\ size \in Nat /\ now \in Nat

LEMMA PacketsOfMore ==
    ASSUME NEW p, NEW q, NEW m, NEW d, NEW size, NEW now, Logged(p, q, m, d, size, now), NEW x \in BothAndAll
    PROVE  /\ x \in {d, "all"} => PacketsOf(q, x) = PacketsOf(p, x) \cup {m}
           /\ x \notin {d, "all"} => PacketsOf(q, x) = PacketsOf(p, x)
           /\ PacketsOf(p, x) \subseteq DOMAIN p
<1>1. PlacesOf(p, q, m) /\ q[m].dir = d
  BY Places DEF Logged
<1>2. DOMAIN q = DOMAIN p \cup {m} /\ \A i \in DOMAIN p : q[i] = p[i]
  BY <1>1 DEF PlacesOf
<1> QED
  BY <1>1, <1>2 DEF PacketsOf

LEMMA DataOfMore ==
    ASSUME NEW p, NEW q, NEW m, NEW d, NEW size, NEW now, Logged(p, q, m, d, size, now), NEW c \in Directions
    PROVE  /\ c = d /\ size # 0 => DataOf(q, c) = DataOf(p, c) \cup {m} /\ MoreData(q, DataOf(p, c), m)
           /\ ~(c = d /\ size # 0) => DataOf(q, c) = DataOf(p, c)
           /\ \A k \in DataOf(p, c) : q[k] = p[k]
<1>1. PlacesOf(p, q, m) /\ q[m].dir = d /\ q[m].size = size /\ size \in Nat
      /\ q \in Seq(Packets) /\ InOrder(q)
  BY Places DEF Logged, OneLater
<1>2. DOMAIN q = DOMAIN p \cup {m} /\ m \in Nat /\ \A i \in DOMAIN p : q[i] = p[i] /\ i \in Nat /\ i < m
  BY <1>1 DEF PlacesOf
<1>3. c = d /\ size # 0 => DataOf(q, c) = DataOf(p, c) \cup {m}
  <2>1. size # 0 => size > 0
    BY <1>1
  <2> QED
    BY <1>1, <1>2, <2>1 DEF DataOf
<1>4. ~(c = d /\ size # 0) => DataOf(q, c) = DataOf(p, c)
  <2>1. size > 0 => size # 0
    OBVIOUS
  <2> QED
    BY <1>1, <1>2, <2>1 DEF DataOf
<1>5. DataOf(p, c) \subseteq DOMAIN p
  BY DEF DataOf
<1>6. Data(q, DataOf(q, c))
  BY <1>1, DataOfLog
<1>7. c = d /\ size # 0 => MoreData(q, DataOf(p, c), m)
  BY <1>2, <1>3, <1>5, <1>6 DEF MoreData
<1> QED
  BY <1>2, <1>3, <1>4, <1>5, <1>7

LEMMA ArrivalsStep ==
    ASSUME NEW p, NEW q, NEW m, NEW d, NEW size, NEW now, Logged(p, q, m, d, size, now),
           NEW f, NEW n, Updated(f, n, d, size, now), NEW x \in BothAndAll,
           ArrivalInv(p, PacketsOf(p, x), f.IATs[x], f.last[x])
    PROVE  ArrivalInv(q, PacketsOf(q, x), n.IATs[x], n.last[x])
<1>1. OneLater(p, q, m) /\ q[m].at = now
  BY DEF Logged
<1>2. /\ n.IATs[x] = IF x \in {d, "all"} THEN WithArrival(f.IATs[x], f.last[x], now) ELSE f.IATs[x]
      /\ n.last[x] = IF x \in {d, "all"} THEN now ELSE f.last[x]
  BY DEF Updated
<1>3. PacketsOf(p, x) \subseteq DOMAIN p
  BY PacketsOfMore
<1>4. CASE x \in {d, "all"}
  <2>1. PacketsOf(q, x) = PacketsOf(p, x) \cup {m}
    BY <1>4, PacketsOfMore
  <2>2. ArrivalInv(q, PacketsOf(p, x) \cup {m}, WithArrival(f.IATs[x], f.last[x], q[m].at), q[m].at)
    BY <1>1, <1>3, OneArrival
  <2> QED
    BY <1>1, <1>2, <1>4, <2>1, <2>2
<1>5. CASE x \notin {d, "all"}
  <2>1. PacketsOf(q, x) = PacketsOf(p, x)
    BY <1>5, PacketsOfMore
  <2>2. ArrivalInv(q, PacketsOf(p, x), f.IATs[x], f.last[x])
    BY <1>1, <1>3, NoArrival
  <2> QED
    BY <1>2, <1>5, <2>1, <2>2
<1> QED
  BY <1>4, <1>5

LEMMA PeriodsStep ==
    ASSUME NEW p, NEW q, NEW m, NEW d, NEW size, NEW now, Logged(p, q, m, d, size, now),
           NEW f, NEW n, Updated(f, n, d, size, now),
           ArrivalInv(p, PacketsOf(p, "all"), f.IATs["all"], f.last["all"]),
           ActivityInv(p, f.ActivePeriods, f.IdlePeriods, f.ActiveStart, f.ActiveEnd)
    PROVE  ActivityInv(q, n.ActivePeriods, n.IdlePeriods, n.ActiveStart, n.ActiveEnd)
<1> DEFINE first == f.last["all"] = Unset
           idles == ~first /\ now - f.last["all"] > IdleGap
<1>1. /\ n.ActivePeriods = IF idles THEN Keep(f.ActivePeriods, f.ActiveEnd - f.ActiveStart) ELSE f.ActivePeriods
      /\ n.IdlePeriods = IF idles THEN Keep(f.IdlePeriods, now - f.last["all"]) ELSE f.IdlePeriods
      /\ n.ActiveStart = IF first \/ idles THEN now ELSE f.ActiveStart
      /\ n.ActiveEnd = now
  BY DEF Updated
<1>2. OneLater(p, q, m) /\ AtPlace(q, m, now) /\ q[m].at = now /\ now \in Nat
      /\ p \in Seq(Packets) /\ m = Len(p) + 1 /\ Len(p) \in Nat /\ DOMAIN p = 1..Len(p)
  BY DEF Logged, OneLater
<1> PICK P : P = PacketsOf(p, "all")
  OBVIOUS
<1>3. P = DOMAIN p
  BY DEF PacketsOf
<1>4. CASE p = <<>>
  <2>1. m = 1 /\ P = {}
    BY <1>2, <1>3, <1>4
  <2>2. first
    BY <2>1 DEF ArrivalInv
  <2>3. /\ n.ActivePeriods = f.ActivePeriods /\ n.IdlePeriods = f.IdlePeriods
        /\ n.ActiveStart = now /\ n.ActiveEnd = now
    BY <1>1, <2>2
  <2>4. ActivityInv(q, f.ActivePeriods, f.IdlePeriods, q[1].at, q[1].at)
    BY <1>2, <1>4, FirstActivity
  <2> QED
    BY <1>2, <2>1, <2>3, <2>4
<1>5. CASE p # <<>>
  <2>1. Len(p) \in P /\ Len(p) > 0
    BY <1>2, <1>3, <1>5
  <2>2. Max(P) = Len(p)
    <3>1. P \subseteq Int /\ P # {} /\ Len(p) \in Int /\ \A y \in P : y <= Len(p)
      BY <1>2, <1>3, <2>1
    <3>2. Max(P) \in P /\ \A y \in P : y <= Max(P)
      BY <3>1, MaxOf
    <3> QED
      BY <2>1, <3>1, <3>2
  <2>3. f.last["all"] = p[Len(p)].at
    BY <2>1, <2>2 DEF ArrivalInv
  <2>4. p[Len(p)].at \in Nat
    BY <1>2, <1>3, <2>1, PacketFields
  <2>5. ~first
    BY <2>3, <2>4 DEF Unset
  <2>6. f.ActiveEnd = f.last["all"]
    BY <1>5, <2>3 DEF ActivityInv
  <2>7. /\ ActivityInv(q, f.ActivePeriods, f.IdlePeriods, f.ActiveStart, now)
        /\ ActivityInv(q, Keep(f.ActivePeriods, f.ActiveEnd - f.ActiveStart),
                       Keep(f.IdlePeriods, now - f.ActiveEnd), now, now)
    BY <1>2, <1>5, NextActivity
  <2>8. CASE idles
    <3>1. /\ n.ActivePeriods = Keep(f.ActivePeriods, f.ActiveEnd - f.ActiveStart)
          /\ n.IdlePeriods = Keep(f.IdlePeriods, now - f.ActiveEnd)
          /\ n.ActiveStart = now /\ n.ActiveEnd = now
      BY <1>1, <2>6, <2>8
    <3> QED
      BY <2>7, <3>1, Zenon
  <2>9. CASE ~idles
    <3>1. /\ n.ActivePeriods = f.ActivePeriods /\ n.IdlePeriods = f.IdlePeriods
          /\ n.ActiveStart = f.ActiveStart /\ n.ActiveEnd = now
      BY <1>1, <2>5, <2>9
    <3> QED
      BY <2>7, <3>1, Zenon
  <2> QED
    BY <2>8, <2>9
<1> QED
  BY <1>4, <1>5

LEMMA RunsStep ==
    ASSUME NEW p, NEW q, NEW m, NEW d, NEW size, NEW now, Logged(p, q, m, d, size, now),
           NEW f, NEW n, IsFeatures(f), Updated(f, n, d, size, now), NEW c \in Directions,
           RunInv(p, DataOf(p, c), f.run[c], f.bulk[c])
    PROVE  RunInv(q, DataOf(q, c), n.run[c], n.bulk[c])
<1>1. /\ n.run = [f.run EXCEPT ![d] = Runs(f.run[d], size, now)]
      /\ n.bulk = [f.bulk EXCEPT ![d] = Closed(f.bulk[d], f.run[d], size, now)]
      /\ DOMAIN f.run = Directions /\ DOMAIN f.bulk = Directions
      /\ d \in Directions
  BY DEF Updated, IsFeatures, Logged
<1>2. q[m].size = size /\ q[m].at = now /\ p \in Seq(Packets) /\ InOrder(p)
  BY DEF Logged, OneLater
<1> PICK D : D = DataOf(p, c)
  OBVIOUS
<1>3. RunInv(q, D, f.run[c], f.bulk[c])
  <2>1. Data(p, D)
    BY <1>2, DataOfLog
  <2>2. \A k \in D : q[k] = p[k]
    BY DataOfMore
  <2> QED
    BY <2>1, <2>2, RunSame
<1>4. CASE c = d /\ size # 0
  <2>1. n.run[c] = Runs(f.run[c], size, now) /\ n.bulk[c] = Closed(f.bulk[c], f.run[c], size, now)
    BY <1>1, <1>4
  <2>2. DataOf(q, c) = D \cup {m} /\ MoreData(q, D, m)
    BY <1>4, DataOfMore
  <2>3. RunInv(q, D \cup {m}, Runs(f.run[c], q[m].size, q[m].at), Closed(f.bulk[c], f.run[c], q[m].size, q[m].at))
    <3>1. q[m].size # 0
      BY <1>2, <1>4
    <3> QED
      BY <1>3, <2>2, <3>1, RunStep
  <2> QED
    BY <1>2, <2>1, <2>2, <2>3
<1>5. CASE ~(c = d /\ size # 0)
  <2>1. n.run[c] = f.run[c] /\ n.bulk[c] = f.bulk[c]
    <3>1. CASE c # d
      BY <1>1, <3>1
    <3>2. CASE c = d /\ size = 0
      BY <1>1, <3>2 DEF Runs, Closed
    <3> QED
      BY <1>5, <3>1, <3>2
  <2>2. DataOf(q, c) = D
    BY <1>5, DataOfMore
  <2> QED
    BY <1>3, <2>1, <2>2
<1> QED
  BY <1>4, <1>5

LEMMA FeaturesStep == FeaturesInv /\ [FNext]_fvars => FeaturesInv'
<1> SUFFICES ASSUME FeaturesInv, [FNext]_fvars
             PROVE  FeaturesInv'
  OBVIOUS
<1>1. CASE UNCHANGED fvars
  BY <1>1 DEF fvars, FeaturesInv, LogInv, ArrivalsInv, PeriodsInv, RunsInv
<1>2. CASE FNext
  <2> PICK d \in Directions, size \in Sizes, gap \in Gaps : FlowPacket(d, size, gap)
    BY <1>2 DEF FNext
  <2> PICK q : q = log'
    OBVIOUS
  <2> PICK n : n = flow'
    OBVIOUS
  <2>1. PICK m \in Nat, now \in Nat :
             /\ OneLater(log, q, m) /\ AtPlace(q, m, now)
             /\ q[m].dir = d /\ q[m].size = size /\ q[m].at = now
             /\ n = UpdateFlowML(flow, d, size, now)
    BY LogStep
  <2>2. size \in Nat
    BY FeatureConstants
  <2>3. Logged(log, q, m, d, size, now)
    BY <2>1, <2>2 DEF Logged
  <2>4. IsFeatures(flow)
    BY DEF FeaturesInv
  <2>5. IsFeatures(n) /\ Updated(flow, n, d, size, now)
    BY <2>1, <2>2, <2>4, FeatureFields
  <2>6. q \in Seq(Packets) /\ InOrder(q)
    BY <2>1 DEF OneLater
  <2>7. \A x \in BothAndAll : ArrivalInv(q, PacketsOf(q, x), n.IATs[x], n.last[x])
    BY <2>3, <2>5, ArrivalsStep DEF FeaturesInv, ArrivalsInv
  <2>8. ActivityInv(q, n.ActivePeriods, n.IdlePeriods, n.ActiveStart, n.ActiveEnd)
    <3>1. "all" \in BothAndAll
      BY DEF BothAndAll
    <3> QED
      BY <2>3, <2>5, <3>1, PeriodsStep DEF FeaturesInv, ArrivalsInv, PeriodsInv
  <2>9. \A c \in Directions : RunInv(q, DataOf(q, c), n.run[c], n.bulk[c])
    BY <2>3, <2>4, <2>5, RunsStep DEF FeaturesInv, RunsInv
  <2> QED
    BY <2>5, <2>6, <2>7, <2>8, <2>9 DEF FeaturesInv, LogInv, ArrivalsInv, PeriodsInv, RunsInv
<1> QED
  BY <1>1, <1>2

LEMMA FeaturesInvariant == FeatureSpec => []FeaturesInv
<1>1. FInit => FeaturesInv
  BY FeaturesInit
<1>2. FeaturesInv /\ [FNext]_fvars => FeaturesInv'
  BY FeaturesStep
<1> QED
  BY <1>1, <1>2, PTL DEF FeatureSpec

-------------------------------------------------------------------------------

\* What would be sent to the ML service of the bulks of a flow, at any moment, is what
\* its packets say (UpdateFlowML and ExtractFlowFeatures).
THEOREM BulksAreReal == FeatureSpec => []BulksAreThoseOfTheLog
<1>1. FeaturesInv => BulksAreThoseOfTheLog
  <2> SUFFICES ASSUME FeaturesInv, NEW d \in Directions
               PROVE  Describes(Features(flow).bulk[d], log, DataOf(log, d), BulksOf(log, DataOf(log, d)))
    BY DEF BulksAreThoseOfTheLog
  <2>1. Features(flow).bulk[d] = AddRun(flow.bulk[d], flow.run[d])
    BY DEF Features
  <2>2. RunInv(log, DataOf(log, d), flow.run[d], flow.bulk[d])
    BY DEF FeaturesInv, RunsInv
  <2>3. Data(log, DataOf(log, d))
    BY DataOfLog DEF FeaturesInv, LogInv
  <2> QED
    BY <2>1, <2>2, <2>3, SentIsDescribed
<1> QED
  BY <1>1, FeaturesInvariant, PTL

\* The periods and the times between packets add up to the duration of the flow, until
\* a list is full (UpdateFlowML and ExtractFlowFeatures).
THEOREM TimesAreComplete == FeatureSpec => []TimesAddUp
<1>1. FeaturesInv => TimesAddUp
  <2> SUFFICES ASSUME FeaturesInv
               PROVE  TimesAddUp
    OBVIOUS
  <2> PICK sent : sent = Features(flow)
    OBVIOUS
  <2>1. /\ sent.IATs = flow.IATs /\ sent.idle = flow.IdlePeriods
        /\ sent.active = IF flow.ActiveEnd = Unset THEN flow.ActivePeriods
                         ELSE Append(flow.ActivePeriods, flow.ActiveEnd - flow.ActiveStart)
    BY DEF Features
  <2>2. log \in Seq(Packets) /\ Len(log) \in Nat /\ DOMAIN log = 1..Len(log)
    BY DEF FeaturesInv, LogInv
  <2>3. ASSUME Len(flow.IdlePeriods) < MaxEntries
        PROVE  Total(sent.active) + Total(sent.idle) = SpanOf(log, DOMAIN log)
    <3> DEFINE act == flow.ActivePeriods
               idle == flow.IdlePeriods
               start == flow.ActiveStart
               end == flow.ActiveEnd
    <3>1. ActivityInv(log, act, idle, start, end)
      BY DEF FeaturesInv, PeriodsInv
    <3>2. CASE log = <<>>
      <4>1. end = Unset /\ act = <<>> /\ idle = <<>> /\ DOMAIN log = {}
        BY <2>2, <3>1, <3>2 DEF ActivityInv
      <4>2. Total(<<>>) = 0
        BY SumOfEmptySeq DEF Total
      <4> QED
        BY <2>1, <4>1, <4>2 DEF SpanOf
    <3>3. CASE log # <<>>
      <4>1. /\ end = log[Len(log)].at /\ start \in Nat /\ AddUp(Total(act), Total(idle), log[1].at, start, end)
            /\ act \in Seq(Int) /\ idle \in Seq(Int)
        BY <2>3, <3>1, <3>3 DEF ActivityInv
      <4>2. 1 \in DOMAIN log /\ Len(log) \in DOMAIN log /\ DOMAIN log # {}
        BY <2>2, <3>3
      <4>3. log[1].at \in Nat /\ end \in Nat
        BY <2>2, <4>1, <4>2, PacketFields
      <4>4. sent.active = Append(act, end - start) /\ end - start \in Int
        BY <2>1, <4>1, <4>3 DEF Unset
      <4>5. Total(sent.active) = Total(act) + (end - start) /\ Total(act) \in Int
        BY <4>1, <4>4, SumOfAppend DEF Total
      <4>6. Total(idle) \in Int
        <5>1. 0 \in Int
          OBVIOUS
        <5> QED
          BY <4>1, <5>1, SumOfAppend DEF Total
      <4>7. SpanOf(log, DOMAIN log) = end - log[1].at
        <5> PICK P : P = DOMAIN log
          OBVIOUS
        <5>1. P \subseteq Nat /\ P # {} /\ P \subseteq Int /\ Len(log) \in Int /\ \A y \in P : 1 <= y /\ y <= Len(log)
          BY <2>2, <4>2
        <5>2. Max(P) \in P /\ \A y \in P : y <= Max(P)
          BY <5>1, MaxOf
        <5>3. Min(P) \in P /\ \A y \in P : Min(P) <= y
          BY <5>1, MinOf
        <5>4. Max(P) = Len(log) /\ Min(P) = 1
          BY <4>2, <5>1, <5>2, <5>3
        <5> QED
          BY <4>1, <5>1, <5>4 DEF SpanOf
      <4>8. Total(act) + (end - start) + Total(idle) = end - log[1].at
        BY <4>1 DEF AddUp
      <4> QED
        BY <2>1, <4>5, <4>7, <4>8
    <3> QED
      BY <3>2, <3>3
  <2>4. ASSUME NEW x \in Directions \cup {"all"}, Len(sent.IATs[x]) < MaxEntries
        PROVE  Total(sent.IATs[x]) = SpanOf(log, PacketsOf(log, x))
    <3>1. ArrivalInv(log, PacketsOf(log, x), flow.IATs[x], flow.last[x])
      BY DEF FeaturesInv, ArrivalsInv, BothAndAll
    <3>2. CASE PacketsOf(log, x) = {}
      <4>1. flow.IATs[x] = <<>>
        BY <3>1, <3>2 DEF ArrivalInv
      <4> QED
        BY <2>1, <3>2, <4>1, SumOfEmptySeq DEF Total, SpanOf
    <3>3. CASE PacketsOf(log, x) # {}
      BY <2>1, <2>4, <3>1, <3>3 DEF ArrivalInv
    <3> QED
      BY <3>2, <3>3
  <2> QED
    BY <2>3, <2>4 DEF TimesAddUp
<1> QED
  BY <1>1, FeaturesInvariant, PTL

\* A run does not end before it starts, so that no bulk takes a negative time.
DurationsInv == \A d \in Directions : flow.bulk[d].duration >= 0

LEMMA RunsTakeTime ==
    ASSUME FeaturesInv, NEW d \in Directions, flow.run[d].packets > 0
    PROVE  flow.run[d].start \in Int /\ flow.run[d].end \in Int /\ flow.run[d].start <= flow.run[d].end
<1>1. RunInv(log, DataOf(log, d), flow.run[d], flow.bulk[d])
  BY DEF FeaturesInv, RunsInv
<1>2. flow.run[d] # NoRun
  BY DEF NoRun
<1>3. PICK s \in DataOf(log, d), e \in DataOf(log, d) :
         OpenRun(log, DataOf(log, d), s, e) /\ flow.run[d] = RunOf(log, DataOf(log, d), s, e)
  BY <1>1, <1>2 DEF RunInv
<1>4. flow.run[d].start = log[s].at /\ flow.run[d].end = log[e].at
  BY <1>3 DEF RunOf
<1>5. s \in DOMAIN log /\ e \in DOMAIN log /\ s <= e
  BY <1>3 DEF DataOf, OpenRun, IsBulk
<1>6. log \in Seq(Packets) /\ InOrder(log)
  BY DEF FeaturesInv, LogInv
<1>7. log[s].at \in Nat /\ log[e].at \in Nat
  BY <1>5, <1>6, PacketFields
<1>8. log[s].at <= log[e].at
  BY <1>5, <1>6 DEF InOrder
<1> QED
  BY <1>4, <1>7, <1>8

LEMMA DurationsStep == FeaturesInv /\ DurationsInv /\ [FNext]_fvars => DurationsInv'
<1> SUFFICES ASSUME FeaturesInv, DurationsInv, FNext
             PROVE  DurationsInv'
  BY DEF fvars, DurationsInv
<1> PICK d \in Directions, size \in Sizes, gap \in Gaps : FlowPacket(d, size, gap)
  BY DEF FNext
<1> PICK n : n = flow'
  OBVIOUS
<1>1. PICK m \in Nat, now \in Nat : n = UpdateFlowML(flow, d, size, now)
  BY LogStep
<1>2. IsFeatures(flow) /\ size \in Nat
  BY FeatureConstants DEF FeaturesInv
<1>3. Updated(flow, n, d, size, now)
  BY <1>1, <1>2, FeatureFields
<1>4. /\ n.bulk = [flow.bulk EXCEPT ![d] = Closed(flow.bulk[d], flow.run[d], size, now)]
      /\ flow.bulk \in [Directions -> BulkRecords] /\ flow.run \in [Directions -> RunRecords]
  BY <1>2, <1>3 DEF Updated, IsFeatures
<1>5. flow.bulk[d].duration >= 0 /\ flow.bulk[d].duration \in Int
  BY <1>4 DEF DurationsInv, BulkRecords
<1>6. Closed(flow.bulk[d], flow.run[d], size, now).duration >= 0
  <2>1. CASE Closed(flow.bulk[d], flow.run[d], size, now) = flow.bulk[d]
    BY <1>5, <2>1
  <2>2. CASE /\ flow.run[d].packets > 0
             /\ Closed(flow.bulk[d], flow.run[d], size, now).duration
                  = flow.bulk[d].duration + flow.run[d].end - flow.run[d].start
    <3>1. flow.run[d].start \in Int /\ flow.run[d].end \in Int /\ flow.run[d].start <= flow.run[d].end
      BY <2>2, RunsTakeTime
    <3> QED
      BY <1>5, <2>2, <3>1
  <2> QED
    BY <2>1, <2>2 DEF Closed, Closes, AddRun
<1>7. ASSUME NEW c \in Directions PROVE n.bulk[c].duration >= 0
  <2>1. CASE c = d
    BY <1>4, <1>6, <2>1
  <2>2. CASE c # d
    <3>1. n.bulk[c] = flow.bulk[c]
      BY <1>4, <2>2
    <3> QED
      BY <3>1 DEF DurationsInv
  <2> QED
    BY <2>1, <2>2
<1> QED
  BY <1>7 DEF DurationsInv

\* Counts, sums and durations of bulks are never negative, nor are periods; idle periods are
\* as many as active ones, within the limit.
THEOREM FeaturesTypeCorrect == FeatureSpec => []FeaturesTypeOK
<1>1. FInit => DurationsInv
  BY DEF FInit, NewFeatures, NoBulk, DurationsInv
<1>2. FeaturesInv /\ DurationsInv => FeaturesTypeOK
  <2> SUFFICES ASSUME FeaturesInv, DurationsInv
               PROVE  FeaturesTypeOK
    OBVIOUS
  <2> PICK act : act = flow.ActivePeriods
    OBVIOUS
  <2> PICK idle : idle = flow.IdlePeriods
    OBVIOUS
  <2>1. log \in Seq([dir : Directions, size : Sizes, at : Nat])
    BY DEF FeaturesInv, LogInv, Packets
  <2>2. \A d \in Directions : flow.bulk[d] \in BulkRecords /\ flow.bulk[d].duration >= 0
    BY DEF FeaturesInv, IsFeatures, DurationsInv
  <2>3. \A d \in Directions : \A k \in DOMAIN NoBulk : flow.bulk[d][k] \in Nat
    BY <2>2 DEF BulkRecords, NoBulk
  <2>4. /\ act \in Seq(Int) /\ idle \in Seq(Int) /\ Len(act) = Len(idle) /\ Len(act) <= MaxEntries
        /\ \A i \in 1..Len(act) : act[i] \in Nat /\ idle[i] \in Nat
    BY DEF FeaturesInv, PeriodsInv, ActivityInv
  <2>5. act \in Seq(Nat) /\ idle \in Seq(Nat)
    <3>1. \A s \in Seq(Int) : (\A i \in 1..Len(s) : s[i] \in Nat) => s \in Seq(Nat)
      OBVIOUS
    <3> QED
      BY <2>4, <3>1
  <2> QED
    BY <2>1, <2>3, <2>4, <2>5 DEF FeaturesTypeOK
<1> QED
  BY <1>1, <1>2, FeaturesInvariant, DurationsStep, PTL DEF FeatureSpec
===============================================================================
