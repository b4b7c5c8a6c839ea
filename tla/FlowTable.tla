------------------------------- MODULE FlowTable -------------------------------
(***************************************************************************)
(* The flow tables of the engines and what a packet does to them           *)
(* (ProcessPacket in detection/engine.go, flow/tracker.go, flow/key.go),   *)
(* up to the request to the ML service, which fixes whom an alert blames.  *)
(*                                                                         *)
(* Each engine has a table of its own. A loop handles one packet at a      *)
(* time; which engine serves a packet is the choice of the capture: the    *)
(* fanout of the kernel for AF_PACKET, a hash for NFQUEUE. Two loops serve *)
(* one engine while an old NFQUEUE loop finishes after a reload. Only TCP  *)
(* is modelled. Inspectors and rules change nothing here (see RuleEngine), *)
(* the features of a flow are in FlowFeatures. The ML service is enabled   *)
(* and available.                                                          *)
(***************************************************************************)
EXTENDS TcpStream

CONSTANTS
    Loops,          \* goroutines that handle packets
    Engines,
    Endpoints,      \* address and port, as a number
    Local,          \* those inside: isLocalIP
    Connections,    \* the pairs <<opener, responder>> that communicate
    EngineFor,      \* source -> destination -> engine: the choice of the capture
    PacketKinds,          \* of packets, among SYN, SYN-ACK, data and FIN
    Length,         \* bytes each side sends, a segment each
    MaxFlows,       \* of a table: 100000
    IdleTimeout,    \* 120 s
    MinPackets,     \* before the ML service is asked: 10
    MLInterval,     \* 5 s
    HandlerLag,         \* bound on the time from GetOrCreate to the end of a handler
    MaxFlowPackets, MaxFlowTime

ASSUME FlowAssumption ==
    /\ Endpoints \subseteq Nat /\ Local \subseteq Endpoints
    /\ Connections \subseteq Endpoints \X Endpoints
    /\ EngineFor \in [Endpoints -> [Endpoints -> Engines]]
    /\ {Length, MaxFlows, IdleTimeout, MinPackets, MLInterval, HandlerLag, MaxFlowPackets, MaxFlowTime} \subseteq Nat
    /\ Length < Modulus \div 2 /\ HandlerLag < IdleTimeout

\* Mutant: the key has a direction.
NewKeyDirected(src, dst) == <<src, dst>>

\* NewKey: both directions of a connection have the same key.
NewKey(src, dst) == IF src <= dst THEN <<src, dst>> ELSE <<dst, src>>
FlowKeys == UNION {{NewKey(c[1], c[2]), NewKey(c[2], c[1])} : c \in Connections}

NoFlow == 0
Ids == 1..MaxFlowPackets        \* a flow is known by its place in flows
NotChecked == -(MLInterval + 1)  \* LastMLCheck is 0 and the time since 1970 is large

\* Mutant: LastSeen is left to the first update.
NewFlowUnseen(key, src, t) ==
    [key |-> key, Original |-> src, LastSeen |-> 0, PacketCount |-> 0, State |-> "New",
     LastMLCheck |-> NotChecked,
     Client |-> NewStreamReassembler, Server |-> NewStreamReassembler]
NewFlow(key, src, t) ==
    [key |-> key, Original |-> src, LastSeen |-> t, PacketCount |-> 0, State |-> "New",
     LastMLCheck |-> NotChecked,
     Client |-> NewStreamReassembler, Server |-> NewStreamReassembler]

VARIABLES
    time,
    flows,      \* the flow objects, those no longer in a table included
    table,      \* Tracker.flows: per engine, key -> flow
    handling,        \* per loop: the packet it handles and where it is
    handled,    \* the packets that came
    asked,      \* history: the requests to the ML service and whom an alert would name
    opened,     \* history: connections whose opener has sent a packet
    lapsed      \* history: keys pruned, or refused for want of room

ftvars == <<time, flows, table, handling, handled, asked, opened, lapsed>>

IdleLoop == [pc |-> "idle", src |-> 0, dst |-> 0, kind |-> "none", seq |-> 0, flow |-> NoFlow, since |-> 0, at |-> 0]

FTInit ==
    /\ time = 0 /\ flows = <<>>
    /\ table = [e \in Engines |-> [k \in FlowKeys |-> NoFlow]]
    /\ handling = [l \in Loops |-> IdleLoop]
    /\ asked = <<>> /\ opened = {} /\ lapsed = {}
    /\ handled = 0

EngineOf(p) == EngineFor[p.src][p.dst]
InUse(e) == {k \in FlowKeys : table[e][k] # NoFlow}

Tick ==
    /\ time < MaxFlowTime
    /\ \A l \in Loops : handling[l].pc = "idle" \/ time - handling[l].since < HandlerLag
    /\ time' = time + 1
    /\ UNCHANGED <<flows, table, handling, handled, asked, opened, lapsed>>

-------------------------------------------------------------------------------
(* A packet *)

\* What the two sides of a connection send: a responder only answers.
Sends(src, dst, kind) ==
    \/ <<src, dst>> \in Connections /\ kind \in {"SYN", "data", "FIN"}
    \/ <<dst, src>> \in opened /\ kind \in {"SYN-ACK", "data", "FIN"}
SeqsOf(kind) == IF kind = "data" THEN 1..Length ELSE {0}

\* GetOrCreate. A packet for which there is no room is let through unseen.
GetOrCreate(l, src, dst, kind, seq) ==
    LET p == [IdleLoop EXCEPT !.pc = "update", !.src = src, !.dst = dst, !.kind = kind, !.seq = seq,
                          !.since = time]
        key == NewKey(src, dst)
        id == table[EngineOf(p)][key]
    IN
    /\ handling[l].pc = "idle" /\ handled < MaxFlowPackets
    /\ Sends(src, dst, kind)
    /\ opened' = opened \cup ({<<src, dst>>} \cap Connections)
    /\ handled' = handled + 1
    /\ \/ /\ id # NoFlow
          /\ flows' = [flows EXCEPT ![id].LastSeen = time]
          /\ handling' = [handling EXCEPT ![l] = [p EXCEPT !.flow = id]]
          /\ UNCHANGED <<table, lapsed>>
       \/ /\ id = NoFlow /\ Cardinality(InUse(EngineOf(p))) >= MaxFlows
          /\ lapsed' = lapsed \cup {key}
          /\ UNCHANGED <<flows, table, handling>>
       \/ /\ id = NoFlow /\ Cardinality(InUse(EngineOf(p))) < MaxFlows
          /\ flows' = Append(flows, NewFlow(key, src, time))
          /\ table' = [table EXCEPT ![EngineOf(p)][key] = Len(flows')]
          /\ handling' = [handling EXCEPT ![l] = [p EXCEPT !.flow = Len(flows')]]
          /\ UNCHANGED lapsed
    /\ UNCHANGED <<time, asked>>

\* The state of the connection. A FIN that comes first makes it established.
NextState(f, kind) ==
    CASE kind = "SYN" -> "New"
      [] kind # "SYN" /\ f.State = "New" -> "Established"
      [] kind = "FIN" /\ f.State # "New" -> "Closing"
      [] OTHER -> f.State

\* The stream of the sender, before the payload.
Initialise(f, side, kind) ==
    IF kind = "SYN" \/ (kind = "SYN-ACK" /\ f.State = "New" /\ side = "Server")
    THEN SetNextSeq(f[side], 1) ELSE f[side]

UpdateFlow(f, src, kind, seq, t) ==
    LET side == IF f.Original = src THEN "Client" ELSE "Server"
        payload == IF kind = "data" THEN <<(<<src, seq>>)>> ELSE <<>>
    IN  [f EXCEPT !.LastSeen = t, !.PacketCount = @ + 1, !.State = NextState(f, kind),
                  ![side] = AddSegment(Initialise(f, side, kind), seq, payload)]

\* UpdateFlowML, under the mutex of the flow.
Update(l) ==
    /\ handling[l].pc = "update"
    /\ LET p == handling[l]
       IN  flows' = [flows EXCEPT ![p.flow] = UpdateFlow(@, p.src, p.kind, p.seq, time)]
    /\ handling' = [handling EXCEPT ![l].pc = "mlread"]
    /\ UNCHANGED <<time, table, handled, asked, opened, lapsed>>

\* The throttle is read, and decided upon, under the mutex ...
ReadThrottle(l) ==
    LET f == flows[handling[l].flow]
        asks == /\ f.Original \notin Local /\ f.PacketCount >= MinPackets
                /\ time - f.LastMLCheck > MLInterval
    IN
    /\ handling[l].pc = "mlread"
    /\ handling' = [handling EXCEPT ![l] = IF asks THEN [@ EXCEPT !.pc = "mlwrite", !.at = time] ELSE IdleLoop]
    /\ UNCHANGED <<time, flows, table, handled, asked, opened, lapsed>>

\* Mutant: it is not written.
WriteThrottleForgotten(l) ==
    LET p == handling[l]
        f == flows[p.flow]
    IN
    /\ p.pc = "mlwrite"
    /\ asked' = Append(asked, [loop |-> l, flow |-> p.flow, at |-> p.at, host |-> f.Original,
                               lapsed |-> f.key \in lapsed])
    /\ handling' = [handling EXCEPT ![l] = IdleLoop]
    /\ UNCHANGED <<time, flows, table, handled, opened, lapsed>>

\* ... and written when it is taken again. The goroutine that asks the service about
\* this flow will name its initiator as the attacker.
WriteThrottle(l) ==
    LET p == handling[l]
        f == flows[p.flow]
    IN
    /\ p.pc = "mlwrite"
    /\ flows' = [flows EXCEPT ![p.flow].LastMLCheck = p.at]
    /\ asked' = Append(asked, [loop |-> l, flow |-> p.flow, at |-> p.at, host |-> f.Original,
                               lapsed |-> f.key \in lapsed])
    /\ handling' = [handling EXCEPT ![l] = IdleLoop]
    /\ UNCHANGED <<time, table, handled, opened, lapsed>>

\* pruneLoop, under the lock of the table. No flow gets the state Closed.
Expired(f) == time - f.LastSeen > IdleTimeout
Prune(e) ==
    LET gone == {k \in InUse(e) : Expired(flows[table[e][k]])}
    IN
    /\ gone # {}
    /\ table' = [table EXCEPT ![e] = [k \in FlowKeys |-> IF k \in gone THEN NoFlow ELSE @[k]]]
    /\ lapsed' = lapsed \cup gone
    /\ UNCHANGED <<time, flows, handling, handled, asked, opened>>

FTNext ==
    \/ Tick
    \/ \E l \in Loops :
          \/ \E src, dst \in Endpoints : \E kind \in PacketKinds :
                \E seq \in SeqsOf(kind) : GetOrCreate(l, src, dst, kind, seq)
          \/ Update(l) \/ ReadThrottle(l) \/ WriteThrottle(l)
    \/ \E e \in Engines : Prune(e)

FlowSpec == FTInit /\ [][FTNext]_ftvars

-------------------------------------------------------------------------------
(* Properties *)

FlowTypeOK ==
    /\ time \in 0..MaxFlowTime /\ Len(flows) <= MaxFlowPackets
    /\ \A i \in DOMAIN flows : flows[i].State \in {"New", "Established", "Closing"}
                               /\ flows[i].LastSeen \in 0..time
    /\ table \in [Engines -> [FlowKeys -> 0..Len(flows)]]
    /\ \A e \in Engines : Cardinality(InUse(e)) <= MaxFlows
    /\ \A l \in Loops : handling[l].flow \in 0..Len(flows)

\* A flow that a packet is being counted in stays in the table: pruning, the limit and
\* other loops do not make two flows of one connection under a handler.
HeldIsTracked ==
    \A l \in Loops : handling[l].pc # "idle" =>
        table[EngineOf(handling[l])][NewKey(handling[l].src, handling[l].dst)] = handling[l].flow

\* What is searched as the client's stream is a contiguous piece of what one side
\* sent, and the server's of what the other did, whichever packet came first and
\* however often the flow was forgotten and begun anew.
PieceOf(data, src) == \A i \in DOMAIN data : data[i] = <<src, data[1][2] + i - 1>>
Other(f) == CHOOSE x \in {f.key[1], f.key[2]} : x # f.Original
StreamsOfOneSide ==
    \A i \in DOMAIN flows : /\ PieceOf(flows[i].Client.Data, flows[i].Original)
                            /\ PieceOf(flows[i].Server.Data, Other(flows[i]))

\* One loop does not ask the ML service about a flow twice within the interval, less
\* the lag of another loop that writes an older time. Two loops may ask at once.
MLSpacing ==
    \A i, j \in DOMAIN asked :
        i < j /\ asked[i].loop = asked[j].loop /\ asked[i].flow = asked[j].flow
            => asked[j].at - asked[i].at > MLInterval - HandlerLag

\* The ML service is not asked whether to blame a server that a local host opened a
\* connection to.
Visited(host) == \E c \in Connections : c[1] \in Local /\ c[2] = host
VisitedServerNotBlamed == \A b \in Range(asked) : ~Visited(b.host)

\* With both directions in one engine, this holds of every connection that was followed
\* from its first packet on, without being pruned or refused.
BlameFollowsOpener == \A b \in Range(asked) : Visited(b.host) => b.lapsed
===============================================================================
