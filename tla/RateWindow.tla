------------------------------ MODULE RateWindow ------------------------------
(***************************************************************************)
(* The sliding windows of the rate heuristics for one source address       *)
(* (AnalyzePacket in detection/heuristic.go, cleanupLoop in state.go).     *)
(*                                                                         *)
(* Two kinds of windows: lists of time stamps, whose length is a rate, and *)
(* maps from a key (port, host, MAC) to its last time stamp, whose size is *)
(* a number of distinct keys. The clock is read before AppState is locked, *)
(* and a source is served by several workers, so that time stamps enter a  *)
(* list out of order. The lock is released again while an alert is handled (see  *)
(* Prevention), between the updates of two lists and never within one; here *)
(* a packet is one step. The clock does not go back. The payload-based      *)
(* alerts have no window and are left out.                                  *)
(***************************************************************************)
EXTENDS Integers, Sequences, FiniteSets, SequencesExt

CONSTANTS
    Workers,
    Kinds,      \* the kinds of packets that come, among those of Feeds
    Keys,       \* ports, hosts or MACs a packet may name
    Window,     \* of the lists and of the ports: 3 s
    KeyWindow,  \* of the other maps: 60 s, or 10 s
    Retain,     \* cleanupLoop: 300 s
    ScanMemory, \* how long a port scan alert suppresses the flood alert: 30 s
    FewPorts,   \* a source on more ports than this is not a SYN flood: 5
    Threshold,  \* per rule: the rate or number that must be exceeded
    MaxLag,     \* bound on how long a handler uses one reading of the clock
    MaxPackets, MaxTime

ASSUME WindowsAssumption ==
    /\ {Window, KeyWindow, Retain, MaxLag, MaxPackets, MaxTime} \subseteq Nat
    /\ Window > 0 /\ Window + 2 * MaxLag <= Retain /\ KeyWindow + MaxLag <= Retain
    /\ IsFiniteSet(Keys)

\* A request and a reply are ARP; large and web are UDP with a payload over 1000
\* bytes and UDP of port 80 or 443; lateral is a packet between two internal
\* hosts to port 22, 445 or 3389. A packet that is of two kinds at once in the
\* code is here a packet of one of them.
Udp == {"udp", "large", "web", "dns", "dhcp"}
Arp == {"request", "reply"}

\* The lists a packet enters, and the map it enters with its key.
Feeds(kind) ==
    {"packet"} \cup {f \in {"syn"} : kind \in {"syn", "ssh"}} \cup ({"ssh", "dns", "icmp"} \cap {kind})
               \cup {f \in {"arp"} : kind \in Arp} \cup {f \in {"udp"} : kind \in Udp}
Names(kind) ==
    CASE kind \in {"syn", "ssh"} -> {"ports"}
      [] kind \in Arp            -> {"macs"}
      [] kind = "lateral"        -> {"hosts"}
      [] kind = "icmp"           -> {"pinged"}
      [] kind = "dhcp"           -> {"clients"}
      [] OTHER                   -> {}

\* Which list or map a rule looks at; two rules look at replies only.
RateRules ==
    [r \in {"NET-ARP-002", "NET-ARP-003", "NET-SSH-001", "NET-UDP-001", "NET-DNS-001", "NET-ICMP-001"} |->
        CASE r = "NET-SSH-001"  -> "ssh"
          [] r = "NET-UDP-001"  -> "udp"
          [] r = "NET-DNS-001"  -> "dns"
          [] r = "NET-ICMP-001" -> "icmp"
          [] OTHER              -> "arp"]
MapRules ==
    [r \in {"NET-ARP-001", "NET-LAT-001", "NET-SCAN-001", "NET-DHCP-001", "NET-SWEEP-001"} |->
        CASE r = "NET-LAT-001"   -> "hosts"
          [] r = "NET-SCAN-001"  -> "ports"
          [] r = "NET-DHCP-001"  -> "clients"
          [] r = "NET-SWEEP-001" -> "pinged"
          [] OTHER               -> "macs"]
ReplyRules == {"NET-ARP-001", "NET-ARP-003"}

ASSUME ThresholdAssumption ==
    Threshold \in [DOMAIN RateRules \cup DOMAIN MapRules \cup {"NET-SYN-001", "NET-DOS-001"} -> Nat]

Limit(rule, kind) ==
    CASE rule = "NET-UDP-001" /\ kind = "large" -> Threshold[rule] \div 2
      [] rule = "NET-UDP-001" /\ kind = "web"   -> Threshold[rule] * 50
      [] OTHER                                  -> Threshold[rule]

Families == UNION {Feeds(k) : k \in Kinds}
Maps == UNION {Names(k) : k \in Kinds}
Width(m) == IF m = "ports" THEN Window ELSE KeyWindow

VARIABLES
    now,
    job,        \* per worker: the packet it handles, with its reading of the clock
    stamps,     \* IPPacketTimestamps, IPSYNTimestamps, ... : per family
    touched,    \* IPPortsAccessed, IPMACMapping, ... : per map, key -> time stamp
    lastScan,   \* LastAlertTimes of NET-SCAN-001
    seen,       \* history: per family and reading, how many packets were counted
    newest,     \* history: per map and key, the newest reading it was entered with
    verdict     \* history: the last packet, with the alerts it raised

wvars == <<now, job, stamps, touched, lastScan, seen, newest, verdict>>

Never == -1
NoPacket == [kind |-> "none", key |-> "none", cur |-> Never]
Readings == 0..MaxTime
Taken == SumFunction(seen["packet"]) + Cardinality({w \in Workers : job[w] # NoPacket})

WInit ==
    /\ now = 0 /\ lastScan = Never
    /\ job = [w \in Workers |-> NoPacket]
    /\ stamps = [f \in Families |-> <<>>]
    /\ touched = [m \in Maps |-> [k \in Keys |-> Never]]
    /\ seen = [f \in Families |-> [t \in Readings |-> 0]]
    /\ newest = [m \in Maps |-> [k \in Keys |-> Never]]
    /\ verdict = [packet |-> NoPacket, alerts |-> {}]

Clock ==
    /\ now < MaxTime
    /\ \A w \in Workers : job[w] = NoPacket \/ now - job[w].cur < MaxLag
    /\ now' = now + 1
    /\ UNCHANGED <<job, stamps, touched, lastScan, seen, newest, verdict>>

\* currentTime is read first; the lock comes later.
Arrive(w) ==
    /\ job[w] = NoPacket /\ Taken < MaxPackets
    /\ \E kind \in Kinds : \E key \in Keys :
          job' = [job EXCEPT ![w] = [kind |-> kind, key |-> key, cur |-> now]]
    /\ UNCHANGED <<now, stamps, touched, lastScan, seen, newest, verdict>>

-------------------------------------------------------------------------------
\* Mutants: a stamp as old as the window is dropped; a list with no stamp in the window
\* is kept.
AddTimestampEarly(ts, cur) ==
    LET live == {i \in DOMAIN ts : cur - ts[i] < Window}
    IN  Append(IF live = {} THEN <<>> ELSE SubSeq(ts, Min(live), Len(ts)), cur)
AddTimestampStale(ts, cur) ==
    LET live == {i \in DOMAIN ts : cur - ts[i] <= Window}
    IN  Append(IF live = {} THEN ts ELSE SubSeq(ts, Min(live), Len(ts)), cur)

\* addTimestamp: drops the stamps in front of the first one in the window.
AddTimestamp(ts, cur) ==
    LET live == {i \in DOMAIN ts : cur - ts[i] <= Window}
    IN  Append(IF live = {} THEN <<>> ELSE SubSeq(ts, Min(live), Len(ts)), cur)

\* Mutant: no key is deleted.
TouchOnly(map, key, cur, width) == [map EXCEPT ![key] = cur]

\* The map is scanned in full.
Touch(map, key, cur, width) ==
    [k \in Keys |-> LET t == IF k = key THEN cur ELSE map[k]
                    IN  IF t # Never /\ cur - t > width THEN Never ELSE t]
Size(map) == Cardinality({k \in Keys : map[k] # Never})

Rate(list) == Len(list) \div Window

\* The alerts of a packet of this kind, with the windows it has just entered.
Alerts(kind, lists, maps, cur) ==
    LET applies(rule) == rule \in ReplyRules => kind = "reply"
        ports == IF "ports" \in Names(kind) THEN Size(maps["ports"]) ELSE 0
        floods == {r \in DOMAIN RateRules :
                     applies(r) /\ RateRules[r] \in Feeds(kind)
                     /\ Rate(lists[RateRules[r]]) > Limit(r, kind)}
        spreads == {r \in DOMAIN MapRules :
                     applies(r) /\ MapRules[r] \in Names(kind)
                     /\ Size(maps[MapRules[r]]) > Threshold[r]}
        synFlood == "syn" \in Feeds(kind) /\ Len(lists["syn"]) >= Threshold["NET-SYN-001"]
                    /\ ports <= FewPorts
        scanning == (lastScan # Never /\ cur - lastScan < ScanMemory) \/ ports > FewPorts
        dos == Rate(lists["packet"]) > Threshold["NET-DOS-001"] /\ ~scanning
    IN  floods \cup spreads \cup {r \in {"NET-SYN-001"} : synFlood} \cup {r \in {"NET-DOS-001"} : dos}

\* From st.Mu.Lock to the end of the handler. The throttle of a repeated scan
\* alert keeps lastScan where it was.
Analyze(w) ==
    LET p == job[w]
        lists == [f \in Families |-> IF f \in Feeds(p.kind) THEN AddTimestamp(stamps[f], p.cur)
                                                            ELSE stamps[f]]
        maps == [m \in Maps |-> IF m \in Names(p.kind) THEN Touch(touched[m], p.key, p.cur, Width(m))
                                                       ELSE touched[m]]
        alerts == Alerts(p.kind, lists, maps, p.cur)
    IN
    /\ p # NoPacket
    /\ stamps' = lists /\ touched' = maps
    /\ lastScan' = IF "NET-SCAN-001" \in alerts
                      /\ (lastScan = Never \/ p.cur - lastScan >= ScanMemory)
                   THEN p.cur ELSE lastScan
    /\ seen' = [f \in Families |-> IF f \in Feeds(p.kind) THEN [seen[f] EXCEPT ![p.cur] = @ + 1]
                                                          ELSE seen[f]]
    /\ newest' = [m \in Maps |-> IF m \in Names(p.kind)
                                  THEN [newest[m] EXCEPT ![p.key] = Max({@, p.cur})] ELSE newest[m]]
    /\ verdict' = [packet |-> p, alerts |-> alerts]
    /\ job' = [job EXCEPT ![w] = NoPacket]
    /\ UNCHANGED now

\* cleanupLoop looks at the last stamp of a list, and at every key of a map.
Clean ==
    /\ stamps' = [f \in Families |->
                    IF stamps[f] # <<>> /\ now - Last(stamps[f]) > Retain THEN <<>> ELSE stamps[f]]
    /\ touched' = [m \in Maps |-> [k \in Keys |->
                    IF touched[m][k] # Never /\ now - touched[m][k] > Retain THEN Never ELSE touched[m][k]]]
    /\ lastScan' = IF lastScan # Never /\ now - lastScan > Retain THEN Never ELSE lastScan
    /\ UNCHANGED <<now, job, seen, newest, verdict>>

WNext == Clock \/ Clean \/ \E w \in Workers : Arrive(w) \/ Analyze(w)

WindowSpec == WInit /\ [][WNext]_wvars
-------------------------------------------------------------------------------
(* Properties *)

RateTypeOK ==
    /\ job \in [Workers -> [kind : Kinds, key : Keys, cur : 0..now] \cup {NoPacket}]
    /\ stamps \in [Families -> BoundedSeq(0..now, MaxPackets)]
    /\ touched \in [Maps -> [Keys -> Readings \cup {Never}]]
    /\ lastScan \in Readings \cup {Never}
    /\ verdict.alerts \subseteq DOMAIN Threshold

Used == {t \in Readings : seen["packet"][t] > 0}
LatestUsed == IF Used = {} THEN 0 ELSE Max(Used)
CountedSince(f, t) == SumFunctionOnSet(seen[f], {u \in Readings : u >= t})
Occurrences(ts, t) == Cardinality({i \in DOMAIN ts : ts[i] = t})

\* However the readings of the workers overtake each other, and whenever the
\* cleanup runs: a packet within a window of every reading still to be used is in
\* its list, once.
NothingLiveForgotten ==
    \A f \in Families : \A t \in Readings :
        t >= Max({LatestUsed, now - MaxLag}) - Window => Occurrences(stamps[f], t) = seen[f][t]

\* A flood alert tells the rate of the last window, up to the lag of a handler:
\* it is raised if the packets that every worker would count suffice, and only if those
\* that some worker could count do. This covers the SYN flood with its exception
\* for sources on many ports.
FloodsAreReal ==
    LET p == verdict.packet
        sure(f) == CountedSince(f, LatestUsed - Window)
        atMost(f) == CountedSince(f, p.cur - Window - MaxLag)
        tells(r, f) ==
            /\ sure(f) \div Window > Limit(r, p.kind) => r \in verdict.alerts
            /\ r \in verdict.alerts => atMost(f) \div Window > Limit(r, p.kind)
    IN  p # NoPacket =>
        /\ \A r \in DOMAIN RateRules :
              RateRules[r] \in Feeds(p.kind) /\ r \notin ReplyRules => tells(r, RateRules[r])
        /\ "NET-SYN-001" \in verdict.alerts => atMost("syn") >= Threshold["NET-SYN-001"]
        /\ "NET-DOS-001" \in verdict.alerts => atMost("packet") \div Window > Threshold["NET-DOS-001"]

\* An alert that counts distinct keys counts those met within its window, again
\* up to the lag: a late worker overwrites the time stamp of a key with an older
\* one, which makes it leave early, and never makes it stay too long.
SpreadsAreReal ==
    LET p == verdict.packet
        met(m, t) == Cardinality({k \in Keys : newest[m][k] # Never /\ newest[m][k] >= t})
    IN  p # NoPacket =>
        \A r \in DOMAIN MapRules :
            MapRules[r] \in Names(p.kind) /\ r \notin ReplyRules =>
            /\ r \in verdict.alerts
                 => met(MapRules[r], p.cur - Width(MapRules[r])) > Threshold[r]
            /\ met(MapRules[r], LatestUsed - Width(MapRules[r]) + MaxLag) > Threshold[r]
                 => r \in verdict.alerts
===============================================================================
