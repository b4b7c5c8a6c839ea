------------------------------ MODULE Prevention ------------------------------
(***************************************************************************)
(* Detection-to-prevention: who calls the firewall manager, with what, and *)
(* what they write into AppState before and after (detection/heuristic.go, *)
(* detection/engine.go, detection/suricata.go, api/api.go, main.go and     *)
(* state/state.go over firewall/).                                         *)
(*                                                                         *)
(* A worker runs one handler at a time: a packet, a Suricata event, an ML  *)
(* verdict, or an API request. While the handler waits for the firewall    *)
(* its call record is not idle, and AppState.Mu is not held: triggerAlert  *)
(* unlocks around the call. Each action below is one critical section of   *)
(* AppState.Mu, joined with the start or the return of a firewall call.    *)
(*                                                                         *)
(* What makes the detectors raise an alert is left open: any packet may,   *)
(* and every caller of triggerAlert passes a severity or a confidence that *)
(* is High or Critical, so that in IPS mode every alert asks for a block.  *)
(***************************************************************************)
EXTENDS Firewall

CONSTANTS
    Links,      \* the (source IP, source MAC) pairs of frames on the wire;
                \* the addresses are internal (isInternalIP)
    AutoUnblock,\* the thread that is main.go's auto-unblock goroutine
    PacketRules, SuricataRules, MLRules, \* the rules each source of alerts raises
    Window,     \* alert throttle: 30 s
    Retain,     \* cleanupLoop forgets older alert times: 300 s
    MaxLag,     \* bound on how long a handler uses one reading of the clock
    MaxRequests \* bound on block and unblock requests to the API

ASSUME LinksAssumption == Links \subseteq IPs \X MacOrNone
ASSUME AutoAssumption == AutoUnblock \in Threads
ASSUME WindowAssumption ==
    /\ Window \in Nat \ {0} /\ Retain \in Nat /\ MaxLag \in Nat
    /\ Window + MaxLag <= Retain + 1
ASSUME RequestsAssumption == MaxRequests \in Nat
ASSUME RulesAssumption ==
    /\ SuricataRules \cap (PacketRules \cup MLRules) = {}
    /\ PacketRules \cap MLRules = {}

VARIABLES
    BlockedIPs,     \* per address: the entry's MAC, Status and ExpiresAt
    BlockedMACs,    \* per MAC: ExpiresAt of the entry
    LastAlertTimes, \* per source address and rule
    unanswered,     \* BlocksRequested - BlocksConfirmed - BlocksFailed
    Devices,        \* the device table: (address, MAC) pairs, one per MAC
    capture,        \* what the running capture delivers, "frames" or "queued"
    requests,       \* API requests so far
    job,            \* the handler each thread runs
    expired,        \* entries the auto-unblock loop collected and not yet lifted
    lastAlert       \* history: time stamp of the last alert per address and rule

appState == <<BlockedIPs, BlockedMACs, LastAlertTimes, unanswered>>
inventory == <<Devices, capture, requests>>
pvars == <<vars, appState, inventory, job, expired, lastAlert>>

Workers == Threads \ {AutoUnblock}
Rules == PacketRules \cup SuricataRules \cup MLRules
Never == -1
NoEntry == [mac |-> NoMAC, confirmed |-> FALSE, exp |-> Never]
Marked(ip) == BlockedIPs[ip] # NoEntry

NoJob == [at |-> "idle", ip |-> NoIP, mac |-> NoMAC, rules |-> {}, cur |-> 0, mode |-> "IDS"]
Stages == {"idle", "arrived", "roaming", "analyze", "inspect", "apiBlock", "apiUnblock"}
Alerting == {"arrived", "analyze", "inspect"}

In(t, stage) == job[t].at = stage /\ call[t].pc = "idle"
Answered(t, stage) == job[t].at = stage /\ call[t].pc = "done"
Stage(t, stage) == job' = [job EXCEPT ![t].at = stage]
EndJob(t) == job' = [job EXCEPT ![t] = NoJob]

-------------------------------------------------------------------------------
(* AnalyzePacket and ProcessPacket *)

\* The device table holds one address per MAC, and an entry without a MAC for
\* each address seen without one. A lookup by address takes any match.
Seen(ip, mac) ==
    Devices' = {d \in Devices : d[2] = NoMAC \/ d[2] # mac} \cup {<<ip, mac>>}
KnownAs(ip) ==
    LET macs == {d[2] : d \in {e \in Devices : e[1] = ip}}
    IN  IF macs = {} THEN {NoMAC} ELSE macs

\* startPlatformCapture: a capture reads frames from the wire or, inline, takes
\* packets from NFQUEUE, which have lost their MAC; the device table has it.
CaptureFor(sec, dep) == IF sec = "IPS" /\ dep # "PASSIVE" THEN "queued" ELSE "frames"

\* The clock and the security mode are read before AppState is locked.
PacketArrives(t) ==
    /\ In(t, "idle") /\ MacTableOpen
    /\ \E l \in Links : \E mac \in IF capture = "frames" THEN {l[2]} ELSE KnownAs(l[1]) :
          /\ job' = [job EXCEPT ![t] = [at |-> "arrived", ip |-> l[1], mac |-> mac,
                                        rules |-> PacketRules, cur |-> now, mode |-> secMode]]
          /\ Seen(l[1], mac)
    /\ UNCHANGED <<vars, appState, capture, requests, expired, lastAlert>>

\* A blocked source is not analysed, but ProcessPacket goes on to inspect it.
\* A blocked MAC on an address that is not blocked gets that address blocked.
LookUp(t) ==
    /\ In(t, "arrived")
    /\ LET ip == job[t].ip
           mac == job[t].mac
           macBlocked == mac \in MACs /\ BlockedMACs[mac] # Never
       IN
       IF job[t].mode = "IPS" /\ macBlocked /\ ~Marked(ip)
       THEN /\ job' = [job EXCEPT ![t].at = "roaming", ![t].cur = BlockedMACs[mac]]
            /\ BlockStart(t, ip, mac)
       ELSE /\ Stage(t, IF job[t].mode = "IPS" /\ (macBlocked \/ Marked(ip))
                        THEN "inspect" ELSE "analyze")
            /\ UNCHANGED vars
    /\ UNCHANGED <<appState, inventory, expired, lastAlert>>

\* The result of BlockDevice is not looked at. The entry inherits the expiry
\* read from BlockedMACs, kept here in cur.
Mark(ip, mac, confirmed, exp) ==
    BlockedIPs' = [BlockedIPs EXCEPT ![ip] = [mac |-> mac, confirmed |-> confirmed, exp |-> exp]]
MarkMac(mac, exp) ==
    BlockedMACs' = IF mac \in MACs THEN [BlockedMACs EXCEPT ![mac] = exp] ELSE BlockedMACs

RoamingAnswered(t) ==
    /\ Answered(t, "roaming")
    /\ Return(t)
    /\ Mark(job[t].ip, job[t].mac, FALSE, job[t].cur)
    /\ Stage(t, "inspect")
    /\ UNCHANGED <<BlockedMACs, LastAlertTimes, unanswered, inventory, expired, lastAlert>>

\* The heuristics raise nothing (more), and the packet goes on to inspection.
Analyzed(t) ==
    /\ In(t, "analyze")
    /\ Stage(t, "inspect")
    /\ UNCHANGED <<vars, appState, inventory, expired, lastAlert>>

Inspected(t) ==
    /\ In(t, "inspect")
    /\ EndJob(t)
    /\ UNCHANGED <<vars, appState, inventory, expired, lastAlert>>

\* A Suricata alert carries no MAC. An ML verdict blames the address that
\* opened the flow, with the source MAC of the packet that triggered the
\* prediction, which either end of the flow may have sent.
EventArrives(t) ==
    /\ In(t, "idle") /\ MacTableOpen
    /\ \E l \in Links, r \in SuricataRules \cup MLRules :
          \E mac \in {NoMAC} \cup IF r \in MLRules THEN {d[2] : d \in Devices} ELSE {} :
             job' = [job EXCEPT ![t] = [NoJob EXCEPT !.at = "inspect", !.ip = l[1],
                           !.mac = mac, !.rules = {r},
                           !.cur = IF r \in SuricataRules THEN now ELSE 0]]
    /\ UNCHANGED <<vars, appState, inventory, expired, lastAlert>>

-------------------------------------------------------------------------------
(* triggerAlert *)

Throttled(ip, r, cur) ==
    LastAlertTimes[<<ip, r>>] # Never /\ cur - LastAlertTimes[<<ip, r>>] < Window

\* The heuristics and Suricata use the time read on arrival, inspection a fresh
\* one. A MAC flood is noticed before the source is looked up.
AlertTime(t, stage, r) ==
    IF stage = "inspect" /\ r \notin SuricataRules THEN now ELSE job[t].cur

\* Mutant: the request is not counted.
RequestUncounted == UNCHANGED unanswered
CountRequest == unanswered' = unanswered + 1

\* The alert is stamped before the lock is given up for the firewall call. In
\* IDS mode it is only counted and logged.
RaiseAlert(t) ==
    \E stage \in Alerting, r \in job[t].rules :
       /\ In(t, stage)
       /\ LET ip == job[t].ip
              cur == AlertTime(t, stage, r)
          IN
          /\ ~Throttled(ip, r, cur)
          /\ LastAlertTimes' = [LastAlertTimes EXCEPT ![<<ip, r>>] = cur]
          /\ lastAlert' = [lastAlert EXCEPT ![<<ip, r>>] = cur]
          /\ job' = [job EXCEPT ![t].cur = cur]
          /\ IF secMode = "IDS" THEN UNCHANGED vars ELSE BlockStart(t, ip, job[t].mac)
       /\ CountRequest
    /\ UNCHANGED <<BlockedIPs, BlockedMACs, inventory, expired>>

\* Mutants: any answer confirms; a failure is counted as a confirmation too.
ConfirmsAlways(res) == res \in Results
Confirms(res) == res = "CONFIRMED"

OutcomeTwice(res) == IF res = "REQUESTED" THEN 1 ELSE IF res = "FAILED" THEN -2 ELSE -1
Outcome(res) == IF res = "REQUESTED" THEN 1 ELSE -1

\* A refusal for IDS mode is counted as one more request.
AlertAnswered(t) ==
    /\ \E stage \in Alerting : Answered(t, stage)
    /\ Return(t)
    /\ LET ip == job[t].ip
           mac == job[t].mac
           exp == job[t].cur + TTL
       IN
       IF Confirms(call[t].res)
       THEN Mark(ip, mac, TRUE, exp) /\ MarkMac(mac, exp)
       ELSE UNCHANGED <<BlockedIPs, BlockedMACs>>
    /\ unanswered' = unanswered + Outcome(call[t].res)
    /\ UNCHANGED <<LastAlertTimes, inventory, job, expired, lastAlert>>

-------------------------------------------------------------------------------
(* The API: POST block and unblock. blockIP takes the MAC from the device     *)
(* table, unblockIP from the entry it is about to delete.                    *)

Request == requests < MaxRequests /\ requests' = requests + 1

ApiBlock(t) ==
    /\ In(t, "idle") /\ MacTableOpen
    /\ Request
    /\ \E ip \in IPs : \E mac \in KnownAs(ip) :
          /\ BlockStart(t, ip, mac)
          /\ job' = [job EXCEPT ![t] = [NoJob EXCEPT !.at = "apiBlock", !.ip = ip,
                                                     !.mac = mac]]
    /\ UNCHANGED <<appState, Devices, capture, expired, lastAlert>>

ApiBlockAnswered(t) ==
    /\ Answered(t, "apiBlock")
    /\ Return(t)
    /\ LET mac == job[t].mac IN
       IF call[t].res = "CONFIRMED"
       THEN Mark(job[t].ip, mac, FALSE, now + TTL) /\ MarkMac(mac, now + TTL)
       ELSE UNCHANGED <<BlockedIPs, BlockedMACs>>
    /\ EndJob(t)
    /\ UNCHANGED <<LastAlertTimes, unanswered, inventory, expired, lastAlert>>

ApiUnblock(t) ==
    /\ In(t, "idle")
    /\ Request
    /\ \E ip \in IPs :
          LET mac == BlockedIPs[ip].mac IN
          /\ UnblockStart(t, ip, mac)
          /\ job' = [job EXCEPT ![t] = [NoJob EXCEPT !.at = "apiUnblock", !.ip = ip,
                                                     !.mac = mac]]
    /\ UNCHANGED <<appState, Devices, capture, expired, lastAlert>>

\* Both callers of UnblockDevice then delete the entries, whatever they hold
\* by now: that of the address, and that of the MAC they passed.
\* Mutant: the entry of the address stays.
UnmarkMacOnly(ip, mac) == UNCHANGED BlockedIPs /\ MarkMac(mac, Never)
Unmark(ip, mac) ==
    /\ BlockedIPs' = [BlockedIPs EXCEPT ![ip] = NoEntry]
    /\ MarkMac(mac, Never)

UnblockAnswered(t) ==
    /\ Answered(t, "apiUnblock")
    /\ Return(t)
    /\ Unmark(job[t].ip, job[t].mac)
    /\ EndJob(t)
    /\ UNCHANGED <<LastAlertTimes, unanswered, inventory, expired, lastAlert>>

-------------------------------------------------------------------------------
(* The auto-unblock goroutine of main.go *)

Due(ip) == BlockedIPs[ip].exp > 0 /\ BlockedIPs[ip].exp <= now

AutoCollect ==
    /\ In(AutoUnblock, "idle") /\ expired = {}
    /\ \E ip \in IPs : Due(ip)
    /\ expired' = {<<ip, BlockedIPs[ip].mac>> : ip \in {i \in IPs : Due(i)}}
    /\ UNCHANGED <<vars, appState, inventory, job, lastAlert>>

AutoNext ==
    /\ In(AutoUnblock, "idle")
    /\ \E e \in expired :
          /\ UnblockStart(AutoUnblock, e[1], e[2])
          /\ job' = [job EXCEPT ![AutoUnblock] = [NoJob EXCEPT !.at = "apiUnblock",
                                                               !.ip = e[1], !.mac = e[2]]]
          /\ expired' = expired \ {e}
    /\ UNCHANGED <<appState, inventory, lastAlert>>

-------------------------------------------------------------------------------
(* cleanupLoop, the clock and crashes *)

\* Mutant: forgotten one tick earlier.
StaleEarly(k) == LastAlertTimes[k] # Never /\ now - LastAlertTimes[k] >= Retain
Stale(k) == LastAlertTimes[k] # Never /\ now - LastAlertTimes[k] > Retain

Cleanup ==
    /\ \E k \in IPs \X Rules : Stale(k)
    /\ LastAlertTimes' = [k \in IPs \X Rules |->
                            IF Stale(k) THEN Never ELSE LastAlertTimes[k]]
    /\ UNCHANGED <<vars, BlockedIPs, BlockedMACs, unanswered, inventory, job, expired, lastAlert>>

\* Time passes; a handler does not use a reading older than MaxLag.
UsesClock(t) ==
    \/ job[t].at \in {"arrived", "analyze"}
    \/ job[t].at = "inspect" /\ (Active(t) \/ job[t].rules \cap SuricataRules # {})
TimePasses ==
    /\ \A t \in Threads : UsesClock(t) => now - job[t].cur < MaxLag
    /\ Tick
    /\ UNCHANGED <<appState, inventory, job, expired, lastAlert>>

NoAppState ==
    /\ BlockedIPs = [ip \in IPs |-> NoEntry]
    /\ BlockedMACs = [m \in MACs |-> Never]
    /\ LastAlertTimes = [k \in IPs \X Rules |-> Never]
    /\ unanswered = 0
    /\ Devices = {}
    /\ requests = 0
    /\ capture = CaptureFor(secMode, deploy)
    /\ job = [t \in Threads |-> NoJob]
    /\ expired = {}
    /\ lastAlert = [k \in IPs \X Rules |-> Never]

Crash ==
    /\ Restart
    /\ BlockedIPs' = [ip \in IPs |-> NoEntry]
    /\ BlockedMACs' = [m \in MACs |-> Never]
    /\ LastAlertTimes' = [k \in IPs \X Rules |-> Never]
    /\ unanswered' = 0
    /\ Devices' = {}
    /\ requests' = requests
    /\ capture' = CaptureFor(secMode, deploy)
    /\ job' = [t \in Threads |-> NoJob]
    /\ expired' = {}
    /\ lastAlert' = [k \in IPs \X Rules |-> Never]

-------------------------------------------------------------------------------
(* The specification *)

PInit == Init /\ NoAppState

FirewallRuns ==
    /\ \E t \in Threads : BlockStep(t) \/ RemoveStep(t)
    /\ UNCHANGED <<appState, inventory, job, expired, lastAlert>>

SweeperRuns ==
    /\ SweeperStep
    /\ UNCHANGED <<appState, inventory, job, expired, lastAlert>>

OperatorActs ==
    /\ OperatorEdit
    /\ UNCHANGED <<appState, inventory, job, expired, lastAlert>>

\* Stopping a capture of frames waits for the packets in progress; stopping
\* NFQUEUE does not wait.
HandlesPacket(t) ==
    \/ job[t].at \in {"arrived", "roaming", "analyze"}
    \/ job[t].at = "inspect" /\ job[t].rules = PacketRules

Reload ==
    /\ capture = "frames" => \A t \in Workers : ~HandlesPacket(t)
    /\ ReloadGateway
    /\ capture' = CaptureFor(secMode, deploy)
    /\ UNCHANGED <<appState, Devices, requests, job, expired, lastAlert>>

Handler(t) ==
    \/ PacketArrives(t) \/ LookUp(t) \/ RoamingAnswered(t) \/ Analyzed(t) \/ Inspected(t)
    \/ EventArrives(t) \/ RaiseAlert(t) \/ AlertAnswered(t)
    \/ ApiBlock(t) \/ ApiBlockAnswered(t) \/ ApiUnblock(t)

PNext ==
    \/ \E t \in Workers : Handler(t)
    \/ \E t \in Threads : UnblockAnswered(t)
    \/ AutoCollect \/ AutoNext
    \/ FirewallRuns \/ SweeperRuns
    \/ OperatorActs \/ Reload
    \/ Cleanup
    \/ TimePasses
    \/ Crash

PSpec == PInit /\ [][PNext]_pvars

\* Both background loops run for ever, and a call they make goes on to its end.
AutoStep ==
    \/ AutoCollect \/ AutoNext \/ UnblockAnswered(AutoUnblock)
    \/ RemoveStep(AutoUnblock) /\ UNCHANGED <<appState, inventory, job, expired, lastAlert>>

PFairSpec == PSpec /\ WF_pvars(AutoStep)

-------------------------------------------------------------------------------
(* Properties *)

PTypeOK ==
    /\ BlockedIPs \in [IPs -> [mac : MacOrNone, confirmed : BOOLEAN, exp : Times] \cup {NoEntry}]
    /\ BlockedMACs \in [MACs -> Times \cup {Never}]
    /\ LastAlertTimes \in [IPs \X Rules -> Times \cup {Never}]
    /\ unanswered \in Nat
    /\ Devices \subseteq IPs \X MacOrNone /\ capture \in {"frames", "queued"}
    /\ requests \in 0 .. MaxRequests
    /\ \A t \in Threads : job[t].at \in Stages
    /\ \A t \in Threads : job[t].at = "idle" => call[t].pc = "idle"
    /\ expired \subseteq IPs \X MacOrNone

\* Two alerts of one rule on one source are at least Window apart, whatever
\* their handlers interleave: triggerAlert stamps the throttle before it gives
\* up the lock, and cleanupLoop does not forget a stamp too early.
AlertSpacing ==
    [][\A k \in IPs \X Rules :
          LastAlertTimes'[k] \notin {LastAlertTimes[k], Never} /\ lastAlert[k] # Never
            => LastAlertTimes'[k] - lastAlert[k] >= Window]_pvars

\* Every block that was requested is confirmed, failed, or still being applied:
\* the counters never show more outcomes than requests.
InFlight == {t \in Threads : job[t].at \in Alerting /\ Active(t)}
BlocksAccounted == Cardinality(InFlight) <= unanswered

\* README "Verified Prevention": an entry with Status CONFIRMED that has not
\* expired is enforced in the kernel, whichever commands fail and whenever the
\* process restarts. Left out: addresses whose firewall operations overlapped, or
\* that a handler is working on.
ConfirmedEntryIsEnforced ==
    \A ip \in IPs \ disturbed :
        BlockedIPs[ip].confirmed /\ now <= BlockedIPs[ip].exp /\ ~Busy(ip) => Enforced(ip)

\* README "TestFirewallSafetyAndDryRun": loopback, gateway and allowlisted
\* addresses "can never be blocked under any attack scenario".
ProtectedNeverMarked == \A ip \in Protected : ~Marked(ip)

\* state.go:249-250: unblocking must avoid "permanent rule leaks". A MAC rule no
\* entry of the cache mentions, and no call is about to remove, is removed by
\* nobody. Here no operations overlapped, no command failed, and no reload is due,
\* which would flush the rule.
Tracked(m) ==
    \/ \E ip \in IPs : Cached(ip) /\ blockCache[ip].mac = m
    \/ \E p \in Procs : Active(p) /\ call[p].mac = m
    \/ \E e \in sweep : e.mac = m

NoMacLeak ==
    failed = {} /\ disturbed = {} /\ ~pending => \A m \in MACs : macRules[m] > 0 => Tracked(m)

\* README "TTL Expiration & Rollback": an entry past its expiry is lifted by
\* the auto-unblock loop, or renewed.
EntryLifted ==
    \A ip \in IPs : Due(ip) ~> ~Due(ip)
===============================================================================
