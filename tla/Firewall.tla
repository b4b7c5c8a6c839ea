------------------------------- MODULE Firewall -------------------------------
(***************************************************************************)
(* The firewall manager of backend/firewall: firewall.go (FirewallManager) *)
(* over firewall_linux.go (iptables and ebtables), and the kernel tables   *)
(* those commands change.                                                  *)
(*                                                                         *)
(* The manager does not hold its mutex while it runs a command, so a call  *)
(* is a sequence of atomic steps, one per critical section or per command: *)
(*                                                                         *)
(*   BlockDeviceWithResult  BlockStart, CheckSafe, CheckMode, CheckCache,  *)
(*                          RuleExists, InsertRule, InsertMac, Verify,     *)
(*                          CacheConfirmed, Return                         *)
(*   UnblockDevice          UnblockStart, RemoveInput, RemoveForward,      *)
(*                          RemoveMac, DropCache, Return                   *)
(*   ttlSweeper             SweepCollect, then for each collected address  *)
(*                          SweepNext and the four removal steps           *)
(*                                                                         *)
(* Threads are the goroutines that call the manager: packet workers, the   *)
(* Suricata tailer, the auto-unblock loop and API handlers. Which calls    *)
(* they make is left open here; Prevention says it.                        *)
(***************************************************************************)
EXTENDS Integers, FiniteSets

CONSTANTS
    IPs,        \* addresses a block may be asked for
    Protected,  \* those isSafeToBlockWithReason always refuses: gateway, DHCP
                \* server, loopback, multicast, broadcast, local interfaces
    MACs,       \* hardware addresses
    NoMAC,      \* the empty MAC string
    NoIP,       \* the address of a call that is not running
    Threads,    \* callers of the manager
    Sweeper,    \* the ttlSweeper goroutine
    SecModes,   \* the security modes in use: "IDS", "IPS" or both
    DeployModes,\* the deployment modes in use, of "HOST", "NETWORK" and "PASSIVE";
                \* "GATEWAY" is handled as "NETWORK" by all that is modelled here
    TTL,        \* BlockTTLSeconds, in ticks
    MaxTime,    \* bound on the clock
    MaxFaults,  \* bound on failed commands and process crashes
    MaxEdits,   \* bound on allowlist and settings changes
    MaxMacRules \* bound on the rules of a MAC for new work to start

ASSUME AddressesAssumption == Protected \subseteq IPs /\ NoIP \notin IPs
ASSUME MacsAssumption == NoMAC \notin MACs
ASSUME ThreadsAssumption == IsFiniteSet(Threads) /\ Sweeper \notin Threads
ASSUME ModesAssumption == SecModes \subseteq {"IDS", "IPS"} /\ DeployModes \subseteq {"HOST", "NETWORK", "PASSIVE"}
ASSUME TimeAssumption == TTL \in Nat \ {0} /\ MaxTime \in Nat
ASSUME BudgetAssumption == MaxFaults \in Nat /\ MaxEdits \in Nat /\ MaxMacRules \in Nat

VARIABLES
    now,        \* the wall clock
    secMode,    \* Config.IDPSSecurityMode
    deploy,     \* Config.IDPSDeploymentMode
    gateway,    \* the deployment mode whose gateway rules are installed
    pending,    \* updateSettings has changed the modes and not reloaded yet
    allowlist,  \* FirewallManager.allowlist
    blockCache, \* FirewallManager.blockCache
    ipRules,    \* kernel: DROP rules per address and iptables chain
    macRules,   \* kernel: DROP rules per MAC in ebtables' IDPS-MAC-BLOCK
    call,       \* the call each thread, and the sweeper, is in
    sweep,      \* expired entries the sweeper collected and not yet removed
    faults,     \* failed commands and crashes so far
    edits,      \* allowlist and settings changes so far
    failed,     \* history: addresses a failed command or a crash left in doubt
    disturbed   \* history: addresses whose operations overlapped each other or
                \* a change of the deployment mode

config == <<secMode, deploy, gateway, pending, edits>>
kernel == <<ipRules, macRules>>
manager == <<allowlist, blockCache>>
vars == <<now, config, manager, kernel, call, sweep, faults, failed, disturbed>>

-------------------------------------------------------------------------------
(* Types and small helpers *)

Procs == Threads \cup {Sweeper}
Chains == {"INPUT", "FORWARD"}

BlockPCs == {"safe", "mode", "cache", "exists", "insert", "mac", "verify", "record"}
RemovePCs == {"delInput", "delForward", "delMac", "drop"}
Results == {"NONE", "REQUESTED", "CONFIRMED", "FAILED", "UNBLOCKED"}

MacOrNone == MACs \cup {NoMAC}
Times == 0 .. (MaxTime + TTL)

NewCall(pc, ip, mac, exp, res) ==
    [pc |-> pc, ip |-> ip, mac |-> mac, exp |-> exp, chain |-> "INPUT", ok |-> TRUE, res |-> res]
NoCall == NewCall("idle", NoIP, NoMAC, 0, "NONE")

CallRecords == [pc : BlockPCs \cup RemovePCs \cup {"idle", "done"},
                ip : IPs \cup {NoIP}, mac : MacOrNone, exp : Times,
                chain : Chains, ok : BOOLEAN, res : Results]

NoRec == [mac |-> NoMAC, exp |-> -1]
BlockRecords == [mac : MacOrNone, exp : Times]
Cached(ip) == blockCache[ip] # NoRec

Chain == IF deploy = "HOST" THEN "INPUT" ELSE "FORWARD"
TotalRules(ip) == ipRules[ip]["INPUT"] + ipRules[ip]["FORWARD"]
Enforced(ip) == TotalRules(ip) > 0

\* A call lasts until its caller takes the result.
Active(p) == call[p].pc # "idle"
Busy(ip) == \/ \E p \in Procs : Active(p) /\ call[p].ip = ip
            \/ \E e \in sweep : e.ip = ip

\* A thread at one step of its call, and the call moved to the next step.
At(p, pc) == call[p].pc = pc
Goto(p, pc) == call' = [call EXCEPT ![p].pc = pc]
Finish(p, res) ==
    call' = [call EXCEPT ![p] = NewCall("done", call[p].ip, NoMAC, 0, res)]

\* An external command fails: the xtables lock is held, sudo is refused, ...
Fault(ip) == /\ faults < MaxFaults
             /\ faults' = faults + 1
             /\ failed' = failed \cup {ip}
             /\ UNCHANGED disturbed
NoFault == UNCHANGED <<faults, failed, disturbed>>

-------------------------------------------------------------------------------
(* BlockDeviceWithResult *)

\* The expiry is fixed here, before any check.
BlockStart(t, ip, mac) ==
    /\ At(t, "idle")
    /\ call' = [call EXCEPT ![t] = NewCall("safe", ip, mac, now + TTL, "NONE")]
    /\ disturbed' = IF Busy(ip) THEN disturbed \cup {ip} ELSE disturbed
    /\ UNCHANGED <<now, config, manager, kernel, sweep, faults, failed>>

\* Mutant: only the allowlist is consulted.
SafeToBlockIgnoresProtected(ip) == ip \notin allowlist
SafeToBlock(ip) == ip \notin Protected \cup allowlist

CheckSafe(t) ==
    /\ At(t, "safe")
    /\ IF SafeToBlock(call[t].ip) THEN Goto(t, "mode") ELSE Finish(t, "FAILED")
    /\ NoFault
    /\ UNCHANGED <<now, config, manager, kernel, sweep>>

CheckMode(t) ==
    /\ At(t, "mode")
    /\ IF secMode = "IDS" THEN Finish(t, "REQUESTED") ELSE Goto(t, "cache")
    /\ NoFault
    /\ UNCHANGED <<now, config, manager, kernel, sweep>>

\* A cached address is confirmed at once: only its expiry is refreshed.
CheckCache(t) ==
    /\ At(t, "cache")
    /\ LET ip == call[t].ip IN
       IF Cached(ip)
       THEN /\ blockCache' = [blockCache EXCEPT ![ip].exp = call[t].exp]
            /\ Finish(t, "CONFIRMED")
       ELSE /\ Goto(t, "exists")
            /\ UNCHANGED blockCache
    /\ NoFault
    /\ UNCHANGED <<now, config, allowlist, kernel, sweep>>

\* ApplyBlock reads the deployment mode, then runs `iptables -C`. A check
\* that cannot run looks like a missing rule.
RuleMissing(ip, chain) == ipRules[ip][chain] = 0

\* Mutant: `-I` without the `-C` before it.
NeedsInsertAlways(ip, chain) == TRUE
NeedsInsert(ip, chain) == RuleMissing(ip, chain)

RuleExists(t) ==
    /\ At(t, "exists")
    /\ LET ip == call[t].ip IN
       \/ /\ call' = [call EXCEPT ![t].chain = Chain,
                       ![t].pc = IF NeedsInsert(ip, Chain) THEN "insert" ELSE "mac"]
          /\ NoFault
       \/ /\ call' = [call EXCEPT ![t].chain = Chain, ![t].pc = "insert"]
          /\ Fault(ip)
    /\ UNCHANGED <<now, config, manager, kernel, sweep>>

\* `iptables -I` on the chain chosen by RuleExists.
InsertRule(t) ==
    /\ At(t, "insert")
    /\ LET ip == call[t].ip IN
       \/ /\ ipRules' = [ipRules EXCEPT ![ip][call[t].chain] = @ + 1]
          /\ Goto(t, "mac")
          /\ NoFault
       \/ /\ call' = [call EXCEPT ![t].pc = "mac", ![t].ok = FALSE]
          /\ Fault(ip)
          /\ UNCHANGED ipRules
    /\ UNCHANGED <<now, config, manager, macRules, sweep>>

\* `ebtables -I`, unconditional when a MAC is known, its error ignored: it
\* adds a rule only while the IDPS-MAC-BLOCK chain exists. Then ApplyBlock
\* returns the error of `iptables -I`, if any.
InsertMac(t) ==
    /\ At(t, "mac")
    /\ \/ /\ macRules' = IF call[t].mac \in MACs /\ gateway = "NETWORK"
                         THEN [macRules EXCEPT ![call[t].mac] = @ + 1]
                         ELSE macRules
          /\ NoFault
       \/ /\ call[t].mac \in MACs
          /\ Fault(call[t].ip)
          /\ UNCHANGED macRules
    /\ IF call[t].ok THEN Goto(t, "verify") ELSE Finish(t, "FAILED")
    /\ UNCHANGED <<now, config, manager, ipRules, sweep>>

\* VerifyBlock reads the deployment mode again and runs `iptables -C`.
Verify(t) ==
    /\ At(t, "verify")
    /\ \/ /\ IF RuleMissing(call[t].ip, Chain)
             THEN Finish(t, "FAILED")
             ELSE Goto(t, "record")
          /\ NoFault
       \/ /\ Finish(t, "FAILED")
          /\ Fault(call[t].ip)
    /\ UNCHANGED <<now, config, manager, kernel, sweep>>

CacheConfirmed(t) ==
    /\ At(t, "record")
    /\ blockCache' = [blockCache EXCEPT
                        ![call[t].ip] = [mac |-> call[t].mac, exp |-> call[t].exp]]
    /\ Finish(t, "CONFIRMED")
    /\ NoFault
    /\ UNCHANGED <<now, config, allowlist, kernel, sweep>>

-------------------------------------------------------------------------------
(* UnblockDevice, and the removal half of ttlSweeper: RemoveBlock runs      *)
(* `iptables -D INPUT`, `iptables -D FORWARD` and `ebtables -D`, each of    *)
(* which deletes one matching rule, ignores every error and returns nil.   *)

UnblockStart(t, ip, mac) ==
    /\ At(t, "idle")
    /\ call' = [call EXCEPT ![t] = NewCall("delInput", ip, mac, 0, "NONE")]
    /\ disturbed' = IF Busy(ip) THEN disturbed \cup {ip} ELSE disturbed
    /\ UNCHANGED <<now, config, manager, kernel, sweep, faults, failed>>

\* Mutant: a delete that does not look whether a rule is there.
DeleteRuleUnchecked(ip, chain) == ipRules' = [ipRules EXCEPT ![ip][chain] = @ - 1]
DeleteRule(ip, chain) ==
    ipRules' = [ipRules EXCEPT ![ip][chain] = IF @ > 0 THEN @ - 1 ELSE 0]

RemoveFrom(p, pc, chain, next) ==
    /\ At(p, pc)
    /\ LET ip == call[p].ip IN
       \/ DeleteRule(ip, chain) /\ NoFault
       \/ Fault(ip) /\ UNCHANGED ipRules
    /\ Goto(p, next)
    /\ UNCHANGED <<now, config, manager, macRules, sweep>>

RemoveInput(p) == RemoveFrom(p, "delInput", "INPUT", "delForward")

\* Mutant: the rule is looked for in INPUT only.
RemoveForwardSkipped(p) == RemoveFrom(p, "delForward", "INPUT", "delMac")
RemoveForward(p) == RemoveFrom(p, "delForward", "FORWARD", "delMac")

RemoveMac(p) ==
    /\ At(p, "delMac")
    /\ LET mac == call[p].mac IN
       \/ /\ macRules' = IF mac \in MACs /\ macRules[mac] > 0
                         THEN [macRules EXCEPT ![mac] = @ - 1]
                         ELSE macRules
          /\ NoFault
       \/ /\ mac \in MACs
          /\ Fault(call[p].ip)
          /\ UNCHANGED macRules
    /\ Goto(p, "drop")
    /\ UNCHANGED <<now, config, manager, ipRules, sweep>>

\* The entry is deleted whatever it holds by now.
\* Mutant: the entry stays.
ForgetNothing(ip) == UNCHANGED blockCache
Forget(ip) == blockCache' = [blockCache EXCEPT ![ip] = NoRec]

DropCache(p) ==
    /\ At(p, "drop")
    /\ Forget(call[p].ip)
    /\ IF p = Sweeper
       THEN call' = [call EXCEPT ![p] = NoCall]
       ELSE Finish(p, "UNBLOCKED")
    /\ NoFault
    /\ UNCHANGED <<now, config, allowlist, kernel, sweep>>

\* The caller takes the result.
Return(t) ==
    /\ At(t, "done")
    /\ call' = [call EXCEPT ![t] = NoCall]
    /\ NoFault
    /\ UNCHANGED <<now, config, manager, kernel, sweep>>

-------------------------------------------------------------------------------
(* ttlSweeper *)

\* Mutants: the expiry instant counts as expired; the comparison inverted.
ExpiredAtInstant(ip) == Cached(ip) /\ now >= blockCache[ip].exp
ExpiredInverted(ip) == Cached(ip) /\ now < blockCache[ip].exp

\* now.After(rec.expiresAt)
Expired(ip) == Cached(ip) /\ now > blockCache[ip].exp

\* One pass collects the expired entries under the lock, and drops the lock.
SweepCollect ==
    /\ At(Sweeper, "idle") /\ sweep = {}
    /\ LET expired == {ip \in IPs : Expired(ip)} IN
       /\ expired # {}
       /\ sweep' = {[ip |-> ip, mac |-> blockCache[ip].mac] : ip \in expired}
       /\ disturbed' = disturbed \cup {ip \in expired : Busy(ip)}
    /\ UNCHANGED <<now, config, manager, kernel, call, faults, failed>>

\* Go iterates over the map in any order.
SweepNext ==
    /\ At(Sweeper, "idle")
    /\ \E e \in sweep :
          /\ call' = [call EXCEPT ![Sweeper] = NewCall("delInput", e.ip, e.mac, 0, "NONE")]
          /\ sweep' = sweep \ {e}
    /\ NoFault
    /\ UNCHANGED <<now, config, manager, kernel>>

-------------------------------------------------------------------------------
(* The operator, the clock and crashes *)

Edit == edits < MaxEdits /\ edits' = edits + 1

AddAllowlist(ip) ==
    /\ ip \notin allowlist
    /\ Edit
    /\ allowlist' = allowlist \cup {ip}
    /\ UNCHANGED <<now, secMode, deploy, gateway, pending, blockCache, kernel, call, sweep, faults, failed, disturbed>>

RemoveAllowlist(ip) ==
    /\ ip \in allowlist
    /\ Edit
    /\ allowlist' = allowlist \ {ip}
    /\ UNCHANGED <<now, secMode, deploy, gateway, pending, blockCache, kernel, call, sweep, faults, failed, disturbed>>

\* updateSettings changes a mode under the configuration's lock, and then
\* reloads: TeardownGateway flushes the ebtables chain of the old mode and
\* SetupGateway creates that of the new one. No block rule is moved.
SetSecMode(m) ==
    /\ m # secMode /\ ~pending
    /\ Edit
    /\ secMode' = m
    /\ pending' = TRUE
    /\ UNCHANGED <<now, deploy, gateway, manager, kernel, call, sweep, faults, failed, disturbed>>

\* "PASSIVE" is accepted from the environment only.
SetDeploy(m) ==
    /\ m \notin {deploy, "PASSIVE"} /\ ~pending
    /\ Edit
    /\ deploy' = m
    /\ pending' = TRUE
    /\ disturbed' = disturbed \cup {ip \in IPs : Busy(ip)}
    /\ UNCHANGED <<now, secMode, gateway, manager, kernel, call, sweep, faults, failed>>

ReloadGateway ==
    /\ pending
    /\ pending' = FALSE
    /\ gateway' = deploy
    /\ macRules' = [m \in MACs |-> 0]
    /\ UNCHANGED <<now, secMode, deploy, edits, manager, ipRules, call, sweep, faults, failed, disturbed>>

Tick ==
    /\ now < MaxTime
    /\ now' = now + 1
    /\ UNCHANGED <<config, manager, kernel, call, sweep, faults, failed, disturbed>>

\* The process dies and starts again: what it kept in memory is lost, the
\* kernel tables are not, nor are settings, which updateSettings saves after
\* the reload. A crash within a reload is left out.
Restart ==
    /\ faults < MaxFaults /\ ~pending
    /\ faults' = faults + 1
    /\ failed' = failed \cup {ip \in IPs : Enforced(ip) \/ Busy(ip)}
    /\ allowlist' = {}
    /\ blockCache' = [ip \in IPs |-> NoRec]
    /\ call' = [p \in Procs |-> NoCall]
    /\ sweep' = {}
    /\ UNCHANGED <<now, config, kernel, disturbed>>

-------------------------------------------------------------------------------
(* The specification *)

Init ==
    /\ now = 0
    /\ secMode \in SecModes
    /\ deploy \in DeployModes
    /\ gateway = deploy
    /\ pending = FALSE
    /\ allowlist = {}
    /\ blockCache = [ip \in IPs |-> NoRec]
    /\ ipRules = [ip \in IPs |-> [c \in Chains |-> 0]]
    /\ macRules = [m \in MACs |-> 0]
    /\ call = [p \in Procs |-> NoCall]
    /\ sweep = {}
    /\ faults = 0
    /\ failed = {}
    /\ edits = 0
    /\ disturbed = {}

\* The steps of a block call, and of a removal, once it has started.
BlockStep(t) ==
    \/ CheckSafe(t) \/ CheckMode(t) \/ CheckCache(t)
    \/ RuleExists(t) \/ InsertRule(t) \/ InsertMac(t)
    \/ Verify(t) \/ CacheConfirmed(t)

RemoveStep(p) ==
    RemoveInput(p) \/ RemoveForward(p) \/ RemoveMac(p) \/ DropCache(p)

SweeperStep == SweepCollect \/ SweepNext \/ RemoveStep(Sweeper)

MacTableOpen == \A m \in MACs : macRules[m] < MaxMacRules

Start(t) ==
    \E ip \in IPs, mac \in MacOrNone :
        \/ BlockStart(t, ip, mac) /\ MacTableOpen
        \/ UnblockStart(t, ip, mac)

OperatorEdit ==
    \/ \E ip \in IPs : AddAllowlist(ip) \/ RemoveAllowlist(ip)
    \/ \E m \in SecModes : SetSecMode(m)
    \/ \E m \in DeployModes : SetDeploy(m)

OperatorStep == OperatorEdit \/ ReloadGateway

Next ==
    \/ \E t \in Threads : Start(t) \/ BlockStep(t) \/ RemoveStep(t) \/ Return(t)
    \/ SweeperStep
    \/ OperatorStep
    \/ Tick
    \/ Restart

Spec == Init /\ [][Next]_vars

\* The sweeper is a goroutine that never blocks for long and never ends.
FairSpec == Spec /\ WF_vars(SweeperStep)

-------------------------------------------------------------------------------
(* Properties *)

TypeOK ==
    /\ now \in 0 .. MaxTime
    /\ secMode \in SecModes /\ deploy \in DeployModes /\ gateway \in DeployModes
    /\ pending \in BOOLEAN
    /\ allowlist \subseteq IPs
    /\ blockCache \in [IPs -> BlockRecords \cup {NoRec}]
    /\ ipRules \in [IPs -> [Chains -> Nat]]
    /\ macRules \in [MACs -> Nat]
    /\ call \in [Procs -> CallRecords]
    /\ \A p \in Procs : Active(p) => call[p].ip \in IPs
    /\ call[Sweeper].pc \in RemovePCs \cup {"idle"}
    /\ sweep \subseteq [ip : IPs, mac : MacOrNone]
    /\ faults \in 0 .. MaxFaults
    /\ edits \in 0 .. MaxEdits
    /\ failed \subseteq IPs /\ disturbed \subseteq IPs

\* No sequence of calls, faults or restarts ever puts a DROP rule for a
\* protected address into iptables (the safety check of BlockDeviceWithResult).
ProtectedNeverFirewalled ==
    \A ip \in Protected : ~Enforced(ip)

\* The `-C` before `-I` is not atomic, so one address can get several rules;
\* but never more on a chain than there are callers, plus one for each failed
\* command: an attack that repeats does not grow the kernel table.
Inserters(ip, c) ==
    {t \in Threads : At(t, "insert") /\ call[t].ip = ip /\ call[t].chain = c}

RuleBound ==
    \A ip \in IPs, c \in Chains :
        ipRules[ip][c] + Cardinality(Inserters(ip, c)) <= Cardinality(Threads) + faults

\* Operations on an address that neither overlap nor fail are exact, whatever runs on the
\* other addresses and whichever mode is in force: between them the kernel holds
\* one rule for a cached address and none for any other (BlockDeviceWithResult,
\* UnblockDevice and ttlSweeper leave table and cache in step).
TableMatchesKernel ==
    \A ip \in IPs \ (failed \cup disturbed) :
        ~Busy(ip) => TotalRules(ip) = IF Cached(ip) THEN 1 ELSE 0

\* README "Verified Prevention": a caller that is told CONFIRMED finds the rule
\* in the kernel, whichever commands fail and whenever the process restarts, unless
\* another operation on that address overlapped its own.
ConfirmedIsEnforced ==
    \A t \in Threads :
        At(t, "done") /\ call[t].res = "CONFIRMED" /\ call[t].ip \notin disturbed
            => Enforced(call[t].ip) /\ Cached(call[t].ip)

\* A block is lifted by an unblock call or after its expiry, never by a sweep
\* that works from an old reading (ttlSweeper collects under the lock and
\* removes after it), unless operations on that address overlap.
PastExpiry(ip) == Cached(ip) /\ blockCache[ip].exp < now

NoEarlyRelease ==
    [][\A ip \in IPs :
          Enforced(ip) /\ ~Enforced(ip)' /\ ip \notin disturbed'
            => \/ PastExpiry(ip)
               \/ \E t \in Threads : call[t].ip = ip /\ call[t].pc \in RemovePCs]_vars

\* state.go:249-250: unblocking goes through the firewall manager "to guarantee
\* OS-level kernel rules are explicitly unblocked, avoiding permanent rule
\* leaks". A rule that no cache entry tracks is never swept.
NoRuleLeak ==
    \A ip \in IPs : Enforced(ip) /\ ~Busy(ip) => Cached(ip)

\* README "TTL Expiration & Rollback": once a block has expired, the sweeper
\* takes its rule out of the kernel, unless the block is renewed first.
RestoresAccess ==
    \A ip \in IPs :
        PastExpiry(ip) ~> \/ ~Enforced(ip)
                          \/ Cached(ip) /\ ~PastExpiry(ip)
                          \/ ip \in failed \cup disturbed

-------------------------------------------------------------------------------
(* The abstract specification the manager implements                       *)

\* What callers see of an address whose operations neither overlapped nor failed:
\* whether its packets are dropped, until when, and what each caller waits for.
Trusted == IPs \ (disturbed \cup failed)
Dropped == {ip \in Trusted : Enforced(ip)}
Expiries == [ip \in IPs |-> IF ip \in Trusted THEN blockCache[ip].exp ELSE NoRec.exp]

OpOf(c) ==
    [step |-> IF c.pc \in {"mac", "verify", "record"} THEN "blocking"
              ELSE IF c.pc \in BlockPCs THEN "block"
              ELSE IF c.pc \in RemovePCs THEN "unblock"
              ELSE IF c.res \in {"FAILED", "REQUESTED"} THEN "REFUSED"
              ELSE c.res,
     ip |-> c.ip, exp |-> c.exp]
NoOp == [step |-> "none", ip |-> NoIP, exp |-> 0]
Operations == [t \in Threads |-> IF call[t].ip \in Trusted THEN OpOf(call[t]) ELSE NoOp]

Promise == INSTANCE Blocking WITH
    Callers <- Threads,
    trusted <- Trusted,
    blocked <- Dropped,
    until   <- Expiries,
    op      <- Operations

\* As long as operations on an address neither overlap nor fail, its blocks are those of
\* Blocking: a call takes effect at one moment, a block that is confirmed lasts until an
\* unblock or its expiry, and a refused one changes nothing, whatever runs on the
\* other addresses, in every mode and across crashes.
KeepsPromise == Promise!BlockingSpec
===============================================================================
