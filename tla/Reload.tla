-------------------------------- MODULE Reload --------------------------------
(***************************************************************************)
(* The life of a configuration: loaded at the start, changed by requests   *)
(* (updateSettings in api/api.go), put in force by a reload (main.go), that *)
(* tears the rules of the old gateway down and sets the new ones up        *)
(* (firewall_linux.go) and replaces the capture (capture_linux.go,         *)
(* nfqueue.go), saved to .env, and undone when something fails, when the   *)
(* process is told to stop, or not at all when it crashes.                 *)
(*                                                                         *)
(* Requests run concurrently and Reload takes no lock. The commands of one *)
(* Setup or Teardown are one step and do not fail, except that a delete    *)
(* finds nothing to delete, and .env can be written. The blocks of single  *)
(* devices are in Firewall, ML_ENABLED and the gateway's address, which no *)
(* reload looks at, are left out.                                          *)
(***************************************************************************)
EXTENDS Integers, Sequences, FiniteSets, Bags

CONSTANTS
    Requesters,     \* goroutines that serve settings requests
    Bodies,         \* their bodies: functions from some fields to values
    Settings,       \* that .env may hold at first
    Present,        \* interfaces that exist, of those named anywhere
    MaxRequests, MaxBoots,
    MaxFaults       \* bound on captures that cannot be opened although the interface exists

NoName == ""
Gateways == {"GATEWAY", "NETWORK"}
Fields == {"dep", "sec", "wan", "lan", "iface", "cap"}

ASSUME SettingsAssumption ==
    /\ \A c \in Settings : DOMAIN c = Fields
    /\ \A b \in Bodies : DOMAIN b \subseteq Fields \ {"cap"}
    /\ NoName \notin Present /\ {MaxRequests, MaxBoots, MaxFaults} \subseteq Nat

NoCapture == 0
Unread == -1     \* ipForwardOriginal before the first setup of a gateway

VARIABLES
    cfg,            \* api.Config
    env,            \* .env
    process,        \* "down", "up", or "quitting" after a signal
    req,            \* per requester: where it is, its oldCfg
    stopCapture,    \* the capture it stops, or NoCapture for nil
    captures,       \* those open in the kernel: [id, kind, iface, stopping]
    opens,          \* captures so far
    rules,          \* NFQUEUE and NAT rules and jumps to the MAC chain: a bag
    forward,        \* ip_forward
    ipForwardOriginal,
    boots, requests, faults,
    mishaps,        \* history: what went wrong so far
    applied,        \* history: the settings of the first .env, and those a capture was opened with
    before          \* history: forward when the process was first started

process_vars == <<cfg, process, req, stopCapture, ipForwardOriginal>>
rlvars == <<process_vars, env, captures, opens, rules, forward, boots, requests, faults,
            mishaps, applied, before>>

Resting(c) == [pc |-> "idle", old |-> c]

RLInit ==
    /\ env \in Settings /\ cfg = env
    /\ process = "down" /\ req = [r \in Requesters |-> Resting(env)]
    /\ stopCapture = NoCapture /\ captures = {} /\ opens = 0
    /\ rules = EmptyBag /\ forward \in {0, 1} /\ ipForwardOriginal = Unread
    /\ boots = 0 /\ requests = 0 /\ faults = 0
    /\ mishaps = {} /\ applied = {env} /\ before = forward

-------------------------------------------------------------------------------
(* SetupGateway and TeardownGateway *)

RulesOf(c) ==
    CASE c.dep = "HOST" -> {<<"host", c.cap>>} \ {<<"host", NoName>>}
      [] c.dep \in Gateways -> {<<"nat", c.wan>>, <<"queue", c.wan, c.lan>>, <<"jump">>}
      [] OTHER -> {}
SetupFails(c) == c.dep \in Gateways /\ NoName \in {c.wan, c.lan}

SetupRules(c) ==
    IF SetupFails(c) THEN UNCHANGED <<rules, forward>>
    ELSE /\ rules' = rules (+) SetToBag(RulesOf(c))
         /\ forward' = IF c.dep \in Gateways THEN 1 ELSE forward

\* Mutant: ip_forward is read after it is set.
OriginalReadLate(c) == IF c.dep \in Gateways /\ ~SetupFails(c) THEN 1 ELSE ipForwardOriginal
Original(c) == IF c.dep \in Gateways /\ ~SetupFails(c) THEN forward ELSE ipForwardOriginal

\* One copy of each rule is deleted.
Teardown(c) ==
    /\ rules' = rules (-) SetToBag(RulesOf(c))
    /\ forward' = IF c.dep \in Gateways /\ ipForwardOriginal = 0 THEN 0 ELSE forward

(* The captures *)

KindFor(c) == IF c.sec = "IPS" /\ c.dep # "PASSIVE" THEN "queue" ELSE "frames"

\* A queue has one listener: while an old one is not destroyed, a second is refused.
\* Without a name, frames of all interfaces are captured.
CanOpen(c) ==
    IF KindFor(c) = "queue" THEN \A d \in captures : d.kind # "queue"
    ELSE c.cap \in Present \cup {NoName}

OpenCapture(c) ==
    /\ opens' = opens + 1 /\ stopCapture' = opens'
    /\ captures' = captures \cup {[id |-> opens', kind |-> KindFor(c), iface |-> c.cap, stopping |-> FALSE]}
    /\ applied' = applied \cup {c}

\* Mutant: the goroutine of the queue is not woken.
StopFramesOnly == captures' = {d \in captures : d.id # stopCapture \/ d.kind = "queue"}

\* stopCapture stays set. The capture of frames is closed before it returns, the
\* queue by a goroutine that it wakes.
StopCapture ==
    captures' = {IF d.id = stopCapture THEN [d EXCEPT !.stopping = TRUE] ELSE d :
                    d \in {e \in captures : e.id # stopCapture \/ e.kind = "queue"}}

DestroyQueue ==
    /\ \E d \in captures : d.stopping /\ captures' = captures \ {d}
    /\ UNCHANGED <<process_vars, env, opens, rules, forward, boots, requests, faults,
                   mishaps, applied, before>>

-------------------------------------------------------------------------------
(* The process *)

\* main: a failed setup is a warning, a failed capture the end, which leaves the rules.
Boot ==
    /\ process = "down" /\ boots < MaxBoots /\ boots' = boots + 1
    /\ cfg' = env
    /\ SetupRules(env)
    /\ \/ /\ CanOpen(env) /\ OpenCapture(env)
          /\ process' = "up" /\ ipForwardOriginal' = Original(env)
          /\ UNCHANGED <<faults, mishaps>>
       \/ /\ faults < MaxFaults \/ ~CanOpen(env)
          /\ faults' = IF CanOpen(env) THEN faults + 1 ELSE faults
          /\ mishaps' = mishaps \cup {"crash"}
          /\ UNCHANGED <<process, ipForwardOriginal, captures, opens, stopCapture, applied>>
    /\ UNCHANGED <<req, env, requests, before>>

\* What the process held is gone, its rules are not.
EndProcess ==
    /\ process' = "down" /\ captures' = {} /\ stopCapture' = NoCapture
    /\ cfg' = env /\ req' = [r \in Requesters |-> Resting(env)]
    /\ ipForwardOriginal' = Unread
    /\ UNCHANGED <<env, opens, rules, forward, boots, requests, faults, applied, before>>

Crash ==
    /\ process \in {"up", "quitting"}
    /\ mishaps' = mishaps \cup {"crash"}
    /\ EndProcess

\* A signal: the gateway is torn down first, while requests are still served.
Terminate ==
    /\ process = "up" /\ process' = "quitting"
    /\ Teardown(cfg)
    /\ mishaps' = IF \A r \in Requesters : req[r].pc = "idle" THEN mishaps ELSE mishaps \cup {"overlap"}
    /\ UNCHANGED <<cfg, req, stopCapture, ipForwardOriginal, env, captures, opens, boots,
                   requests, faults, applied, before>>

\* Shutdown waits for requests, but not for long.
Exit ==
    /\ process = "quitting"
    /\ UNCHANGED mishaps
    /\ EndProcess

-------------------------------------------------------------------------------
(* A request: updateSettings *)

Given(body, field, value) == IF field \in DOMAIN body THEN body[field] ELSE value
GoTo(r, pc) == req' = [req EXCEPT ![r].pc = pc]
Finish(r) == req' = [req EXCEPT ![r] = Resting(cfg')]

\* Clone, before the lock.
Receive(r) ==
    /\ process # "down" /\ req[r].pc = "idle" /\ requests < MaxRequests
    /\ requests' = requests + 1
    /\ req' = [req EXCEPT ![r] = [pc |-> "apply", old |-> cfg]]
    /\ mishaps' = IF process = "up" /\ \A s \in Requesters : req[s].pc = "idle" THEN mishaps
                  ELSE mishaps \cup {"overlap"}
    /\ UNCHANGED <<cfg, process, stopCapture, ipForwardOriginal, env, captures, opens, rules,
                   forward, boots, faults, applied, before>>

Merged(c, body) ==
    LET merged == [f \in Fields |-> Given(body, f, c[f])]
    IN  [merged EXCEPT !.cap = IF merged.dep \in Gateways THEN merged.lan ELSE merged.iface]
InterfacesExist(c) ==
    IF c.dep \in Gateways THEN {c.wan, c.lan} \subseteq Present ELSE c.iface \in Present

\* Under the lock. A security mode that is refused leaves the deployment mode of the
\* same body in place; missing interfaces put the old settings back.
Apply(r, body) ==
    LET old == req[r].old
        new == Merged(cfg, body)
        badDep == Given(body, "dep", "HOST") \notin Gateways \cup {"HOST"}
        badSec == Given(body, "sec", "IDS") \notin {"IDS", "IPS"}
    IN
    /\ req[r].pc = "apply"
    /\ CASE badDep -> UNCHANGED <<cfg, mishaps>> /\ Finish(r)
         [] ~badDep /\ badSec ->
               /\ cfg' = [cfg EXCEPT !.dep = Given(body, "dep", @)]
               /\ mishaps' = IF cfg' = cfg THEN mishaps ELSE mishaps \cup {"refused"}
               /\ Finish(r)
         [] ~badDep /\ ~badSec /\ new # old /\ ~InterfacesExist(new) ->
               cfg' = old /\ UNCHANGED mishaps /\ Finish(r)
         [] OTHER ->
               cfg' = new /\ UNCHANGED mishaps /\ GoTo(r, IF new # old THEN "stop" ELSE "save")
    /\ UNCHANGED <<process, stopCapture, ipForwardOriginal, env, captures, opens, rules,
                   forward, boots, requests, faults, applied, before>>

\* Reload.
ReloadStop(r) ==
    /\ req[r].pc = "stop"
    /\ StopCapture /\ GoTo(r, "teardown")
    /\ UNCHANGED <<cfg, process, stopCapture, ipForwardOriginal, env, opens, rules, forward,
                   boots, requests, faults, mishaps, applied, before>>

\* Mutant: the rules of the new configuration are torn down.
ReloadTeardownOfNew(r) ==
    /\ req[r].pc = "teardown"
    /\ Teardown(cfg) /\ GoTo(r, "setup")
    /\ UNCHANGED <<cfg, process, stopCapture, ipForwardOriginal, env, captures, opens, boots,
                   requests, faults, mishaps, applied, before>>
ReloadTeardown(r) ==
    /\ req[r].pc = "teardown"
    /\ Teardown(req[r].old) /\ GoTo(r, "setup")
    /\ UNCHANGED <<cfg, process, stopCapture, ipForwardOriginal, env, captures, opens, boots,
                   requests, faults, mishaps, applied, before>>

ReloadSetup(r) ==
    /\ req[r].pc = "setup"
    /\ SetupRules(cfg) /\ ipForwardOriginal' = Original(cfg)
    /\ GoTo(r, IF SetupFails(cfg) THEN "rollback" ELSE "start")
    /\ UNCHANGED <<cfg, process, stopCapture, env, captures, opens, boots, requests, faults,
                   mishaps, applied, before>>

\* The result, nil or not, is what stopCapture now is.
ReloadStart(r) ==
    /\ req[r].pc = "start"
    /\ \/ /\ CanOpen(cfg) /\ OpenCapture(cfg)
          /\ GoTo(r, "save") /\ UNCHANGED faults
       \/ /\ faults < MaxFaults \/ ~CanOpen(cfg)
          /\ faults' = IF CanOpen(cfg) THEN faults + 1 ELSE faults
          /\ stopCapture' = NoCapture
          /\ GoTo(r, "rollback") /\ UNCHANGED <<captures, opens, applied>>
    /\ UNCHANGED <<cfg, process, ipForwardOriginal, env, rules, forward, boots, requests,
                   mishaps, before>>

\* Mutant: the configuration is not restored.
RollbackForgotten(r) ==
    /\ req[r].pc = "rollback"
    /\ cfg' = cfg /\ Finish(r)
    /\ mishaps' = mishaps \cup {"failed"}
    /\ UNCHANGED <<process, stopCapture, ipForwardOriginal, env, captures, opens, rules,
                   forward, boots, requests, faults, applied, before>>

\* The configuration, not the rules and not the capture.
Rollback(r) ==
    /\ req[r].pc = "rollback"
    /\ cfg' = req[r].old /\ Finish(r)
    /\ mishaps' = mishaps \cup {"failed"}
    /\ UNCHANGED <<process, stopCapture, ipForwardOriginal, env, captures, opens, rules,
                   forward, boots, requests, faults, applied, before>>

\* SaveToEnv, and the answer that the configuration was applied.
Save(r) ==
    /\ req[r].pc = "save"
    /\ env' = cfg /\ req' = [req EXCEPT ![r] = Resting(cfg)]
    /\ UNCHANGED <<cfg, process, stopCapture, ipForwardOriginal, captures, opens, rules,
                   forward, boots, requests, faults, mishaps, applied, before>>

RLNext ==
    \/ Boot \/ Crash \/ Terminate \/ Exit \/ DestroyQueue
    \/ \E r \in Requesters :
          \/ Receive(r) \/ (\E b \in Bodies : Apply(r, b))
          \/ ReloadStop(r) \/ ReloadTeardown(r) \/ ReloadSetup(r) \/ ReloadStart(r)
          \/ Rollback(r) \/ Save(r)

ReloadSpec == RLInit /\ [][RLNext]_rlvars

-------------------------------------------------------------------------------
(* Properties *)

ReloadTypeOK ==
    /\ DOMAIN cfg = Fields /\ DOMAIN env = Fields
    /\ process \in {"down", "up", "quitting"}
    /\ \A r \in Requesters : req[r].pc \in {"idle", "apply", "stop", "teardown", "setup", "start",
                                            "rollback", "save"}
    /\ IsABag(rules) /\ {forward, before} \subseteq {0, 1} /\ stopCapture \in 0..opens
    /\ mishaps \subseteq {"overlap", "refused", "failed", "crash"}

Settled == process = "up" /\ \A r \in Requesters : req[r].pc = "idle"
Running == {d \in captures : ~d.stopping}
Expected(c) == IF SetupFails(c) THEN {} ELSE RulesOf(c)

\* While no request is under way, exactly the rules of the configuration are in the
\* kernel, one capture runs, of its kind, on its interface, and ip_forward is on
\* for a gateway and otherwise as it was. Not so after requests that overlapped, a
\* reload that failed, a crash, or a body refused in part: then rules or captures
\* of other settings stay.
AppliedIsRunning ==
    Settled /\ mishaps = {} =>
        /\ rules = SetToBag(Expected(cfg))
        /\ \E d \in captures : Running = {d} /\ d.id = stopCapture /\ d.kind = KindFor(cfg)
                               /\ d.iface = cfg.cap
        /\ forward = IF cfg.dep \in Gateways /\ ~SetupFails(cfg) THEN 1 ELSE before

\* After an orderly end the host is as it was found, whatever was configured in between.
NoTraceLeft == process = "down" /\ mishaps = {} => rules = EmptyBag /\ forward = before

\* No capture runs that nothing can stop, also after failed reloads, unless two
\* reloads overlapped: each of them starts a capture, and one is forgotten.
NoOrphanCapture == "overlap" \notin mishaps => \A d \in Running : d.id = stopCapture

\* A restart finds settings in .env that were in force before, even if the process
\* crashed, or a reload failed: what did not work is not saved.
SavedWasApplied ==
    mishaps \cap {"overlap", "refused"} = {} => env \in applied

\* In the IDS mode, which monitors only, no packet is dropped: where packets are sent
\* to the queue, some capture listens to it. Without a listener the kernel drops
\* them.
Queued == \E x \in BagToSet(rules) : x[1] \in {"host", "queue"}
MonitoringDropsNothing ==
    Settled /\ cfg.sec = "IDS" /\ Queued => \E d \in Running : d.kind = "queue"
===============================================================================
