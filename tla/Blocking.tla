------------------------------- MODULE Blocking -------------------------------
(***************************************************************************)
(* What the firewall manager promises of an address, for its callers to    *)
(* rely on: a call takes effect at one moment between its start and its    *)
(* answer, and so does a sweep. A block that is confirmed is in force until *)
(* an unblock call or its expiry, and one that is refused has changed       *)
(* nothing.                                                                *)
(*                                                                         *)
(* The promise is for the addresses that are trusted: whose operations     *)
(* neither overlap nor fail. Of the others nothing is said.                *)
(***************************************************************************)
EXTENDS Integers

CONSTANTS
    IPs, NoIP,
    Callers,
    TTL         \* how long a block lasts, from the moment it was asked for

VARIABLES
    now,
    trusted,
    blocked,    \* the trusted addresses whose packets are dropped
    until,      \* when a block that was confirmed expires
    op          \* the operation each caller is in, on a trusted address

bvars == <<now, trusted, blocked, until, op>>

Never == -1
NoOp == [step |-> "none", ip |-> NoIP, exp |-> 0]
Answers == {"CONFIRMED", "REFUSED", "UNBLOCKED"}

Free(ip) == \A c \in Callers : op[c].ip # ip
Answer(c, res) == op' = [op EXCEPT ![c] = [step |-> res, ip |-> op[c].ip, exp |-> 0]]

BInit ==
    /\ now = 0 /\ trusted = IPs /\ blocked = {}
    /\ until = [ip \in IPs |-> Never] /\ op = [c \in Callers |-> NoOp]

AskBlock(c, ip) ==
    /\ op[c] = NoOp /\ ip \in trusted /\ Free(ip)
    /\ op' = [op EXCEPT ![c] = [step |-> "block", ip |-> ip, exp |-> now + TTL]]
    /\ UNCHANGED <<now, trusted, blocked, until>>

AskUnblock(c, ip) ==
    /\ op[c] = NoOp /\ ip \in trusted /\ Free(ip)
    /\ op' = [op EXCEPT ![c] = [step |-> "unblock", ip |-> ip, exp |-> 0]]
    /\ UNCHANGED <<now, trusted, blocked, until>>

Refuse(c) ==
    /\ op[c].step = "block"
    /\ Answer(c, "REFUSED")
    /\ UNCHANGED <<now, trusted, blocked, until>>

Enforce(c) ==
    /\ op[c].step = "block" /\ op[c].ip \notin blocked
    /\ blocked' = blocked \cup {op[c].ip}
    /\ op' = [op EXCEPT ![c].step = "blocking"]
    /\ UNCHANGED <<now, trusted, until>>

\* A block that was in force already is confirmed too, and lasts longer.
Confirm(c) ==
    /\ op[c].step \in {"block", "blocking"} /\ op[c].ip \in blocked
    /\ until' = [until EXCEPT ![op[c].ip] = op[c].exp]
    /\ Answer(c, "CONFIRMED")
    /\ UNCHANGED <<now, trusted, blocked>>

Lift(c) ==
    /\ op[c].step = "unblock"
    /\ blocked' = blocked \ {op[c].ip}
    /\ UNCHANGED <<now, trusted, until, op>>

Unblocked(c) ==
    /\ op[c].step = "unblock" /\ op[c].ip \notin blocked
    /\ until' = [until EXCEPT ![op[c].ip] = Never]
    /\ Answer(c, "UNBLOCKED")
    /\ UNCHANGED <<now, trusted, blocked>>

TakeAnswer(c) ==
    /\ op[c].step \in Answers
    /\ op' = [op EXCEPT ![c] = NoOp]
    /\ UNCHANGED <<now, trusted, blocked, until>>

\* A sweep: of a block past its expiry, which nobody works on.
Past(ip) == until[ip] # Never /\ until[ip] < now

Expire(ip) ==
    /\ Past(ip) /\ Free(ip)
    /\ blocked' = blocked \ {ip}
    /\ UNCHANGED <<now, trusted, until, op>>

ForgetExpired(ip) ==
    /\ Past(ip) /\ Free(ip) /\ ip \notin blocked
    /\ until' = [until EXCEPT ![ip] = Never]
    /\ UNCHANGED <<now, trusted, blocked, op>>

Pass == now' = now + 1 /\ UNCHANGED <<trusted, blocked, until, op>>

\* Operations overlap, or a command fails.
Distrust ==
    /\ trusted' \subseteq trusted
    /\ blocked' = blocked \cap trusted'
    /\ until' = [ip \in IPs |-> IF ip \in trusted' THEN until[ip] ELSE Never]
    /\ op' = [c \in Callers |-> IF op[c].ip \in trusted' THEN op[c] ELSE NoOp]
    /\ UNCHANGED now

\* A crash leaves in doubt what is blocked or being worked on.
Crash ==
    /\ trusted' \subseteq {ip \in trusted \ blocked : Free(ip)}
    /\ blocked' = {} /\ until' = [ip \in IPs |-> Never] /\ op' = [c \in Callers |-> NoOp]
    /\ UNCHANGED now

BNext ==
    \/ \E c \in Callers :
          \/ \E ip \in IPs : AskBlock(c, ip) \/ AskUnblock(c, ip)
          \/ Refuse(c) \/ Enforce(c) \/ Confirm(c) \/ Lift(c) \/ Unblocked(c) \/ TakeAnswer(c)
    \/ \E ip \in IPs : Expire(ip) \/ ForgetExpired(ip)
    \/ Pass \/ Distrust \/ Crash

BlockingSpec == BInit /\ [][BNext]_bvars
===============================================================================
