--------------------------- MODULE PreventionProofs ---------------------------
(***************************************************************************)
(* Theorems about Firewall for every value of its constants, and then      *)
(* about Prevention, which extends it: with the handlers that call it and  *)
(* the state they keep, the firewall manager does what Firewall says of    *)
(* it, and the alerts, the counters and the block entries stay true to it. *)
(***************************************************************************)
EXTENDS Prevention, FiniteSetTheorems, TLAPS

-------------------------------------------------------------------------------
(* Firewall *)

\* The steps of the manager one by one, under any callers: those of Next without
\* its groups and without its bound on the rules of a MAC.
ManagerNext ==
    \/ \E t \in Threads, ip \in IPs, mac \in MacOrNone :
          BlockStart(t, ip, mac) \/ UnblockStart(t, ip, mac)
    \/ \E t \in Threads : BlockStep(t)
    \/ \E t \in Threads : Return(t)
    \/ \E p \in Procs : RemoveStep(p)
    \/ SweepCollect
    \/ SweepNext
    \/ OperatorStep
    \/ Tick
    \/ Restart

\* Every step of the specification is one of them, and so is every firewall step
\* of the modules that say who calls the manager.
LEMMA NextIsManagerNext == [Next]_vars => [ManagerNext]_vars
BY DEF Next, Start, SweeperStep, ManagerNext, Procs

-------------------------------------------------------------------------------
(* Type correctness *)

LEMMA TypeInit == Init => TypeOK
<1> SUFFICES ASSUME Init PROVE TypeOK
  OBVIOUS
<1>1. NoCall \in CallRecords /\ NoCall.pc = "idle"
  BY TimeAssumption DEF NoCall, NewCall, CallRecords, Times, MacOrNone, Results, Chains
<1>2. call = [p \in Procs |-> NoCall] /\ Sweeper \in Procs
  BY DEF Init, Procs
<1>3. /\ call \in [Procs -> CallRecords]
      /\ \A p \in Procs : call[p].pc = "idle"
  BY <1>1, <1>2
<1>4. now \in 0 .. MaxTime /\ faults \in 0 .. MaxFaults /\ edits \in 0 .. MaxEdits
  BY TimeAssumption, BudgetAssumption DEF Init
<1>5. /\ ipRules \in [IPs -> [Chains -> Nat]] /\ macRules \in [MACs -> Nat]
      /\ blockCache \in [IPs -> BlockRecords \cup {NoRec}]
  BY DEF Init
<1> QED
  BY <1>2, <1>3, <1>4, <1>5 DEF Init, TypeOK, Active

\* The part of TypeOK about call records.
CallOK ==
    /\ call \in [Procs -> CallRecords]
    /\ \A p \in Procs : Active(p) => call[p].ip \in IPs
    /\ call[Sweeper].pc \in RemovePCs \cup {"idle"}

\* Writing one well-formed record keeps all of them well formed.
LEMMA CallUpdate ==
    ASSUME CallOK, NEW p \in Procs, NEW c \in CallRecords,
           c.pc # "idle" => c.ip \in IPs,
           p = Sweeper => c.pc \in RemovePCs \cup {"idle"},
           call' = [call EXCEPT ![p] = c]
    PROVE  CallOK'
<1>1. call' \in [Procs -> CallRecords]
  BY DEF CallOK
<1>2. \A q \in Procs : call'[q] = IF q = p THEN c ELSE call[q]
  BY DEF CallOK
<1>3. Sweeper \in Procs
  BY DEF Procs
<1> QED
  BY <1>1, <1>2, <1>3 DEF CallOK, Active

LEMMA GotoOK ==
    ASSUME CallOK, NEW p \in Procs, Active(p), NEW pc \in BlockPCs \cup RemovePCs,
           p = Sweeper => pc \in RemovePCs, Goto(p, pc)
    PROVE  CallOK'
<1> DEFINE c == [call[p] EXCEPT !.pc = pc]
<1>1. call[p] \in CallRecords /\ call[p].ip \in IPs
  BY DEF CallOK
<1>2. c \in CallRecords /\ c.ip = call[p].ip /\ c.pc = pc
  BY <1>1 DEF CallRecords
<1>3. call' = [call EXCEPT ![p] = c]
  BY DEF Goto
<1> HIDE DEF c
<1> QED
  BY <1>1, <1>2, <1>3, CallUpdate

\* A fresh record, for a new call or for the result of one.
LEMMA NewCallOK ==
    ASSUME NEW pc \in BlockPCs \cup RemovePCs \cup {"idle", "done"}, NEW ip \in IPs \cup {NoIP},
           NEW mac \in MacOrNone, NEW exp \in Times, NEW res \in Results
    PROVE  /\ NewCall(pc, ip, mac, exp, res) \in CallRecords
           /\ NewCall(pc, ip, mac, exp, res).pc = pc
           /\ NewCall(pc, ip, mac, exp, res).ip = ip
BY DEF CallRecords, Chains, NewCall

LEMMA Defaults ==
    NoMAC \in MacOrNone /\ 0 \in Times /\ "NONE" \in Results
BY TimeAssumption DEF MacOrNone, Times, Results

LEMMA NewCallUpdate ==
    ASSUME CallOK, NEW p \in Procs,
           NEW pc \in BlockPCs \cup RemovePCs \cup {"idle", "done"}, NEW ip \in IPs \cup {NoIP},
           NEW mac \in MacOrNone, NEW exp \in Times, NEW res \in Results,
           pc # "idle" => ip \in IPs,
           p = Sweeper => pc \in RemovePCs \cup {"idle"},
           call' = [call EXCEPT ![p] = NewCall(pc, ip, mac, exp, res)]
    PROVE  CallOK'
<1> DEFINE c == NewCall(pc, ip, mac, exp, res)
<1>1. c \in CallRecords /\ c.pc = pc /\ c.ip = ip
  BY NewCallOK
<1> HIDE DEF c
<1> QED
  BY <1>1, CallUpdate DEF c

LEMMA FinishOK ==
    ASSUME CallOK, NEW t \in Threads, Active(t), NEW res \in Results, Finish(t, res)
    PROVE  CallOK'
<1>1. t \in Procs /\ t # Sweeper /\ call[t].ip \in IPs
  BY ThreadsAssumption DEF CallOK, Procs
<1> QED
  BY <1>1, Defaults, NewCallUpdate DEF Finish

LEMMA TypeStart ==
    ASSUME TypeOK, NEW t \in Threads, NEW ip \in IPs, NEW mac \in MacOrNone,
           BlockStart(t, ip, mac) \/ UnblockStart(t, ip, mac)
    PROVE  TypeOK'
<1>1. t \in Procs /\ t # Sweeper /\ CallOK
  BY ThreadsAssumption DEF TypeOK, CallOK, Procs
<1>2. now + TTL \in Times
  BY TimeAssumption DEF TypeOK, Times
<1>3. CASE BlockStart(t, ip, mac)
  <2>1. CallOK'
    BY <1>1, <1>2, <1>3, Defaults, NewCallUpdate DEF BlockStart, BlockPCs
  <2> QED
    BY <1>3, <2>1 DEF BlockStart, TypeOK, CallOK, config, manager, kernel
<1>4. CASE UnblockStart(t, ip, mac)
  <2>1. CallOK'
    BY <1>1, <1>4, Defaults, NewCallUpdate DEF UnblockStart, RemovePCs
  <2> QED
    BY <1>4, <2>1 DEF UnblockStart, TypeOK, CallOK, config, manager, kernel
<1> QED
  BY <1>3, <1>4

\* Writing one rule count.
LEMMA RulesUpdate ==
    ASSUME NEW rules \in [IPs -> [Chains -> Nat]], NEW ip \in IPs, NEW c \in Chains, NEW n \in Nat
    PROVE  [rules EXCEPT ![ip][c] = n] \in [IPs -> [Chains -> Nat]]
OBVIOUS

LEMMA TypeBlockStep ==
    ASSUME TypeOK, NEW t \in Threads, BlockStep(t)
    PROVE  TypeOK'
<1>1. t \in Procs /\ t # Sweeper /\ CallOK
  BY ThreadsAssumption DEF TypeOK, CallOK, Procs
<1>2. Active(t) /\ call[t] \in CallRecords /\ call[t].ip \in IPs
  <2>1. Active(t)
    BY DEF BlockStep, CheckSafe, CheckMode, CheckCache, RuleExists, InsertRule, InsertMac,
           Verify, CacheConfirmed, At, Active
  <2> QED
    BY <1>1, <2>1 DEF CallOK
<1>3. {"mode", "cache", "exists", "mac", "verify", "record"} \subseteq BlockPCs
  BY DEF BlockPCs
<1>4. {"FAILED", "REQUESTED", "CONFIRMED"} \subseteq Results
  BY DEF Results
<1>5. \A pc \in {"mode", "cache", "exists", "mac", "verify", "record"} : Goto(t, pc) => CallOK'
  BY <1>1, <1>2, <1>3, GotoOK
<1>6. \A res \in {"FAILED", "REQUESTED", "CONFIRMED"} : Finish(t, res) => CallOK'
  BY <1>1, <1>2, <1>4, FinishOK
<1> USE DEF config, manager, kernel, NoFault, Fault
<1>7. CASE CheckSafe(t)
  BY <1>5, <1>6, <1>7 DEF CheckSafe, TypeOK, CallOK
<1>8. CASE CheckMode(t)
  BY <1>5, <1>6, <1>8 DEF CheckMode, TypeOK, CallOK
<1>9. CASE CheckCache(t)
  <2>1. CallOK'
    BY <1>5, <1>6, <1>9 DEF CheckCache
  <2>2. call[t].exp \in Times
    BY <1>2 DEF CallRecords
  <2>3. blockCache' \in [IPs -> BlockRecords \cup {NoRec}]
    <3> DEFINE ip == call[t].ip
               rec == [blockCache[ip] EXCEPT !.exp = call[t].exp]
    <3>1. blockCache \in [IPs -> BlockRecords \cup {NoRec}] /\ ip \in IPs
      BY <1>2 DEF TypeOK
    <3>2. \/ blockCache' = blockCache
          \/ Cached(ip) /\ blockCache' = [blockCache EXCEPT ![ip] = rec]
      BY <1>9 DEF CheckCache
    <3>3. Cached(ip) => rec \in BlockRecords
      BY <2>2, <3>1 DEF Cached, BlockRecords
    <3> HIDE DEF ip, rec
    <3> QED
      BY <3>1, <3>2, <3>3
  <2> QED
    BY <1>9, <2>1, <2>3 DEF CheckCache, TypeOK, CallOK
<1>10. CASE RuleExists(t)
  <2>1. PICK pc \in {"insert", "mac"} :
           call' = [call EXCEPT ![t] = [call[t] EXCEPT !.chain = Chain, !.pc = pc]]
    BY <1>1, <1>10 DEF RuleExists, CallOK
  <2> DEFINE c == [call[t] EXCEPT !.chain = Chain, !.pc = pc]
  <2>2. c \in CallRecords /\ c.ip = call[t].ip
    BY <1>2 DEF CallRecords, Chain, Chains, BlockPCs
  <2>3. CallOK'
    BY <1>1, <1>2, <2>1, <2>2, CallUpdate
  <2> QED
    BY <1>2, <1>10, <2>3, BudgetAssumption DEF RuleExists, TypeOK, CallOK
<1>11. CASE InsertRule(t)
  <2> DEFINE c == [call[t] EXCEPT !.pc = "mac", !.ok = FALSE]
  <2>1. c \in CallRecords /\ c.ip = call[t].ip
    BY <1>2 DEF CallRecords, BlockPCs
  <2>2. Goto(t, "mac") \/ call' = [call EXCEPT ![t] = c]
    BY <1>1, <1>11 DEF InsertRule, CallOK
  <2>3. CallOK'
    BY <1>1, <1>2, <1>5, <2>1, <2>2, CallUpdate
  <2>4. call[t].chain \in Chains
    BY <1>2 DEF CallRecords
  <2>5. ipRules' \in [IPs -> [Chains -> Nat]]
    <3> DEFINE n == ipRules[call[t].ip][call[t].chain] + 1
    <3>1. ipRules' = ipRules \/ ipRules' = [ipRules EXCEPT ![call[t].ip][call[t].chain] = n]
      BY <1>11 DEF InsertRule
    <3>2. n \in Nat /\ ipRules \in [IPs -> [Chains -> Nat]]
      BY <1>2, <2>4 DEF TypeOK
    <3> HIDE DEF n
    <3>3. [ipRules EXCEPT ![call[t].ip][call[t].chain] = n] \in [IPs -> [Chains -> Nat]]
      BY <1>2, <2>4, <3>2, RulesUpdate
    <3> QED
      BY <3>1, <3>2, <3>3
  <2> QED
    BY <1>2, <1>11, <2>3, <2>5, BudgetAssumption DEF InsertRule, TypeOK, CallOK
<1>12. CASE InsertMac(t)
  <2>1. CallOK'
    BY <1>5, <1>6, <1>12 DEF InsertMac
  <2> QED
    BY <1>2, <1>12, <2>1, BudgetAssumption DEF InsertMac, TypeOK, CallOK
<1>13. CASE Verify(t)
  <2>1. CallOK'
    BY <1>5, <1>6, <1>13 DEF Verify
  <2> QED
    BY <1>2, <1>13, <2>1, BudgetAssumption DEF Verify, TypeOK, CallOK
<1>14. CASE CacheConfirmed(t)
  <2>1. CallOK'
    BY <1>6, <1>14 DEF CacheConfirmed
  <2>2. [mac |-> call[t].mac, exp |-> call[t].exp] \in BlockRecords
    BY <1>2 DEF CallRecords, BlockRecords
  <2> QED
    BY <1>2, <1>14, <2>1, <2>2 DEF CacheConfirmed, TypeOK, CallOK
<1> QED
  BY <1>7, <1>8, <1>9, <1>10, <1>11, <1>12, <1>13, <1>14 DEF BlockStep

LEMMA TypeRemoveStep ==
    ASSUME TypeOK, NEW p \in Procs, RemoveStep(p)
    PROVE  TypeOK'
<1>1. CallOK /\ Active(p) /\ call[p] \in CallRecords /\ call[p].ip \in IPs
  BY DEF TypeOK, CallOK, RemoveStep, RemoveInput, RemoveForward, RemoveFrom, RemoveMac,
         DropCache, At, Active
<1>2. \A pc \in {"delForward", "delMac", "drop"} : Goto(p, pc) => CallOK'
  BY <1>1, GotoOK DEF RemovePCs
<1> USE DEF config, manager, kernel, NoFault, Fault
<1>3. ASSUME NEW pc, NEW chain \in Chains, NEW next \in {"delForward", "delMac"},
             RemoveFrom(p, pc, chain, next)
      PROVE  TypeOK'
  <2>1. CallOK'
    BY <1>2, <1>3 DEF RemoveFrom
  <2>2. ipRules' \in [IPs -> [Chains -> Nat]]
    <3> DEFINE old == ipRules[call[p].ip][chain]
               n == IF old > 0 THEN old - 1 ELSE 0
    <3>1. ipRules' = ipRules \/ ipRules' = [ipRules EXCEPT ![call[p].ip][chain] = n]
      BY <1>3 DEF RemoveFrom, DeleteRule
    <3>2. n \in Nat /\ ipRules \in [IPs -> [Chains -> Nat]]
      BY <1>1 DEF TypeOK
    <3> HIDE DEF n
    <3>3. [ipRules EXCEPT ![call[p].ip][chain] = n] \in [IPs -> [Chains -> Nat]]
      BY <1>1, <3>2
    <3> QED
      BY <3>1, <3>2, <3>3
  <2> QED
    BY <1>1, <1>3, <2>1, <2>2, BudgetAssumption DEF RemoveFrom, TypeOK, CallOK
<1>4. CASE RemoveInput(p)
  BY <1>3, <1>4 DEF RemoveInput, Chains
<1>5. CASE RemoveForward(p)
  BY <1>3, <1>5 DEF RemoveForward, Chains
<1>6. CASE RemoveMac(p)
  <2>1. CallOK'
    BY <1>2, <1>6 DEF RemoveMac
  <2> QED
    BY <1>1, <1>6, <2>1, BudgetAssumption DEF RemoveMac, TypeOK, CallOK
<1>7. CASE DropCache(p)
  <2>2. p = Sweeper => CallOK'
    BY <1>1, <1>7, Defaults, NewCallUpdate DEF DropCache, NoCall
  <2>3. p # Sweeper => CallOK'
    BY <1>1, <1>7, FinishOK DEF DropCache, Procs, Results
  <2> QED
    BY <1>1, <1>7, <2>2, <2>3 DEF DropCache, Forget, TypeOK, CallOK
<1> QED
  BY <1>4, <1>5, <1>6, <1>7 DEF RemoveStep

LEMMA TypeSweep ==
    ASSUME TypeOK, SweepCollect \/ SweepNext
    PROVE  TypeOK'
<1> USE DEF config, manager, kernel, NoFault
<1>1. CallOK /\ Sweeper \in Procs
  BY DEF TypeOK, CallOK, Procs
<1>2. CASE SweepCollect
  BY <1>2 DEF SweepCollect, Expired, Cached, BlockRecords, TypeOK, Active
<1>3. CASE SweepNext
  <2>1. PICK e \in sweep :
           /\ call' = [call EXCEPT ![Sweeper] = NewCall("delInput", e.ip, e.mac, 0, "NONE")]
           /\ sweep' = sweep \ {e}
    BY <1>3 DEF SweepNext
  <2>2. e.ip \in IPs /\ e.mac \in MacOrNone
    BY DEF TypeOK
  <2>3. CallOK'
    BY <1>1, <2>1, <2>2, Defaults, NewCallUpdate DEF RemovePCs
  <2> QED
    BY <1>3, <2>1, <2>3 DEF SweepNext, TypeOK, CallOK
<1> QED
  BY <1>2, <1>3

LEMMA TypeOperator ==
    ASSUME TypeOK, OperatorStep
    PROVE  TypeOK'
<1> USE BudgetAssumption DEF Edit, TypeOK, Active, config, manager, kernel
<1>1. ASSUME NEW ip \in IPs, AddAllowlist(ip) \/ RemoveAllowlist(ip) PROVE TypeOK'
  BY <1>1 DEF AddAllowlist, RemoveAllowlist
<1>2. ASSUME NEW m \in SecModes, SetSecMode(m) PROVE TypeOK'
  BY <1>2 DEF SetSecMode
<1>3. ASSUME NEW m \in DeployModes, SetDeploy(m) PROVE TypeOK'
  BY <1>3 DEF SetDeploy
<1>4. CASE ReloadGateway
  BY <1>4 DEF ReloadGateway
<1> QED
  BY <1>1, <1>2, <1>3, <1>4 DEF OperatorStep, OperatorEdit

LEMMA TypeOther ==
    ASSUME TypeOK, (\E t \in Threads : Return(t)) \/ Tick \/ Restart
    PROVE  TypeOK'
<1> USE DEF config, manager, kernel, NoFault
<1>1. CallOK
  BY DEF TypeOK, CallOK
<1>2. ASSUME NEW t \in Threads, Return(t) PROVE TypeOK'
  <2>1. CallOK'
    BY <1>1, <1>2, Defaults, NewCallUpdate DEF Return, NoCall, Procs
  <2> QED
    BY <1>2, <2>1 DEF Return, TypeOK, CallOK
<1>3. CASE Tick
  BY <1>3, TimeAssumption DEF Tick, TypeOK, Active
<1>4. CASE Restart
  <2>1. NoCall \in CallRecords /\ NoCall.pc = "idle"
    BY Defaults DEF NoCall, NewCall, CallRecords, Chains
  <2>2. call' \in [Procs -> CallRecords] /\ \A p \in Procs : call'[p].pc = "idle"
    BY <1>4, <2>1 DEF Restart
  <2>3. CallOK'
    <3>1. Sweeper \in Procs
      BY DEF Procs
    <3> QED
      BY <2>2, <3>1 DEF CallOK, Active
  <2> QED
    BY <1>4, <2>3, BudgetAssumption DEF Restart, TypeOK, CallOK
<1> QED
  BY <1>2, <1>3, <1>4

LEMMA TypeStep ==
    ASSUME TypeOK, [ManagerNext]_vars
    PROVE  TypeOK'
<1>1. CASE UNCHANGED vars
  BY <1>1 DEF vars, TypeOK, config, manager, kernel, Active
<1>2. CASE ManagerNext
  BY <1>2, TypeStart, TypeBlockStep, TypeRemoveStep, TypeSweep, TypeOperator, TypeOther
     DEF ManagerNext
<1> QED
  BY <1>1, <1>2

\* Every variable keeps its type: no rule count goes negative, a running call has
\* an address, and the clock and the budgets stay in their bounds.
THEOREM TypeCorrect == Spec => []TypeOK
BY TypeInit, TypeStep, NextIsManagerNext, PTL DEF Spec

-------------------------------------------------------------------------------
(* Protected addresses                                                      *)
(*                                                                          *)
(* That no rule exists is not inductive: a call that has passed the safety  *)
(* check goes on to insert one. The invariant adds that such a call is      *)
(* never for a protected address.                                           *)

PastCheck == {"mode", "cache", "exists", "insert", "mac", "verify", "record"}

NoRules(ip) == \A c \in Chains : ipRules[ip][c] = 0

ProtectedInv ==
    /\ \A ip \in Protected : NoRules(ip)
    /\ \A t \in Threads : call[t].pc \in PastCheck => call[t].ip \notin Protected

\* A step lets no call pass the check.
NonePasses ==
    \A t \in Threads : call'[t].pc \in PastCheck =>
        call[t].pc \in PastCheck /\ call'[t].ip = call[t].ip

LEMMA ProtectedKept ==
    ASSUME ProtectedInv, NonePasses, \A ip \in Protected : NoRules(ip) => NoRules(ip)'
    PROVE  ProtectedInv'
BY DEF ProtectedInv, NonePasses

LEMMA GotoPassesNone ==
    ASSUME call \in [Procs -> CallRecords], NEW p \in Procs, NEW pc, Goto(p, pc),
           pc \in PastCheck => call[p].pc \in PastCheck
    PROVE  NonePasses
BY DEF Goto, CallRecords, NonePasses, Procs

LEMMA FreshPassesNone ==
    ASSUME call \in [Procs -> CallRecords], NEW p \in Procs, NEW c,
           c.pc \notin PastCheck, call' = [call EXCEPT ![p] = c]
    PROVE  NonePasses
BY DEF NonePasses, Procs

LEMMA FinishPassesNone ==
    ASSUME call \in [Procs -> CallRecords], NEW p \in Procs, NEW res, Finish(p, res)
    PROVE  NonePasses
<1>1. NewCall("done", call[p].ip, NoMAC, 0, res).pc \notin PastCheck
  BY DEF NewCall, PastCheck
<1> QED
  BY <1>1, FreshPassesNone DEF Finish

LEMMA ProtectedStep ==
    ASSUME TypeOK, ProtectedInv, [ManagerNext]_vars
    PROVE  ProtectedInv'
<1> USE DEF config, manager, kernel, NoFault, Fault, At
<1>1. Protected \subseteq IPs /\ Threads \subseteq Procs /\ Sweeper \notin Threads
  BY AddressesAssumption, ThreadsAssumption DEF Procs
<1>2. /\ call \in [Procs -> CallRecords]
      /\ ipRules \in [IPs -> [Chains -> Nat]]
      /\ \A t \in Procs : Active(t) => call[t].ip \in IPs
  BY DEF TypeOK
<1>3. ASSUME NEW t \in Threads, NEW ip \in IPs, NEW mac \in MacOrNone,
             BlockStart(t, ip, mac) \/ UnblockStart(t, ip, mac)
      PROVE  ProtectedInv'
  BY <1>1, <1>2, <1>3, ProtectedKept
     DEF BlockStart, UnblockStart, NewCall, PastCheck, NoRules, NonePasses
<1>4. ASSUME NEW t \in Threads, CheckSafe(t) PROVE ProtectedInv'
  <2>1. CASE SafeToBlock(call[t].ip)
    <3>1. call[t].ip \notin Protected
      BY <2>1 DEF SafeToBlock
    <3>2. call' = [call EXCEPT ![t].pc = "mode"] /\ ipRules' = ipRules
      BY <1>4, <2>1 DEF CheckSafe, Goto
    <3>3. /\ call'[t].ip = call[t].ip
          /\ \A u \in Threads \ {t} : call'[u] = call[u]
      BY <1>1, <1>2, <3>2 DEF CallRecords
    <3> QED
      BY <3>1, <3>2, <3>3 DEF NoRules, ProtectedInv
  <2>2. CASE ~SafeToBlock(call[t].ip)
    BY <1>1, <1>2, <1>4, <2>2, FinishPassesNone, ProtectedKept DEF CheckSafe, NoRules
  <2> QED
    BY <2>1, <2>2
<1>5. ASSUME NEW t \in Threads,
             CheckMode(t) \/ CheckCache(t) \/ InsertMac(t) \/ Verify(t) \/ CacheConfirmed(t)
      PROVE  ProtectedInv'
  <2>1. \/ Finish(t, "REQUESTED") \/ Finish(t, "CONFIRMED") \/ Finish(t, "FAILED")
        \/ Goto(t, "cache") \/ Goto(t, "exists") \/ Goto(t, "verify") \/ Goto(t, "record")
    BY <1>5 DEF CheckMode, CheckCache, InsertMac, Verify, CacheConfirmed
  <2>2. call[t].pc \in PastCheck
    BY <1>5 DEF CheckMode, CheckCache, InsertMac, Verify, CacheConfirmed, PastCheck
  <2>3. NonePasses
    BY <1>1, <1>2, <2>1, <2>2, GotoPassesNone, FinishPassesNone
  <2>4. ipRules' = ipRules
    BY <1>5 DEF CheckMode, CheckCache, InsertMac, Verify, CacheConfirmed
  <2> QED
    BY <2>3, <2>4, ProtectedKept DEF NoRules
<1>6. ASSUME NEW t \in Threads, RuleExists(t) PROVE ProtectedInv'
  BY <1>1, <1>2, <1>6, ProtectedKept DEF RuleExists, CallRecords, PastCheck, NoRules, NonePasses
<1>7. ASSUME NEW t \in Threads, InsertRule(t) PROVE ProtectedInv'
  <2>1. call[t].ip \notin Protected
    BY <1>7 DEF InsertRule, ProtectedInv, PastCheck
  <2>2. \A ip \in Protected : ipRules'[ip] = ipRules[ip]
    BY <1>1, <1>2, <1>7, <2>1 DEF InsertRule
  <2>3. NonePasses
    BY <1>1, <1>2, <1>7 DEF InsertRule, Goto, CallRecords, PastCheck, NonePasses
  <2> QED
    BY <2>2, <2>3, ProtectedKept DEF NoRules
<1>8. ASSUME NEW t \in Threads, Return(t) PROVE ProtectedInv'
  BY <1>1, <1>2, <1>8, FreshPassesNone, ProtectedKept DEF Return, NoCall, NewCall, PastCheck, NoRules
<1>9. ASSUME NEW p \in Procs, RemoveInput(p) \/ RemoveForward(p) PROVE ProtectedInv'
  <2>1. PICK chain \in Chains, pc \in RemovePCs, next \in {"delForward", "delMac"} :
           RemoveFrom(p, pc, chain, next)
    BY <1>9 DEF RemoveInput, RemoveForward, Chains, RemovePCs
  <2>2. call[p].ip \in IPs
    BY <1>2, <2>1 DEF RemoveFrom, Active, RemovePCs
  <2>3. ASSUME NEW ip \in Protected, NoRules(ip) PROVE NoRules(ip)'
    BY <1>1, <1>2, <2>1, <2>2, <2>3 DEF RemoveFrom, DeleteRule, NoRules
  <2>4. NonePasses
    BY <1>2, <2>1, GotoPassesNone DEF RemoveFrom, PastCheck
  <2> QED
    BY <2>3, <2>4, ProtectedKept
<1>10. ASSUME NEW p \in Procs, RemoveMac(p) \/ DropCache(p) PROVE ProtectedInv'
  <2>1. \/ Goto(p, "drop") \/ Finish(p, "UNBLOCKED") \/ call' = [call EXCEPT ![p] = NoCall]
    BY <1>10 DEF RemoveMac, DropCache
  <2>2. NonePasses
    BY <1>2, <2>1, GotoPassesNone, FinishPassesNone, FreshPassesNone DEF NoCall, NewCall, PastCheck
  <2>3. ipRules' = ipRules
    BY <1>10 DEF RemoveMac, DropCache
  <2> QED
    BY <2>2, <2>3, ProtectedKept DEF NoRules
<1>11. CASE SweepCollect \/ SweepNext
  BY <1>1, <1>2, <1>11, ProtectedKept
     DEF SweepCollect, SweepNext, NewCall, PastCheck, NoRules, NonePasses
<1>12. CASE OperatorStep \/ Tick
  BY <1>12, ProtectedKept DEF OperatorStep, OperatorEdit, AddAllowlist, RemoveAllowlist, SetSecMode, SetDeploy,
     ReloadGateway, Tick, NoRules, NonePasses
<1>13. CASE Restart
  BY <1>1, <1>13, ProtectedKept DEF Restart, NoCall, NewCall, PastCheck, NoRules, NonePasses
<1>14. CASE UNCHANGED vars
  BY <1>14, ProtectedKept DEF vars, NoRules, NonePasses
<1> QED
  BY <1>3, <1>4, <1>5, <1>6, <1>7, <1>8, <1>9, <1>10, <1>11, <1>12, <1>13, <1>14
     DEF ManagerNext, BlockStep, RemoveStep

LEMMA ProtectedInit == Init => ProtectedInv
BY AddressesAssumption, ThreadsAssumption
   DEF Init, ProtectedInv, NoRules, NoCall, NewCall, PastCheck, Procs

LEMMA ProtectedImplies == ProtectedInv => ProtectedNeverFirewalled
BY DEF ProtectedInv, NoRules, ProtectedNeverFirewalled, Enforced, TotalRules, Chains

\* Whatever the calls, the failed commands and the restarts: no DROP rule is ever
\* put into the kernel for an address isSafeToBlockWithReason refuses.
THEOREM ProtectedSafe == Spec => []ProtectedNeverFirewalled
BY ProtectedInit, ProtectedImplies, TypeCorrect, ProtectedStep, NextIsManagerNext, PTL DEF Spec

-------------------------------------------------------------------------------
(* The number of rules of an address *)

LEMMA InsertersFinite ==
    ASSUME NEW ip, NEW c
    PROVE  /\ IsFiniteSet(Inserters(ip, c))
           /\ Cardinality(Inserters(ip, c)) \in Nat /\ Cardinality(Threads) \in Nat
           /\ Cardinality(Inserters(ip, c)) <= Cardinality(Threads)
<1>1. Inserters(ip, c) \subseteq Threads
  BY DEF Inserters
<1> QED
  BY <1>1, ThreadsAssumption, FS_Subset, FS_CardinalityType

\* No call reaches the insertion in a step.
NoneReaches == \A t \in Threads : call'[t].pc = "insert" => call'[t] = call[t]

\* A step that adds no rule and lets no call reach the insertion.
LEMMA BoundKept ==
    ASSUME TypeOK, TypeOK', RuleBound, NoneReaches, faults' >= faults,
           \A ip \in IPs, c \in Chains : ipRules'[ip][c] <= ipRules[ip][c]
    PROVE  RuleBound'
<1> SUFFICES ASSUME NEW ip \in IPs, NEW c \in Chains
             PROVE  ipRules'[ip][c] + Cardinality(Inserters(ip, c)')
                      <= Cardinality(Threads) + faults'
  BY DEF RuleBound
<1>1. Inserters(ip, c)' \subseteq Inserters(ip, c)
  BY DEF Inserters, NoneReaches, At
<1>2. /\ Cardinality(Inserters(ip, c)') <= Cardinality(Inserters(ip, c))
      /\ Cardinality(Inserters(ip, c)') \in Nat
  BY <1>1, InsertersFinite, FS_Subset, FS_CardinalityType
<1>3. ipRules[ip][c] \in Nat /\ ipRules'[ip][c] \in Nat /\ faults \in Nat /\ faults' \in Nat
  BY BudgetAssumption DEF TypeOK
<1>4. /\ ipRules[ip][c] + Cardinality(Inserters(ip, c)) <= Cardinality(Threads) + faults
      /\ ipRules'[ip][c] <= ipRules[ip][c]
  BY DEF RuleBound
<1> QED
  BY <1>2, <1>3, <1>4, InsertersFinite

LEMMA OneCallChanges ==
    ASSUME call \in [Procs -> CallRecords], NEW p \in Procs, NEW c,
           c.pc # "insert", call' = [call EXCEPT ![p] = c]
    PROVE  NoneReaches
BY DEF NoneReaches, Procs

LEMMA GotoReachesNone ==
    ASSUME call \in [Procs -> CallRecords], NEW p \in Procs, NEW pc, Goto(p, pc), pc # "insert"
    PROVE  NoneReaches
BY DEF Goto, CallRecords, NoneReaches, Procs

LEMMA FinishReachesNone ==
    ASSUME call \in [Procs -> CallRecords], NEW p \in Procs, NEW res, Finish(p, res)
    PROVE  NoneReaches
<1>1. NewCall("done", call[p].ip, NoMAC, 0, res).pc # "insert"
  BY DEF NewCall
<1> QED
  BY <1>1, OneCallChanges DEF Finish

\* `-C` finds no rule, or cannot tell: the caller is about to add one.
LEMMA RuleExistsBound ==
    ASSUME TypeOK, TypeOK', RuleBound, NEW t \in Threads, RuleExists(t)
    PROVE  RuleBound'
<1> SUFFICES ASSUME NEW ip \in IPs, NEW c \in Chains
             PROVE  ipRules'[ip][c] + Cardinality(Inserters(ip, c)')
                      <= Cardinality(Threads) + faults'
  BY DEF RuleBound
<1> DEFINE old == Inserters(ip, c)
           new == Inserters(ip, c)'
<1>1. /\ ipRules' = ipRules
      /\ ipRules[ip][c] \in Nat /\ faults \in Nat /\ faults' \in Nat
      /\ ipRules[ip][c] + Cardinality(old) <= Cardinality(Threads) + faults
  BY BudgetAssumption DEF RuleExists, kernel, TypeOK, RuleBound
<1>2. t \in Procs /\ call \in [Procs -> CallRecords]
  BY DEF TypeOK, Procs
<1>3. \A u \in Threads \ {t} : call'[u] = call[u]
  <2>1. \E rec : call' = [call EXCEPT ![t] = rec]
    BY <1>2 DEF RuleExists
  <2> QED
    BY <1>2, <2>1 DEF Procs
<1>4. new \subseteq old \cup {t}
  BY <1>3 DEF Inserters, At
<1>5. Cardinality(new) \in Nat /\ Cardinality(new) <= Cardinality(Threads)
  <2>1. new \subseteq Threads
    BY DEF Inserters
  <2> QED
    BY <2>1, ThreadsAssumption, FS_Subset, FS_CardinalityType
<1>6. Cardinality(new) <= Cardinality(old) + 1
  <2>1. IsFiniteSet(old) /\ Cardinality(old) \in Nat
    BY InsertersFinite
  <2> HIDE DEF old, new
  <2>2. IsFiniteSet(old \cup {t})
    BY <2>1, FS_AddElement
  <2>3. Cardinality(old \cup {t}) = IF t \in old THEN Cardinality(old) ELSE Cardinality(old) + 1
    BY <2>1, FS_AddElement
  <2>4. Cardinality(new) <= Cardinality(old \cup {t})
    BY <1>4, <2>2, FS_Subset
  <2> QED
    BY <1>5, <2>1, <2>3, <2>4
<1>7. CASE faults' = faults + 1
  BY <1>1, <1>5, <1>6, <1>7, InsertersFinite
<1>8. CASE faults' = faults /\ ipRules[ip][c] = 0
  BY <1>1, <1>5, <1>8, InsertersFinite
<1>9. CASE faults' = faults /\ ipRules[ip][c] # 0
  <2>1. call' = [call EXCEPT ![t].chain = Chain,
                             ![t].pc = IF NeedsInsert(call[t].ip, Chain) THEN "insert" ELSE "mac"]
    BY <1>1, <1>9 DEF RuleExists, Fault
  <2>2. call'[t].pc = "insert" /\ call'[t].ip = ip => call'[t].chain # c
    BY <1>2, <1>9, <2>1 DEF CallRecords, NeedsInsert, RuleMissing
  <2>3. new \subseteq old
    BY <1>3, <2>2 DEF Inserters, At
  <2>4. Cardinality(new) <= Cardinality(old)
    BY <2>3, InsertersFinite, FS_Subset
  <2> QED
    BY <1>1, <1>5, <1>9, <2>4, InsertersFinite
<1> QED
  BY <1>7, <1>8, <1>9 DEF RuleExists, Fault, NoFault

\* `-I` turns one pending insertion into one rule, or into none.
LEMMA InsertRuleBound ==
    ASSUME TypeOK, TypeOK', RuleBound, NEW t \in Threads, InsertRule(t)
    PROVE  RuleBound'
<1> SUFFICES ASSUME NEW ip \in IPs, NEW c \in Chains
             PROVE  ipRules'[ip][c] + Cardinality(Inserters(ip, c)')
                      <= Cardinality(Threads) + faults'
  BY DEF RuleBound
<1> DEFINE old == Inserters(ip, c)
           new == Inserters(ip, c)'
<1>1. /\ ipRules[ip][c] \in Nat /\ faults \in Nat /\ faults' \in Nat /\ faults' >= faults
      /\ ipRules[ip][c] + Cardinality(old) <= Cardinality(Threads) + faults
  BY BudgetAssumption DEF InsertRule, Fault, NoFault, TypeOK, RuleBound
<1>2. /\ t \in Procs /\ call \in [Procs -> CallRecords] /\ call[t].ip \in IPs
      /\ ipRules \in [IPs -> [Chains -> Nat]]
  BY DEF TypeOK, Procs, InsertRule, At, Active
<1>3. (\A u \in Threads \ {t} : call'[u] = call[u]) /\ call'[t].pc = "mac"
  <2>1. \/ call' = [call EXCEPT ![t] = [call[t] EXCEPT !.pc = "mac"]]
        \/ call' = [call EXCEPT ![t] = [call[t] EXCEPT !.pc = "mac", !.ok = FALSE]]
    BY <1>2 DEF InsertRule, Goto
  <2>2. call[t] \in CallRecords
    BY <1>2
  <2> QED
    BY <1>2, <2>1, <2>2, ZenonT(40) DEF CallRecords, Procs
<1>4. new = old \ {t}
  BY <1>3 DEF Inserters, At
<1>5. /\ Cardinality(new) = IF t \in old THEN Cardinality(old) - 1 ELSE Cardinality(old)
      /\ Cardinality(old) \in Nat
  BY <1>4, InsertersFinite, FS_RemoveElement
<1>6. \/ ipRules'[ip][c] = ipRules[ip][c]
      \/ t \in old /\ ipRules'[ip][c] = ipRules[ip][c] + 1
  <2>1. CASE ip = call[t].ip /\ c = call[t].chain
    BY <1>2, <2>1 DEF InsertRule, Inserters
  <2>2. CASE ~(ip = call[t].ip /\ c = call[t].chain)
    BY <1>2, <2>2 DEF InsertRule
  <2> QED
    BY <2>1, <2>2
<1> QED
  BY <1>1, <1>5, <1>6, InsertersFinite

LEMMA RuleBoundStep ==
    ASSUME TypeOK, TypeOK', RuleBound, [ManagerNext]_vars
    PROVE  RuleBound'
<1> USE DEF config, manager, kernel, NoFault, Fault
<1>1. /\ call \in [Procs -> CallRecords] /\ Threads \subseteq Procs /\ Sweeper \in Procs
      /\ ipRules \in [IPs -> [Chains -> Nat]]
      /\ faults \in Nat /\ faults' \in Nat
      /\ \A ip \in IPs, c \in Chains : ipRules[ip][c] \in Nat
  BY BudgetAssumption DEF TypeOK, Procs
<1>2. ASSUME NoneReaches, ipRules' = ipRules, faults' = faults \/ faults' = faults + 1
      PROVE  RuleBound'
  BY <1>1, <1>2, BoundKept
<1>3. ASSUME NEW t \in Threads, NEW ip \in IPs, NEW mac \in MacOrNone,
             BlockStart(t, ip, mac) \/ UnblockStart(t, ip, mac)
      PROVE  RuleBound'
  <2>1. NoneReaches
    <3>1. \A exp : /\ NewCall("safe", ip, mac, exp, "NONE").pc # "insert"
                   /\ NewCall("delInput", ip, mac, exp, "NONE").pc # "insert"
      BY DEF NewCall
    <3> QED
      BY <1>1, <1>3, <3>1, OneCallChanges DEF BlockStart, UnblockStart
  <2> QED
    BY <1>2, <1>3, <2>1 DEF BlockStart, UnblockStart
<1>4. ASSUME NEW t \in Threads,
             \/ CheckSafe(t) \/ CheckMode(t) \/ CheckCache(t) \/ InsertMac(t)
             \/ Verify(t) \/ CacheConfirmed(t)
      PROVE  RuleBound'
  <2>1. \/ Finish(t, "REQUESTED") \/ Finish(t, "CONFIRMED") \/ Finish(t, "FAILED")
        \/ Goto(t, "mode") \/ Goto(t, "cache") \/ Goto(t, "exists") \/ Goto(t, "verify")
        \/ Goto(t, "record")
    BY <1>4 DEF CheckSafe, CheckMode, CheckCache, InsertMac, Verify, CacheConfirmed
  <2>2. NoneReaches
    BY <1>1, <2>1, GotoReachesNone, FinishReachesNone
  <2> QED
    BY <1>2, <1>4, <2>2 DEF CheckSafe, CheckMode, CheckCache, InsertMac, Verify, CacheConfirmed
<1>5. ASSUME NEW t \in Threads, Return(t) PROVE RuleBound'
  <2>1. NoCall.pc # "insert"
    BY DEF NoCall, NewCall
  <2> QED
    BY <1>1, <1>2, <1>5, <2>1, OneCallChanges DEF Return
<1>6. ASSUME NEW p \in Procs, RemoveInput(p) \/ RemoveForward(p) PROVE RuleBound'
  <2>1. PICK chain \in Chains, pc \in RemovePCs, next \in {"delForward", "delMac"} :
           RemoveFrom(p, pc, chain, next)
    BY <1>6 DEF RemoveInput, RemoveForward, Chains, RemovePCs
  <2>2. NoneReaches
    BY <1>1, <2>1, GotoReachesNone DEF RemoveFrom
  <2>3. call[p].ip \in IPs
    BY <2>1 DEF RemoveFrom, At, Active, RemovePCs, TypeOK
  <2>4. ASSUME NEW ip \in IPs, NEW c \in Chains PROVE ipRules'[ip][c] <= ipRules[ip][c]
    <3>1. CASE ip = call[p].ip /\ c = chain
      BY <1>1, <2>1, <2>3, <3>1 DEF RemoveFrom, DeleteRule
    <3>2. CASE ~(ip = call[p].ip /\ c = chain)
      BY <1>1, <2>1, <2>3, <3>2 DEF RemoveFrom, DeleteRule
    <3> QED
      BY <3>1, <3>2
  <2> QED
    BY <1>1, <2>1, <2>2, <2>4, BoundKept DEF RemoveFrom
<1>7. ASSUME NEW p \in Procs, RemoveMac(p) \/ DropCache(p) PROVE RuleBound'
  <2>1. \/ Goto(p, "drop") \/ Finish(p, "UNBLOCKED") \/ call' = [call EXCEPT ![p] = NoCall]
    BY <1>7 DEF RemoveMac, DropCache
  <2>2. NoneReaches
    BY <1>1, <2>1, GotoReachesNone, FinishReachesNone, OneCallChanges DEF NoCall, NewCall
  <2> QED
    BY <1>2, <1>7, <2>2 DEF RemoveMac, DropCache
<1>8. CASE SweepCollect
  BY <1>2, <1>8 DEF SweepCollect, NoneReaches
<1>9. CASE SweepNext
  <2>1. \A ip, mac : NewCall("delInput", ip, mac, 0, "NONE").pc # "insert"
    BY DEF NewCall
  <2> QED
    BY <1>1, <1>2, <1>9, <2>1, OneCallChanges DEF SweepNext
<1>10. CASE OperatorStep \/ Tick \/ UNCHANGED vars
  BY <1>2, <1>10 DEF OperatorStep, OperatorEdit, AddAllowlist, RemoveAllowlist, SetSecMode, SetDeploy,
     ReloadGateway, Tick, vars, NoneReaches
<1>11. CASE Restart
  BY <1>1, <1>2, <1>11 DEF Restart, NoCall, NewCall, NoneReaches
<1> QED
  BY <1>3, <1>4, <1>5, <1>6, <1>7, <1>8, <1>9, <1>10, <1>11, RuleExistsBound, InsertRuleBound
     DEF ManagerNext, BlockStep, RemoveStep

LEMMA RuleBoundInit == Init => RuleBound
<1> SUFFICES ASSUME Init, NEW ip \in IPs, NEW c \in Chains
             PROVE  ipRules[ip][c] + Cardinality(Inserters(ip, c)) <= Cardinality(Threads) + faults
  BY DEF RuleBound
<1>1. ipRules[ip][c] = 0 /\ faults = 0
  BY DEF Init
<1> QED
  BY <1>1, InsertersFinite

\* However many callers race between `-C` and `-I`, and however long an attack
\* repeats, an address has at most one rule per caller and failed command on a
\* chain.
THEOREM RulesBounded == Spec => []RuleBound
BY RuleBoundInit, TypeCorrect, RuleBoundStep, NextIsManagerNext, PTL DEF Spec

-------------------------------------------------------------------------------
(* An address whose operations do not overlap: the cache and the kernel agree *)
(* at every step of every operation.                                         *)

\* Process p is in a call for ip.
Works(p, ip) == Active(p) /\ call[p].ip = ip

\* The only operation on ip, if there is one: a call, or an expired entry that
\* the sweeper has collected.
OneOperation(ip) ==
    /\ \A p, q \in Procs : Works(p, ip) /\ Works(q, ip) => p = q
    /\ \A p \in Procs, e \in sweep : ~(Works(p, ip) /\ e.ip = ip)
    /\ \A e, f \in sweep : e.ip = ip /\ f.ip = ip => e = f

\* What the cache says of ip, and what the kernel has, during that operation,
\* whether its commands succeed or fail.
CacheBacked(ip) ==
    /\ Cached(ip) => Enforced(ip) \/ \E p \in Procs : Works(p, ip) /\ call[p].pc \in RemovePCs
    /\ \A p \in Procs : Works(p, ip) =>
         /\ call[p].pc = "record" => Enforced(ip)
         /\ call[p].pc = "done" /\ call[p].res = "CONFIRMED" => Enforced(ip) /\ Cached(ip)
    /\ Works(Sweeper, ip) => Expired(ip)
    /\ \A e \in sweep : e.ip = ip => Expired(ip)

InStep(ip) == TotalRules(ip) = IF Cached(ip) THEN 1 ELSE 0

\* The same where no command failed: at each step of the call the number of
\* rules is known, and so is the chain they are on.
Exact(p, ip) ==
    /\ call[p].pc \in {"safe", "mode", "cache", "delInput", "done"} => InStep(ip)
    /\ call[p].pc \in {"exists", "insert", "mac", "verify", "record"} => ~Cached(ip)
    /\ call[p].pc \in {"safe", "mode", "cache", "exists", "insert", "mac"} => call[p].ok
    /\ call[p].pc \in {"exists", "insert"} => TotalRules(ip) = 0
    /\ call[p].pc \in {"insert", "mac"} => call[p].chain = Chain
    /\ call[p].pc \in {"mac", "verify", "record"} => TotalRules(ip) = 1 /\ ipRules[ip][Chain] = 1
    /\ call[p].pc = "delForward" => TotalRules(ip) <= 1 /\ ipRules[ip]["INPUT"] = 0
    /\ call[p].pc \in {"delMac", "drop"} => TotalRules(ip) = 0

TableExact(ip) ==
    /\ \A p \in Procs : Works(p, ip) => Exact(p, ip)
    /\ (\A p \in Procs : ~Works(p, ip)) => InStep(ip)

AddressInv(ip) ==
    OneOperation(ip) /\ CacheBacked(ip) /\ (ip \notin failed => TableExact(ip))

UndisturbedInv == \A ip \in IPs \ disturbed : AddressInv(ip)

-------------------------------------------------------------------------------
(* Steps elsewhere, and the steps of the only operation *)

\* A step that changes nothing about ip.
LEMMA Elsewhere ==
    ASSUME TypeOK, NEW ip \in IPs, AddressInv(ip),
           \A p \in Procs : Works(p, ip) \/ Works(p, ip)' => call'[p] = call[p],
           \A e \in sweep \cup sweep' : e.ip = ip => (e \in sweep' <=> e \in sweep),
           ipRules'[ip] = ipRules[ip], blockCache'[ip] = blockCache[ip],
           now' \in Nat, now' >= now, deploy' = deploy \/ ~Busy(ip),
           ip \notin failed' => ip \notin failed
    PROVE  AddressInv(ip)'
<1>1. \A p \in Procs : Works(p, ip) <=> Works(p, ip)'
  BY DEF Works, Active
<1>2. /\ TotalRules(ip)' = TotalRules(ip) /\ (Cached(ip)' <=> Cached(ip))
      /\ (Enforced(ip)' <=> Enforced(ip)) /\ (InStep(ip)' <=> InStep(ip))
  BY DEF TotalRules, Cached, Enforced, InStep
<1>3. OneOperation(ip)'
  BY <1>1 DEF AddressInv, OneOperation
<1>4. Expired(ip) => Expired(ip)'
  <2>1. Cached(ip) => blockCache[ip].exp \in Int
    BY TimeAssumption DEF TypeOK, Cached, BlockRecords, Times
  <2>2. now \in Nat
    BY TimeAssumption DEF TypeOK
  <2> QED
    BY <1>2, <2>1, <2>2 DEF Expired
<1>5. CacheBacked(ip)'
  <2>1. Sweeper \in Procs
    BY DEF Procs
  <2> QED
    BY <1>1, <1>2, <1>4, <2>1 DEF AddressInv, CacheBacked
<1>6. ASSUME ip \notin failed' PROVE TableExact(ip)'
  <2>1. ASSUME NEW p \in Procs, Works(p, ip) PROVE Exact(p, ip)'
    <3>1. Exact(p, ip) /\ call'[p] = call[p]
      BY <1>6, <2>1 DEF AddressInv, TableExact
    <3>2. Chain' = Chain
      BY <2>1 DEF Busy, Works, Chain
    <3> QED
      BY <1>2, <3>1, <3>2 DEF Exact
  <2> QED
    BY <1>1, <1>2, <1>6, <2>1 DEF AddressInv, TableExact
<1> QED
  BY <1>3, <1>5, <1>6 DEF AddressInv

\* Only the call of p changes.
CallsChange(p) == \A q \in Procs \ {p} : call'[q] = call[q]

\* A step of the only operation on ip, a call: what it has to establish is
\* about that call alone.
LEMMA OwnStep ==
    ASSUME NEW ip \in IPs, AddressInv(ip), NEW p \in Procs, Works(p, ip),
           CallsChange(p), sweep' = sweep,
           Cached(ip)' => Enforced(ip)' \/ (Works(p, ip)' /\ call'[p].pc \in RemovePCs),
           call'[p].pc = "record" => Enforced(ip)',
           call'[p].pc = "done" /\ call'[p].res = "CONFIRMED" => Enforced(ip)' /\ Cached(ip)',
           p = Sweeper /\ Works(p, ip)' => Expired(ip)',
           ip \notin failed' => /\ ip \notin failed
                                /\ IF Works(p, ip)' THEN Exact(p, ip)' ELSE InStep(ip)'
    PROVE  AddressInv(ip)'
<1>1. \A q \in Procs : Works(q, ip)' => q = p
  BY DEF AddressInv, OneOperation, Works, Active, CallsChange
<1>2. \A e \in sweep' : e.ip # ip
  BY DEF AddressInv, OneOperation
<1>3. Sweeper \in Procs
  BY DEF Procs
<1>4. OneOperation(ip)'
  BY <1>1, <1>2 DEF OneOperation
<1>5. CacheBacked(ip)'
  BY <1>1, <1>2, <1>3 DEF CacheBacked
<1>6. ip \notin failed' => TableExact(ip)'
  BY <1>1 DEF TableExact
<1> QED
  BY <1>4, <1>5, <1>6 DEF AddressInv

\* An operation starts on an address nothing works on.
LEMMA FirstStep ==
    ASSUME NEW ip \in IPs, ~Busy(ip), AddressInv(ip), NEW p \in Procs,
           CallsChange(p), sweep' \subseteq sweep,
           call'[p].pc \in {"safe", "delInput"}, call'[p].ok, p # Sweeper,
           ipRules' = ipRules, blockCache' = blockCache,
           ip \notin failed' => ip \notin failed
    PROVE  AddressInv(ip)'
<1>1. /\ \A q \in Procs : Works(q, ip)' => q = p
      /\ \A e \in sweep' : e.ip # ip
      /\ ~Works(Sweeper, ip)'
  BY DEF Busy, Works, Active, CallsChange, Procs
<1>2. /\ TotalRules(ip)' = TotalRules(ip) /\ (Cached(ip)' <=> Cached(ip))
      /\ (Enforced(ip)' <=> Enforced(ip)) /\ (InStep(ip)' <=> InStep(ip))
  BY DEF TotalRules, Cached, Enforced, InStep
<1>3. \A q \in Procs : ~Works(q, ip)
  BY DEF Busy, Works
<1>4. OneOperation(ip)'
  BY <1>1 DEF OneOperation
<1>5. CacheBacked(ip)'
  BY <1>1, <1>2, <1>3 DEF CacheBacked, AddressInv
<1>6. ASSUME ip \notin failed' PROVE TableExact(ip)'
  <2>1. InStep(ip)'
    BY <1>2, <1>3, <1>6 DEF AddressInv, TableExact
  <2>2. Exact(p, ip)'
    BY <2>1 DEF Exact
  <2> QED
    BY <1>1, <2>1, <2>2 DEF TableExact
<1> QED
  BY <1>4, <1>5, <1>6 DEF AddressInv

-------------------------------------------------------------------------------
(* What a step does to the call it belongs to *)

LEMMA GotoFields ==
    ASSUME call \in [Procs -> CallRecords], NEW p \in Procs, NEW pc, Goto(p, pc)
    PROVE  /\ CallsChange(p)
           /\ call'[p].pc = pc /\ call'[p].ip = call[p].ip /\ call'[p].ok = call[p].ok
           /\ call'[p].chain = call[p].chain
BY DEF Goto, CallRecords, CallsChange

LEMMA FinishFields ==
    ASSUME call \in [Procs -> CallRecords], NEW p \in Procs, NEW res, Finish(p, res)
    PROVE  /\ CallsChange(p)
           /\ call'[p].pc = "done" /\ call'[p].ip = call[p].ip /\ call'[p].res = res
BY DEF Finish, NewCall, CallsChange

\* Where another call takes a step, nothing changes about ip.
LEMMA OtherCall ==
    ASSUME TypeOK, NEW ip \in IPs, AddressInv(ip), NEW p \in Procs, ~Works(p, ip),
           ~Works(p, ip)', CallsChange(p), sweep' = sweep,
           ipRules'[ip] = ipRules[ip], blockCache'[ip] = blockCache[ip],
           now' = now, deploy' = deploy, ip \notin failed' => ip \notin failed
    PROVE  AddressInv(ip)'
<1>1. \A q \in Procs : Works(q, ip) \/ Works(q, ip)' => call'[q] = call[q]
  BY DEF CallsChange
<1>2. now \in Nat
  BY TimeAssumption DEF TypeOK
<1> QED
  BY <1>1, <1>2, Elsewhere

-------------------------------------------------------------------------------
(* The steps of the manager *)

LEMMA StartKeeps ==
    ASSUME TypeOK, UndisturbedInv, NEW t \in Threads, NEW i \in IPs, NEW mac,
           BlockStart(t, i, mac) \/ UnblockStart(t, i, mac)
    PROVE  UndisturbedInv'
<1> SUFFICES ASSUME NEW ip \in IPs, ip \notin disturbed' PROVE AddressInv(ip)'
  BY DEF UndisturbedInv
<1>1. t \in Procs /\ t # Sweeper /\ call \in [Procs -> CallRecords]
  BY ThreadsAssumption DEF TypeOK, Procs
<1>2. /\ CallsChange(t) /\ call'[t].pc \in {"safe", "delInput"} /\ call'[t].ok
      /\ call'[t].ip = i
  BY <1>1 DEF BlockStart, UnblockStart, NewCall, CallsChange
<1>3. /\ now' = now /\ deploy' = deploy /\ ipRules' = ipRules /\ blockCache' = blockCache
      /\ sweep' = sweep /\ failed' = failed /\ disturbed \subseteq disturbed'
      /\ Busy(i) => i \in disturbed'
  BY DEF BlockStart, UnblockStart, config, kernel, manager
<1>4. AddressInv(ip)
  BY <1>3 DEF UndisturbedInv
<1>5. CASE ip = i
  BY <1>1, <1>2, <1>3, <1>4, <1>5, FirstStep
<1>6. CASE ip # i
  <2>1. ~Works(t, ip) /\ ~Works(t, ip)'
    BY <1>2, <1>6 DEF BlockStart, UnblockStart, Works, Active, At
  <2> QED
    BY <1>1, <1>2, <1>3, <1>4, <2>1, OtherCall
<1> QED
  BY <1>5, <1>6

\* CheckSafe, CheckMode and Verify: the call goes on or ends, and nothing else
\* changes but for a failed command.
LEMMA ReadKeeps ==
    ASSUME TypeOK, UndisturbedInv, NEW t \in Threads,
           CheckSafe(t) \/ CheckMode(t) \/ Verify(t)
    PROVE  UndisturbedInv'
<1> SUFFICES ASSUME NEW ip \in IPs, ip \notin disturbed' PROVE AddressInv(ip)'
  BY DEF UndisturbedInv
<1> DEFINE i == call[t].ip
<1>1. t \in Procs /\ t # Sweeper /\ call \in [Procs -> CallRecords]
  BY ThreadsAssumption DEF TypeOK, Procs
<1>2. /\ now' = now /\ deploy' = deploy /\ ipRules' = ipRules /\ blockCache' = blockCache
      /\ sweep' = sweep /\ failed \subseteq failed' /\ disturbed' = disturbed
  BY DEF CheckSafe, CheckMode, Verify, NoFault, Fault, config, kernel, manager
<1>3. AddressInv(ip)
  BY <1>2 DEF UndisturbedInv
<1>4. \/ At(t, "safe") /\ Goto(t, "mode")
      \/ At(t, "safe") /\ Finish(t, "FAILED")
      \/ At(t, "mode") /\ Goto(t, "cache")
      \/ At(t, "mode") /\ Finish(t, "REQUESTED")
      \/ At(t, "verify") /\ Goto(t, "record") /\ ~RuleMissing(i, Chain)
      \/ At(t, "verify") /\ Finish(t, "FAILED") /\ (RuleMissing(i, Chain) \/ i \in failed')
  BY DEF CheckSafe, CheckMode, Verify, Fault
<1>5. /\ CallsChange(t) /\ call'[t].ip = i
      /\ Goto(t, "mode") => call'[t].pc = "mode" /\ call'[t].ok = call[t].ok
      /\ Goto(t, "cache") => call'[t].pc = "cache" /\ call'[t].ok = call[t].ok
      /\ Goto(t, "record") => call'[t].pc = "record"
      /\ \A res : Finish(t, res) => call'[t].pc = "done" /\ call'[t].res = res
  BY <1>1, <1>4, GotoFields, FinishFields
<1>6. Active(t) /\ Active(t)'
  BY <1>4, <1>5 DEF At, Active
<1>7. /\ TotalRules(ip)' = TotalRules(ip) /\ (Cached(ip)' <=> Cached(ip))
      /\ (Enforced(ip)' <=> Enforced(ip)) /\ (InStep(ip)' <=> InStep(ip)) /\ Chain' = Chain
  BY <1>2 DEF TotalRules, Cached, Enforced, InStep, Chain
<1>8. CASE ip = i
  <2>1. Works(t, ip) /\ Works(t, ip)'
    BY <1>5, <1>6, <1>8 DEF Works
  <2>2. At(t, "safe") \/ At(t, "mode") \/ At(t, "verify")
    BY <1>4
  <2>3. Cached(ip) => Enforced(ip)
    BY <1>1, <1>3, <2>1, <2>2 DEF AddressInv, OneOperation, CacheBacked, At, RemovePCs
  <2>4. ~RuleMissing(i, Chain) => Enforced(ip)
    BY <1>8 DEF RuleMissing, Enforced, TotalRules, TypeOK, Chain, Chains
  <2>5. ip \notin failed' => ip \notin failed /\ Exact(t, ip)
    BY <1>1, <1>2, <1>3, <2>1 DEF AddressInv, TableExact
  <2>6. ASSUME ip \notin failed' PROVE Exact(t, ip)'
    <3>1. CASE Goto(t, "mode") \/ Goto(t, "cache")
      BY <1>4, <1>5, <1>7, <2>5, <2>6, <3>1 DEF Exact, At
    <3>2. CASE Goto(t, "record")
      BY <1>2, <1>4, <1>5, <1>7, <2>5, <2>6, <3>2 DEF Exact, At
    <3>3. ASSUME NEW res, Finish(t, res) PROVE Exact(t, ip)'
      <4>1. call'[t].pc = "done"
        BY <1>5, <3>3
      <4>2. InStep(ip)
        BY <1>4, <1>5, <1>8, <2>5, <2>6, <4>1 DEF Exact, At, RuleMissing
      <4> QED
        BY <1>7, <4>1, <4>2 DEF Exact
    <3> QED
      BY <1>4, <3>1, <3>2, <3>3
  <2>7. call'[t].pc = "record" => Enforced(ip)
    BY <1>4, <1>5, <2>4 DEF At
  <2>8. ~(call'[t].pc = "done" /\ call'[t].res = "CONFIRMED")
    BY <1>4, <1>5
  <2> QED
    BY <1>1, <1>2, <1>3, <1>5, <1>7, <2>1, <2>3, <2>5, <2>6, <2>7, <2>8, OwnStep
<1>9. CASE ip # i
  <2>1. ~Works(t, ip) /\ ~Works(t, ip)'
    BY <1>5, <1>9 DEF Works
  <2> QED
    BY <1>1, <1>2, <1>3, <1>5, <2>1, OtherCall
<1> QED
  BY <1>8, <1>9

\* CheckCache and CacheConfirmed: the entry of the address is written.
LEMMA RecordKeeps ==
    ASSUME TypeOK, UndisturbedInv, NEW t \in Threads, CheckCache(t) \/ CacheConfirmed(t)
    PROVE  UndisturbedInv'
<1> SUFFICES ASSUME NEW ip \in IPs, ip \notin disturbed' PROVE AddressInv(ip)'
  BY DEF UndisturbedInv
<1>1. t \in Procs /\ t # Sweeper /\ call \in [Procs -> CallRecords]
  BY ThreadsAssumption DEF TypeOK, Procs
<1> PICK i : i = call[t].ip
  OBVIOUS
<1>2. /\ now' = now /\ deploy' = deploy /\ ipRules' = ipRules
      /\ sweep' = sweep /\ failed' = failed /\ disturbed' = disturbed
      /\ blockCache \in [IPs -> BlockRecords \cup {NoRec}] /\ i \in IPs
      /\ call[t].mac \in MacOrNone /\ call[t].exp \in Times
  BY <1>1 DEF CheckCache, CacheConfirmed, NoFault, config, kernel, manager, TypeOK, CallRecords,
              At, Active
<1>3. AddressInv(ip)
  BY <1>2 DEF UndisturbedInv
<1>4. \/ At(t, "cache") /\ Goto(t, "exists") /\ ~Cached(i) /\ blockCache' = blockCache
      \/ /\ At(t, "cache") /\ Finish(t, "CONFIRMED") /\ Cached(i)
         /\ blockCache' = [blockCache EXCEPT ![i].exp = call[t].exp]
      \/ /\ At(t, "record") /\ Finish(t, "CONFIRMED")
         /\ blockCache' = [blockCache EXCEPT ![i] = [mac |-> call[t].mac, exp |-> call[t].exp]]
  BY DEF CheckCache, CacheConfirmed
<1>5. /\ CallsChange(t) /\ call'[t].ip = i
      /\ Goto(t, "exists") => call'[t].pc = "exists" /\ call'[t].ok = call[t].ok
      /\ \A res : Finish(t, res) => call'[t].pc = "done"
  BY <1>1, <1>4, GotoFields, FinishFields
<1>6. Active(t) /\ Active(t)'
  BY <1>4, <1>5 DEF At, Active
<1>7. /\ \A j \in IPs \ {i} : blockCache'[j] = blockCache[j]
      /\ Finish(t, "CONFIRMED") => Cached(i)'
      /\ Goto(t, "exists") => (Cached(i)' <=> Cached(i))
  <2>1. -1 \notin Times
    BY DEF Times
  <2>2. NoRec.exp = -1
    BY DEF NoRec
  <2>3. Cached(i) => blockCache[i] \in BlockRecords
    BY <1>2 DEF Cached
  <2>4. ~(Finish(t, "CONFIRMED") /\ Goto(t, "exists"))
    BY <1>5
  <2>5. CASE Goto(t, "exists") /\ ~Cached(i) /\ blockCache' = blockCache
    BY <2>4, <2>5 DEF Cached
  <2>6. CASE /\ Finish(t, "CONFIRMED") /\ Cached(i)
             /\ blockCache' = [blockCache EXCEPT ![i].exp = call[t].exp]
    <3>1. blockCache'[i].exp = call[t].exp
      BY <1>2, <2>3, <2>6 DEF BlockRecords
    <3>2. Cached(i)'
      BY <1>2, <2>1, <2>2, <3>1 DEF Cached
    <3> QED
      BY <1>2, <2>4, <2>6, <3>2
  <2>7. CASE /\ Finish(t, "CONFIRMED")
             /\ blockCache' = [blockCache EXCEPT ![i] = [mac |-> call[t].mac, exp |-> call[t].exp]]
    <3>1. blockCache'[i].exp = call[t].exp
      BY <1>2, <2>7
    <3>2. Cached(i)'
      BY <1>2, <2>1, <2>2, <3>1 DEF Cached
    <3> QED
      BY <1>2, <2>4, <2>7, <3>2
  <2> QED
    BY <1>4, <2>5, <2>6, <2>7
<1>8. TotalRules(ip)' = TotalRules(ip) /\ (Enforced(ip)' <=> Enforced(ip))
  BY <1>2 DEF TotalRules, Enforced
<1>9. CASE ip = i
  <2>1. Works(t, ip) /\ Works(t, ip)'
    BY <1>5, <1>6, <1>9 DEF Works
  <2>2. At(t, "cache") \/ At(t, "record")
    BY <1>4
  <2>3. Cached(ip) \/ At(t, "record") => Enforced(ip)
    BY <1>1, <1>3, <2>1, <2>2 DEF AddressInv, OneOperation, CacheBacked, At, RemovePCs
  <2>4. ip \notin failed' => ip \notin failed /\ Exact(t, ip)
    BY <1>1, <1>2, <1>3, <2>1 DEF AddressInv, TableExact
  <2>5. ASSUME ip \notin failed' PROVE Exact(t, ip)'
    <3>1. CASE Goto(t, "exists") /\ At(t, "cache") /\ ~Cached(i)
      BY <1>5, <1>7, <1>8, <1>9, <2>4, <2>5, <3>1 DEF Exact, InStep, At
    <3>2. CASE Finish(t, "CONFIRMED")
      <4>1. TotalRules(ip) = 1
        BY <1>4, <1>5, <1>9, <2>4, <2>5, <3>2 DEF Exact, InStep, At
      <4> QED
        BY <1>5, <1>7, <1>8, <1>9, <3>2, <4>1 DEF Exact, InStep
    <3> QED
      BY <1>4, <3>1, <3>2
  <2>6. Finish(t, "CONFIRMED") => Enforced(ip)
    BY <1>4, <1>5, <1>9, <2>3 DEF At
  <2> QED
    BY <1>1, <1>2, <1>3, <1>4, <1>5, <1>7, <1>8, <1>9, <2>1, <2>3, <2>4, <2>5, <2>6, OwnStep
<1>10. CASE ip # i
  <2>1. ~Works(t, ip) /\ ~Works(t, ip)'
    BY <1>5, <1>10 DEF Works
  <2> QED
    BY <1>1, <1>2, <1>3, <1>5, <1>7, <1>10, <2>1, OtherCall
<1> QED
  BY <1>9, <1>10

\* The commands of ApplyBlock: `-C`, `-I` and the insertion for the MAC.
LEMMA ApplyKeeps ==
    ASSUME TypeOK, UndisturbedInv, NEW t \in Threads,
           RuleExists(t) \/ InsertRule(t) \/ InsertMac(t)
    PROVE  UndisturbedInv'
<1> SUFFICES ASSUME NEW ip \in IPs, ip \notin disturbed' PROVE AddressInv(ip)'
  BY DEF UndisturbedInv
<1>1. t \in Procs /\ t # Sweeper /\ call \in [Procs -> CallRecords] /\ call[t] \in CallRecords
  BY ThreadsAssumption DEF TypeOK, Procs
<1> PICK i : i = call[t].ip
  OBVIOUS
<1> PICK c : c = call[t].chain
  OBVIOUS
<1>2. /\ now' = now /\ deploy' = deploy /\ blockCache' = blockCache
      /\ sweep' = sweep /\ failed \subseteq failed' /\ disturbed' = disturbed
      /\ ipRules \in [IPs -> [Chains -> Nat]] /\ i \in IPs /\ c \in Chains
  BY <1>1 DEF RuleExists, InsertRule, InsertMac, NoFault, Fault, config, kernel, manager, TypeOK,
              CallRecords, At, Active
<1>3. AddressInv(ip)
  BY <1>2 DEF UndisturbedInv
<1>4. (Cached(ip)' <=> Cached(ip)) /\ Chain' = Chain
  BY <1>2 DEF Cached, Chain
<1>5. CASE RuleExists(t)
  <2>1. /\ CallsChange(t) /\ call'[t].ip = i /\ call'[t].pc \in {"insert", "mac"}
        /\ call'[t].chain = Chain /\ call'[t].ok = call[t].ok
        /\ i \notin failed' /\ RuleMissing(i, Chain) => call'[t].pc = "insert"
    BY <1>1, <1>5 DEF RuleExists, CallRecords, CallsChange, NeedsInsert, Fault
  <2>2. ipRules' = ipRules /\ At(t, "exists")
    BY <1>5 DEF RuleExists, kernel
  <2>3. TotalRules(ip)' = TotalRules(ip) /\ (Enforced(ip)' <=> Enforced(ip))
    BY <2>2 DEF TotalRules, Enforced
  <2>4. CASE ip = i
    <3>1. Works(t, ip) /\ Works(t, ip)'
      BY <2>1, <2>2, <2>4 DEF Works, At, Active
    <3>2. Cached(ip) => Enforced(ip)
      BY <1>1, <1>3, <2>2, <3>1 DEF AddressInv, OneOperation, CacheBacked, At, RemovePCs
    <3>3. ip \notin failed' => ip \notin failed /\ Exact(t, ip)
      BY <1>1, <1>2, <1>3, <3>1 DEF AddressInv, TableExact
    <3>4. ASSUME ip \notin failed' PROVE Exact(t, ip)'
      <4>1. TotalRules(ip) = 0 /\ ~Cached(ip) /\ call[t].ok
        BY <2>2, <3>3, <3>4 DEF Exact, At
      <4>2. RuleMissing(ip, Chain)
        BY <1>2, <2>4, <4>1 DEF TotalRules, RuleMissing, Chain, Chains
      <4>3. call'[t].pc = "insert"
        BY <2>1, <2>4, <3>4, <4>2
      <4> QED
        BY <1>4, <2>1, <2>3, <4>1, <4>3 DEF Exact
    <3> QED
      BY <1>1, <1>2, <1>3, <1>4, <2>1, <2>3, <3>1, <3>2, <3>3, <3>4, OwnStep
  <2>5. CASE ip # i
    <3>1. ~Works(t, ip) /\ ~Works(t, ip)'
      BY <2>1, <2>5 DEF Works
    <3> QED
      BY <1>1, <1>2, <1>3, <2>1, <2>2, <3>1, OtherCall
  <2> QED
    BY <2>4, <2>5
<1>6. CASE InsertRule(t)
  <2>1. \/ /\ ipRules' = [ipRules EXCEPT ![i][c] = @ + 1]
           /\ call' = [call EXCEPT ![t].pc = "mac"]
        \/ /\ call' = [call EXCEPT ![t].pc = "mac", ![t].ok = FALSE]
           /\ i \in failed' /\ ipRules' = ipRules
    BY <1>6 DEF InsertRule, Goto, Fault
  <2>2. /\ CallsChange(t) /\ call'[t].ip = i /\ call'[t].pc = "mac"
        /\ call'[t].chain = c
        /\ i \in failed' \/ call'[t].ok = call[t].ok
    BY <1>1, <2>1 DEF CallRecords, CallsChange
  <2>3. At(t, "insert")
    BY <1>6 DEF InsertRule
  <2>4. CASE ip = i
    <3>1. Works(t, ip) /\ Works(t, ip)'
      BY <2>2, <2>3, <2>4 DEF Works, At, Active
    <3>2. Cached(ip) => Enforced(ip)
      BY <1>1, <1>3, <2>3, <3>1 DEF AddressInv, OneOperation, CacheBacked, At, RemovePCs
    <3>3. Enforced(ip) => Enforced(ip)'
      BY <1>2, <2>1 DEF Enforced, TotalRules, Chains
    <3>4. ip \notin failed' => ip \notin failed /\ Exact(t, ip)
      BY <1>1, <1>2, <1>3, <3>1 DEF AddressInv, TableExact
    <3>5. ASSUME ip \notin failed' PROVE Exact(t, ip)'
      <4>1. TotalRules(ip) = 0 /\ ~Cached(ip) /\ call[t].ok /\ c = Chain
        BY <2>3, <3>4, <3>5 DEF Exact, At
      <4>2. ipRules[i]["INPUT"] = 0 /\ ipRules[i]["FORWARD"] = 0
        BY <1>2, <2>4, <4>1 DEF TotalRules, Chains
      <4>3. ipRules' = [ipRules EXCEPT ![i][c] = @ + 1]
        BY <2>1, <2>4, <3>5
      <4>4. TotalRules(i)' = 1 /\ ipRules'[i][Chain] = 1
        BY <1>2, <4>1, <4>2, <4>3 DEF TotalRules, Chains
      <4> QED
        BY <1>4, <2>2, <2>4, <3>5, <4>1, <4>4 DEF Exact
    <3> QED
      BY <1>1, <1>2, <1>3, <1>4, <2>2, <3>1, <3>2, <3>3, <3>4, <3>5, OwnStep
  <2>5. CASE ip # i
    <3>1. ~Works(t, ip) /\ ~Works(t, ip)'
      BY <2>2, <2>5 DEF Works
    <3>2. ipRules'[ip] = ipRules[ip]
      BY <1>2, <2>1, <2>5
    <3> QED
      BY <1>1, <1>2, <1>3, <2>2, <3>1, <3>2, OtherCall
  <2> QED
    BY <2>4, <2>5
<1>7. CASE InsertMac(t)
  <2>1. \/ Goto(t, "verify") /\ call[t].ok
        \/ Finish(t, "FAILED") /\ ~call[t].ok
    BY <1>7 DEF InsertMac
  <2>2. /\ CallsChange(t) /\ call'[t].ip = i
        /\ call'[t].pc = IF call[t].ok THEN "verify" ELSE "done"
        /\ ~(call'[t].pc = "done" /\ call'[t].res = "CONFIRMED")
    BY <1>1, <2>1, GotoFields, FinishFields
  <2>3. ipRules' = ipRules /\ At(t, "mac")
    BY <1>7 DEF InsertMac
  <2>4. TotalRules(ip)' = TotalRules(ip) /\ (Enforced(ip)' <=> Enforced(ip))
    BY <2>3 DEF TotalRules, Enforced
  <2>5. CASE ip = i
    <3>1. Works(t, ip) /\ Works(t, ip)'
      BY <2>2, <2>3, <2>5 DEF Works, At, Active
    <3>2. Cached(ip) => Enforced(ip)
      BY <1>1, <1>3, <2>3, <3>1 DEF AddressInv, OneOperation, CacheBacked, At, RemovePCs
    <3>3. ip \notin failed' => ip \notin failed /\ Exact(t, ip)
      BY <1>1, <1>2, <1>3, <3>1 DEF AddressInv, TableExact
    <3>4. ip \notin failed' => Exact(t, ip)'
      BY <1>4, <2>2, <2>3, <2>4, <3>3 DEF Exact, At
    <3> QED
      BY <1>1, <1>2, <1>3, <1>4, <2>2, <2>4, <3>1, <3>2, <3>3, <3>4, OwnStep
  <2>6. CASE ip # i
    <3>1. ~Works(t, ip) /\ ~Works(t, ip)'
      BY <2>2, <2>6 DEF Works
    <3> QED
      BY <1>1, <1>2, <1>3, <2>2, <2>3, <3>1, OtherCall
  <2> QED
    BY <2>5, <2>6
<1> QED
  BY <1>5, <1>6, <1>7

\* UnblockDevice and the removal half of the sweeper.
LEMMA RemoveKeeps ==
    ASSUME TypeOK, UndisturbedInv, NEW p \in Procs, RemoveStep(p)
    PROVE  UndisturbedInv'
<1> SUFFICES ASSUME NEW ip \in IPs, ip \notin disturbed' PROVE AddressInv(ip)'
  BY DEF UndisturbedInv
<1>1. call \in [Procs -> CallRecords] /\ call[p] \in CallRecords
  BY DEF TypeOK
<1> PICK i : i = call[p].ip
  OBVIOUS
<1>2. /\ now' = now /\ deploy' = deploy
      /\ sweep' = sweep /\ failed \subseteq failed' /\ disturbed' = disturbed
      /\ ipRules \in [IPs -> [Chains -> Nat]] /\ blockCache \in [IPs -> BlockRecords \cup {NoRec}]
      /\ i \in IPs /\ call[p].pc \in RemovePCs
  BY <1>1 DEF RemoveStep, RemoveInput, RemoveForward, RemoveFrom, RemoveMac, DropCache, RemovePCs,
              NoFault, Fault, config, kernel, manager, TypeOK, CallRecords, At, Active
<1>3. AddressInv(ip)
  BY <1>2 DEF UndisturbedInv
<1>4. Active(p)
  BY <1>2 DEF Active, RemovePCs
<1>5. ASSUME NEW pc \in {"delInput", "delForward"}, NEW c \in Chains, NEW next \in RemovePCs,
             pc = "delInput" => c = "INPUT" /\ next = "delForward",
             pc = "delForward" => c = "FORWARD" /\ next = "delMac",
             RemoveFrom(p, pc, c, next)
      PROVE  AddressInv(ip)'
  <2>1. /\ \/ ipRules' = [ipRules EXCEPT ![i][c] = IF @ > 0 THEN @ - 1 ELSE 0]
           \/ i \in failed' /\ ipRules' = ipRules
        /\ Goto(p, next) /\ At(p, pc) /\ blockCache' = blockCache
    BY <1>5 DEF RemoveFrom, DeleteRule, Fault, manager
  <2>2. CallsChange(p) /\ call'[p].ip = i /\ call'[p].pc = next
    BY <1>1, <2>1, GotoFields
  <2>3. next # "record" /\ next # "done" /\ next # "idle"
    BY DEF RemovePCs
  <2>4. Cached(ip)' <=> Cached(ip)
    BY <2>1 DEF Cached
  <2>5. CASE ip = i
    <3>1. Works(p, ip) /\ Works(p, ip)'
      BY <1>4, <2>2, <2>3, <2>5 DEF Works, Active
    <3>2. p = Sweeper => Expired(ip)'
      BY <1>2, <1>3, <2>1, <3>1 DEF AddressInv, CacheBacked, Expired, Cached
    <3>3. ip \notin failed' => ip \notin failed /\ Exact(p, ip)
      BY <1>2, <1>3, <3>1 DEF AddressInv, TableExact
    <3>4. ASSUME ip \notin failed' PROVE Exact(p, ip)'
      <4>1. ipRules[i]["INPUT"] \in Nat /\ ipRules[i]["FORWARD"] \in Nat
        BY <1>2 DEF Chains
      <4>2. TotalRules(i) <= 1
        <5>1. InStep(i) => TotalRules(i) \in {0, 1}
          BY DEF InStep
        <5> QED
          BY <2>1, <2>5, <3>3, <3>4, <5>1 DEF Exact, At
      <4>3. pc = "delForward" => ipRules[i]["INPUT"] = 0
        BY <2>1, <2>5, <3>3, <3>4 DEF Exact, At
      <4>4. ipRules' = [ipRules EXCEPT ![i][c] = IF @ > 0 THEN @ - 1 ELSE 0]
        BY <2>1, <2>5, <3>4
      <4>5. /\ pc = "delInput" => TotalRules(i)' <= 1 /\ ipRules'[i]["INPUT"] = 0
            /\ pc = "delForward" => TotalRules(i)' = 0
        <5>1. /\ ipRules'[i][c] = IF ipRules[i][c] > 0 THEN ipRules[i][c] - 1 ELSE 0
              /\ \A d \in Chains \ {c} : ipRules'[i][d] = ipRules[i][d]
          BY <1>2, <4>4
        <5>2. CASE pc = "delInput"
          BY <1>5, <4>1, <4>2, <5>1, <5>2 DEF TotalRules, Chains
        <5>3. CASE pc = "delForward"
          BY <1>5, <4>1, <4>2, <4>3, <5>1, <5>3 DEF TotalRules, Chains
        <5> QED
          BY <5>2, <5>3
      <4> QED
        BY <1>5, <2>2, <2>5, <4>5 DEF Exact
    <3> QED
      BY <1>2, <1>3, <2>2, <2>3, <3>1, <3>2, <3>3, <3>4, OwnStep
  <2>6. CASE ip # i
    <3>1. ~Works(p, ip) /\ ~Works(p, ip)'
      BY <2>2, <2>6 DEF Works
    <3>2. ipRules'[ip] = ipRules[ip]
      BY <1>2, <2>1, <2>6
    <3> QED
      BY <1>2, <1>3, <2>1, <2>2, <3>1, <3>2, OtherCall
  <2> QED
    BY <2>5, <2>6
<1>6. CASE RemoveInput(p)
  BY <1>5, <1>6 DEF RemoveInput, Chains, RemovePCs
<1>7. CASE RemoveForward(p)
  BY <1>5, <1>7 DEF RemoveForward, Chains, RemovePCs
<1>8. CASE RemoveMac(p)
  <2>1. Goto(p, "drop") /\ At(p, "delMac") /\ blockCache' = blockCache /\ ipRules' = ipRules
    BY <1>8 DEF RemoveMac, manager
  <2>2. CallsChange(p) /\ call'[p].ip = i /\ call'[p].pc = "drop"
    BY <1>1, <2>1, GotoFields
  <2>3. /\ TotalRules(ip)' = TotalRules(ip) /\ (Enforced(ip)' <=> Enforced(ip))
        /\ (Cached(ip)' <=> Cached(ip))
    BY <2>1 DEF TotalRules, Enforced, Cached
  <2>4. CASE ip = i
    <3>1. Works(p, ip) /\ Works(p, ip)'
      BY <1>4, <2>2, <2>4 DEF Works, Active
    <3>2. p = Sweeper => Expired(ip)'
      BY <1>2, <1>3, <2>1, <3>1 DEF AddressInv, CacheBacked, Expired, Cached
    <3>3. ip \notin failed' => ip \notin failed /\ Exact(p, ip)
      BY <1>2, <1>3, <3>1 DEF AddressInv, TableExact
    <3>4. ip \notin failed' => Exact(p, ip)'
      BY <2>1, <2>2, <2>3, <3>3 DEF Exact, At
    <3> QED
      BY <1>2, <1>3, <2>2, <3>1, <3>2, <3>3, <3>4, OwnStep DEF RemovePCs
  <2>5. CASE ip # i
    <3>1. ~Works(p, ip) /\ ~Works(p, ip)'
      BY <2>2, <2>5 DEF Works
    <3> QED
      BY <1>2, <1>3, <2>1, <2>2, <3>1, OtherCall
  <2> QED
    BY <2>4, <2>5
<1>9. CASE DropCache(p)
  <2>1. /\ ipRules' = ipRules /\ At(p, "drop") /\ blockCache' = [blockCache EXCEPT ![i] = NoRec]
        /\ IF p = Sweeper THEN call' = [call EXCEPT ![p] = NoCall] ELSE Finish(p, "UNBLOCKED")
    BY <1>9 DEF DropCache, Forget, kernel
  <2>2. /\ CallsChange(p)
        /\ p = Sweeper => call'[p].pc = "idle"
        /\ p # Sweeper => call'[p].pc = "done" /\ call'[p].ip = i /\ call'[p].res = "UNBLOCKED"
    BY <1>1, <2>1, FinishFields DEF NoCall, NewCall, CallsChange
  <2>3. TotalRules(ip)' = TotalRules(ip)
    BY <2>1 DEF TotalRules
  <2>4. CASE ip = i
    <3>1. Works(p, ip) /\ (p = Sweeper => ~Works(p, ip)')
      BY <1>4, <2>2, <2>4 DEF Works, Active
    <3>2. ~Cached(ip)'
      BY <1>2, <2>1, <2>4 DEF Cached
    <3>3. ip \notin failed' => ip \notin failed /\ Exact(p, ip)
      BY <1>2, <1>3, <3>1 DEF AddressInv, TableExact
    <3>4. ip \notin failed' => InStep(ip)'
      BY <2>1, <2>3, <3>2, <3>3 DEF Exact, At, InStep
    <3>5. ip \notin failed' /\ Works(p, ip)' => Exact(p, ip)'
      BY <2>2, <3>1, <3>4 DEF Exact
    <3> QED
      BY <1>2, <1>3, <2>2, <3>1, <3>2, <3>3, <3>4, <3>5, OwnStep
  <2>5. CASE ip # i
    <3>1. ~Works(p, ip) /\ ~Works(p, ip)'
      BY <2>2, <2>5 DEF Works, Active
    <3>2. blockCache'[ip] = blockCache[ip]
      BY <1>2, <2>1, <2>5
    <3> QED
      BY <1>2, <1>3, <2>1, <2>2, <3>1, <3>2, OtherCall
  <2> QED
    BY <2>4, <2>5
<1> QED
  BY <1>6, <1>7, <1>8, <1>9 DEF RemoveStep

\* The caller takes the result: the operation is over.
LEMMA ReturnKeeps ==
    ASSUME TypeOK, UndisturbedInv, NEW t \in Threads, Return(t)
    PROVE  UndisturbedInv'
<1> SUFFICES ASSUME NEW ip \in IPs, ip \notin disturbed' PROVE AddressInv(ip)'
  BY DEF UndisturbedInv
<1>1. t \in Procs /\ t # Sweeper /\ call \in [Procs -> CallRecords]
  BY ThreadsAssumption DEF TypeOK, Procs
<1>2. /\ now' = now /\ deploy' = deploy /\ ipRules' = ipRules /\ blockCache' = blockCache
      /\ sweep' = sweep /\ failed' = failed /\ disturbed' = disturbed
      /\ At(t, "done") /\ call' = [call EXCEPT ![t] = NoCall]
  BY DEF Return, NoFault, config, kernel, manager
<1>3. AddressInv(ip)
  BY <1>2 DEF UndisturbedInv
<1>4. CallsChange(t) /\ call'[t].pc = "idle" /\ ~Works(t, ip)'
  BY <1>1, <1>2 DEF CallsChange, NoCall, NewCall, Works, Active
<1>5. /\ (Enforced(ip)' <=> Enforced(ip)) /\ (Cached(ip)' <=> Cached(ip))
      /\ (InStep(ip)' <=> InStep(ip))
  BY <1>2 DEF TotalRules, Enforced, Cached, InStep
<1>6. CASE Works(t, ip)
  <2>1. Cached(ip) => Enforced(ip)
    BY <1>1, <1>2, <1>3, <1>6 DEF AddressInv, OneOperation, CacheBacked, At, RemovePCs
  <2>2. ip \notin failed => InStep(ip)
    BY <1>1, <1>2, <1>3, <1>6 DEF AddressInv, TableExact, Exact, At
  <2> QED
    BY <1>1, <1>2, <1>3, <1>4, <1>5, <1>6, <2>1, <2>2, OwnStep
<1>7. CASE ~Works(t, ip)
  BY <1>1, <1>2, <1>3, <1>4, <1>7, OtherCall
<1> QED
  BY <1>6, <1>7

\* A pass of the sweeper collects expired entries, and takes them one by one.
LEMMA SweepKeeps ==
    ASSUME TypeOK, UndisturbedInv, SweepCollect \/ SweepNext
    PROVE  UndisturbedInv'
<1> SUFFICES ASSUME NEW ip \in IPs, ip \notin disturbed' PROVE AddressInv(ip)'
  BY DEF UndisturbedInv
<1>1. call \in [Procs -> CallRecords] /\ Sweeper \in Procs /\ now \in Nat
  BY TimeAssumption DEF TypeOK, Procs
<1>2. /\ now' = now /\ deploy' = deploy /\ ipRules' = ipRules /\ blockCache' = blockCache
      /\ failed' = failed /\ disturbed \subseteq disturbed' /\ At(Sweeper, "idle")
  BY DEF SweepCollect, SweepNext, NoFault, config, kernel, manager
<1>3. AddressInv(ip)
  BY <1>2 DEF UndisturbedInv
<1>4. /\ TotalRules(ip)' = TotalRules(ip) /\ (Enforced(ip)' <=> Enforced(ip))
      /\ (Cached(ip)' <=> Cached(ip)) /\ (InStep(ip)' <=> InStep(ip))
      /\ (Expired(ip)' <=> Expired(ip))
  BY <1>2 DEF TotalRules, Enforced, Cached, InStep, Expired
<1>5. CASE SweepCollect
  <2>1. /\ sweep = {} /\ call' = call
        /\ sweep' = {[ip |-> j, mac |-> blockCache[j].mac] : j \in {k \in IPs : Expired(k)}}
        /\ Expired(ip) => ~Busy(ip)
    BY <1>5 DEF SweepCollect
  <2>2. \A e \in sweep' : e.ip = ip => Expired(ip)
    BY <2>1
  <2>3. CASE ~Expired(ip)
    BY <1>1, <1>2, <1>3, <2>1, <2>2, <2>3, Elsewhere
  <2>4. CASE Expired(ip)
    <3>1. \A q \in Procs : ~Works(q, ip) /\ ~Works(q, ip)'
      BY <2>1, <2>4 DEF Busy, Works, Active
    <3>2. OneOperation(ip)'
      BY <2>1, <3>1 DEF OneOperation
    <3>3. CacheBacked(ip)'
      BY <1>1, <1>3, <1>4, <2>2, <3>1 DEF AddressInv, CacheBacked
    <3>4. ip \notin failed' => TableExact(ip)'
      BY <1>2, <1>3, <1>4, <3>1 DEF AddressInv, TableExact
    <3> QED
      BY <3>2, <3>3, <3>4 DEF AddressInv
  <2> QED
    BY <2>3, <2>4
<1>6. CASE SweepNext
  <2>1. PICK e \in sweep :
           /\ call' = [call EXCEPT ![Sweeper] = NewCall("delInput", e.ip, e.mac, 0, "NONE")]
           /\ sweep' = sweep \ {e}
    BY <1>6 DEF SweepNext
  <2>2. /\ CallsChange(Sweeper) /\ call'[Sweeper].pc = "delInput" /\ call'[Sweeper].ip = e.ip
        /\ ~Works(Sweeper, ip)
    BY <1>1, <1>2, <2>1 DEF CallsChange, NewCall, Works, Active, At
  <2>3. CASE e.ip # ip
    <3>1. \A q \in Procs : Works(q, ip) \/ Works(q, ip)' => call'[q] = call[q]
      BY <2>2, <2>3 DEF CallsChange, Works
    <3> QED
      BY <1>1, <1>2, <1>3, <2>1, <2>3, <3>1, Elsewhere
  <2>4. CASE e.ip = ip
    <3>1. \A q \in Procs : ~Works(q, ip)
      BY <1>3, <2>4 DEF AddressInv, OneOperation
    <3>2. \A q \in Procs : Works(q, ip)' <=> q = Sweeper
      BY <1>1, <2>2, <2>4, <3>1 DEF CallsChange, Works, Active
    <3>3. Expired(ip)
      BY <1>3, <2>4 DEF AddressInv, CacheBacked
    <3>4. \A f \in sweep' : f.ip # ip
      BY <1>3, <2>1, <2>4 DEF AddressInv, OneOperation
    <3>5. OneOperation(ip)'
      BY <3>2, <3>4 DEF OneOperation
    <3>6. CacheBacked(ip)'
      BY <1>2, <1>3, <1>4, <2>2, <3>1, <3>2, <3>3, <3>4 DEF AddressInv, CacheBacked
    <3>7. ASSUME ip \notin failed' PROVE TableExact(ip)'
      <4>1. InStep(ip)'
        BY <1>2, <1>3, <1>4, <3>1, <3>7 DEF AddressInv, TableExact
      <4>2. Exact(Sweeper, ip)'
        BY <2>2, <4>1 DEF Exact
      <4> QED
        BY <3>2, <4>1, <4>2 DEF TableExact
    <3> QED
      BY <3>5, <3>6, <3>7 DEF AddressInv
  <2> QED
    BY <2>3, <2>4
<1> QED
  BY <1>5, <1>6

\* The operator and the clock: a change of the deployment mode disturbs the
\* addresses that something works on.
LEMMA OperatorKeeps ==
    ASSUME TypeOK, UndisturbedInv, OperatorStep \/ Tick \/ UNCHANGED vars
    PROVE  UndisturbedInv'
<1> SUFFICES ASSUME NEW ip \in IPs, ip \notin disturbed' PROVE AddressInv(ip)'
  BY DEF UndisturbedInv
<1>1. now \in Nat
  BY TimeAssumption DEF TypeOK
<1>2. /\ call' = call /\ sweep' = sweep /\ ipRules' = ipRules /\ blockCache' = blockCache
      /\ failed' = failed /\ disturbed \subseteq disturbed'
      /\ now' \in Nat /\ now' >= now
      /\ deploy' = deploy \/ ~Busy(ip)
  <2>1. CASE OperatorStep
    BY <1>1, <2>1 DEF OperatorStep, OperatorEdit, AddAllowlist, RemoveAllowlist, SetSecMode, SetDeploy,
       ReloadGateway, config, kernel, manager
  <2>2. CASE Tick \/ UNCHANGED vars
    BY <1>1, <2>2 DEF Tick, vars, config, kernel, manager
  <2> QED
    BY <2>1, <2>2
<1>3. AddressInv(ip)
  BY <1>2 DEF UndisturbedInv
<1> QED
  BY <1>1, <1>2, <1>3, Elsewhere

\* A crash empties the cache and ends every operation, and leaves the rules.
LEMMA RestartKeeps ==
    ASSUME TypeOK, UndisturbedInv, Restart
    PROVE  UndisturbedInv'
<1> SUFFICES ASSUME NEW ip \in IPs, ip \notin disturbed' PROVE AddressInv(ip)'
  BY DEF UndisturbedInv
<1>1. /\ \A p \in Procs : ~Works(p, ip)'
      /\ sweep' = {} /\ ipRules' = ipRules /\ ~Cached(ip)'
      /\ ip \notin failed' => ip \notin failed /\ ~Enforced(ip)
  BY DEF Restart, NoCall, NewCall, Works, Active, Cached, kernel
<1>2. OneOperation(ip)' /\ CacheBacked(ip)'
  <2>1. Sweeper \in Procs
    BY DEF Procs
  <2> QED
    BY <1>1, <2>1 DEF OneOperation, CacheBacked
<1>3. ASSUME ip \notin failed' PROVE TableExact(ip)'
  <2>1. TotalRules(ip) \in Nat /\ TotalRules(ip)' = TotalRules(ip)
    BY <1>1 DEF TypeOK, TotalRules, Chains
  <2>2. InStep(ip)'
    BY <1>1, <1>3, <2>1 DEF Enforced, InStep
  <2> QED
    BY <1>1, <2>2 DEF TableExact
<1> QED
  BY <1>2, <1>3 DEF AddressInv

LEMMA UndisturbedInit == Init => UndisturbedInv
<1> SUFFICES ASSUME Init, NEW ip \in IPs PROVE AddressInv(ip)
  BY DEF UndisturbedInv
<1>1. /\ \A p \in Procs : ~Works(p, ip)
      /\ sweep = {} /\ ~Cached(ip) /\ Sweeper \in Procs
  BY DEF Init, NoCall, NewCall, Works, Active, Cached, Procs
<1>2. TotalRules(ip) = 0
  BY DEF Init, TotalRules, Chains
<1> QED
  BY <1>1, <1>2 DEF AddressInv, OneOperation, CacheBacked, TableExact, InStep

LEMMA UndisturbedStep ==
    ASSUME TypeOK, UndisturbedInv, [ManagerNext]_vars
    PROVE  UndisturbedInv'
BY StartKeeps, ReadKeeps, RecordKeeps, ApplyKeeps, RemoveKeeps, ReturnKeeps, SweepKeeps,
   OperatorKeeps, RestartKeeps DEF ManagerNext, BlockStep

-------------------------------------------------------------------------------
(* What the invariant says between and at the end of operations *)

LEMMA UndisturbedImplies ==
    ASSUME TypeOK, UndisturbedInv
    PROVE  TableMatchesKernel /\ ConfirmedIsEnforced
<1>1. TableMatchesKernel
  <2> SUFFICES ASSUME NEW ip \in IPs \ (failed \cup disturbed), ~Busy(ip)
               PROVE  InStep(ip)
    BY DEF TableMatchesKernel, InStep
  <2> QED
    BY DEF UndisturbedInv, AddressInv, TableExact, Busy, Works
<1>2. ConfirmedIsEnforced
  <2> SUFFICES ASSUME NEW t \in Threads, At(t, "done"), call[t].res = "CONFIRMED",
                      call[t].ip \notin disturbed
               PROVE  Enforced(call[t].ip) /\ Cached(call[t].ip)
    BY DEF ConfirmedIsEnforced
  <2>1. t \in Procs /\ Active(t) /\ call[t].ip \in IPs
    BY DEF Procs, At, Active, TypeOK
  <2>2. CacheBacked(call[t].ip) /\ Works(t, call[t].ip)
    BY <2>1 DEF UndisturbedInv, AddressInv, Works
  <2> QED
    BY <2>1, <2>2 DEF CacheBacked, At
<1> QED
  BY <1>1, <1>2

\* Operations on an address that neither overlap nor fail are exact: whatever
\* runs on other addresses, when none is in progress the kernel has one rule for
\* a cached address and none for another.
THEOREM TableExactness == Spec => []TableMatchesKernel
BY TypeCorrect, UndisturbedInit, UndisturbedStep, UndisturbedImplies, NextIsManagerNext, PTL DEF Spec

\* A caller that is told CONFIRMED has its rule in the kernel, whichever commands
\* fail and whenever the process restarts, unless another operation on the
\* address overlapped its own.
THEOREM ConfirmationSound == Spec => []ConfirmedIsEnforced
BY TypeCorrect, UndisturbedInit, UndisturbedStep, UndisturbedImplies, NextIsManagerNext, PTL DEF Spec

\* The step of NoEarlyRelease.
Releases(ip) == Enforced(ip) /\ ~Enforced(ip)' /\ ip \notin disturbed'
ReleaseDue(ip) ==
    \/ PastExpiry(ip)
    \/ \E t \in Threads : call[t].ip = ip /\ call[t].pc \in RemovePCs

LEMMA ReleaseStep ==
    ASSUME TypeOK, UndisturbedInv, [ManagerNext]_vars, NEW ip \in IPs, Releases(ip)
    PROVE  ReleaseDue(ip)
<1>1. ipRules \in [IPs -> [Chains -> Nat]] /\ ipRules'[ip] # ipRules[ip]
  BY DEF TypeOK, Releases, Enforced, TotalRules
<1>2. PICK p \in Procs : RemoveInput(p) \/ RemoveForward(p)
  <2>1. ASSUME ipRules' = ipRules PROVE FALSE
    BY <1>1, <2>1
  <2>2. ASSUME NEW t \in Threads, InsertRule(t) PROVE FALSE
    <3>1. \/ ipRules' = ipRules
          \/ ipRules' = [ipRules EXCEPT ![call[t].ip][call[t].chain] = @ + 1]
      BY <2>2 DEF InsertRule
    <3>2. call[t].ip \in IPs /\ call[t].chain \in Chains
      BY <2>2 DEF InsertRule, At, Active, TypeOK, Procs, CallRecords
    <3>3. \A c \in Chains : ipRules'[ip][c] >= ipRules[ip][c] /\ ipRules'[ip][c] \in Nat
      BY <1>1, <3>1, <3>2
    <3> QED
      BY <1>1, <3>3 DEF Releases, Enforced, TotalRules, Chains
  <2>3. CASE UNCHANGED vars
    BY <2>1, <2>3 DEF vars, kernel
  <2>4. CASE \/ \E t \in Threads, i \in IPs, mac \in MacOrNone :
                   BlockStart(t, i, mac) \/ UnblockStart(t, i, mac)
             \/ \E t \in Threads : BlockStep(t) \/ Return(t)
    BY <2>1, <2>2, <2>4
       DEF BlockStart, UnblockStart, BlockStep, CheckSafe, CheckMode, CheckCache, RuleExists,
           InsertMac, Verify, CacheConfirmed, Return, kernel
  <2>5. CASE SweepCollect \/ SweepNext \/ OperatorStep \/ Tick \/ Restart
    BY <2>1, <2>5
       DEF SweepCollect, SweepNext, OperatorStep, OperatorEdit, AddAllowlist, RemoveAllowlist,
           SetSecMode, SetDeploy, ReloadGateway, Tick, Restart, kernel
  <2>6. CASE \E p \in Procs : RemoveStep(p)
    BY <2>1, <2>6 DEF RemoveStep, RemoveMac, DropCache, kernel
  <2> QED
    BY <2>3, <2>4, <2>5, <2>6 DEF ManagerNext
<1>3. call[p].ip = ip /\ call[p].pc \in RemovePCs
  <2>1. PICK c \in Chains, pc \in RemovePCs, next \in RemovePCs : RemoveFrom(p, pc, c, next)
    BY <1>2 DEF RemoveInput, RemoveForward, Chains, RemovePCs
  <2>2. call[p].ip \in IPs /\ call[p].pc \in RemovePCs
    BY <2>1 DEF RemoveFrom, At, Active, TypeOK, RemovePCs
  <2> QED
    BY <1>1, <2>1, <2>2 DEF RemoveFrom, DeleteRule
<1>4. CASE p \in Threads
  BY <1>3, <1>4 DEF ReleaseDue
<1>5. CASE p = Sweeper
  <2>1. ip \notin disturbed
    BY <1>2 DEF Releases, RemoveInput, RemoveForward, RemoveFrom, NoFault, Fault
  <2>2. Expired(ip)
    BY <1>3, <1>5, <2>1 DEF UndisturbedInv, AddressInv, CacheBacked, Works, Active, RemovePCs
  <2> QED
    BY <2>2, TimeAssumption DEF Expired, PastExpiry, ReleaseDue, TypeOK, Cached, BlockRecords, Times
<1> QED
  BY <1>2, <1>4, <1>5 DEF Procs

\* No step takes the last rule of an undisturbed address out of the kernel but
\* after its expiry or for an unblock call in progress: a sweep never works from
\* an old reading of the cache.
THEOREM ReleaseSound == Spec => NoEarlyRelease
<1>1. TypeOK /\ UndisturbedInv /\ [Next]_vars
        => [\A ip \in IPs : Enforced(ip) /\ ~Enforced(ip)' /\ ip \notin disturbed'
              => \/ PastExpiry(ip)
                 \/ \E t \in Threads : call[t].ip = ip /\ call[t].pc \in RemovePCs]_vars
  BY ReleaseStep, NextIsManagerNext DEF Releases, ReleaseDue
<1> QED
  BY <1>1, TypeCorrect, UndisturbedInit, UndisturbedStep, NextIsManagerNext, PTL
     DEF Spec, NoEarlyRelease

-------------------------------------------------------------------------------
(* Firewall implements Blocking                                             *)

\* What the mapping needs of a call record, besides its type.
Shape(c) ==
    /\ c.pc = "idle" => c = NoCall
    /\ c.pc \in RemovePCs \cup {"done"} => c.exp = 0
    /\ c.pc = "done" => c.res \in {"FAILED", "REQUESTED", "CONFIRMED", "UNBLOCKED"}

Shapes == \A t \in Threads : Shape(call[t])

\* A call that only moves on keeps the shape of its kind.
LEMMA GotoShape ==
    ASSUME TypeOK, Shapes, NEW p \in Procs, NEW pc, Goto(p, pc), pc # "idle", pc # "done",
           pc \in RemovePCs => call[p].pc \in RemovePCs
    PROVE  Shapes'
<1> SUFFICES ASSUME NEW t \in Threads PROVE Shape(call[t])'
  BY DEF Shapes
<1>1. t \in Procs /\ call \in [Procs -> CallRecords]
  BY DEF TypeOK, Procs
<1>2. Shape(call[t])
  BY DEF Shapes
<1>3. CASE t = p
  <2>1. call'[t].pc = pc /\ call'[t].exp = call[t].exp
    BY <1>1, <1>3 DEF Goto, CallRecords
  <2> QED
    BY <1>2, <1>3, <2>1 DEF Shape
<1>4. CASE t # p
  BY <1>1, <1>2, <1>4 DEF Goto
<1> QED
  BY <1>3, <1>4

\* What a caller starts, or takes back, has the shape of its kind.
LEMMA FreshShape ==
    ASSUME TypeOK, Shapes, NEW p \in Procs, NEW c, call' = [call EXCEPT ![p] = c], Shape(c)
    PROVE  Shapes'
BY DEF Shapes, TypeOK, Procs

\* An answer has the shape of one.
LEMMA FinishShape ==
    ASSUME TypeOK, Shapes, NEW p \in Procs, NEW res, Finish(p, res),
           res \in {"FAILED", "REQUESTED", "CONFIRMED", "UNBLOCKED"}
    PROVE  Shapes'
BY FreshShape DEF Finish, NewCall, Shape

\* Every step of the manager keeps the shapes.
LEMMA ShapesStep ==
    ASSUME TypeOK, Shapes, [ManagerNext]_vars
    PROVE  Shapes'
<1>1. Shape(NoCall)
  BY DEF Shape, NoCall, NewCall, RemovePCs
<1>2. ASSUME NEW t \in Threads, NEW ip \in IPs, NEW mac \in MacOrNone,
             BlockStart(t, ip, mac) \/ UnblockStart(t, ip, mac)
      PROVE  Shapes'
  <2>1. PICK c : call' = [call EXCEPT ![t] = c] /\ Shape(c)
    <3>1. /\ Shape(NewCall("safe", ip, mac, now + TTL, "NONE"))
          /\ Shape(NewCall("delInput", ip, mac, 0, "NONE"))
      BY DEF Shape, NewCall, RemovePCs
    <3> QED
      BY <1>2, <3>1 DEF BlockStart, UnblockStart
  <2> QED
    BY <2>1, FreshShape DEF Procs
<1>3. ASSUME NEW t \in Threads, BlockStep(t) PROVE Shapes'
  <2>1. t \in Procs
    BY DEF Procs
  <2>2. CASE RuleExists(t) \/ InsertRule(t)
    <3>1. /\ \A u \in Threads \ {t} : call'[u] = call[u]
          /\ call'[t].pc \in {"insert", "mac"}
      <4>1. call \in [Procs -> CallRecords]
        BY DEF TypeOK
      <4>2. CASE RuleExists(t)
        BY <2>1, <4>1, <4>2 DEF RuleExists, CallRecords, Procs
      <4>3. CASE InsertRule(t)
        BY <2>1, <4>1, <4>3 DEF InsertRule, Goto, CallRecords, Procs
      <4> QED
        BY <2>2, <4>2, <4>3
    <3> QED
      BY <3>1 DEF Shapes, Shape, RemovePCs
  <2>3. CASE ~RuleExists(t) /\ ~InsertRule(t)
    <3>1. \/ \E pc \in {"mode", "cache", "exists", "verify", "record"} : Goto(t, pc)
          \/ \E res \in {"FAILED", "REQUESTED", "CONFIRMED"} : Finish(t, res)
      BY <1>3, <2>3 DEF BlockStep, CheckSafe, CheckMode, CheckCache, InsertMac, Verify, CacheConfirmed
    <3> QED
      BY <2>1, <3>1, GotoShape, FinishShape DEF RemovePCs
  <2> QED
    BY <2>2, <2>3
<1>4. ASSUME NEW t \in Threads, Return(t) PROVE Shapes'
  BY <1>1, <1>4, FreshShape DEF Return, Procs
<1>5. ASSUME NEW p \in Procs, RemoveStep(p) PROVE Shapes'
  <2>1. \/ \E pc \in {"delForward", "delMac", "drop"} : Goto(p, pc) /\ call[p].pc \in RemovePCs
        \/ Finish(p, "UNBLOCKED")
        \/ call' = [call EXCEPT ![p] = NoCall]
    BY <1>5 DEF RemoveStep, RemoveInput, RemoveForward, RemoveFrom, RemoveMac, DropCache, At, RemovePCs
  <2> QED
    BY <1>1, <2>1, GotoShape, FinishShape, FreshShape
<1>6. ASSUME SweepNext PROVE Shapes'
  BY <1>6, ThreadsAssumption DEF SweepNext, Shapes, TypeOK, Procs
<1>7. ASSUME Restart PROVE Shapes'
  BY <1>1, <1>7 DEF Restart, Shapes, Procs
<1>8. CASE SweepCollect \/ OperatorStep \/ Tick \/ UNCHANGED vars
  BY <1>8 DEF SweepCollect, OperatorStep, OperatorEdit, AddAllowlist, RemoveAllowlist, SetSecMode,
              SetDeploy, ReloadGateway, Tick, vars, Shapes
<1> QED
  BY <1>2, <1>3, <1>4, <1>5, <1>6, <1>7, <1>8 DEF ManagerNext

\* What the refinement is proved from.
PromiseInv == TypeOK /\ UndisturbedInv /\ Shapes

\* A thread with an operation on a trusted address.
LEMMA OperationOf ==
    ASSUME PromiseInv, NEW t \in Threads
    PROVE  /\ t \in Procs /\ t # Sweeper /\ call[t] \in CallRecords /\ call \in [Procs -> CallRecords]
           /\ Operations[t] = IF call[t].ip \in Trusted THEN OpOf(call[t]) ELSE NoOp
           /\ call[t].ip \in Trusted => Works(t, call[t].ip)
           /\ call[t].pc = "idle" => Operations[t] = NoOp /\ call[t].ip \notin IPs
BY AddressesAssumption, ThreadsAssumption
   DEF PromiseInv, TypeOK, Procs, Operations, Shapes, Shape, NoCall, NewCall, Trusted, Works, Active

\* The operation Blocking sees is on the address of the call.
LEMMA OperationAddress ==
    ASSUME NEW t \in Threads, NEW i \in IPs, Operations[t].ip = i
    PROVE  call[t].ip = i
<1>1. Operations[t] = IF call[t].ip \in Trusted THEN OpOf(call[t]) ELSE NoOp
  BY DEF Operations
<1>2. OpOf(call[t]).ip = call[t].ip /\ NoOp.ip = NoIP
  BY DEF OpOf, NoOp
<1> QED
  BY <1>1, <1>2, AddressesAssumption

\* A step that leaves what is said of the addresses that stay trusted as it was.
LEMMA Distrusts ==
    ASSUME Trusted' \subseteq Trusted, now' = now,
           \A ip \in Trusted' : (Enforced(ip)' <=> Enforced(ip)) /\ blockCache'[ip] = blockCache[ip],
           \A t \in Threads :
              IF call[t].ip \in Trusted' THEN call'[t].ip = call[t].ip /\ OpOf(call'[t]) = OpOf(call[t])
                                         ELSE call'[t].ip \notin Trusted'
    PROVE  Promise!Distrust
<1>1. Dropped' = Dropped \cap Trusted'
  BY DEF Dropped
<1>2. Expiries' = [ip \in IPs |-> IF ip \in Trusted' THEN Expiries[ip] ELSE Promise!Never]
  BY DEF Expiries, Trusted, NoRec, Promise!Never
<1>3. Operations' = [t \in Threads |-> IF Operations[t].ip \in Trusted' THEN Operations[t] ELSE Promise!NoOp]
  <2>1. ASSUME NEW t \in Threads
        PROVE  Operations'[t] = IF Operations[t].ip \in Trusted' THEN Operations[t] ELSE Promise!NoOp
    <3>1. Promise!NoOp = NoOp /\ NoOp.ip \notin Trusted'
      BY AddressesAssumption DEF Promise!NoOp, NoOp, Trusted
    <3>2. OpOf(call[t]).ip = call[t].ip
      BY DEF OpOf, BlockPCs
    <3>3. /\ Operations[t] = IF call[t].ip \in Trusted THEN OpOf(call[t]) ELSE NoOp
          /\ Operations'[t] = IF call'[t].ip \in Trusted' THEN OpOf(call'[t]) ELSE NoOp
      BY DEF Operations
    <3> QED
      BY <3>1, <3>2, <3>3
  <2> QED
    BY <2>1 DEF Operations
<1> QED
  BY <1>1, <1>2, <1>3 DEF Promise!Distrust

\* A step of p, which is in a call for i, as seen from the other addresses.
LocalStep(p, i) ==
    /\ now' = now /\ disturbed' = disturbed /\ failed' \in {failed, failed \cup {i}}
    /\ CallsChange(p) /\ call'[p].ip \in {i, NoIP}
    /\ \A j \in IPs \ {i} : ipRules'[j] = ipRules[j] /\ blockCache'[j] = blockCache[j]

\* If it is not trusted any more, nothing is claimed.
LEMMA UntrustedStep ==
    ASSUME NEW p \in Procs, NEW i \in IPs, call[p].ip = i, LocalStep(p, i), i \notin Trusted'
    PROVE  Promise!Distrust
<1>1. Trusted' \subseteq Trusted /\ Trusted' \subseteq IPs \ {i} /\ NoIP \notin Trusted'
  BY AddressesAssumption DEF LocalStep, Trusted
<1>2. \A ip \in Trusted' : (Enforced(ip)' <=> Enforced(ip)) /\ blockCache'[ip] = blockCache[ip]
  BY <1>1 DEF LocalStep, Enforced, TotalRules
<1>3. \A t \in Threads :
         IF call[t].ip \in Trusted' THEN call'[t].ip = call[t].ip /\ OpOf(call'[t]) = OpOf(call[t])
                                    ELSE call'[t].ip \notin Trusted'
  BY <1>1 DEF LocalStep, CallsChange, Procs
<1> QED
  BY <1>1, <1>2, <1>3, Distrusts DEF LocalStep

\* Otherwise the step is one of Blocking about this address and this caller.
TrustedStep(p, i) ==
    /\ Trusted' = Trusted /\ i \in Trusted /\ now' = now
    /\ Dropped' = IF Enforced(i)' THEN Dropped \cup {i} ELSE Dropped \ {i}
    /\ Expiries' = [Expiries EXCEPT ![i] = blockCache'[i].exp]
    /\ Operations' = IF p \in Threads
                     THEN [Operations EXCEPT ![p] = IF call'[p].ip = i THEN OpOf(call'[p]) ELSE NoOp]
                     ELSE Operations

\* A step on one address that stays trusted, in the terms of Blocking.
LEMMA TrustedStepIs ==
    ASSUME NEW p \in Procs, NEW i \in IPs, call[p].ip = i, LocalStep(p, i), i \in Trusted'
    PROVE  TrustedStep(p, i) /\ i \notin failed /\ failed' = failed /\ i \notin disturbed
<1>1. failed' = failed /\ Trusted' = Trusted /\ i \in Trusted /\ i \notin failed /\ i \notin disturbed
  BY DEF LocalStep, Trusted
<1>2. Dropped' = IF Enforced(i)' THEN Dropped \cup {i} ELSE Dropped \ {i}
  <2>1. \A j \in Trusted \ {i} : Enforced(j)' <=> Enforced(j)
    BY DEF LocalStep, Enforced, TotalRules, Trusted
  <2> QED
    BY <1>1, <2>1 DEF Dropped
<1>3. Expiries' = [Expiries EXCEPT ![i] = blockCache'[i].exp]
  BY <1>1 DEF LocalStep, Expiries
<1>4. Operations' = IF p \in Threads
                    THEN [Operations EXCEPT ![p] = IF call'[p].ip = i THEN OpOf(call'[p]) ELSE NoOp]
                    ELSE Operations
  <2>1. \A t \in Threads \ {p} : call'[t] = call[t]
    BY DEF LocalStep, CallsChange, Procs
  <2>2. NoIP \notin Trusted
    BY AddressesAssumption DEF Trusted
  <2> QED
    BY <1>1, <2>1, <2>2 DEF LocalStep, Operations
<1> QED
  BY <1>1, <1>2, <1>3, <1>4 DEF LocalStep, TrustedStep

\* What the caller of an address that stays trusted knows of it.
Caller(t, i) ==
    /\ t \in Procs /\ i \in IPs /\ call[t].ip = i /\ call[t] \in CallRecords
    /\ TrustedStep(t, i) /\ Exact(t, i)
    /\ Operations[t] = OpOf(call[t])
    /\ (i \in Dropped <=> Enforced(i)) /\ Expiries[i] = blockCache[i].exp

\* Where neither the rules, the entry nor what the caller waits for change, the
\* step is a stutter of Blocking.
LEMMA CallerStutters ==
    ASSUME NEW t \in Threads, NEW i, Caller(t, i), Enforced(i)' <=> Enforced(i),
           blockCache'[i] = blockCache[i], call'[t].ip = i, OpOf(call'[t]) = OpOf(call[t])
    PROVE  UNCHANGED Promise!bvars
<1>1. Dropped' = Dropped
  BY DEF Caller, TrustedStep
<1>2. Expiries' = Expiries
  BY DEF Caller, TrustedStep, Expiries
<1>3. Operations' = Operations
  BY DEF Caller, TrustedStep, Operations
<1> QED
  BY <1>1, <1>2, <1>3 DEF Caller, TrustedStep, Promise!bvars

\* The same for a caller that works on it.
LEMMA CallerIs ==
    ASSUME PromiseInv, NEW t \in Threads, NEW i \in IPs, call[t].ip = i, Active(t),
           LocalStep(t, i), i \in Trusted'
    PROVE  Caller(t, i) /\ i \notin failed'
<1>1. /\ t \in Procs /\ call[t] \in CallRecords
      /\ Operations[t] = IF call[t].ip \in Trusted THEN OpOf(call[t]) ELSE NoOp
  BY OperationOf
<1>2. TrustedStep(t, i) /\ i \notin failed /\ failed' = failed /\ i \notin disturbed
  BY <1>1, TrustedStepIs
<1>3. Exact(t, i)
  BY <1>1, <1>2 DEF PromiseInv, UndisturbedInv, AddressInv, TableExact, Works
<1>4. (i \in Dropped <=> Enforced(i)) /\ Expiries[i] = blockCache[i].exp
  BY <1>2 DEF TrustedStep, Dropped, Expiries
<1> QED
  BY <1>1, <1>2, <1>3, <1>4 DEF Caller, TrustedStep

\* How the record of a call that goes on, or that ends, is seen.
LEMMA GotoOp ==
    ASSUME NEW t \in Procs, NEW pc, call \in [Procs -> CallRecords], Goto(t, pc)
    PROVE  /\ CallsChange(t) /\ call'[t].ip = call[t].ip /\ call'[t].pc = pc
           /\ call'[t].exp = call[t].exp /\ call'[t].res = call[t].res
BY DEF Goto, CallRecords, CallsChange

\* What Blocking sees of a call that ends.
LEMMA FinishOp ==
    ASSUME NEW t \in Procs, NEW res, call \in [Procs -> CallRecords], Finish(t, res)
    PROVE  /\ CallsChange(t) /\ call'[t].ip = call[t].ip
           /\ OpOf(call'[t]) = [step |-> IF res \in {"FAILED", "REQUESTED"} THEN "REFUSED" ELSE res,
                                ip |-> call[t].ip, exp |-> 0]
<1>1. CallsChange(t) /\ call'[t] = NewCall("done", call[t].ip, NoMAC, 0, res)
  BY DEF Finish, CallsChange
<1> QED
  BY <1>1 DEF NewCall, OpOf, BlockPCs, RemovePCs

\* A block is refused, or goes on to look at the table.
LEMMA ReadRefines ==
    ASSUME PromiseInv, NEW t \in Threads, CheckSafe(t) \/ CheckMode(t)
    PROVE  Promise!Refuse(t) \/ UNCHANGED Promise!bvars \/ Promise!Distrust
<1> PICK i : i = call[t].ip
  OBVIOUS
<1>1. /\ t \in Procs /\ call \in [Procs -> CallRecords] /\ call[t].pc \in {"safe", "mode"}
      /\ i \in IPs /\ Active(t)
  BY DEF CheckSafe, CheckMode, At, Active, PromiseInv, TypeOK, Procs
<1>2. /\ now' = now /\ disturbed' = disturbed /\ failed' = failed
      /\ ipRules' = ipRules /\ blockCache' = blockCache
      /\ \/ Goto(t, "mode") \/ Goto(t, "cache")
         \/ Finish(t, "FAILED") \/ Finish(t, "REQUESTED")
  BY DEF CheckSafe, CheckMode, NoFault, kernel, manager
<1>3. CallsChange(t) /\ call'[t].ip = i
  BY <1>1, <1>2, GotoOp, FinishOp
<1>4. LocalStep(t, i)
  BY <1>2, <1>3 DEF LocalStep
<1>5. CASE i \notin Trusted'
  BY <1>1, <1>4, <1>5, UntrustedStep
<1>6. CASE i \in Trusted'
  <2>1. Caller(t, i)
    BY <1>1, <1>4, <1>6, CallerIs
  <2>2. Enforced(i)' <=> Enforced(i)
    BY <1>2 DEF Enforced, TotalRules
  <2>3. OpOf(call[t]) = [step |-> "block", ip |-> i, exp |-> call[t].exp]
    BY <1>1 DEF OpOf, BlockPCs
  <2>4. CASE Goto(t, "mode") \/ Goto(t, "cache")
    <3>1. OpOf(call'[t]) = OpOf(call[t])
      BY <1>1, <2>3, <2>4, GotoOp DEF OpOf, BlockPCs
    <3> QED
      BY <1>2, <1>3, <2>1, <2>2, <3>1, CallerStutters
  <2>5. CASE Finish(t, "FAILED") \/ Finish(t, "REQUESTED")
    <3>1. OpOf(call'[t]) = [step |-> "REFUSED", ip |-> i, exp |-> 0]
      BY <1>1, <2>5, FinishOp
    <3>2. Operations' = [Operations EXCEPT ![t] = [step |-> "REFUSED", ip |-> Operations[t].ip, exp |-> 0]]
      BY <1>3, <2>1, <2>3, <3>1 DEF Caller, TrustedStep
    <3>3. Dropped' = Dropped /\ Expiries' = Expiries
      BY <1>2, <2>1, <2>2 DEF Caller, TrustedStep, Expiries
    <3>4. Operations[t].step = "block" /\ Trusted' = Trusted
      BY <2>1, <2>3 DEF Caller, TrustedStep
    <3> QED
      BY <1>2, <3>2, <3>3, <3>4 DEF Promise!Refuse, Promise!Answer
  <2> QED
    BY <1>2, <2>4, <2>5
<1> QED
  BY <1>5, <1>6

\* CheckCache and CacheConfirmed: the caller is told that the block is in force.
LEMMA ConfirmRefines ==
    ASSUME PromiseInv, NEW t \in Threads, CheckCache(t) \/ CacheConfirmed(t)
    PROVE  Promise!Confirm(t) \/ UNCHANGED Promise!bvars \/ Promise!Distrust
<1> PICK i : i = call[t].ip
  OBVIOUS
<1>1. /\ t \in Procs /\ call \in [Procs -> CallRecords] /\ call[t].pc \in {"cache", "record"}
      /\ i \in IPs /\ Active(t) /\ blockCache \in [IPs -> BlockRecords \cup {NoRec}]
  BY DEF CheckCache, CacheConfirmed, At, Active, PromiseInv, TypeOK, Procs
<1>2. /\ now' = now /\ disturbed' = disturbed /\ failed' = failed
      /\ ipRules' = ipRules /\ \A j \in IPs \ {i} : blockCache'[j] = blockCache[j]
      /\ \/ Goto(t, "exists") /\ call[t].pc = "cache" /\ blockCache' = blockCache
         \/ /\ Finish(t, "CONFIRMED") /\ blockCache'[i].exp = call[t].exp
            /\ call[t].pc = "cache" => Cached(i)
  BY <1>1 DEF CheckCache, CacheConfirmed, NoFault, kernel, manager, At, BlockRecords, NoRec
<1>3. CallsChange(t) /\ call'[t].ip = i
  BY <1>1, <1>2, GotoOp, FinishOp
<1>4. LocalStep(t, i)
  BY <1>2, <1>3 DEF LocalStep
<1>5. CASE i \notin Trusted'
  BY <1>1, <1>4, <1>5, UntrustedStep
<1>6. CASE i \in Trusted'
  <2>1. Caller(t, i)
    BY <1>1, <1>4, <1>6, CallerIs
  <2>2. Enforced(i)' <=> Enforced(i)
    BY <1>2 DEF Enforced, TotalRules
  <2>3. OpOf(call[t]) = [step |-> IF call[t].pc = "cache" THEN "block" ELSE "blocking",
                         ip |-> i, exp |-> call[t].exp]
    BY <1>1 DEF OpOf, BlockPCs
  <2>4. CASE Goto(t, "exists") /\ call[t].pc = "cache" /\ blockCache' = blockCache
    <3>1. OpOf(call'[t]) = OpOf(call[t])
      BY <1>1, <2>3, <2>4, GotoOp DEF OpOf, BlockPCs
    <3> QED
      BY <1>3, <2>1, <2>2, <2>4, <3>1, CallerStutters
  <2>5. CASE /\ Finish(t, "CONFIRMED") /\ blockCache'[i].exp = call[t].exp
             /\ call[t].pc = "cache" => Cached(i)
    <3>1. OpOf(call'[t]) = [step |-> "CONFIRMED", ip |-> i, exp |-> 0]
      BY <1>1, <2>5, FinishOp
    <3>2. Operations' = [Operations EXCEPT ![t] = [step |-> "CONFIRMED", ip |-> Operations[t].ip, exp |-> 0]]
      BY <1>3, <2>1, <2>3, <3>1 DEF Caller, TrustedStep
    <3>3. Enforced(i)
      BY <1>1, <2>1, <2>5 DEF Caller, Exact, InStep, Enforced
    <3>4. Dropped' = Dropped /\ i \in Dropped
      BY <2>1, <2>2, <3>3 DEF Caller, TrustedStep
    <3>5. Expiries' = [Expiries EXCEPT ![i] = Operations[t].exp]
      BY <2>1, <2>3, <2>5 DEF Caller, TrustedStep
    <3>6. /\ Operations[t].step \in {"block", "blocking"} /\ Operations[t].ip = i
          /\ Trusted' = Trusted
      BY <2>1, <2>3 DEF Caller, TrustedStep
    <3> QED
      BY <1>2, <3>2, <3>4, <3>5, <3>6 DEF Promise!Confirm, Promise!Answer
  <2> QED
    BY <1>2, <2>4, <2>5
<1> QED
  BY <1>5, <1>6

\* What a command of a block call does, seen from the other addresses.
LEMMA ApplyIsLocal ==
    ASSUME PromiseInv, NEW t \in Threads, NEW i, i = call[t].ip,
           RuleExists(t) \/ InsertRule(t) \/ InsertMac(t) \/ Verify(t)
    PROVE  /\ t \in Procs /\ i \in IPs /\ Active(t) /\ LocalStep(t, i)
           /\ call'[t].ip = i /\ blockCache' = blockCache /\ (InsertRule(t) \/ ipRules' = ipRules)
           /\ call[t].pc \in {"exists", "insert", "mac", "verify"}
           /\ ipRules \in [IPs -> [Chains -> Nat]] /\ call \in [Procs -> CallRecords] /\ Chain \in Chains
           /\ i \notin failed' => NoFault
<1>1. /\ t \in Procs /\ call \in [Procs -> CallRecords] /\ i \in IPs /\ Active(t)
      /\ ipRules \in [IPs -> [Chains -> Nat]] /\ Chain \in Chains
      /\ call[t].pc \in {"exists", "insert", "mac", "verify"}
  BY DEF RuleExists, InsertRule, InsertMac, Verify, At, Active, PromiseInv, TypeOK, Procs, Chain, Chains
<1>2. /\ now' = now /\ blockCache' = blockCache
      /\ NoFault \/ Fault(i)
      /\ \/ ipRules' = ipRules
         \/ InsertRule(t) /\ ipRules' = [ipRules EXCEPT ![i][call[t].chain] = @ + 1]
  BY DEF RuleExists, InsertRule, InsertMac, Verify, kernel, manager
<1>3. CallsChange(t) /\ call'[t].ip = i
  <2>1. CASE RuleExists(t) \/ InsertRule(t)
    BY <1>1, <2>1 DEF RuleExists, InsertRule, Goto, CallsChange, CallRecords
  <2>2. CASE InsertMac(t) \/ Verify(t)
    <3>1. (\E pc : Goto(t, pc)) \/ \E res : Finish(t, res)
      BY <2>2 DEF InsertMac, Verify
    <3> QED
      BY <1>1, <3>1, GotoOp, FinishOp
  <2> QED
    BY <2>1, <2>2
<1>4. /\ disturbed' = disturbed /\ failed' \in {failed, failed \cup {i}}
      /\ i \notin failed' => NoFault
  BY <1>2 DEF NoFault, Fault
<1>5. \A j \in IPs \ {i} : ipRules'[j] = ipRules[j]
  BY <1>1, <1>2
<1> QED
  BY <1>1, <1>2, <1>3, <1>4, <1>5 DEF LocalStep

\* A rule of its own is what puts a block in force; the other commands find
\* what they expect.
LEMMA ApplyRefines ==
    ASSUME PromiseInv, NEW t \in Threads,
           RuleExists(t) \/ InsertRule(t) \/ InsertMac(t) \/ Verify(t)
    PROVE  Promise!Enforce(t) \/ UNCHANGED Promise!bvars \/ Promise!Distrust
<1> PICK i : i = call[t].ip
  OBVIOUS
<1>1. /\ t \in Procs /\ i \in IPs /\ Active(t) /\ LocalStep(t, i)
      /\ call'[t].ip = i /\ blockCache' = blockCache /\ (InsertRule(t) \/ ipRules' = ipRules)
      /\ call[t].pc \in {"exists", "insert", "mac", "verify"}
      /\ ipRules \in [IPs -> [Chains -> Nat]] /\ call \in [Procs -> CallRecords] /\ Chain \in Chains
      /\ i \notin failed' => NoFault
  BY ApplyIsLocal
<1>2. CASE i \notin Trusted'
  BY <1>1, <1>2, UntrustedStep
<1>3. CASE i \in Trusted'
  <2>1. Caller(t, i) /\ i \notin failed' /\ i \notin failed /\ Exact(t, i)
    BY <1>1, <1>3, CallerIs DEF Caller, TrustedStep, Trusted
  <2>2. ~Fault(i)
    BY <2>1 DEF Fault
  <2>3. CASE InsertRule(t)
    <3>1. /\ ipRules' = [ipRules EXCEPT ![i][call[t].chain] = @ + 1] /\ Goto(t, "mac")
          /\ call[t].pc = "insert"
      BY <2>2, <2>3 DEF InsertRule, At
    <3>2. TotalRules(i) = 0 /\ call[t].chain \in Chains
      BY <1>1, <2>1, <3>1 DEF Exact, Chain, Chains
    <3>3. ~Enforced(i) /\ Enforced(i)'
      <4>1. /\ ipRules[i]["INPUT"] \in Nat /\ ipRules[i]["FORWARD"] \in Nat
            /\ ipRules[i]["INPUT"] + ipRules[i]["FORWARD"] = 0
        BY <1>1, <3>2 DEF TotalRules, Chains
      <4>2. ipRules'[i]["INPUT"] + ipRules'[i]["FORWARD"] = 1
        BY <1>1, <3>1, <3>2, <4>1 DEF Chains
      <4> QED
        BY <4>1, <4>2 DEF Enforced, TotalRules
    <3>4. /\ OpOf(call[t]) = [step |-> "block", ip |-> i, exp |-> call[t].exp]
          /\ OpOf(call'[t]) = [step |-> "blocking", ip |-> i, exp |-> call[t].exp]
      BY <1>1, <3>1, GotoOp DEF OpOf, BlockPCs
    <3>5. Operations' = [Operations EXCEPT ![t].step = "blocking"]
      <4>1. Operations[t] = [step |-> "block", ip |-> i, exp |-> call[t].exp]
        BY <2>1, <3>4 DEF Caller
      <4>2. Operations' = [Operations EXCEPT ![t] = OpOf(call'[t])]
        BY <1>1, <2>1 DEF Caller, TrustedStep
      <4>3. [Operations[t] EXCEPT !.step = "blocking"] = OpOf(call'[t])
        BY <3>4, <4>1
      <4> QED
        BY <4>2, <4>3 DEF Operations
    <3>6. Dropped' = Dropped \cup {i} /\ i \notin Dropped /\ Expiries' = Expiries
      BY <1>1, <2>1, <3>3 DEF Caller, TrustedStep, Expiries
    <3>7. /\ Operations[t].step = "block" /\ Operations[t].ip = i
          /\ Trusted' = Trusted /\ now' = now
      BY <2>1, <3>4 DEF Caller, TrustedStep
    <3> QED
      BY <3>5, <3>6, <3>7 DEF Promise!Enforce
  <2>4. CASE ~InsertRule(t)
    <3>1. ipRules' = ipRules
      BY <1>1, <2>4
    <3>2. Enforced(i)' <=> Enforced(i)
      BY <3>1 DEF Enforced, TotalRules
    <3>3. \/ call[t].pc = "exists" /\ call'[t].pc = "insert"
          \/ call[t].pc = "mac" /\ call'[t].pc = "verify"
          \/ call[t].pc = "verify" /\ call'[t].pc = "record"
      <4>1. CASE RuleExists(t)
        <5>1. TotalRules(i) = 0 /\ call[t].pc = "exists"
          BY <2>1, <4>1 DEF Exact, RuleExists, At
        <5>2. ipRules[i][Chain] = 0
          BY <1>1, <5>1 DEF TotalRules, Chains
        <5> QED
          BY <1>1, <2>2, <4>1, <5>1, <5>2 DEF RuleExists, NeedsInsert, RuleMissing, CallRecords
      <4>2. CASE InsertMac(t)
        <5>1. call[t].ok /\ call[t].pc = "mac"
          BY <2>1, <4>2 DEF Exact, InsertMac, At
        <5> QED
          BY <1>1, <4>2, <5>1, GotoOp DEF InsertMac
      <4>3. CASE Verify(t)
        <5>1. ipRules[i][Chain] = 1 /\ call[t].pc = "verify"
          BY <2>1, <4>3 DEF Exact, Verify, At
        <5>2. Goto(t, "record")
          BY <2>2, <4>3, <5>1 DEF Verify, RuleMissing
        <5> QED
          BY <1>1, <5>1, <5>2, GotoOp
      <4> QED
        BY <2>4, <4>1, <4>2, <4>3
    <3>4. call'[t].exp = call[t].exp
      <4>1. CASE RuleExists(t)
        BY <1>1, <2>2, <4>1 DEF RuleExists, CallRecords
      <4>2. CASE InsertMac(t) \/ Verify(t)
        <5>1. \/ Goto(t, "verify") \/ Goto(t, "record") \/ Finish(t, "FAILED")
          BY <4>2 DEF InsertMac, Verify
        <5>2. ~Finish(t, "FAILED")
          BY <1>1, <3>3 DEF Finish, NewCall
        <5> QED
          BY <1>1, <5>1, <5>2, GotoOp
      <4> QED
        BY <2>4, <4>1, <4>2
    <3>5. OpOf(call'[t]) = OpOf(call[t])
      BY <1>1, <3>3, <3>4 DEF OpOf, BlockPCs
    <3> QED
      BY <1>1, <2>1, <3>2, <3>5, CallerStutters
  <2> QED
    BY <2>3, <2>4
<1> QED
  BY <1>2, <1>3

\* What a step of a removal does, seen from the other addresses.
LEMMA RemoveIsLocal ==
    ASSUME PromiseInv, NEW p \in Procs, NEW i, i = call[p].ip, RemoveStep(p)
    PROVE  /\ i \in IPs /\ Active(p) /\ LocalStep(p, i) /\ call[p].pc \in RemovePCs
           /\ call \in [Procs -> CallRecords]
           /\ \/ /\ DropCache(p) /\ ipRules' = ipRules /\ call[p].pc = "drop"
                 /\ blockCache'[i] = NoRec
                 /\ IF p = Sweeper THEN call' = [call EXCEPT ![p] = NoCall] ELSE Finish(p, "UNBLOCKED")
              \/ /\ (Enforced(i)' => Enforced(i)) /\ blockCache' = blockCache
                 /\ \E pc \in RemovePCs : Goto(p, pc)
<1>1. /\ call \in [Procs -> CallRecords] /\ i \in IPs /\ Active(p) /\ call[p].pc \in RemovePCs
      /\ ipRules \in [IPs -> [Chains -> Nat]] /\ blockCache \in [IPs -> BlockRecords \cup {NoRec}]
  BY DEF RemoveStep, RemoveInput, RemoveForward, RemoveFrom, RemoveMac, DropCache, RemovePCs,
         At, Active, PromiseInv, TypeOK
<1>2. CASE DropCache(p)
  <2>1. /\ ipRules' = ipRules /\ call[p].pc = "drop" /\ now' = now
        /\ disturbed' = disturbed /\ failed' = failed
        /\ blockCache' = [blockCache EXCEPT ![i] = NoRec]
        /\ IF p = Sweeper THEN call' = [call EXCEPT ![p] = NoCall] ELSE Finish(p, "UNBLOCKED")
    BY <1>2 DEF DropCache, Forget, NoFault, At, kernel
  <2>2. CallsChange(p) /\ call'[p].ip \in {i, NoIP}
    <3>1. CASE p = Sweeper
      BY <1>1, <2>1, <3>1 DEF CallsChange, NoCall, NewCall
    <3>2. CASE p # Sweeper
      BY <1>1, <2>1, <3>2, FinishOp
    <3> QED
      BY <3>1, <3>2
  <2>3. blockCache'[i] = NoRec /\ \A j \in IPs \ {i} : blockCache'[j] = blockCache[j]
    BY <1>1, <2>1
  <2> QED
    BY <1>1, <1>2, <2>1, <2>2, <2>3 DEF LocalStep
<1>3. CASE ~DropCache(p)
  <2>1. /\ now' = now /\ blockCache' = blockCache /\ (NoFault \/ Fault(i))
        /\ \E pc \in RemovePCs : Goto(p, pc)
        /\ \/ ipRules' = ipRules
           \/ \E c \in Chains : ipRules' = [ipRules EXCEPT ![i][c] = IF @ > 0 THEN @ - 1 ELSE 0]
    BY <1>3 DEF RemoveStep, RemoveInput, RemoveForward, RemoveFrom, RemoveMac, DeleteRule, RemovePCs,
                Chains, kernel, manager
  <2>2. CallsChange(p) /\ call'[p].ip = i
    BY <1>1, <2>1, GotoOp
  <2>3. /\ \A j \in IPs \ {i} : ipRules'[j] = ipRules[j]
        /\ \A c \in Chains : ipRules'[i][c] \in Nat /\ ipRules'[i][c] <= ipRules[i][c]
    <3>1. CASE ipRules' = ipRules
      BY <1>1, <3>1
    <3>2. ASSUME NEW c \in Chains, ipRules' = [ipRules EXCEPT ![i][c] = IF @ > 0 THEN @ - 1 ELSE 0]
          PROVE  <2>3
      <4>1. ipRules[i] \in [Chains -> Nat]
        BY <1>1
      <4>2. /\ \A j \in IPs \ {i} : ipRules'[j] = ipRules[j]
            /\ ipRules'[i] = [ipRules[i] EXCEPT ![c] = IF @ > 0 THEN @ - 1 ELSE 0]
        BY <1>1, <3>2
      <4> QED
        BY <4>1, <4>2
    <3> QED
      BY <2>1, <3>1, <3>2
  <2>4. Enforced(i)' => Enforced(i)
    BY <1>1, <2>3 DEF Enforced, TotalRules, Chains
  <2>5. disturbed' = disturbed /\ failed' \in {failed, failed \cup {i}}
    BY <2>1 DEF NoFault, Fault
  <2> QED
    BY <1>1, <2>1, <2>2, <2>3, <2>4, <2>5 DEF LocalStep
<1> QED
  BY <1>2, <1>3

\* What the sweeper removes is past its expiry, and nobody works on it.
LEMMA SweptIsPast ==
    ASSUME PromiseInv, NEW i \in Trusted, Works(Sweeper, i)
    PROVE  Promise!Past(i) /\ Promise!Free(i)
<1>1. i \in IPs /\ AddressInv(i) /\ Sweeper \in Procs
  BY DEF Trusted, PromiseInv, UndisturbedInv, Procs
<1>2. Promise!Past(i)
  <2>1. Cached(i) /\ now > blockCache[i].exp
    BY <1>1 DEF AddressInv, CacheBacked, Expired
  <2>2. /\ blockCache[i] \in BlockRecords /\ now \in Int
    BY <1>1, <2>1 DEF Cached, PromiseInv, TypeOK
  <2>3. Expiries[i] = blockCache[i].exp
    BY <1>1 DEF Expiries
  <2> QED
    BY <2>1, <2>2, <2>3, TimeAssumption DEF BlockRecords, Times, Promise!Past, Promise!Never
<1>3. ASSUME NEW t \in Threads, Operations[t].ip = i PROVE FALSE
  <2>1. call[t].ip = i
    BY <1>1, <1>3, OperationAddress
  <2>2. Works(t, i) /\ t \in Procs /\ t # Sweeper
    BY <2>1, OperationOf
  <2> QED
    BY <1>1, <2>2 DEF AddressInv, OneOperation
<1> QED
  BY <1>2, <1>3 DEF Promise!Free

\* A removal takes the last rule, then forgets the entry.
LEMMA RemoveRefines ==
    ASSUME PromiseInv, NEW p \in Procs, RemoveStep(p)
    PROVE  \/ p \in Threads /\ (Promise!Lift(p) \/ Promise!Unblocked(p))
           \/ \E ip \in IPs : Promise!Expire(ip) \/ Promise!ForgetExpired(ip)
           \/ UNCHANGED Promise!bvars \/ Promise!Distrust
<1> PICK i : i = call[p].ip
  OBVIOUS
<1>1. /\ i \in IPs /\ Active(p) /\ LocalStep(p, i) /\ call[p].pc \in RemovePCs
      /\ call \in [Procs -> CallRecords]
      /\ \/ /\ DropCache(p) /\ ipRules' = ipRules /\ call[p].pc = "drop"
            /\ blockCache'[i] = NoRec
            /\ IF p = Sweeper THEN call' = [call EXCEPT ![p] = NoCall] ELSE Finish(p, "UNBLOCKED")
         \/ /\ (Enforced(i)' => Enforced(i)) /\ blockCache' = blockCache
            /\ \E pc \in RemovePCs : Goto(p, pc)
  BY RemoveIsLocal
<1>2. CASE i \notin Trusted'
  BY <1>1, <1>2, UntrustedStep
<1>3. CASE i \in Trusted'
  <2>1. TrustedStep(p, i) /\ i \in Trusted /\ i \notin failed /\ Works(p, i)
    BY <1>1, <1>3, TrustedStepIs DEF TrustedStep, Works
  <2>2. (i \in Dropped <=> Enforced(i)) /\ Expiries[i] = blockCache[i].exp
    BY <1>1, <2>1 DEF Dropped, Expiries
  <2>3. p = Sweeper => Promise!Past(i) /\ Promise!Free(i)
    BY <2>1, SweptIsPast
  <2>4. p \in Threads => /\ Operations[p] = OpOf(call[p])
                         /\ OpOf(call[p]) = [step |-> "unblock", ip |-> i, exp |-> 0]
    <3>1. ASSUME p \in Threads PROVE call[p].exp = 0
      BY <1>1, <3>1 DEF PromiseInv, Shapes, Shape
    <3>2. OpOf(call[p]) = [step |-> "unblock", ip |-> i, exp |-> call[p].exp]
      BY <1>1 DEF OpOf, BlockPCs, RemovePCs
    <3> QED
      BY <2>1, <3>1, <3>2 DEF Operations
  <2>5. CASE /\ (Enforced(i)' => Enforced(i)) /\ blockCache' = blockCache
             /\ \E pc \in RemovePCs : Goto(p, pc)
    <3>1. Operations' = Operations
      <4>1. ASSUME p \in Threads PROVE call'[p].ip = i /\ OpOf(call'[p]) = OpOf(call[p])
        <5>1. /\ call'[p].ip = i /\ call'[p].pc \in RemovePCs
              /\ call'[p].exp = call[p].exp
          BY <1>1, <2>5, GotoOp
        <5> QED
          BY <1>1, <5>1 DEF OpOf, BlockPCs, RemovePCs
      <4> QED
        BY <2>1, <2>4, <4>1 DEF TrustedStep, Operations
    <3>2. Expiries' = Expiries
      BY <2>1, <2>5 DEF TrustedStep, Expiries
    <3>3. CASE Enforced(i)'
      <4>1. Dropped' = Dropped
        BY <2>1, <2>2, <2>5, <3>3 DEF TrustedStep
      <4> QED
        BY <2>1, <3>1, <3>2, <4>1 DEF TrustedStep, Promise!bvars
    <3>4. CASE ~Enforced(i)'
      <4>1. Dropped' = Dropped \ {i}
        BY <2>1, <3>4 DEF TrustedStep
      <4>2. CASE p \in Threads
        BY <2>1, <2>4, <3>1, <3>2, <4>1, <4>2 DEF TrustedStep, Promise!Lift
      <4>3. CASE p = Sweeper
        BY <1>1, <2>1, <2>3, <3>1, <3>2, <4>1, <4>3 DEF TrustedStep, Promise!Expire
      <4> QED
        BY <4>2, <4>3 DEF Procs
    <3> QED
      BY <3>3, <3>4
  <2>6. CASE /\ ipRules' = ipRules /\ call[p].pc = "drop" /\ blockCache'[i] = NoRec
             /\ IF p = Sweeper THEN call' = [call EXCEPT ![p] = NoCall] ELSE Finish(p, "UNBLOCKED")
    <3>1. ~Enforced(i) /\ (Enforced(i)' <=> Enforced(i))
      <4>1. Exact(p, i)
        BY <1>1, <2>1 DEF PromiseInv, UndisturbedInv, AddressInv, TableExact, Trusted
      <4> QED
        BY <2>6, <4>1 DEF Exact, Enforced, TotalRules
    <3>2. Dropped' = Dropped /\ i \notin Dropped
      BY <2>1, <2>2, <3>1 DEF TrustedStep
    <3>3. Expiries' = [Expiries EXCEPT ![i] = Promise!Never]
      BY <2>1, <2>6 DEF TrustedStep, NoRec, Promise!Never
    <3>4. CASE p \in Threads
      <4>1. /\ OpOf(call'[p]) = [step |-> "UNBLOCKED", ip |-> i, exp |-> 0]
            /\ call'[p].ip = i
        BY <1>1, <2>6, <3>4, FinishOp, ThreadsAssumption
      <4>2. Operations' = [Operations EXCEPT ![p] = [step |-> "UNBLOCKED", ip |-> Operations[p].ip, exp |-> 0]]
        <5>1. Operations' = [Operations EXCEPT ![p] = OpOf(call'[p])]
          BY <2>1, <3>4, <4>1 DEF TrustedStep
        <5>2. Operations[p].ip = i
          BY <2>4, <3>4
        <5> QED
          BY <4>1, <5>1, <5>2
      <4>3. /\ Operations[p].step = "unblock" /\ Operations[p].ip = i
            /\ Trusted' = Trusted /\ now' = now
        BY <2>1, <2>4, <3>4 DEF TrustedStep
      <4> QED
        BY <3>2, <3>3, <3>4, <4>2, <4>3 DEF Promise!Unblocked, Promise!Answer
    <3>5. CASE p = Sweeper
      <4>1. Operations' = Operations
        BY <2>1, <3>5, ThreadsAssumption DEF TrustedStep
      <4> QED
        BY <1>1, <2>1, <2>3, <3>2, <3>3, <3>5, <4>1 DEF TrustedStep, Promise!ForgetExpired
    <3> QED
      BY <3>4, <3>5 DEF Procs
  <2> QED
    BY <1>1, <2>5, <2>6
<1> QED
  BY <1>2, <1>3

\* The caller takes the answer.
LEMMA ReturnRefines ==
    ASSUME PromiseInv, NEW t \in Threads, Return(t)
    PROVE  Promise!TakeAnswer(t) \/ Promise!Distrust
<1> PICK i : i = call[t].ip
  OBVIOUS
<1>1. /\ t \in Procs /\ call \in [Procs -> CallRecords] /\ call[t].pc = "done"
      /\ i \in IPs /\ Active(t)
      /\ call[t].exp = 0 /\ call[t].res \in {"FAILED", "REQUESTED", "CONFIRMED", "UNBLOCKED"}
  BY DEF Return, At, Active, PromiseInv, TypeOK, Procs, Shapes, Shape
<1>2. /\ now' = now /\ disturbed' = disturbed /\ failed' = failed
      /\ ipRules' = ipRules /\ blockCache' = blockCache
      /\ CallsChange(t) /\ call'[t].ip = NoIP
  BY <1>1 DEF Return, NoFault, kernel, manager, CallsChange, NoCall, NewCall
<1>3. LocalStep(t, i)
  BY <1>2 DEF LocalStep
<1>4. CASE i \notin Trusted'
  BY <1>1, <1>3, <1>4, UntrustedStep
<1>5. CASE i \in Trusted'
  <2>1. Caller(t, i)
    BY <1>1, <1>3, <1>5, CallerIs
  <2>2. Dropped' = Dropped /\ Expiries' = Expiries
    <3>1. Enforced(i)' <=> Enforced(i)
      BY <1>2 DEF Enforced, TotalRules
    <3> QED
      BY <1>2, <2>1, <3>1 DEF Caller, TrustedStep, Expiries
  <2>3. Operations[t].step \in Promise!Answers
    BY <1>1, <2>1 DEF Caller, OpOf, BlockPCs, RemovePCs, Promise!Answers
  <2>4. Operations' = [Operations EXCEPT ![t] = Promise!NoOp]
    <3>1. NoIP # i
      BY <1>1, AddressesAssumption
    <3> QED
      BY <1>2, <2>1, <3>1 DEF Caller, TrustedStep, NoOp, Promise!NoOp
  <2> QED
    BY <2>1, <2>2, <2>3, <2>4 DEF Caller, TrustedStep, Promise!TakeAnswer
<1> QED
  BY <1>4, <1>5

\* A call begins, on a trusted address that nothing works on, or is not spoken of.
LEMMA StartRefines ==
    ASSUME PromiseInv, NEW t \in Threads, NEW i \in IPs, NEW mac \in MacOrNone,
           BlockStart(t, i, mac) \/ UnblockStart(t, i, mac)
    PROVE  Promise!AskBlock(t, i) \/ Promise!AskUnblock(t, i) \/ Promise!Distrust
<1> PICK c : /\ call' = [call EXCEPT ![t] = c]
             /\ c.ip = i
             /\ \/ BlockStart(t, i, mac) /\ OpOf(c) = [step |-> "block", ip |-> i, exp |-> now + TTL]
                \/ UnblockStart(t, i, mac) /\ OpOf(c) = [step |-> "unblock", ip |-> i, exp |-> 0]
  <2>1. CASE BlockStart(t, i, mac)
    <3>1. OpOf(NewCall("safe", i, mac, now + TTL, "NONE")) = [step |-> "block", ip |-> i, exp |-> now + TTL]
      BY DEF NewCall, OpOf, BlockPCs
    <3>2. NewCall("safe", i, mac, now + TTL, "NONE").ip = i
      BY DEF NewCall
    <3> QED
      BY <2>1, <3>1, <3>2 DEF BlockStart
  <2>2. CASE UnblockStart(t, i, mac)
    <3>1. OpOf(NewCall("delInput", i, mac, 0, "NONE")) = [step |-> "unblock", ip |-> i, exp |-> 0]
      BY DEF NewCall, OpOf, BlockPCs, RemovePCs
    <3>2. NewCall("delInput", i, mac, 0, "NONE").ip = i
      BY DEF NewCall
    <3> QED
      BY <2>2, <3>1, <3>2 DEF UnblockStart
  <2> QED
    BY <2>1, <2>2
<1>1. /\ t \in Procs /\ call \in [Procs -> CallRecords] /\ call[t].pc = "idle"
      /\ call[t].ip \notin IPs /\ Operations[t] = Promise!NoOp
  <2>1. call[t].pc = "idle"
    BY DEF BlockStart, UnblockStart, At
  <2>2. Promise!NoOp = NoOp
    BY DEF Promise!NoOp, NoOp
  <2> QED
    BY <2>1, <2>2, OperationOf
<1>2. /\ now' = now /\ failed' = failed /\ ipRules' = ipRules /\ blockCache' = blockCache
      /\ disturbed' = IF Busy(i) THEN disturbed \cup {i} ELSE disturbed
  BY DEF BlockStart, UnblockStart, kernel, manager
<1>3. \A ip \in IPs : (Enforced(ip)' <=> Enforced(ip)) /\ blockCache'[ip] = blockCache[ip]
  BY <1>2 DEF Enforced, TotalRules
<1>4. Trusted' \subseteq Trusted /\ Trusted' \subseteq IPs
  BY <1>2 DEF Trusted
<1>5. call'[t] = c /\ \A u \in Threads \ {t} : call'[u] = call[u]
  BY <1>1 DEF Procs
<1>6. CASE i \notin Trusted'
  <2>1. \A u \in Threads :
           IF call[u].ip \in Trusted' THEN call'[u].ip = call[u].ip /\ OpOf(call'[u]) = OpOf(call[u])
                                      ELSE call'[u].ip \notin Trusted'
    BY <1>1, <1>4, <1>5, <1>6
  <2> QED
    BY <1>2, <1>3, <1>4, <2>1, Distrusts
<1>7. CASE i \in Trusted'
  <2>1. ~Busy(i) /\ Trusted' = Trusted /\ i \in Trusted
    BY <1>2, <1>7 DEF Trusted
  <2>2. Promise!Free(i)
    <3>1. ASSUME NEW u \in Threads, Operations[u].ip = i PROVE FALSE
      <4>1. call[u].ip = i
        BY <2>1, <3>1, OperationAddress DEF Trusted
      <4>2. Works(u, i) /\ u \in Procs
        BY <2>1, <4>1, OperationOf
      <4> QED
        BY <2>1, <4>2 DEF Busy, Works
    <3> QED
      BY <3>1 DEF Promise!Free
  <2>3. Dropped' = Dropped /\ Expiries' = Expiries
    BY <1>2, <1>3, <2>1 DEF Dropped, Expiries, Trusted
  <2>4. Operations' = [Operations EXCEPT ![t] = OpOf(c)]
    <3>1. Operations'[t] = OpOf(c)
      <4>1. call'[t].ip \in Trusted'
        BY <1>5, <1>7
      <4> QED
        BY ONLY <1>5, <4>1, t \in Threads DEF Operations
    <3>2. \A u \in Threads \ {t} : Operations'[u] = Operations[u]
      BY ONLY <1>5, <2>1 DEF Operations
    <3> QED
      BY ONLY <3>1, <3>2 DEF Operations
  <2> QED
    BY <1>1, <1>2, <2>1, <2>2, <2>3, <2>4 DEF Promise!AskBlock, Promise!AskUnblock
<1> QED
  BY <1>6, <1>7

\* The sweeper's passes and the operator's edits; the clock; a crash.
LEMMA OthersRefine ==
    ASSUME PromiseInv, SweepCollect \/ SweepNext \/ OperatorStep \/ Tick \/ Restart
    PROVE  Promise!Distrust \/ Promise!Pass \/ Promise!Crash
<1>1. CASE SweepCollect \/ SweepNext \/ OperatorStep
  <2>1. /\ now' = now /\ failed' = failed /\ ipRules' = ipRules /\ blockCache' = blockCache
        /\ disturbed \subseteq disturbed'
    BY <1>1 DEF SweepCollect, SweepNext, OperatorStep, OperatorEdit, AddAllowlist, RemoveAllowlist,
                SetSecMode, SetDeploy, ReloadGateway, NoFault, kernel, manager
  <2>2. \A t \in Threads : call'[t] = call[t]
    <3>1. CASE SweepNext
      BY <3>1, ThreadsAssumption DEF SweepNext, PromiseInv, TypeOK, Procs
    <3>2. CASE SweepCollect \/ OperatorStep
      BY <3>2 DEF SweepCollect, OperatorStep, OperatorEdit, AddAllowlist, RemoveAllowlist,
                  SetSecMode, SetDeploy, ReloadGateway
    <3> QED
      BY <1>1, <3>1, <3>2
  <2>3. Trusted' \subseteq Trusted
    BY <2>1 DEF Trusted
  <2>4. \A ip \in Trusted' : (Enforced(ip)' <=> Enforced(ip)) /\ blockCache'[ip] = blockCache[ip]
    BY <2>1 DEF Enforced, TotalRules
  <2> QED
    BY <2>1, <2>2, <2>3, <2>4, Distrusts
<1>2. CASE Tick
  <2>1. /\ now' = now + 1 /\ failed' = failed /\ disturbed' = disturbed
        /\ ipRules' = ipRules /\ blockCache' = blockCache /\ call' = call
    BY <1>2 DEF Tick, kernel, manager
  <2>2. Trusted' = Trusted /\ Dropped' = Dropped /\ Expiries' = Expiries /\ Operations' = Operations
    BY <2>1 DEF Trusted, Dropped, Expiries, Operations, Enforced, TotalRules
  <2> QED
    BY <2>1, <2>2 DEF Promise!Pass
<1>3. CASE Restart
  <2>1. /\ now' = now /\ disturbed' = disturbed /\ ipRules' = ipRules
        /\ failed' = failed \cup {ip \in IPs : Enforced(ip) \/ Busy(ip)}
        /\ blockCache' = [ip \in IPs |-> NoRec] /\ call' = [p \in Procs |-> NoCall]
    BY <1>3 DEF Restart, kernel
  <2>2. Trusted' = {ip \in Trusted : ~Enforced(ip) /\ ~Busy(ip)}
    BY <2>1 DEF Trusted
  <2>3. Trusted' \subseteq {ip \in Trusted \ Dropped : Promise!Free(ip)}
    <3> SUFFICES ASSUME NEW i \in Trusted' PROVE i \in Trusted \ Dropped /\ Promise!Free(i)
      OBVIOUS
    <3>1. i \in Trusted /\ ~Enforced(i) /\ ~Busy(i) /\ i \in IPs
      BY <2>2 DEF Trusted
    <3>2. ASSUME NEW u \in Threads, Operations[u].ip = i PROVE FALSE
      <4>1. call[u].ip = i
        BY <3>1, <3>2, OperationAddress
      <4>2. Works(u, i) /\ u \in Procs
        BY <3>1, <4>1, OperationOf
      <4> QED
        BY <3>1, <4>2 DEF Busy, Works
    <3> QED
      BY <3>1, <3>2 DEF Promise!Free, Dropped
  <2>4. Dropped' = {}
    BY <2>1, <2>2 DEF Dropped, Enforced, TotalRules
  <2>5. Expiries' = [ip \in IPs |-> Promise!Never]
    BY <2>1 DEF Expiries, NoRec, Promise!Never
  <2>6. Operations' = [t \in Threads |-> Promise!NoOp]
    BY <2>1, AddressesAssumption
       DEF Operations, NoCall, NewCall, Trusted, NoOp, Promise!NoOp, Procs
  <2> QED
    BY <2>1, <2>3, <2>4, <2>5, <2>6 DEF Promise!Crash
<1> QED
  BY <1>1, <1>2, <1>3

\* The manager starts as Blocking does.
LEMMA PromiseInit ==
    ASSUME Init
    PROVE  Shapes /\ Promise!BInit
<1>1. \A t \in Threads : call[t] = NoCall
  BY DEF Init, Procs
<1>2. Shapes
  <2>1. Shape(NoCall)
    BY DEF Shape, NoCall, NewCall, RemovePCs
  <2> QED
    BY <1>1, <2>1 DEF Shapes
<1>3. Trusted = IPs /\ Dropped = {}
  BY DEF Init, Trusted, Dropped, Enforced, TotalRules, Chains
<1>4. Expiries = [ip \in IPs |-> Promise!Never]
  BY DEF Init, Expiries, NoRec, Promise!Never
<1>5. Operations = [t \in Threads |-> Promise!NoOp]
  BY <1>1, AddressesAssumption DEF Operations, NoCall, NewCall, Trusted, NoOp, Promise!NoOp
<1> QED
  BY <1>2, <1>3, <1>4, <1>5 DEF Init, Promise!BInit

\* Each step of the manager is one of Blocking, distrusts an address, or is not seen.
LEMMA PromiseStep ==
    ASSUME PromiseInv, [ManagerNext]_vars
    PROVE  [Promise!BNext]_(Promise!bvars)
<1>1. CASE UNCHANGED vars
  BY <1>1 DEF vars, kernel, manager, Promise!bvars, Trusted, Dropped, Expiries, Operations, Enforced,
              TotalRules
<1>2. ASSUME NEW t \in Threads, NEW ip \in IPs, NEW mac \in MacOrNone,
             BlockStart(t, ip, mac) \/ UnblockStart(t, ip, mac)
      PROVE  Promise!BNext
  BY <1>2, StartRefines DEF Promise!BNext
<1>3. ASSUME NEW t \in Threads, BlockStep(t) PROVE [Promise!BNext]_(Promise!bvars)
  BY <1>3, ReadRefines, ConfirmRefines, ApplyRefines DEF BlockStep, Promise!BNext
<1>4. ASSUME NEW t \in Threads, Return(t) PROVE Promise!BNext
  BY <1>4, ReturnRefines DEF Promise!BNext
<1>5. ASSUME NEW p \in Procs, RemoveStep(p) PROVE [Promise!BNext]_(Promise!bvars)
  BY <1>5, RemoveRefines DEF Promise!BNext
<1>6. CASE SweepCollect \/ SweepNext \/ OperatorStep \/ Tick \/ Restart
  BY <1>6, OthersRefine DEF Promise!BNext
<1> QED
  BY <1>1, <1>2, <1>3, <1>4, <1>5, <1>6 DEF ManagerNext

\* The manager, whatever its callers do, keeps what Blocking promises of every
\* address whose operations neither overlap nor fail.
THEOREM ImplementsBlocking == Spec => KeepsPromise
<1>1. PromiseInv /\ [Next]_vars => [Promise!BNext]_(Promise!bvars)
  BY PromiseStep, NextIsManagerNext
<1>2. TypeOK /\ UndisturbedInv /\ Shapes => PromiseInv
  BY DEF PromiseInv
<1>3. TypeOK /\ Shapes /\ [Next]_vars => Shapes'
  BY ShapesStep, NextIsManagerNext
<1>4. Init => Shapes /\ Promise!BInit
  BY PromiseInit
<1> QED
  BY <1>1, <1>2, <1>3, <1>4, TypeCorrect, UndisturbedInit, UndisturbedStep, NextIsManagerNext, PTL
     DEF Spec, KeepsPromise, Promise!BlockingSpec

-------------------------------------------------------------------------------
(* Prevention *)

\* What a handler is working on.
JobRecords ==
    [at : Stages, ip : IPs \cup {NoIP}, mac : MacOrNone, rules : SUBSET Rules, cur : Times,
     mode : SecModes \cup {"IDS"}]

JobOK ==
    /\ job \in [Threads -> JobRecords]
    /\ \A t \in Threads : job[t].at # "idle" => job[t].ip \in IPs
    /\ \A t \in Threads : job[t].at \in {"arrived", "roaming", "analyze"} => job[t].rules = PacketRules

\* The call a thread is in is the one its handler made.
CallOfJob(t) ==
    /\ job[t].at = "idle" => ~Active(t)
    /\ job[t].at \in {"roaming", "apiBlock", "apiUnblock"} => Active(t)
    /\ Active(t) =>
         /\ call[t].ip = job[t].ip
         /\ job[t].at # "apiUnblock" => call[t].pc \in BlockPCs \cup {"done"}
         /\ job[t].at = "apiUnblock" => /\ call[t].pc \in RemovePCs \cup {"done"}
                                        /\ call[t].res # "CONFIRMED"
CallsOfJobs == \A t \in Threads : CallOfJob(t)

\* A reading of the clock that is still used is at most MaxLag old.
FreshClocks == \A t \in Threads : UsesClock(t) => job[t].cur <= now /\ now - job[t].cur <= MaxLag

AppStateOK ==
    /\ BlockedIPs \in [IPs -> [mac : MacOrNone, confirmed : BOOLEAN, exp : Times] \cup {NoEntry}]
    /\ BlockedMACs \in [MACs -> Times \cup {Never}]
    /\ LastAlertTimes \in [IPs \X Rules -> Times \cup {Never}]
    /\ lastAlert \in [IPs \X Rules -> Times \cup {Never}]
    /\ Devices \subseteq IPs \X MacOrNone /\ capture \in {"frames", "queued"}
    /\ requests \in 0 .. MaxRequests
    /\ expired \subseteq IPs \X MacOrNone

\* The last alert is the one the throttle remembers, or is too old to matter.
StampsKept ==
    \A k \in IPs \X Rules :
        LastAlertTimes[k] = Never /\ lastAlert[k] # Never => now - lastAlert[k] > Retain
StampsTrue ==
    \A k \in IPs \X Rules : LastAlertTimes[k] # Never => LastAlertTimes[k] = lastAlert[k]

Counted == unanswered \in Nat /\ BlocksAccounted

\* No expiry is later than a block that starts now would have.
ExpiriesBounded ==
    /\ \A t \in Threads : call[t].exp <= now + TTL
    /\ \A ip \in IPs : Cached(ip) => blockCache[ip].exp <= now + TTL

\* A block that goes through makes the cached entry of its address last at least
\* as long as the entry its handler will write.
CallBacked(t, ip) ==
    /\ call[t].pc \in BlockPCs =>
         /\ Cached(ip) => call[t].exp >= blockCache[ip].exp
         /\ job[t].at \in Alerting => call[t].exp >= job[t].cur + TTL
    /\ call[t].pc = "done" /\ call[t].res = "CONFIRMED" /\ job[t].at \in Alerting =>
         Cached(ip) /\ blockCache[ip].exp >= job[t].cur + TTL

\* A confirmed entry is in the manager's cache at least as long, unless it is
\* about to be deleted.
EntryBacked(ip) ==
    /\ BlockedIPs[ip].confirmed /\ now <= BlockedIPs[ip].exp =>
         \/ Cached(ip) /\ blockCache[ip].exp >= BlockedIPs[ip].exp
         \/ \E t \in Threads : Works(t, ip) /\ job[t].at = "apiUnblock"
    /\ \A t \in Threads : Works(t, ip) => CallBacked(t, ip)

EntriesBacked == \A ip \in IPs \ disturbed : EntryBacked(ip)

-------------------------------------------------------------------------------
(* The firewall under the handlers *)

\* A call takes a step, from one command to the next or to its result.
Progress(t) ==
    /\ Active(t) /\ Active(t)' /\ call'[t].ip = call[t].ip
    /\ \/ /\ call[t].pc \in BlockPCs /\ call'[t].pc \in BlockPCs
          /\ call'[t].exp = call[t].exp /\ call'[t].res = call[t].res
       \/ /\ call[t].pc \in RemovePCs /\ call'[t].pc \in RemovePCs
          /\ call'[t].exp = call[t].exp /\ call'[t].res = call[t].res
       \/ /\ call'[t].pc = "done" /\ call'[t].exp = 0 /\ call[t].pc # "done"
          /\ call[t].pc \in RemovePCs => call'[t].res = "UNBLOCKED"

\* The steps of the manager that no handler takes part in.
ManagerInner ==
    \/ \E t \in Threads : BlockStep(t) \/ RemoveStep(t)
    \/ SweeperStep \/ OperatorStep \/ Tick

CallsProgress == \A t \in Threads : call'[t] = call[t] \/ Progress(t)

LEMMA GotoProgress ==
    ASSUME call \in [Procs -> CallRecords], NEW t \in Threads, NEW pc, Goto(t, pc),
           \/ call[t].pc \in BlockPCs /\ pc \in BlockPCs
           \/ call[t].pc \in RemovePCs /\ pc \in RemovePCs
    PROVE  CallsProgress
<1>1. /\ \A u \in Threads \ {t} : call'[u] = call[u]
      /\ call'[t].pc = pc /\ call'[t].ip = call[t].ip
      /\ call'[t].exp = call[t].exp /\ call'[t].res = call[t].res
  BY DEF Goto, CallRecords, Procs
<1> QED
  BY <1>1 DEF CallsProgress, Progress, Active, BlockPCs, RemovePCs

LEMMA FinishProgress ==
    ASSUME call \in [Procs -> CallRecords], NEW t \in Threads, NEW res, Finish(t, res),
           call[t].pc \notin {"idle", "done"}, call[t].pc \in RemovePCs => res = "UNBLOCKED"
    PROVE  CallsProgress
<1>1. /\ \A u \in Threads \ {t} : call'[u] = call[u]
      /\ call'[t].pc = "done" /\ call'[t].ip = call[t].ip /\ call'[t].exp = 0 /\ call'[t].res = res
  BY DEF Finish, NewCall, Procs
<1> QED
  BY <1>1 DEF CallsProgress, Progress, Active

LEMMA InnerProgress ==
    ASSUME TypeOK, ManagerInner
    PROVE  CallsProgress
<1>1. call \in [Procs -> CallRecords] /\ Threads \subseteq Procs /\ Sweeper \notin Threads
  BY ThreadsAssumption DEF TypeOK, Procs
<1>2. ASSUME NEW t \in Threads, BlockStep(t) PROVE CallsProgress
  <2>1. /\ {"mode", "cache", "exists", "insert", "mac", "verify", "record"} \subseteq BlockPCs
        /\ BlockPCs \cap RemovePCs = {} /\ "idle" \notin BlockPCs /\ "done" \notin BlockPCs
    BY DEF BlockPCs, RemovePCs
  <2>2. call[t].pc \in BlockPCs
    BY <1>2 DEF BlockStep, CheckSafe, CheckMode, CheckCache, RuleExists, InsertRule, InsertMac,
           Verify, CacheConfirmed, At, BlockPCs
  <2>3. CASE RuleExists(t)
    <3>1. PICK pc \in {"insert", "mac"} :
             call' = [call EXCEPT ![t] = [call[t] EXCEPT !.chain = Chain, !.pc = pc]]
      BY <1>1, <2>3 DEF RuleExists
    <3>2. /\ \A u \in Threads \ {t} : call'[u] = call[u]
          /\ call'[t].pc = pc /\ call'[t].ip = call[t].ip
          /\ call'[t].exp = call[t].exp /\ call'[t].res = call[t].res
      BY <1>1, <3>1 DEF CallRecords
    <3> QED
      BY <2>1, <2>2, <3>2 DEF CallsProgress, Progress, Active
  <2>4. CASE InsertRule(t)
    <3>1. \/ Goto(t, "mac")
          \/ call' = [call EXCEPT ![t] = [call[t] EXCEPT !.pc = "mac", !.ok = FALSE]]
      BY <1>1, <2>4 DEF InsertRule
    <3>2. /\ \A u \in Threads \ {t} : call'[u] = call[u]
          /\ call'[t].pc = "mac" /\ call'[t].ip = call[t].ip
          /\ call'[t].exp = call[t].exp /\ call'[t].res = call[t].res
      BY <1>1, <3>1, ZenonT(40) DEF CallRecords, Goto
    <3> QED
      BY <2>1, <2>2, <3>2 DEF CallsProgress, Progress, Active
  <2>5. CASE ~RuleExists(t) /\ ~InsertRule(t)
    <3>1. \/ \E pc \in {"mode", "cache", "exists", "mac", "verify", "record"} : Goto(t, pc)
          \/ \E res \in {"FAILED", "REQUESTED", "CONFIRMED"} : Finish(t, res)
      BY <1>2, <2>5 DEF BlockStep, CheckSafe, CheckMode, CheckCache, InsertMac, Verify, CacheConfirmed
    <3> QED
      BY <1>1, <2>1, <2>2, <3>1, GotoProgress, FinishProgress
  <2> QED
    BY <2>3, <2>4, <2>5
<1>3. ASSUME NEW p \in Procs, RemoveStep(p) PROVE CallsProgress
  <2>1. call[p].pc \in RemovePCs /\ "idle" \notin RemovePCs /\ "done" \notin RemovePCs
    BY <1>3 DEF RemoveStep, RemoveInput, RemoveForward, RemoveFrom, RemoveMac, DropCache, At, RemovePCs
  <2>2. \/ \E pc \in RemovePCs : Goto(p, pc)
        \/ p # Sweeper /\ Finish(p, "UNBLOCKED")
        \/ p = Sweeper /\ call' = [call EXCEPT ![p] = NoCall]
    BY <1>3 DEF RemoveStep, RemoveInput, RemoveForward, RemoveFrom, RemoveMac, DropCache, RemovePCs
  <2>3. CASE p \in Threads
    BY <1>1, <2>1, <2>2, <2>3, GotoProgress, FinishProgress
  <2>4. CASE p = Sweeper
    BY <1>1, <2>2, <2>4 DEF Goto, Finish, CallsProgress
  <2> QED
    BY <2>3, <2>4 DEF Procs
<1>4. CASE SweepCollect \/ SweepNext
  BY <1>1, <1>4 DEF SweepCollect, SweepNext, CallsProgress
<1>5. CASE OperatorStep \/ Tick
  BY <1>5 DEF OperatorStep, OperatorEdit, AddAllowlist, RemoveAllowlist, SetSecMode, SetDeploy,
              ReloadGateway, Tick, CallsProgress
<1>6. Threads \subseteq Procs /\ Sweeper \in Procs
  BY DEF Procs
<1> QED
  BY <1>2, <1>3, <1>4, <1>5, <1>6 DEF ManagerInner, SweeperStep

\* The steps of Prevention, grouped by what they mean to the manager.
HandlerStep ==
    \/ \E t \in Workers : Handler(t)
    \/ \E t \in Threads : UnblockAnswered(t)
    \/ AutoCollect \/ AutoNext

InnerStep ==
    /\ ManagerInner
    /\ UNCHANGED <<appState, Devices, requests, job, expired, lastAlert>>
    /\ capture' = capture \/ capture' = CaptureFor(secMode, deploy)
    /\ \/ now' = now
       \/ now' = now + 1 /\ \A t \in Threads : UsesClock(t) => now - job[t].cur < MaxLag

LEMMA PNextCases ==
    ASSUME PNext
    PROVE  HandlerStep \/ InnerStep \/ Cleanup \/ Crash
<1> USE DEF InnerStep, ManagerInner, inventory
<1>1. ASSUME NEW p \in Procs, BlockStep(p) \/ RemoveStep(p) PROVE now' = now
  BY <1>1 DEF BlockStep, CheckSafe, CheckMode, CheckCache, RuleExists, InsertRule, InsertMac, Verify,
              CacheConfirmed, RemoveStep, RemoveInput, RemoveForward, RemoveFrom, RemoveMac, DropCache
<1>2. CASE FirewallRuns
  BY <1>1, <1>2 DEF FirewallRuns, Procs
<1>3. CASE SweeperRuns
  BY <1>1, <1>3 DEF SweeperRuns, SweeperStep, SweepCollect, SweepNext, Procs
<1>4. CASE OperatorActs
  BY <1>4 DEF OperatorActs, OperatorStep, OperatorEdit, AddAllowlist, RemoveAllowlist, SetSecMode,
              SetDeploy
<1>5. CASE Reload
  BY <1>5 DEF Reload, OperatorStep, ReloadGateway
<1>6. CASE TimePasses
  BY <1>6 DEF TimePasses, Tick
<1> QED
  BY <1>2, <1>3, <1>4, <1>5, <1>6 DEF PNext, HandlerStep

LEMMA InnerIsManagerNext ==
    ASSUME ManagerInner
    PROVE  ManagerNext
BY DEF ManagerInner, ManagerNext, SweeperStep, Procs

LEMMA AutoIsThread == AutoUnblock \in Threads /\ Workers \subseteq Threads
BY AutoAssumption DEF Workers

LEMMA HandlerIsManagerStep ==
    ASSUME JobOK, CallsOfJobs, AppStateOK, HandlerStep
    PROVE  [ManagerNext]_vars
<1>1. \A t \in Threads : job[t] \in JobRecords /\ (job[t].at # "idle" => job[t].ip \in IPs)
  BY DEF JobOK
<1>2. ASSUME NEW t \in Threads, Return(t) PROVE [ManagerNext]_vars
  BY <1>2 DEF ManagerNext
<1>3. ASSUME NEW t \in Threads, NEW ip \in IPs, NEW mac \in MacOrNone,
             BlockStart(t, ip, mac) \/ UnblockStart(t, ip, mac)
      PROVE  [ManagerNext]_vars
  BY <1>3 DEF ManagerNext
<1>4. ASSUME NEW t \in Workers, Handler(t) PROVE [ManagerNext]_vars
  <2>1. t \in Threads
    BY AutoIsThread
  <2>2. job[t].mac \in MacOrNone
    BY <1>1, <2>1 DEF JobRecords
  <2>3. CASE PacketArrives(t) \/ Analyzed(t) \/ Inspected(t) \/ EventArrives(t)
    BY <2>3 DEF PacketArrives, Analyzed, Inspected, EventArrives
  <2>4. CASE LookUp(t) \/ RaiseAlert(t)
    <3>1. job[t].at # "idle"
      BY <2>4 DEF LookUp, RaiseAlert, In, Alerting
    <3>2. UNCHANGED vars \/ BlockStart(t, job[t].ip, job[t].mac)
      BY <2>4 DEF LookUp, RaiseAlert
    <3> QED
      BY <1>1, <1>3, <2>1, <2>2, <3>1, <3>2
  <2>5. CASE RoamingAnswered(t) \/ AlertAnswered(t) \/ ApiBlockAnswered(t)
    BY <1>2, <2>1, <2>5 DEF RoamingAnswered, AlertAnswered, ApiBlockAnswered
  <2>6. CASE ApiBlock(t)
    <3>1. PICK ip \in IPs : \E mac \in KnownAs(ip) : BlockStart(t, ip, mac)
      BY <2>6 DEF ApiBlock
    <3>2. KnownAs(ip) \subseteq MacOrNone
      BY DEF KnownAs, AppStateOK, MacOrNone
    <3> QED
      BY <1>3, <2>1, <3>1, <3>2
  <2>7. CASE ApiUnblock(t)
    <3>1. PICK ip \in IPs : UnblockStart(t, ip, BlockedIPs[ip].mac)
      BY <2>7 DEF ApiUnblock
    <3>2. BlockedIPs[ip].mac \in MacOrNone
      BY DEF AppStateOK, NoEntry, MacOrNone
    <3> QED
      BY <1>3, <2>1, <3>1, <3>2
  <2> QED
    BY <1>4, <2>3, <2>4, <2>5, <2>6, <2>7 DEF Handler
<1>5. ASSUME NEW t \in Threads, UnblockAnswered(t) PROVE [ManagerNext]_vars
  BY <1>2, <1>5 DEF UnblockAnswered
<1>6. CASE AutoCollect
  BY <1>6 DEF AutoCollect
<1>7. CASE AutoNext
  <2>1. PICK e \in expired : UnblockStart(AutoUnblock, e[1], e[2])
    BY <1>7 DEF AutoNext
  <2>2. e[1] \in IPs /\ e[2] \in MacOrNone
    BY DEF AppStateOK
  <2> QED
    BY <1>3, <2>1, <2>2, AutoIsThread
<1> QED
  BY <1>4, <1>5, <1>6, <1>7 DEF HandlerStep

-------------------------------------------------------------------------------
(* Jobs, and the calls made for them *)

JobInv == JobOK /\ CallsOfJobs /\ FreshClocks

\* A handler writes its own job, and its own call.
LEMMA JobUpdate ==
    ASSUME JobInv, NEW t \in Threads, NEW j \in JobRecords,
           j.at # "idle" => j.ip \in IPs,
           j.at \in {"arrived", "roaming", "analyze"} => j.rules = PacketRules,
           job' = [job EXCEPT ![t] = j],
           \A u \in Threads \ {t} : call'[u] = call[u],
           now' = now,
           CallOfJob(t)',
           UsesClock(t)' => j.cur <= now /\ now - j.cur <= MaxLag
    PROVE  JobInv'
<1>1. /\ job' \in [Threads -> JobRecords] /\ job'[t] = j
      /\ \A u \in Threads \ {t} : job'[u] = job[u]
  BY DEF JobInv, JobOK
<1>2. JobOK'
  BY <1>1 DEF JobInv, JobOK
<1>3. ASSUME NEW u \in Threads PROVE CallOfJob(u)'
  <2>1. CASE u # t
    BY <1>1, <2>1 DEF JobInv, CallsOfJobs, CallOfJob, Active
  <2> QED
    BY <2>1
<1>4. ASSUME NEW u \in Threads, UsesClock(u)'
      PROVE  job'[u].cur <= now' /\ now' - job'[u].cur <= MaxLag
  <2>1. CASE u # t
    BY <1>1, <1>4, <2>1 DEF JobInv, FreshClocks, UsesClock, Active
  <2>2. CASE u = t
    BY <1>1, <1>4, <2>2
  <2> QED
    BY <2>1, <2>2
<1> QED
  BY <1>2, <1>3, <1>4 DEF JobInv, CallsOfJobs, FreshClocks

\* The call of t is not touched, or starts, or its result is taken.
LEMMA StartFields ==
    ASSUME call \in [Procs -> CallRecords], NEW t \in Threads, NEW ip, NEW mac
    PROVE  /\ BlockStart(t, ip, mac) =>
                /\ \A u \in Threads \ {t} : call'[u] = call[u]
                /\ call'[t].pc = "safe" /\ call'[t].ip = ip /\ call'[t].res = "NONE"
                /\ call'[t].exp = now + TTL
                /\ now' = now
           /\ UnblockStart(t, ip, mac) =>
                /\ \A u \in Threads \ {t} : call'[u] = call[u]
                /\ call'[t].pc = "delInput" /\ call'[t].ip = ip /\ call'[t].res = "NONE"
                /\ call'[t].exp = 0
                /\ now' = now
           /\ Return(t) =>
                /\ \A u \in Threads \ {t} : call'[u] = call[u]
                /\ call'[t].pc = "idle" /\ call'[t].exp = 0
                /\ now' = now
           /\ UNCHANGED vars => call' = call /\ now' = now
BY DEF BlockStart, UnblockStart, Return, NoCall, NewCall, Procs, vars

\* Steps that leave every job alone: calls go on, and time may pass.
LEMMA InnerKeepsJobs ==
    ASSUME TypeOK, JobInv, InnerStep
    PROVE  JobInv'
<1>1. job' = job /\ CallsProgress
  BY InnerProgress DEF InnerStep
<1>2. JobOK'
  BY <1>1 DEF JobInv, JobOK
<1>3. ASSUME NEW t \in Threads PROVE CallOfJob(t)'
  <2>1. CASE call'[t] = call[t]
    BY <1>1, <2>1 DEF JobInv, CallsOfJobs, CallOfJob, Active
  <2>2. CASE Progress(t)
    <3>1. CallOfJob(t)
      BY DEF JobInv, CallsOfJobs
    <3>2. BlockPCs \cap RemovePCs = {} /\ "idle" \notin BlockPCs \cup RemovePCs
          /\ "done" \notin BlockPCs \cup RemovePCs
      BY DEF BlockPCs, RemovePCs
    <3> QED
      BY <1>1, <2>2, <3>1, <3>2 DEF CallOfJob, Progress, Active
  <2> QED
    BY <1>1, <2>1, <2>2 DEF CallsProgress
<1>4. FreshClocks'
  <2>1. ASSUME NEW t \in Threads PROVE UsesClock(t)' => UsesClock(t)
    BY <1>1 DEF CallsProgress, Progress, UsesClock, Active
  <2>2. \A t \in Threads : job[t].cur \in Int
    BY TimeAssumption DEF JobInv, JobOK, JobRecords, Times
  <2>3. now \in Int /\ MaxLag \in Nat
    BY WindowAssumption, TimeAssumption DEF TypeOK
  <2> QED
    BY <1>1, <2>1, <2>2, <2>3 DEF JobInv, FreshClocks, InnerStep
<1> QED
  BY <1>2, <1>3, <1>4 DEF JobInv, CallsOfJobs

LEMMA NoJobOK ==
    NoJob \in JobRecords /\ NoJob.at = "idle"
BY TimeAssumption DEF NoJob, JobRecords, Stages, MacOrNone, Times, Rules

LEMMA PacketJob ==
    ASSUME TypeOK, JobInv, AppStateOK, NEW t \in Threads,
           PacketArrives(t) \/ LookUp(t) \/ RoamingAnswered(t) \/ Analyzed(t) \/ Inspected(t)
    PROVE  JobInv'
<1>1. /\ job \in [Threads -> JobRecords] /\ call \in [Procs -> CallRecords]
      /\ now \in Nat /\ now \in Times /\ MaxLag \in Nat
  BY TimeAssumption, WindowAssumption DEF JobInv, JobOK, TypeOK, Times
<1>2. /\ job[t] \in JobRecords /\ CallOfJob(t)
      /\ job[t].at # "idle" => job[t].ip \in IPs
      /\ job[t].at \in {"arrived", "roaming", "analyze"} => job[t].rules = PacketRules
      /\ UsesClock(t) => job[t].cur <= now /\ now - job[t].cur <= MaxLag
  BY DEF JobInv, JobOK, CallsOfJobs, FreshClocks
<1>3. PacketRules \subseteq Rules /\ PacketRules \cap SuricataRules = {}
  BY RulesAssumption DEF Rules
<1>4. CASE PacketArrives(t)
  <2>1. PICK l \in Links :
           \E mac \in IF capture = "frames" THEN {l[2]} ELSE KnownAs(l[1]) :
              job' = [job EXCEPT ![t] = [at |-> "arrived", ip |-> l[1], mac |-> mac,
                                         rules |-> PacketRules, cur |-> now, mode |-> secMode]]
    BY <1>4 DEF PacketArrives
  <2>2. l[1] \in IPs /\ l[2] \in MacOrNone
    BY LinksAssumption
  <2>3. KnownAs(l[1]) \subseteq MacOrNone
    BY DEF KnownAs, AppStateOK, MacOrNone
  <2>4. PICK mac \in MacOrNone :
           job' = [job EXCEPT ![t] = [at |-> "arrived", ip |-> l[1], mac |-> mac,
                                      rules |-> PacketRules, cur |-> now, mode |-> secMode]]
    BY <2>1, <2>2, <2>3
  <2> DEFINE j == [at |-> "arrived", ip |-> l[1], mac |-> mac,
                   rules |-> PacketRules, cur |-> now, mode |-> secMode]
  <2>5. j \in JobRecords /\ j.at = "arrived" /\ j.ip \in IPs /\ j.rules = PacketRules /\ j.cur = now
    BY <1>1, <1>3, <2>2 DEF JobRecords, Stages, TypeOK
  <2>6. job' = [job EXCEPT ![t] = j] /\ call' = call /\ now' = now
    BY <1>4, <2>4 DEF PacketArrives, vars
  <2> HIDE DEF j
  <2>7. job'[t] = j
    BY <1>1, <2>6
  <2>8. CallOfJob(t)'
    BY <1>4, <2>5, <2>6, <2>7 DEF CallOfJob, Active, PacketArrives, In
  <2>9. j.cur <= now /\ now - j.cur <= MaxLag
    BY <1>1, <2>5
  <2> QED
    BY <2>5, <2>6, <2>8, <2>9, JobUpdate
<1>5. CASE LookUp(t)
  <2>1. In(t, "arrived") /\ job[t].ip \in IPs /\ job[t].rules = PacketRules
    BY <1>2, <1>5 DEF LookUp, In
  <2>2. CASE /\ job' = [job EXCEPT ![t].at = "roaming", ![t].cur = BlockedMACs[job[t].mac]]
             /\ BlockStart(t, job[t].ip, job[t].mac)
             /\ job[t].mac \in MACs /\ BlockedMACs[job[t].mac] # Never
    <3> DEFINE j == [job[t] EXCEPT !.at = "roaming", !.cur = BlockedMACs[job[t].mac]]
    <3>1. BlockedMACs[job[t].mac] \in Times
      BY <2>2 DEF AppStateOK
    <3>2. j \in JobRecords /\ j.at = "roaming" /\ j.ip = job[t].ip /\ j.rules = PacketRules
      BY <1>2, <2>1, <3>1 DEF JobRecords, Stages
    <3>3. job' = [job EXCEPT ![t] = j]
      BY <1>1, <2>2
    <3> HIDE DEF j
    <3>4. job'[t] = j
      BY <1>1, <3>3
    <3>5. CallOfJob(t)' /\ ~UsesClock(t)'
      BY <1>1, <2>2, <3>2, <3>4, StartFields DEF CallOfJob, Active, UsesClock, BlockPCs
    <3> QED
      BY <1>1, <2>1, <2>2, <3>2, <3>3, <3>5, JobUpdate, StartFields
  <2>3. CASE (\E stage \in {"inspect", "analyze"} : Stage(t, stage)) /\ UNCHANGED vars
    <3>1. PICK stage \in {"inspect", "analyze"} : Stage(t, stage)
      BY <2>3
    <3> DEFINE j == [job[t] EXCEPT !.at = stage]
    <3>2. /\ j \in JobRecords /\ j.at = stage /\ j.ip = job[t].ip /\ j.rules = PacketRules
          /\ j.cur = job[t].cur
      BY <1>2, <2>1 DEF JobRecords, Stages
    <3>3. job' = [job EXCEPT ![t] = j]
      BY <1>1, <3>1 DEF Stage
    <3> HIDE DEF j
    <3>4. job'[t] = j /\ call' = call /\ now' = now
      BY <1>1, <2>3, <3>3 DEF vars
    <3>5. CallOfJob(t)'
      BY <2>1, <3>2, <3>4 DEF CallOfJob, Active, In
    <3>6. UsesClock(t)
      BY <2>1 DEF UsesClock, In
    <3> QED
      BY <1>2, <2>1, <3>2, <3>3, <3>4, <3>5, <3>6, JobUpdate
  <2> QED
    BY <1>5, <2>2, <2>3 DEF LookUp
<1>6. CASE RoamingAnswered(t)
  <2>1. Answered(t, "roaming") /\ Return(t) /\ Stage(t, "inspect")
    BY <1>6 DEF RoamingAnswered
  <2> DEFINE j == [job[t] EXCEPT !.at = "inspect"]
  <2>2. j \in JobRecords /\ j.at = "inspect" /\ j.ip \in IPs /\ j.rules = PacketRules
    BY <1>2, <2>1 DEF JobRecords, Stages, Answered
  <2>3. job' = [job EXCEPT ![t] = j]
    BY <1>1, <2>1 DEF Stage
  <2> HIDE DEF j
  <2>4. job'[t] = j
    BY <1>1, <2>3
  <2>5. CallOfJob(t)' /\ ~UsesClock(t)'
    BY <1>1, <1>3, <2>1, <2>2, <2>4, StartFields DEF CallOfJob, Active, UsesClock
  <2> QED
    BY <1>1, <2>1, <2>2, <2>3, <2>5, JobUpdate, StartFields
<1>7. CASE Analyzed(t)
  <2>1. In(t, "analyze") /\ Stage(t, "inspect") /\ call' = call /\ now' = now
    BY <1>7 DEF Analyzed, vars
  <2> DEFINE j == [job[t] EXCEPT !.at = "inspect"]
  <2>2. j \in JobRecords /\ j.at = "inspect" /\ j.ip \in IPs /\ j.rules = PacketRules
    BY <1>2, <2>1 DEF JobRecords, Stages, In
  <2>3. job' = [job EXCEPT ![t] = j]
    BY <1>1, <2>1 DEF Stage
  <2> HIDE DEF j
  <2>4. job'[t] = j
    BY <1>1, <2>3
  <2>5. CallOfJob(t)' /\ ~UsesClock(t)'
    BY <1>3, <2>1, <2>2, <2>4 DEF CallOfJob, Active, UsesClock, In
  <2> QED
    BY <2>1, <2>2, <2>3, <2>5, JobUpdate
<1>8. CASE Inspected(t)
  <2>1. In(t, "inspect") /\ job' = [job EXCEPT ![t] = NoJob] /\ call' = call /\ now' = now
    BY <1>8 DEF Inspected, EndJob, vars
  <2>2. job'[t] = NoJob
    BY <1>1, <2>1
  <2>3. CallOfJob(t)' /\ ~UsesClock(t)'
    BY <2>1, <2>2, NoJobOK DEF CallOfJob, Active, UsesClock, In
  <2> QED
    BY <2>1, <2>3, NoJobOK, JobUpdate
<1> QED
  BY <1>4, <1>5, <1>6, <1>7, <1>8

LEMMA AlertJob ==
    ASSUME TypeOK, JobInv, AppStateOK, NEW t \in Threads,
           EventArrives(t) \/ RaiseAlert(t) \/ AlertAnswered(t)
    PROVE  JobInv'
<1>1. /\ job \in [Threads -> JobRecords] /\ call \in [Procs -> CallRecords]
      /\ now \in Nat /\ now \in Times /\ 0 \in Times /\ MaxLag \in Nat
  BY TimeAssumption, WindowAssumption DEF JobInv, JobOK, TypeOK, Times
<1>2. /\ job[t] \in JobRecords /\ CallOfJob(t)
      /\ job[t].at # "idle" => job[t].ip \in IPs
      /\ job[t].at \in {"arrived", "roaming", "analyze"} => job[t].rules = PacketRules
      /\ UsesClock(t) => job[t].cur <= now /\ now - job[t].cur <= MaxLag
  BY DEF JobInv, JobOK, CallsOfJobs, FreshClocks
<1>3. CASE EventArrives(t)
  <2>1. PICK l \in Links, r \in SuricataRules \cup MLRules :
           \E mac \in {NoMAC} \cup IF r \in MLRules THEN {d[2] : d \in Devices} ELSE {} :
              job' = [job EXCEPT ![t] = [NoJob EXCEPT !.at = "inspect", !.ip = l[1],
                            !.mac = mac, !.rules = {r},
                            !.cur = IF r \in SuricataRules THEN now ELSE 0]]
    BY <1>3 DEF EventArrives
  <2>2. l[1] \in IPs
    BY LinksAssumption
  <2>3. {NoMAC} \cup (IF r \in MLRules THEN {d[2] : d \in Devices} ELSE {}) \subseteq MacOrNone
    BY DEF AppStateOK, MacOrNone
  <2>4. PICK mac \in MacOrNone :
           job' = [job EXCEPT ![t] = [NoJob EXCEPT !.at = "inspect", !.ip = l[1],
                            !.mac = mac, !.rules = {r},
                            !.cur = IF r \in SuricataRules THEN now ELSE 0]]
    BY <2>1, <2>3
  <2> DEFINE cur == IF r \in SuricataRules THEN now ELSE 0
             j == [NoJob EXCEPT !.at = "inspect", !.ip = l[1], !.mac = mac, !.rules = {r},
                                !.cur = cur]
  <2>5. cur \in Times /\ (r \in SuricataRules => cur = now) /\ {r} \subseteq Rules
    BY <1>1 DEF Rules
  <2>6. /\ j \in JobRecords /\ j.at = "inspect" /\ j.ip \in IPs /\ j.rules = {r} /\ j.cur = cur
    <3> HIDE DEF cur
    <3> QED
      BY <2>2, <2>5, NoJobOK DEF JobRecords, Stages
  <2>7. job' = [job EXCEPT ![t] = j] /\ call' = call /\ now' = now
    BY <1>3, <2>4 DEF EventArrives, vars
  <2> HIDE DEF j, cur
  <2>8. job'[t] = j
    BY <1>1, <2>7
  <2>9. CallOfJob(t)'
    BY <1>3, <2>6, <2>7, <2>8 DEF CallOfJob, Active, EventArrives, In
  <2>10. UsesClock(t)' => r \in SuricataRules
    BY <1>3, <2>6, <2>7, <2>8 DEF UsesClock, Active, EventArrives, In
  <2>11. UsesClock(t)' => j.cur <= now /\ now - j.cur <= MaxLag
    BY <1>1, <2>5, <2>6, <2>10
  <2> QED
    BY <2>6, <2>7, <2>9, <2>11, JobUpdate
<1>4. CASE RaiseAlert(t)
  <2>1. PICK stage \in Alerting, r \in job[t].rules :
           /\ In(t, stage)
           /\ job' = [job EXCEPT ![t].cur = AlertTime(t, stage, r)]
           /\ IF secMode = "IDS" THEN UNCHANGED vars ELSE BlockStart(t, job[t].ip, job[t].mac)
    BY <1>4 DEF RaiseAlert
  <2> DEFINE cur == AlertTime(t, stage, r)
             j == [job[t] EXCEPT !.cur = cur]
  <2>2. /\ cur \in Times /\ cur <= now /\ now - cur <= MaxLag
    <3>1. CASE cur = now
      BY <1>1, <3>1
    <3>2. CASE cur # now
      <4>1. UsesClock(t)
        BY <2>1, <3>2 DEF AlertTime, UsesClock, In, Alerting
      <4> QED
        BY <1>1, <1>2, <3>2, <4>1 DEF AlertTime, JobRecords
    <3> QED
      BY <3>1, <3>2
  <2>3. job[t].at \in Alerting /\ job[t].ip \in IPs /\ ~Active(t)
    BY <1>2, <2>1 DEF In, Alerting, Active
  <2> HIDE DEF cur
  <2>4. j \in JobRecords /\ j.at = job[t].at /\ j.ip = job[t].ip /\ j.rules = job[t].rules /\ j.cur = cur
    BY <1>2, <2>2 DEF JobRecords
  <2>5. job' = [job EXCEPT ![t] = j]
    BY <1>1, <2>1 DEF cur
  <2> HIDE DEF j
  <2>6. job'[t] = j
    BY <1>1, <2>5
  <2>7. CASE UNCHANGED vars
    <3>1. call' = call /\ now' = now
      BY <2>7 DEF vars
    <3>2. CallOfJob(t)'
      BY <2>3, <2>4, <2>6, <3>1 DEF CallOfJob, Active, Alerting
    <3> QED
      BY <1>2, <2>2, <2>4, <2>5, <3>1, <3>2, JobUpdate
  <2>8. CASE BlockStart(t, job[t].ip, job[t].mac)
    <3>1. CallOfJob(t)'
      BY <1>1, <2>3, <2>4, <2>6, <2>8, StartFields DEF CallOfJob, Active, Alerting, BlockPCs
    <3> QED
      BY <1>1, <1>2, <2>2, <2>4, <2>5, <2>8, <3>1, JobUpdate, StartFields
  <2> QED
    BY <2>1, <2>7, <2>8
<1>5. CASE AlertAnswered(t)
  <2>1. job' = job /\ Return(t) /\ job[t].at \in Alerting /\ call[t].pc = "done"
    BY <1>5 DEF AlertAnswered, Answered
  <2>2. job' = [job EXCEPT ![t] = job[t]] /\ job'[t] = job[t]
    BY <1>1, <2>1
  <2>3. CallOfJob(t)'
    BY <1>1, <2>1, <2>2, StartFields DEF CallOfJob, Active, Alerting
  <2>4. UsesClock(t)
    BY <2>1 DEF UsesClock, Active, Alerting
  <2> QED
    BY <1>1, <1>2, <2>1, <2>2, <2>3, <2>4, JobUpdate, StartFields
<1> QED
  BY <1>3, <1>4, <1>5

LEMMA ApiJob ==
    ASSUME TypeOK, JobInv, AppStateOK, NEW t \in Threads,
           ApiBlock(t) \/ ApiBlockAnswered(t) \/ ApiUnblock(t) \/ UnblockAnswered(t)
    PROVE  JobInv'
<1>1. /\ job \in [Threads -> JobRecords] /\ call \in [Procs -> CallRecords]
  BY DEF JobInv, JobOK, TypeOK
<1>2. CASE ApiBlock(t)
  <2>1. PICK ip \in IPs : \E mac \in KnownAs(ip) :
           /\ BlockStart(t, ip, mac)
           /\ job' = [job EXCEPT ![t] = [NoJob EXCEPT !.at = "apiBlock", !.ip = ip, !.mac = mac]]
    BY <1>2 DEF ApiBlock
  <2>2. KnownAs(ip) \subseteq MacOrNone
    BY DEF KnownAs, AppStateOK, MacOrNone
  <2>3. PICK mac \in MacOrNone :
           /\ BlockStart(t, ip, mac)
           /\ job' = [job EXCEPT ![t] = [NoJob EXCEPT !.at = "apiBlock", !.ip = ip, !.mac = mac]]
    BY <2>1, <2>2
  <2> DEFINE j == [NoJob EXCEPT !.at = "apiBlock", !.ip = ip, !.mac = mac]
  <2>4. j \in JobRecords /\ j.at = "apiBlock" /\ j.ip = ip
    BY NoJobOK DEF JobRecords, Stages
  <2>5. job' = [job EXCEPT ![t] = j]
    BY <2>3
  <2> HIDE DEF j
  <2>6. job'[t] = j
    BY <1>1, <2>5
  <2>7. CallOfJob(t)' /\ ~UsesClock(t)'
    BY <1>1, <2>3, <2>4, <2>6, StartFields DEF CallOfJob, UsesClock, Active, BlockPCs
  <2> QED
    BY <1>1, <2>3, <2>4, <2>5, <2>7, JobUpdate, StartFields
<1>3. CASE ApiUnblock(t)
  <2>1. PICK ip \in IPs :
           /\ UnblockStart(t, ip, BlockedIPs[ip].mac)
           /\ job' = [job EXCEPT ![t] = [NoJob EXCEPT !.at = "apiUnblock", !.ip = ip,
                                                      !.mac = BlockedIPs[ip].mac]]
    BY <1>3 DEF ApiUnblock
  <2> DEFINE j == [NoJob EXCEPT !.at = "apiUnblock", !.ip = ip, !.mac = BlockedIPs[ip].mac]
  <2>2. BlockedIPs[ip].mac \in MacOrNone
    BY DEF AppStateOK, NoEntry, MacOrNone
  <2>3. j \in JobRecords /\ j.at = "apiUnblock" /\ j.ip = ip
    BY <2>2, NoJobOK DEF JobRecords, Stages
  <2>4. job' = [job EXCEPT ![t] = j]
    BY <2>1
  <2> HIDE DEF j
  <2>5. job'[t] = j
    BY <1>1, <2>4
  <2>6. CallOfJob(t)' /\ ~UsesClock(t)'
    BY <1>1, <2>1, <2>3, <2>5, StartFields DEF CallOfJob, UsesClock, Active, RemovePCs
  <2> QED
    BY <1>1, <2>1, <2>3, <2>4, <2>6, JobUpdate, StartFields
<1>4. CASE ApiBlockAnswered(t) \/ UnblockAnswered(t)
  <2>1. job' = [job EXCEPT ![t] = NoJob] /\ Return(t)
    BY <1>4 DEF ApiBlockAnswered, UnblockAnswered, EndJob
  <2>2. job'[t] = NoJob
    BY <1>1, <2>1
  <2>3. CallOfJob(t)' /\ ~UsesClock(t)'
    BY <1>1, <2>1, <2>2, NoJobOK, StartFields DEF CallOfJob, Active, UsesClock
  <2> QED
    BY <1>1, <2>1, <2>3, NoJobOK, JobUpdate, StartFields
<1> QED
  BY <1>2, <1>3, <1>4

LEMMA AutoJob ==
    ASSUME TypeOK, JobInv, AppStateOK, AutoCollect \/ AutoNext
    PROVE  JobInv'
<1>1. /\ job \in [Threads -> JobRecords] /\ call \in [Procs -> CallRecords]
      /\ AutoUnblock \in Threads
  BY AutoIsThread DEF JobInv, JobOK, TypeOK
<1>2. CASE AutoCollect
  <2>1. job' = job /\ call' = call /\ now' = now
    BY <1>2 DEF AutoCollect, vars
  <2> QED
    BY <2>1 DEF JobInv, JobOK, CallsOfJobs, CallOfJob, FreshClocks, UsesClock, Active
<1>3. CASE AutoNext
  <2>1. PICK e \in expired :
           /\ UnblockStart(AutoUnblock, e[1], e[2])
           /\ job' = [job EXCEPT ![AutoUnblock] = [NoJob EXCEPT !.at = "apiUnblock",
                                                                !.ip = e[1], !.mac = e[2]]]
    BY <1>3 DEF AutoNext
  <2> DEFINE j == [NoJob EXCEPT !.at = "apiUnblock", !.ip = e[1], !.mac = e[2]]
  <2>2. e[1] \in IPs /\ e[2] \in MacOrNone
    BY DEF AppStateOK
  <2>3. j \in JobRecords /\ j.at = "apiUnblock" /\ j.ip = e[1]
    BY <2>2, NoJobOK DEF JobRecords, Stages
  <2>4. job' = [job EXCEPT ![AutoUnblock] = j]
    BY <2>1
  <2> HIDE DEF j
  <2>5. job'[AutoUnblock] = j
    BY <1>1, <2>4
  <2>6. CallOfJob(AutoUnblock)' /\ ~UsesClock(AutoUnblock)'
    BY <1>1, <2>1, <2>3, <2>5, StartFields DEF CallOfJob, UsesClock, Active, RemovePCs
  <2> QED
    BY <1>1, <2>1, <2>2, <2>3, <2>4, <2>6, JobUpdate, StartFields
<1> QED
  BY <1>2, <1>3

LEMMA CrashJob ==
    ASSUME TypeOK, Crash
    PROVE  JobInv'
<1>1. job' = [t \in Threads |-> NoJob] /\ \A t \in Threads : call'[t].pc = "idle"
  BY DEF Crash, Restart, NoCall, NewCall, Procs
<1>2. \A t \in Threads : job'[t] = NoJob /\ ~Active(t)' /\ ~UsesClock(t)'
  BY <1>1, NoJobOK DEF Active, UsesClock
<1> QED
  BY <1>1, <1>2, NoJobOK DEF JobInv, JobOK, CallsOfJobs, CallOfJob, FreshClocks

LEMMA JobStep ==
    ASSUME TypeOK, JobInv, AppStateOK, [PNext]_pvars
    PROVE  JobInv'
<1>1. CASE UNCHANGED pvars \/ Cleanup
  <2>1. job' = job /\ call' = call /\ now' = now
    BY <1>1 DEF pvars, vars, Cleanup
  <2> QED
    BY <2>1 DEF JobInv, JobOK, CallsOfJobs, CallOfJob, FreshClocks, UsesClock, Active
<1>2. CASE HandlerStep
  BY <1>2, PacketJob, AlertJob, ApiJob, AutoJob, AutoIsThread DEF HandlerStep, Handler
<1> QED
  BY <1>1, <1>2, PNextCases, InnerKeepsJobs, CrashJob

-------------------------------------------------------------------------------
(* The state the handlers keep *)

\* Entries written into the block tables.
LEMMA MarkOK ==
    ASSUME AppStateOK, NEW ip \in IPs, NEW mac \in MacOrNone, NEW c \in BOOLEAN, NEW exp \in Times
    PROVE  /\ Mark(ip, mac, c, exp) =>
                /\ BlockedIPs' \in [IPs -> [mac : MacOrNone, confirmed : BOOLEAN, exp : Times] \cup {NoEntry}]
                /\ BlockedIPs'[ip].confirmed = c /\ BlockedIPs'[ip].exp = exp
                /\ \A i \in IPs \ {ip} : BlockedIPs'[i] = BlockedIPs[i]
           /\ MarkMac(mac, exp) => BlockedMACs' \in [MACs -> Times \cup {Never}]
<1>1. /\ BlockedIPs \in [IPs -> [mac : MacOrNone, confirmed : BOOLEAN, exp : Times] \cup {NoEntry}]
      /\ BlockedMACs \in [MACs -> Times \cup {Never}]
  BY DEF AppStateOK
<1> DEFINE e == [mac |-> mac, confirmed |-> c, exp |-> exp]
<1>2. e \in [mac : MacOrNone, confirmed : BOOLEAN, exp : Times] /\ e.confirmed = c /\ e.exp = exp
  OBVIOUS
<1>3. Mark(ip, mac, c, exp) => BlockedIPs' = [BlockedIPs EXCEPT ![ip] = e]
  BY DEF Mark
<1> HIDE DEF e
<1> QED
  BY <1>1, <1>2, <1>3 DEF MarkMac

LEMMA UnmarkOK ==
    ASSUME AppStateOK, NEW ip \in IPs, NEW mac, Unmark(ip, mac)
    PROVE  /\ BlockedIPs' \in [IPs -> [mac : MacOrNone, confirmed : BOOLEAN, exp : Times] \cup {NoEntry}]
           /\ BlockedIPs'[ip] = NoEntry
           /\ \A i \in IPs \ {ip} : BlockedIPs'[i] = BlockedIPs[i]
           /\ BlockedMACs' \in [MACs -> Times \cup {Never}]
<1>1. /\ BlockedIPs \in [IPs -> [mac : MacOrNone, confirmed : BOOLEAN, exp : Times] \cup {NoEntry}]
      /\ BlockedMACs \in [MACs -> Times \cup {Never}]
  BY DEF AppStateOK
<1> QED
  BY <1>1 DEF Unmark, MarkMac

LEMMA AppStateStep ==
    ASSUME TypeOK, JobInv, AppStateOK, [PNext]_pvars
    PROVE  AppStateOK'
<1>1. \A t \in Threads : /\ job[t] \in JobRecords /\ CallOfJob(t)
                         /\ job[t].at # "idle" => job[t].ip \in IPs
                         /\ UsesClock(t) => job[t].cur <= now
  BY DEF JobInv, JobOK, CallsOfJobs, FreshClocks
<1>2. now \in 0 .. MaxTime /\ MaxTime \in Nat /\ TTL \in Nat
  BY TimeAssumption DEF TypeOK
<1>3. Never \notin Times
  BY DEF Never, Times
<1>4. CASE UNCHANGED pvars
  BY <1>4 DEF pvars, AppStateOK, appState, inventory
<1>5. CASE InnerStep
  BY <1>5 DEF InnerStep, AppStateOK, appState, CaptureFor
<1>6. CASE Cleanup
  BY <1>6 DEF Cleanup, AppStateOK, inventory
<1>7. CASE Crash
  BY <1>7 DEF Crash, AppStateOK, CaptureFor
<1>8. ASSUME NEW t \in Threads,
             LookUp(t) \/ Analyzed(t) \/ Inspected(t) \/ EventArrives(t) \/ AutoCollect
      PROVE  AppStateOK'
  <2>1. CASE AutoCollect
    <3>1. \A ip \in IPs : BlockedIPs[ip].mac \in MacOrNone
      BY DEF AppStateOK, NoEntry, MacOrNone
    <3> QED
      BY <2>1, <3>1 DEF AutoCollect, AppStateOK, appState, inventory
  <2> QED
    BY <1>8, <2>1 DEF LookUp, Analyzed, Inspected, EventArrives, AppStateOK, appState, inventory
<1>9. ASSUME NEW t \in Threads, PacketArrives(t) PROVE AppStateOK'
  <2>1. PICK l \in Links :
           \E mac \in IF capture = "frames" THEN {l[2]} ELSE KnownAs(l[1]) : Seen(l[1], mac)
    BY <1>9 DEF PacketArrives
  <2>2. l[1] \in IPs /\ l[2] \in MacOrNone /\ KnownAs(l[1]) \subseteq MacOrNone
    BY LinksAssumption DEF KnownAs, AppStateOK, MacOrNone
  <2>3. Devices' \subseteq IPs \X MacOrNone
    BY <2>1, <2>2 DEF Seen, AppStateOK
  <2> QED
    BY <1>9, <2>3 DEF PacketArrives, AppStateOK, appState
<1>10. ASSUME NEW t \in Threads, RoamingAnswered(t) PROVE AppStateOK'
  <2>1. job[t].ip \in IPs /\ job[t].mac \in MacOrNone /\ job[t].cur \in Times
    BY <1>1, <1>10 DEF RoamingAnswered, Answered, JobRecords
  <2> QED
    BY <1>10, <2>1, MarkOK DEF RoamingAnswered, AppStateOK, inventory
<1>11. ASSUME NEW t \in Threads, RaiseAlert(t) PROVE AppStateOK'
  <2>1. PICK stage \in Alerting, r \in job[t].rules :
           LET cur == AlertTime(t, stage, r) IN
           /\ In(t, stage)
           /\ LastAlertTimes' = [LastAlertTimes EXCEPT ![<<job[t].ip, r>>] = cur]
           /\ lastAlert' = [lastAlert EXCEPT ![<<job[t].ip, r>>] = cur]
    BY <1>11 DEF RaiseAlert
  <2>2. AlertTime(t, stage, r) \in Times /\ job[t].ip \in IPs /\ r \in Rules
    BY <1>1, <1>2, <2>1 DEF AlertTime, JobRecords, In, Alerting, Times
  <2> QED
    BY <1>11, <2>1, <2>2 DEF RaiseAlert, AppStateOK, inventory
<1>12. ASSUME NEW t \in Threads, AlertAnswered(t) PROVE AppStateOK'
  <2>1. /\ job[t].ip \in IPs /\ job[t].mac \in MacOrNone /\ UsesClock(t)
    BY <1>1, <1>12 DEF AlertAnswered, Answered, Alerting, UsesClock, Active, JobRecords
  <2>2. job[t].cur + TTL \in Times
    BY <1>1, <1>2, <2>1 DEF Times, JobRecords
  <2> QED
    BY <1>12, <2>1, <2>2, MarkOK DEF AlertAnswered, AppStateOK, inventory
<1>13. ASSUME NEW t \in Threads, ApiBlock(t) \/ ApiUnblock(t) PROVE AppStateOK'
  <2>1. Request /\ UNCHANGED <<appState, Devices, capture, expired, lastAlert>>
    BY <1>13 DEF ApiBlock, ApiUnblock
  <2>2. requests' \in 0 .. MaxRequests
    BY <2>1, RequestsAssumption DEF Request, AppStateOK
  <2> QED
    BY <2>1, <2>2 DEF AppStateOK, appState
<1>14. ASSUME NEW t \in Threads, ApiBlockAnswered(t) PROVE AppStateOK'
  <2>1. job[t].ip \in IPs /\ job[t].mac \in MacOrNone /\ now + TTL \in Times
    BY <1>1, <1>2, <1>14 DEF ApiBlockAnswered, Answered, JobRecords, Times
  <2> QED
    BY <1>14, <2>1, MarkOK DEF ApiBlockAnswered, AppStateOK, inventory
<1>15. ASSUME NEW t \in Threads, UnblockAnswered(t) PROVE AppStateOK'
  <2>1. job[t].ip \in IPs
    BY <1>1, <1>15 DEF UnblockAnswered, Answered
  <2> QED
    BY <1>15, <2>1, UnmarkOK DEF UnblockAnswered, AppStateOK, inventory
<1>16. CASE AutoNext
  BY <1>16 DEF AutoNext, AppStateOK, appState, inventory
<1> QED
  BY <1>4, <1>5, <1>6, <1>7, <1>8, <1>9, <1>10, <1>11, <1>12, <1>13, <1>14, <1>15, <1>16,
     PNextCases, AutoIsThread DEF HandlerStep, Handler

-------------------------------------------------------------------------------
(* The firewall properties, whoever calls the manager *)

BaseInv == TypeOK /\ UndisturbedInv /\ JobInv /\ AppStateOK

LEMMA BaseInit == PInit => BaseInv
<1> SUFFICES ASSUME PInit PROVE BaseInv
  OBVIOUS
<1>1. TypeOK /\ UndisturbedInv
  BY TypeInit, UndisturbedInit DEF PInit
<1>2. /\ job = [t \in Threads |-> NoJob] /\ \A t \in Threads : call[t].pc = "idle"
  BY DEF PInit, NoAppState, Init, NoCall, NewCall, Procs
<1>3. \A t \in Threads : job[t] = NoJob /\ ~Active(t) /\ ~UsesClock(t)
  BY <1>2, NoJobOK DEF Active, UsesClock
<1>4. JobInv
  BY <1>2, <1>3, NoJobOK DEF JobInv, JobOK, CallsOfJobs, CallOfJob, FreshClocks
<1>5. AppStateOK
  BY RequestsAssumption DEF PInit, NoAppState, AppStateOK, CaptureFor
<1> QED
  BY <1>1, <1>4, <1>5 DEF BaseInv

\* Every step of the handlers, and of what runs beside them, is a step of the
\* manager or leaves it alone.
LEMMA PNextIsManagerNext ==
    ASSUME BaseInv, [PNext]_pvars
    PROVE  [ManagerNext]_vars
<1>1. CASE UNCHANGED pvars \/ Cleanup
  BY <1>1 DEF pvars, Cleanup
<1>2. CASE Crash
  BY <1>2 DEF Crash, ManagerNext
<1> QED
  BY <1>1, <1>2, PNextCases, HandlerIsManagerStep, InnerIsManagerNext
     DEF BaseInv, JobInv, InnerStep

LEMMA BaseStep ==
    ASSUME BaseInv, [PNext]_pvars
    PROVE  BaseInv'
<1>1. [ManagerNext]_vars
  BY PNextIsManagerNext
<1>2. TypeOK' /\ UndisturbedInv'
  BY <1>1, TypeStep, UndisturbedStep DEF BaseInv
<1> QED
  BY <1>2, JobStep, AppStateStep DEF BaseInv

LEMMA BaseCorrect == PSpec => []BaseInv
BY BaseInit, BaseStep, PTL DEF PSpec

\* What Firewall promises of its manager, it keeps under these callers: nothing
\* protected is firewalled, the rules of an address are bounded, and undisturbed
\* addresses are exact.
THEOREM FirewallHolds ==
    PSpec => [](TypeOK /\ ProtectedNeverFirewalled /\ RuleBound /\ TableMatchesKernel /\ ConfirmedIsEnforced)
<1>1. PInit => ProtectedInv /\ RuleBound
  BY ProtectedInit, RuleBoundInit DEF PInit
<1>2. BaseInv /\ BaseInv' /\ ProtectedInv /\ RuleBound /\ [PNext]_pvars => ProtectedInv' /\ RuleBound'
  BY PNextIsManagerNext, ProtectedStep, RuleBoundStep DEF BaseInv
<1>3. BaseInv /\ ProtectedInv => /\ TypeOK /\ ProtectedNeverFirewalled
                                 /\ TableMatchesKernel /\ ConfirmedIsEnforced
  BY ProtectedImplies, UndisturbedImplies DEF BaseInv
<1> QED
  BY <1>1, <1>2, <1>3, BaseCorrect, PTL DEF PSpec

\* And it keeps the promise of Blocking under them.
THEOREM PromiseHolds == PSpec => KeepsPromise
<1>1. PInit => Shapes /\ Promise!BInit
  BY PromiseInit DEF PInit
<1>2. BaseInv /\ Shapes /\ [PNext]_pvars => Shapes' /\ [Promise!BNext]_(Promise!bvars)
  BY PNextIsManagerNext, ShapesStep, PromiseStep DEF BaseInv, PromiseInv
<1> QED
  BY <1>1, <1>2, BaseCorrect, PTL DEF PSpec, KeepsPromise, Promise!BlockingSpec

-------------------------------------------------------------------------------
(* The counters *)

LEMMA InFlightFinite ==
    IsFiniteSet(InFlight) /\ Cardinality(InFlight) \in Nat
<1>1. InFlight \subseteq Threads
  BY DEF InFlight
<1> QED
  BY <1>1, ThreadsAssumption, FS_Subset, FS_CardinalityType

\* A thread that has no alert in flight before or after its step.
LEMMA NotInFlight ==
    ASSUME NEW t \in Threads, \A u \in Threads \ {t} : job'[u] = job[u] /\ call'[u] = call[u],
           ~(job[t].at \in Alerting /\ Active(t)),
           ~(job'[t].at \in Alerting /\ Active(t)')
    PROVE  InFlight' = InFlight
BY SMTT(40) DEF InFlight, Active

\* A handler's step calls the manager, takes the result of a call, or does neither.
LEMMA HandlerCalls ==
    ASSUME NEW t \in Threads, Handler(t) \/ UnblockAnswered(t)
    PROVE  \/ UNCHANGED vars \/ Return(t)
           \/ \E ip, mac : BlockStart(t, ip, mac) \/ UnblockStart(t, ip, mac)
BY DEF Handler, PacketArrives, LookUp, RoamingAnswered, Analyzed, Inspected, EventArrives,
       RaiseAlert, AlertAnswered, ApiBlock, ApiBlockAnswered, ApiUnblock, UnblockAnswered

\* Where a handler's step leaves the other threads.
LEMMA OthersUntouched ==
    ASSUME BaseInv, NEW t \in Threads, Handler(t) \/ UnblockAnswered(t)
    PROVE  \A u \in Threads \ {t} : job'[u] = job[u] /\ call'[u] = call[u]
<1>1. call \in [Procs -> CallRecords] /\ job \in [Threads -> JobRecords]
  BY SMTT(40) DEF BaseInv, TypeOK, JobInv, JobOK
<1>2. job' = job \/ \E j : job' = [job EXCEPT ![t] = j]
  BY DEF Handler, PacketArrives, LookUp, RoamingAnswered, Analyzed, Inspected, EventArrives,
         RaiseAlert, AlertAnswered, ApiBlock, ApiBlockAnswered, ApiUnblock, UnblockAnswered, Stage, EndJob
<1>3. \/ UNCHANGED vars \/ Return(t)
      \/ \E ip, mac : BlockStart(t, ip, mac) \/ UnblockStart(t, ip, mac)
  BY HandlerCalls
<1>4. \A u \in Threads \ {t} : call'[u] = call[u]
  BY <1>1, <1>3, StartFields
<1> QED
  BY <1>1, <1>2, <1>4

LEMMA CountedStep ==
    ASSUME BaseInv, BaseInv', Counted, [PNext]_pvars
    PROVE  Counted'
<1> USE DEF Counted, BlocksAccounted
<1>1. \A t \in Threads : CallOfJob(t) /\ CallOfJob(t)'
  BY DEF BaseInv, JobInv, CallsOfJobs
<1>2. ASSUME InFlight' = InFlight, unanswered' = unanswered PROVE Counted'
  BY <1>2
<1>3. CASE UNCHANGED pvars \/ Cleanup
  BY <1>2, <1>3 DEF pvars, vars, appState, Cleanup, InFlight, Active
<1>4. CASE InnerStep
  <2>1. job' = job /\ unanswered' = unanswered /\ CallsProgress
    BY <1>4, InnerProgress DEF InnerStep, appState, BaseInv
  <2>2. InFlight' = InFlight
    BY <2>1 DEF InFlight, CallsProgress, Progress, Active
  <2> QED
    BY <1>2, <2>1, <2>2
<1>5. CASE Crash
  <2>1. \A t \in Threads : ~Active(t)'
    BY <1>5 DEF Crash, Restart, NoCall, NewCall, Active, Procs
  <2>2. InFlight' = {} /\ unanswered' = 0
    BY <1>5, <2>1 DEF Crash, InFlight
  <2>3. Cardinality({}) = 0
    BY FS_EmptySet
  <2> QED
    BY <2>2, <2>3
<1>6. ASSUME NEW t \in Threads, RaiseAlert(t) PROVE Counted'
  <2>1. \A u \in Threads \ {t} : job'[u] = job[u] /\ call'[u] = call[u]
    BY <1>6, OthersUntouched DEF Handler
  <2>2. InFlight' \subseteq InFlight \cup {t}
    BY <2>1 DEF InFlight, Active
  <2>3. unanswered' = unanswered + 1
    BY <1>6 DEF RaiseAlert, CountRequest
  <2>4. /\ IsFiniteSet(InFlight \cup {t})
        /\ Cardinality(InFlight \cup {t}) \in Nat
        /\ Cardinality(InFlight \cup {t}) <= Cardinality(InFlight) + 1
    <3>1. IsFiniteSet(InFlight \cup {t})
      BY InFlightFinite, FS_AddElement
    <3>2. Cardinality(InFlight \cup {t})
            = IF t \in InFlight THEN Cardinality(InFlight) ELSE Cardinality(InFlight) + 1
      BY InFlightFinite, FS_AddElement
    <3> QED
      BY <3>1, <3>2, InFlightFinite
  <2>5. Cardinality(InFlight') <= Cardinality(InFlight \cup {t}) /\ Cardinality(InFlight') \in Nat
    BY <2>2, <2>4, FS_Subset, FS_CardinalityType
  <2> QED
    BY <2>3, <2>4, <2>5, InFlightFinite
<1>7. ASSUME NEW t \in Threads, AlertAnswered(t) PROVE Counted'
  <2>1. \A u \in Threads \ {t} : job'[u] = job[u] /\ call'[u] = call[u]
    BY <1>7, OthersUntouched DEF Handler
  <2>2. t \in InFlight /\ ~Active(t)'
    BY <1>7, StartFields DEF AlertAnswered, Answered, Alerting, InFlight, Active, BaseInv, TypeOK
  <2>3. InFlight' = InFlight \ {t}
    BY <2>1, <2>2 DEF InFlight, Active
  <2>4. unanswered' = unanswered + 1 \/ unanswered' = unanswered - 1
    BY <1>7 DEF AlertAnswered, Outcome
  <2>5. Cardinality(InFlight \ {t}) = Cardinality(InFlight) - 1 /\ Cardinality(InFlight \ {t}) \in Nat
    BY <2>2, InFlightFinite, FS_RemoveElement, FS_CardinalityType
  <2> QED
    BY <2>3, <2>4, <2>5, InFlightFinite
<1>8. ASSUME NEW t \in Threads,
             \/ PacketArrives(t) \/ LookUp(t) \/ RoamingAnswered(t) \/ Analyzed(t) \/ Inspected(t)
             \/ EventArrives(t) \/ ApiBlock(t) \/ ApiBlockAnswered(t) \/ ApiUnblock(t)
             \/ UnblockAnswered(t)
      PROVE  Counted'
  <2> USE DEF PacketArrives, LookUp, RoamingAnswered, Analyzed, Inspected, EventArrives, ApiBlock,
              ApiBlockAnswered, ApiUnblock, UnblockAnswered
  <2>1. \A u \in Threads \ {t} : job'[u] = job[u] /\ call'[u] = call[u]
    BY <1>8, OthersUntouched, ZenonT(40) DEF Handler
  <2>2. ~(job[t].at \in Alerting /\ Active(t))
    BY <1>8, ZenonT(40) DEF In, Answered, Alerting, Active, BlockStart, UnblockStart, At
  <2>3. unanswered' = unanswered
    BY <1>8, ZenonT(40) DEF appState
  <2>4. ~(job'[t].at \in Alerting /\ Active(t)')
    <3>1. job \in [Threads -> JobRecords] /\ call \in [Procs -> CallRecords]
      BY DEF BaseInv, TypeOK, JobInv, JobOK
    <3>2. CASE LookUp(t)
      <4>1. \/ job' = [job EXCEPT ![t].at = "roaming", ![t].cur = BlockedMACs[job[t].mac]]
            \/ UNCHANGED vars
        BY <3>2
      <4>2. CASE UNCHANGED vars
        BY <3>2, <4>2 DEF vars, Active, In
      <4>3. CASE job' = [job EXCEPT ![t].at = "roaming", ![t].cur = BlockedMACs[job[t].mac]]
        BY <3>1, <4>3 DEF JobRecords, Alerting
      <4> QED
        BY <4>1, <4>2, <4>3
    <3>3. CASE ApiBlock(t) \/ ApiUnblock(t)
      <4>1. \E ip, mac : \/ job' = [job EXCEPT ![t] = [NoJob EXCEPT !.at = "apiBlock", !.ip = ip, !.mac = mac]]
                         \/ job' = [job EXCEPT ![t] = [NoJob EXCEPT !.at = "apiUnblock", !.ip = ip, !.mac = mac]]
        BY <3>3
      <4> QED
        BY <3>1, <4>1, ZenonT(40) DEF NoJob, Alerting
    <3>4. CASE PacketArrives(t) \/ Analyzed(t) \/ Inspected(t) \/ EventArrives(t)
      BY <3>4 DEF vars, In, Active
    <3>5. CASE RoamingAnswered(t) \/ ApiBlockAnswered(t) \/ UnblockAnswered(t)
      BY <3>1, <3>5, StartFields DEF Active
    <3> QED
      BY <1>8, <3>2, <3>3, <3>4, <3>5
  <2> QED
    BY <1>2, <2>1, <2>2, <2>3, <2>4, NotInFlight, SMTT(40)
<1>9. CASE AutoCollect
  BY <1>2, <1>9 DEF AutoCollect, vars, appState, InFlight, Active
<1>10. CASE AutoNext
  <2>1. PICK e \in expired :
           /\ UnblockStart(AutoUnblock, e[1], e[2])
           /\ job' = [job EXCEPT ![AutoUnblock] = [NoJob EXCEPT !.at = "apiUnblock",
                                                                !.ip = e[1], !.mac = e[2]]]
    BY <1>10 DEF AutoNext
  <2>2. /\ job \in [Threads -> JobRecords] /\ call \in [Procs -> CallRecords]
        /\ AutoUnblock \in Threads
    BY AutoIsThread DEF BaseInv, TypeOK, JobInv, JobOK
  <2>3. \A u \in Threads \ {AutoUnblock} : job'[u] = job[u] /\ call'[u] = call[u]
    BY <2>1, <2>2, StartFields
  <2>4. job'[AutoUnblock].at = "apiUnblock"
    BY <2>1, <2>2 DEF NoJob
  <2>5. InFlight' = InFlight
    BY <1>10, <2>2, <2>3, <2>4, NotInFlight DEF AutoNext, In, Active, Alerting
  <2> QED
    BY <1>2, <1>10, <2>5 DEF AutoNext, appState
<1> QED
  BY <1>3, <1>4, <1>5, <1>6, <1>7, <1>8, <1>9, <1>10, PNextCases, AutoIsThread
     DEF HandlerStep, Handler

LEMMA CountedInit == PInit => Counted
<1> SUFFICES ASSUME PInit PROVE Counted
  OBVIOUS
<1>1. InFlight = {}
  BY DEF PInit, NoAppState, NoJob, InFlight, Alerting
<1> QED
  BY <1>1, FS_EmptySet DEF PInit, NoAppState, Counted, BlocksAccounted

\* However alerts, answers and crashes interleave, every block that was requested
\* is confirmed, failed, or still being applied.
THEOREM AccountsKept == PSpec => []BlocksAccounted
<1>1. Counted => BlocksAccounted
  BY DEF Counted
<1> QED
  BY <1>1, BaseCorrect, CountedInit, CountedStep, PTL DEF PSpec

\* The block tables, the counters and the jobs keep their types: no counter of
\* answers goes negative, and no thread is in a call without a handler.
THEOREM StateCorrect == PSpec => []PTypeOK
<1>1. BaseInv /\ Counted => PTypeOK
  BY DEF BaseInv, Counted, JobInv, JobOK, JobRecords, CallsOfJobs, CallOfJob, AppStateOK, PTypeOK, Active
<1> QED
  BY <1>1, BaseCorrect, CountedInit, CountedStep, PTL DEF PSpec

-------------------------------------------------------------------------------
(* The spacing of alerts *)

StampsInv == StampsKept /\ StampsTrue

\* A stamp given now is at least Window after the last alert of its rule and
\* source, whether the throttle still remembers that one or not.
LEMMA NewStamp ==
    ASSUME BaseInv, StampsInv, NEW t \in Threads, NEW stage \in Alerting, NEW r \in job[t].rules,
           In(t, stage), ~Throttled(job[t].ip, r, AlertTime(t, stage, r)),
           lastAlert[<<job[t].ip, r>>] # Never
    PROVE  AlertTime(t, stage, r) - lastAlert[<<job[t].ip, r>>] >= Window
<1> DEFINE k == <<job[t].ip, r>>
           cur == AlertTime(t, stage, r)
<1>1. k \in IPs \X Rules
  BY DEF BaseInv, JobInv, JobOK, JobRecords, In, Alerting
<1>2. /\ now \in Nat /\ job[t].cur \in Int
      /\ LastAlertTimes[k] \in Int /\ lastAlert[k] \in Int
  BY <1>1, TimeAssumption DEF BaseInv, TypeOK, JobInv, JobOK, JobRecords, AppStateOK, Times, Never
<1>3. cur \in Int /\ cur <= now /\ now - cur <= MaxLag
  <2>1. CASE cur = now
    BY <1>2, <2>1, WindowAssumption
  <2>2. CASE cur # now
    <3>1. UsesClock(t) /\ cur = job[t].cur
      BY <2>2 DEF AlertTime, UsesClock, In, Alerting
    <3> QED
      BY <1>2, <3>1 DEF BaseInv, JobInv, FreshClocks
  <2> QED
    BY <2>1, <2>2
<1> HIDE DEF cur
<1>4. CASE LastAlertTimes[k] = Never
  <2>1. now - lastAlert[k] > Retain
    BY <1>1, <1>4 DEF StampsInv, StampsKept
  <2> QED
    BY <1>2, <1>3, <2>1, WindowAssumption DEF cur
<1>5. CASE LastAlertTimes[k] # Never
  <2>1. LastAlertTimes[k] = lastAlert[k]
    BY <1>1, <1>5 DEF StampsInv, StampsTrue
  <2>2. ~(cur - LastAlertTimes[k] < Window)
    BY <1>5 DEF Throttled, cur
  <2> QED
    BY <1>2, <1>3, <2>1, <2>2, WindowAssumption DEF cur
<1> QED
  BY <1>4, <1>5

LEMMA StampsStep ==
    ASSUME BaseInv, BaseInv', StampsInv, [PNext]_pvars
    PROVE  /\ StampsInv'
           /\ [\A k \in IPs \X Rules :
                 LastAlertTimes'[k] \notin {LastAlertTimes[k], Never} /\ lastAlert[k] # Never
                   => LastAlertTimes'[k] - lastAlert[k] >= Window]_pvars
<1>1. \A k \in IPs \X Rules : LastAlertTimes[k] \in Times \cup {Never} /\ lastAlert[k] \in Times \cup {Never}
  BY DEF BaseInv, AppStateOK
<1>2. now \in Nat /\ now' \in Nat
  BY TimeAssumption DEF BaseInv, TypeOK
<1>3. CASE LastAlertTimes' = LastAlertTimes /\ lastAlert' = lastAlert /\ now' >= now
  <2>1. \A k \in IPs \X Rules : lastAlert[k] \in Int
    BY <1>1, TimeAssumption DEF Times, Never
  <2>2. Retain \in Nat
    BY WindowAssumption
  <2> QED
    BY <1>2, <1>3, <2>1, <2>2 DEF StampsInv, StampsKept, StampsTrue
<1>4. CASE Cleanup
  <2>1. \A k \in IPs \X Rules : LastAlertTimes'[k] = IF Stale(k) THEN Never ELSE LastAlertTimes[k]
    BY <1>4 DEF Cleanup
  <2>2. lastAlert' = lastAlert /\ now' = now
    BY <1>4 DEF Cleanup, vars
  <2> QED
    BY <2>1, <2>2 DEF StampsInv, StampsKept, StampsTrue, Stale
<1>5. CASE Crash
  BY <1>5 DEF Crash, StampsInv, StampsKept, StampsTrue
<1>6. ASSUME NEW t \in Threads, RaiseAlert(t)
      PROVE  /\ StampsInv'
             /\ \A k \in IPs \X Rules :
                   LastAlertTimes'[k] \notin {LastAlertTimes[k], Never} /\ lastAlert[k] # Never
                     => LastAlertTimes'[k] - lastAlert[k] >= Window
  <2>1. PICK stage \in Alerting, r \in job[t].rules :
           LET ip == job[t].ip
               cur == AlertTime(t, stage, r)
           IN  /\ In(t, stage) /\ ~Throttled(ip, r, cur)
               /\ LastAlertTimes' = [LastAlertTimes EXCEPT ![<<ip, r>>] = cur]
               /\ lastAlert' = [lastAlert EXCEPT ![<<ip, r>>] = cur]
    BY <1>6 DEF RaiseAlert
  <2> DEFINE key == <<job[t].ip, r>>
             cur == AlertTime(t, stage, r)
  <2>2. key \in IPs \X Rules
    BY <2>1 DEF BaseInv, JobInv, JobOK, JobRecords, In, Alerting
  <2>3. /\ LastAlertTimes' = [LastAlertTimes EXCEPT ![key] = cur]
        /\ lastAlert' = [lastAlert EXCEPT ![key] = cur]
    BY <2>1
  <2>4. /\ LastAlertTimes \in [IPs \X Rules -> Times \cup {Never}]
        /\ lastAlert \in [IPs \X Rules -> Times \cup {Never}]
    BY DEF BaseInv, AppStateOK
  <2>5. lastAlert[key] # Never => cur - lastAlert[key] >= Window
    BY <2>1, NewStamp
  <2>6. cur # Never
    BY <2>1 DEF AlertTime, BaseInv, TypeOK, JobInv, JobOK, JobRecords, Times, Never
  <2>7. now' = now
    BY <1>6 DEF RaiseAlert, BlockStart, vars
  <2> HIDE DEF key, cur
  <2>8. /\ \A k \in (IPs \X Rules) \ {key} :
              LastAlertTimes'[k] = LastAlertTimes[k] /\ lastAlert'[k] = lastAlert[k]
        /\ LastAlertTimes'[key] = cur /\ lastAlert'[key] = cur
    BY <2>2, <2>3, <2>4
  <2> QED
    BY <2>2, <2>5, <2>6, <2>7, <2>8 DEF StampsInv, StampsKept, StampsTrue
<1>7. CASE UNCHANGED pvars
  BY <1>2, <1>3, <1>7 DEF pvars, vars, appState
<1>8. CASE InnerStep
  BY <1>2, <1>3, <1>8, SMTT(40) DEF InnerStep, appState
<1>9. ASSUME NEW t \in Threads,
             \/ PacketArrives(t) \/ LookUp(t) \/ RoamingAnswered(t) \/ Analyzed(t) \/ Inspected(t)
             \/ EventArrives(t) \/ AlertAnswered(t) \/ ApiBlock(t) \/ ApiBlockAnswered(t)
             \/ ApiUnblock(t) \/ UnblockAnswered(t) \/ AutoCollect \/ AutoNext
      PROVE  LastAlertTimes' = LastAlertTimes /\ lastAlert' = lastAlert /\ now' = now
  BY <1>9, Zenon DEF PacketArrives, LookUp, RoamingAnswered, Analyzed, Inspected, EventArrives,
         AlertAnswered, ApiBlock, ApiBlockAnswered, ApiUnblock, UnblockAnswered, AutoCollect, AutoNext,
         BlockStart, UnblockStart, Return, vars, appState
<1>10. CASE HandlerStep
  BY <1>2, <1>3, <1>6, <1>9, <1>10, AutoIsThread DEF HandlerStep, Handler
<1> QED
  BY <1>4, <1>5, <1>7, <1>8, <1>10, PNextCases

LEMMA StampsInit == PInit => StampsInv
BY DEF PInit, NoAppState, StampsInv, StampsKept, StampsTrue

\* Two alerts of one rule on one source are never closer than Window, whatever
\* their handlers interleave and however old the reading of the clock they use:
\* the throttle is stamped before the lock is given up, and forgotten only when
\* it is too old to matter.
THEOREM AlertsSpaced == PSpec => AlertSpacing
BY BaseCorrect, StampsInit, StampsStep, PTL DEF PSpec, AlertSpacing

-------------------------------------------------------------------------------
(* Confirmed entries *)

LEMMA StaysDisturbed ==
    ASSUME [ManagerNext]_vars
    PROVE  disturbed \subseteq disturbed' /\ (now' = now \/ now' = now + 1)
<1> USE DEF NoFault, Fault, config, manager, kernel
<1>1. CASE UNCHANGED vars
  BY <1>1, SMTT(40) DEF vars
<1>2. CASE \/ \E t \in Threads, ip \in IPs, mac \in MacOrNone :
                 BlockStart(t, ip, mac) \/ UnblockStart(t, ip, mac)
           \/ \E t \in Threads : BlockStep(t) \/ Return(t)
           \/ \E p \in Procs : RemoveStep(p)
  BY <1>2 DEF BlockStart, UnblockStart, Return, BlockStep, CheckSafe, CheckMode, CheckCache, RuleExists,
              InsertRule, InsertMac, Verify, CacheConfirmed, RemoveStep, RemoveInput, RemoveForward,
              RemoveFrom, RemoveMac, DropCache
<1>3. CASE SweepCollect \/ SweepNext \/ OperatorStep \/ Tick \/ Restart
  BY <1>3 DEF SweepCollect, SweepNext, OperatorStep, OperatorEdit, AddAllowlist, RemoveAllowlist,
              SetSecMode, SetDeploy, ReloadGateway, Tick, Restart
<1> QED
  BY <1>1, <1>2, <1>3 DEF ManagerNext

\* A call is answered CONFIRMED: the entry of its address is written, with the
\* expiry of the call.
Renews(t) ==
    /\ call[t].pc \in BlockPCs /\ call'[t].pc = "done" /\ call'[t].ip = call[t].ip
    /\ \A p \in Procs \ {t} : call'[p] = call[p]
    /\ blockCache'[call[t].ip] # NoRec /\ blockCache'[call[t].ip].exp = call[t].exp
    /\ \A ip \in IPs \ {call[t].ip} : blockCache'[ip] = blockCache[ip]

ConfirmsNone ==
    \A t \in Threads :
        call'[t].pc = "done" /\ call'[t].res = "CONFIRMED" => call'[t] = call[t]

\* Nothing else touches the cache or confirms a call, but for the removals.
LEMMA CacheEffect ==
    ASSUME TypeOK, ManagerInner
    PROVE  \/ blockCache' = blockCache /\ ConfirmsNone
           \/ \E t \in Threads : Renews(t)
           \/ \E p \in Procs : DropCache(p)
<1>1. /\ call \in [Procs -> CallRecords] /\ Threads \subseteq Procs /\ Sweeper \notin Threads
      /\ blockCache \in [IPs -> BlockRecords \cup {NoRec}]
  BY ThreadsAssumption DEF TypeOK, Procs
<1> USE DEF manager
<1>2. ASSUME NEW p \in Procs, NEW pc, Goto(p, pc), pc # "done", blockCache' = blockCache
      PROVE  blockCache' = blockCache /\ ConfirmsNone
  BY <1>1, <1>2, GotoFields DEF CallsChange, ConfirmsNone
<1>3. ASSUME NEW t \in Threads, NEW res, Finish(t, res), res # "CONFIRMED", blockCache' = blockCache
      PROVE  blockCache' = blockCache /\ ConfirmsNone
  BY <1>1, <1>3, FinishFields DEF CallsChange, ConfirmsNone
<1>4. ASSUME NEW t \in Threads, CheckCache(t) \/ CacheConfirmed(t)
      PROVE  \/ blockCache' = blockCache /\ ConfirmsNone
             \/ Renews(t)
  <2>1. /\ call[t] \in CallRecords /\ call[t].ip \in IPs /\ call[t].pc \in BlockPCs
    BY <1>1, <1>4 DEF CheckCache, CacheConfirmed, At, BlockPCs, TypeOK, Active
  <2>2. call[t].exp \in Times /\ NoRec.exp = -1 /\ -1 \notin Times
    BY <2>1 DEF CallRecords, NoRec, Times
  <2>3. CASE Goto(t, "exists") /\ blockCache' = blockCache
    BY <1>1, <1>2, <2>3
  <2>4. CASE /\ Finish(t, "CONFIRMED") /\ Cached(call[t].ip)
             /\ blockCache' = [blockCache EXCEPT ![call[t].ip].exp = call[t].exp]
    <3>1. blockCache[call[t].ip] \in BlockRecords
      BY <1>1, <2>1, <2>4 DEF Cached
    <3>2. /\ blockCache'[call[t].ip].exp = call[t].exp
          /\ \A ip \in IPs \ {call[t].ip} : blockCache'[ip] = blockCache[ip]
      BY <1>1, <2>1, <2>4, <3>1 DEF BlockRecords
    <3>3. blockCache'[call[t].ip] # NoRec
      BY <2>2, <3>2
    <3> QED
      BY <1>1, <2>1, <2>4, <3>2, <3>3, FinishFields DEF Renews, CallsChange
  <2>5. CASE /\ Finish(t, "CONFIRMED")
             /\ blockCache' = [blockCache EXCEPT ![call[t].ip] = [mac |-> call[t].mac, exp |-> call[t].exp]]
    <3>1. /\ blockCache'[call[t].ip].exp = call[t].exp
          /\ \A ip \in IPs \ {call[t].ip} : blockCache'[ip] = blockCache[ip]
      BY <1>1, <2>1, <2>5
    <3>2. blockCache'[call[t].ip] # NoRec
      BY <2>2, <3>1
    <3> QED
      BY <1>1, <2>1, <2>5, <3>1, <3>2, FinishFields DEF Renews, CallsChange
  <2> QED
    BY <1>4, <2>3, <2>4, <2>5 DEF CheckCache, CacheConfirmed
<1>5. ASSUME NEW t \in Threads, BlockStep(t), ~CheckCache(t), ~CacheConfirmed(t)
      PROVE  blockCache' = blockCache /\ ConfirmsNone
  <2>1. CASE RuleExists(t)
    <3>1. \E c : c.pc # "done" /\ call' = [call EXCEPT ![t] = c]
      <4>1. PICK pc \in {"insert", "mac"} :
               call' = [call EXCEPT ![t] = [call[t] EXCEPT !.chain = Chain, !.pc = pc]]
        BY <1>1, <2>1 DEF RuleExists
      <4>2. [call[t] EXCEPT !.chain = Chain, !.pc = pc].pc # "done"
        BY <1>1 DEF CallRecords
      <4> QED
        BY <4>1, <4>2
    <3> QED
      BY <1>1, <2>1, <3>1 DEF RuleExists, ConfirmsNone
  <2>2. CASE InsertRule(t)
    <3>1. \/ Goto(t, "mac")
          \/ call' = [call EXCEPT ![t] = [call[t] EXCEPT !.pc = "mac", !.ok = FALSE]]
      BY <1>1, <2>2 DEF InsertRule
    <3>2. [call[t] EXCEPT !.pc = "mac", !.ok = FALSE].pc # "done"
      BY <1>1 DEF CallRecords
    <3> QED
      BY <1>1, <1>2, <2>2, <3>1, <3>2 DEF InsertRule, ConfirmsNone
  <2>3. CASE CheckSafe(t) \/ CheckMode(t) \/ InsertMac(t) \/ Verify(t)
    <3>1. \/ \E pc \in {"mode", "cache", "verify", "record"} : Goto(t, pc)
          \/ \E res \in {"FAILED", "REQUESTED"} : Finish(t, res)
      BY <2>3 DEF CheckSafe, CheckMode, InsertMac, Verify
    <3>2. blockCache' = blockCache
      BY <2>3 DEF CheckSafe, CheckMode, InsertMac, Verify
    <3> QED
      BY <1>1, <1>2, <1>3, <3>1, <3>2
  <2> QED
    BY <1>5, <2>1, <2>2, <2>3 DEF BlockStep
<1>6. ASSUME NEW p \in Procs, RemoveStep(p), ~DropCache(p)
      PROVE  blockCache' = blockCache /\ ConfirmsNone
  <2>1. blockCache' = blockCache /\ \E pc \in RemovePCs : Goto(p, pc)
    BY <1>6 DEF RemoveStep, RemoveInput, RemoveForward, RemoveFrom, RemoveMac, RemovePCs
  <2> QED
    BY <1>2, <2>1 DEF RemovePCs
<1>7. CASE SweepCollect \/ SweepNext \/ OperatorStep \/ Tick
  BY <1>1, <1>7 DEF SweepCollect, SweepNext, OperatorStep, OperatorEdit, AddAllowlist, RemoveAllowlist,
              SetSecMode, SetDeploy, ReloadGateway, Tick, ConfirmsNone
<1>8. Threads \subseteq Procs /\ Sweeper \in Procs
  BY DEF Procs
<1> QED
  BY <1>4, <1>5, <1>6, <1>7, <1>8 DEF ManagerInner, SweeperStep

EntriesInv == ExpiriesBounded /\ EntriesBacked

LEMMA ExpiriesStep ==
    ASSUME BaseInv, BaseInv', ExpiriesBounded, [PNext]_pvars
    PROVE  ExpiriesBounded'
<1>1. /\ now \in Nat /\ TTL \in Nat /\ (now' = now \/ now' = now + 1)
      /\ call \in [Procs -> CallRecords] /\ Threads \subseteq Procs
      /\ \A t \in Threads : call[t].exp \in Nat
      /\ \A ip \in IPs : Cached(ip) => blockCache[ip].exp \in Nat
      /\ blockCache \in [IPs -> BlockRecords \cup {NoRec}]
  BY PNextIsManagerNext, StaysDisturbed, TimeAssumption
     DEF BaseInv, TypeOK, CallRecords, BlockRecords, Times, Cached, Procs
<1>2. ASSUME blockCache' = blockCache,
             \A t \in Threads : call'[t].exp \in {call[t].exp, 0, now + TTL}
      PROVE  ExpiriesBounded'
  BY <1>1, <1>2 DEF ExpiriesBounded, Cached
<1>3. CASE UNCHANGED pvars \/ Cleanup
  BY <1>2, <1>3 DEF pvars, vars, manager, Cleanup
<1>4. CASE Crash
  BY <1>1, <1>4 DEF Crash, Restart, NoCall, NewCall, ExpiriesBounded, Cached
<1>5. CASE InnerStep
  <2>1. \A t \in Threads : call'[t].exp \in {call[t].exp, 0}
    BY <1>5, InnerProgress DEF InnerStep, CallsProgress, Progress, BaseInv
  <2>2. CASE blockCache' = blockCache
    BY <1>2, <2>1, <2>2
  <2>3. ASSUME NEW t \in Threads, Renews(t) PROVE ExpiriesBounded'
    <3>1. \A u \in Threads : call'[u].exp <= now' + TTL
      BY <1>1, <2>1 DEF ExpiriesBounded
    <3>2. ASSUME NEW ip \in IPs, Cached(ip)' PROVE blockCache'[ip].exp <= now' + TTL
      <4>1. CASE ip = call[t].ip
        BY <1>1, <2>3, <4>1 DEF Renews, ExpiriesBounded
      <4>2. CASE ip # call[t].ip
        BY <1>1, <2>3, <3>2, <4>2 DEF Renews, ExpiriesBounded, Cached
      <4> QED
        BY <4>1, <4>2
    <3> QED
      BY <3>1, <3>2 DEF ExpiriesBounded
  <2>4. ASSUME NEW p \in Procs, DropCache(p) PROVE ExpiriesBounded'
    <3>1. \A ip \in IPs : blockCache'[ip] = blockCache[ip] \/ blockCache'[ip] = NoRec
      BY <1>1, <2>4 DEF DropCache, Forget
    <3>2. \A u \in Threads : call'[u].exp <= now' + TTL
      BY <1>1, <2>1 DEF ExpiriesBounded
    <3>3. ASSUME NEW ip \in IPs, Cached(ip)' PROVE blockCache'[ip].exp <= now' + TTL
      BY <1>1, <3>1, <3>3 DEF ExpiriesBounded, Cached
    <3> QED
      BY <3>2, <3>3 DEF ExpiriesBounded
  <2> QED
    BY <1>5, <2>2, <2>3, <2>4, CacheEffect DEF InnerStep, BaseInv
<1>6. CASE HandlerStep
  <2>1. \/ UNCHANGED vars
        \/ \E t \in Threads : \/ Return(t)
                              \/ \E ip, mac : BlockStart(t, ip, mac) \/ UnblockStart(t, ip, mac)
    <3>1. ASSUME NEW t \in Threads, Handler(t) \/ UnblockAnswered(t)
          PROVE  UNCHANGED vars \/ Return(t) \/ \E ip, mac : BlockStart(t, ip, mac) \/ UnblockStart(t, ip, mac)
      BY <3>1, HandlerCalls
    <3>2. AutoCollect => UNCHANGED vars
      BY DEF AutoCollect
    <3>3. AutoNext => \E ip, mac : UnblockStart(AutoUnblock, ip, mac)
      BY DEF AutoNext
    <3> QED
      BY <1>6, <3>1, <3>2, <3>3, AutoIsThread DEF HandlerStep
  <2>2. blockCache' = blockCache
    BY <2>1 DEF vars, manager, Return, BlockStart, UnblockStart
  <2>3. \A t \in Threads : call'[t].exp \in {call[t].exp, 0, now + TTL}
    BY <1>1, <2>1, StartFields
  <2> QED
    BY <1>2, <2>2, <2>3
<1> QED
  BY <1>3, <1>4, <1>5, <1>6, PNextCases

\* A step that writes neither the cached entry of ip nor a new confirmed one,
\* and under which the handlers on ip stay and their calls are still backed.
LEMMA EntryKept ==
    ASSUME NEW ip \in IPs, EntryBacked(ip), blockCache'[ip] = blockCache[ip],
           BlockedIPs'[ip] = BlockedIPs[ip] \/ ~BlockedIPs'[ip].confirmed,
           now \in Int, BlockedIPs[ip].exp \in Int, now' = now \/ now' = now + 1,
           \A t \in Threads : Works(t, ip) /\ job[t].at = "apiUnblock"
              => \/ Works(t, ip)' /\ job'[t].at = "apiUnblock"
                 \/ ~BlockedIPs'[ip].confirmed,
           \A t \in Threads : Works(t, ip)' => CallBacked(t, ip)'
    PROVE  EntryBacked(ip)'
<1>1. Cached(ip)' <=> Cached(ip)
  BY DEF Cached
<1> QED
  BY <1>1 DEF EntryBacked

\* What the base invariant says of one address.
LEMMA EntryTypes ==
    ASSUME BaseInv, NEW ip \in IPs
    PROVE  /\ now \in Nat /\ BlockedIPs[ip].exp \in Int /\ TTL \in Nat
           /\ Cached(ip) => blockCache[ip].exp \in Nat
           /\ \A t \in Threads : call[t].exp \in Nat /\ job[t].cur \in Nat
           /\ call \in [Procs -> CallRecords] /\ job \in [Threads -> JobRecords]
           /\ blockCache \in [IPs -> BlockRecords \cup {NoRec}]
           /\ Threads \subseteq Procs /\ Sweeper \notin Threads /\ Sweeper \in Procs
BY TimeAssumption, ThreadsAssumption
   DEF BaseInv, TypeOK, JobInv, JobOK, AppStateOK, JobRecords, CallRecords, BlockRecords, Times,
       NoEntry, Never, Cached, Procs

\* A handler's step that neither calls the manager nor takes a result from it.
LEMMA QuietEntry ==
    ASSUME BaseInv, NEW ip \in IPs, EntryBacked(ip), BlockedIPs' = BlockedIPs, UNCHANGED vars,
           \A t \in Threads : Active(t) => job'[t] = job[t]
    PROVE  EntryBacked(ip)'
<1>1. \A t \in Threads : (Works(t, ip)' <=> Works(t, ip))
  BY DEF vars, Works, Active
<1>2. ASSUME NEW t \in Threads, Works(t, ip) PROVE CallBacked(t, ip)'
  BY <1>2 DEF vars, manager, EntryBacked, CallBacked, Works, Cached
<1>3. now' = now /\ blockCache' = blockCache
  BY DEF vars, manager
<1> QED
  BY <1>1, <1>2, <1>3, EntryTypes, EntryKept DEF Works

\* A handler calls the manager.
LEMMA StartEntry ==
    ASSUME BaseInv, BaseInv', ExpiriesBounded, NEW ip \in IPs, ip \notin disturbed', EntryBacked(ip),
           NEW t \in Threads, NEW i \in IPs, NEW mac,
           \/ BlockStart(t, i, mac)
           \/ UnblockStart(t, i, mac) /\ job'[t].at = "apiUnblock",
           BlockedIPs' = BlockedIPs, \A u \in Threads \ {t} : job'[u] = job[u]
    PROVE  EntryBacked(ip)'
<1>1. /\ \A u \in Threads \ {t} : call'[u] = call[u]
      /\ call'[t].ip = i /\ call'[t].pc \in {"safe", "delInput"}
      /\ call'[t].pc = "safe" => call'[t].exp = now + TTL
      /\ blockCache' = blockCache /\ now' = now
  BY EntryTypes, StartFields DEF BlockStart, UnblockStart, manager
<1>2. ~Works(t, ip) /\ (Busy(i) => i \in disturbed')
  BY DEF BlockStart, UnblockStart, At, Works, Active
<1>3. \A u \in Threads : Works(u, ip)' => (Works(u, ip) /\ u # t) \/ (u = t /\ ip = i /\ ~Busy(i))
  BY <1>1, <1>2 DEF Works, Active
<1>4. ASSUME NEW u \in Threads \ {t}, Works(u, ip) PROVE CallBacked(u, ip)'
  BY <1>1, <1>4 DEF EntryBacked, CallBacked, Cached
<1>5. ASSUME ip = i, ~Busy(i) PROVE CallBacked(t, ip)'
  <2>1. CASE call'[t].pc = "safe"
    <3>1. Cached(ip)' => call'[t].exp >= blockCache'[ip].exp
      BY <1>1, <2>1, EntryTypes DEF ExpiriesBounded, Cached
    <3>2. job'[t].at \in Alerting => job'[t].cur <= now'
      BY <2>1 DEF BaseInv, JobInv, FreshClocks, UsesClock, Active, Alerting
    <3>3. job'[t].cur \in Nat /\ now \in Nat /\ TTL \in Nat
      BY EntryTypes, TimeAssumption DEF BaseInv, JobInv, JobOK, JobRecords, Times
    <3> QED
      BY <1>1, <2>1, <3>1, <3>2, <3>3 DEF CallBacked
  <2>2. CASE call'[t].pc = "delInput"
    BY <2>2 DEF CallBacked, BlockPCs
  <2> QED
    BY <1>1, <2>1, <2>2
<1>6. \A u \in Threads : Works(u, ip)' => CallBacked(u, ip)'
  BY <1>3, <1>4, <1>5
<1>7. \A u \in Threads : Works(u, ip) => Works(u, ip)' /\ job'[u] = job[u]
  BY <1>1, <1>2 DEF Works, Active
<1> QED
  BY <1>1, <1>6, <1>7, EntryTypes, EntryKept

\* A handler takes the result of its call: no entry becomes confirmed that is
\* not backed, and the entry an unblock call was for is deleted.
LEMMA ReturnEntry ==
    ASSUME BaseInv, NEW ip \in IPs, EntryBacked(ip), NEW t \in Threads, Return(t),
           \A u \in Threads \ {t} : job'[u] = job[u],
           \/ BlockedIPs'[ip] = BlockedIPs[ip] /\ (Works(t, ip) => job[t].at # "apiUnblock")
           \/ ~BlockedIPs'[ip].confirmed
           \/ Cached(ip) /\ BlockedIPs'[ip].exp <= blockCache[ip].exp
    PROVE  EntryBacked(ip)'
<1>1. /\ \A u \in Threads \ {t} : call'[u] = call[u]
      /\ ~Active(t)' /\ blockCache' = blockCache /\ now' = now
  BY EntryTypes, StartFields DEF Return, manager, Active
<1>2. ASSUME NEW u \in Threads, Works(u, ip)' PROVE CallBacked(u, ip)'
  <2>1. u # t /\ Works(u, ip)
    BY <1>1, <1>2 DEF Works, Active
  <2> QED
    BY <1>1, <2>1 DEF EntryBacked, CallBacked, Cached
<1>3. \A u \in Threads \ {t} : Works(u, ip) => Works(u, ip)' /\ job'[u] = job[u]
  BY <1>1 DEF Works, Active
<1>4. CASE \/ BlockedIPs'[ip] = BlockedIPs[ip] /\ (Works(t, ip) => job[t].at # "apiUnblock")
           \/ ~BlockedIPs'[ip].confirmed
  BY <1>1, <1>2, <1>3, <1>4, EntryTypes, EntryKept
<1>5. CASE Cached(ip) /\ BlockedIPs'[ip].exp <= blockCache[ip].exp
  <2>1. Cached(ip)' /\ blockCache'[ip].exp = blockCache[ip].exp
    BY <1>1, <1>5 DEF Cached
  <2> QED
    BY <1>2, <1>5, <2>1 DEF EntryBacked
<1> QED
  BY <1>4, <1>5

\* The packet, event and alert handlers.
LEMMA AlertEntry ==
    ASSUME BaseInv, BaseInv', ExpiriesBounded, NEW ip \in IPs, ip \notin disturbed', EntryBacked(ip),
           NEW t \in Threads,
           \/ PacketArrives(t) \/ LookUp(t) \/ RoamingAnswered(t) \/ Analyzed(t) \/ Inspected(t)
           \/ EventArrives(t) \/ RaiseAlert(t) \/ AlertAnswered(t)
    PROVE  EntryBacked(ip)'
<1>1. \A u \in Threads \ {t} : job'[u] = job[u]
  BY OthersUntouched DEF Handler
<1>2. /\ CallOfJob(t) /\ job[t] \in JobRecords
      /\ job[t].at # "idle" => job[t].ip \in IPs
  BY DEF BaseInv, JobInv, JobOK, CallsOfJobs
<1>3. CASE PacketArrives(t) \/ Analyzed(t) \/ Inspected(t) \/ EventArrives(t)
  <2>1. UNCHANGED vars /\ BlockedIPs' = BlockedIPs /\ ~Active(t)
    BY <1>3 DEF PacketArrives, Analyzed, Inspected, EventArrives, appState, In, Active
  <2> QED
    BY <1>1, <2>1, QuietEntry
<1>4. CASE LookUp(t) \/ RaiseAlert(t)
  <2>1. /\ BlockedIPs' = BlockedIPs /\ ~Active(t) /\ job[t].ip \in IPs
    BY <1>2, <1>4 DEF LookUp, RaiseAlert, appState, In, Active, Alerting
  <2>2. UNCHANGED vars \/ BlockStart(t, job[t].ip, job[t].mac)
    BY <1>4 DEF LookUp, RaiseAlert
  <2>3. CASE UNCHANGED vars
    BY <1>1, <2>1, <2>3, QuietEntry
  <2>4. CASE BlockStart(t, job[t].ip, job[t].mac)
    BY <1>1, <2>1, <2>4, StartEntry
  <2> QED
    BY <2>2, <2>3, <2>4, SMTT(40)
<1>5. CASE RoamingAnswered(t)
  <2>1. Return(t) /\ job[t].at = "roaming" /\ Mark(job[t].ip, job[t].mac, FALSE, job[t].cur)
    BY <1>5 DEF RoamingAnswered, Answered
  <2>2. BlockedIPs'[ip] = BlockedIPs[ip] \/ ~BlockedIPs'[ip].confirmed
    BY <2>1 DEF Mark, BaseInv, AppStateOK
  <2> QED
    BY <1>1, <2>1, <2>2, ReturnEntry
<1>6. CASE AlertAnswered(t)
  <2>1. Return(t) /\ job[t].at \in Alerting /\ call[t].pc = "done"
    BY <1>6 DEF AlertAnswered, Answered
  <2>2. Active(t) /\ call[t].ip = job[t].ip /\ job[t].at # "apiUnblock"
    BY <1>2, <2>1 DEF CallOfJob, Active, Alerting
  <2>3. CASE BlockedIPs'[ip] = BlockedIPs[ip]
    BY <1>1, <2>1, <2>2, <2>3, ReturnEntry
  <2>4. CASE BlockedIPs'[ip] # BlockedIPs[ip]
    <3>1. /\ call[t].res = "CONFIRMED" /\ ip = job[t].ip
          /\ BlockedIPs'[ip].exp = job[t].cur + TTL
      BY <1>6, <2>4 DEF AlertAnswered, Confirms, Mark, BaseInv, AppStateOK
    <3>2. CallBacked(t, ip)
      BY <2>2, <3>1 DEF EntryBacked, Works
    <3>3. Cached(ip) /\ BlockedIPs'[ip].exp <= blockCache[ip].exp
      BY <2>1, <3>1, <3>2, EntryTypes DEF CallBacked
    <3> QED
      BY <1>1, <2>1, <3>3, ReturnEntry
  <2> QED
    BY <2>3, <2>4
<1> QED
  BY <1>3, <1>4, <1>5, <1>6

\* The requests to the API, and the auto-unblock loop.
LEMMA ApiEntry ==
    ASSUME BaseInv, BaseInv', ExpiriesBounded, NEW ip \in IPs, ip \notin disturbed', EntryBacked(ip),
           NEW t \in Threads,
           ApiBlock(t) \/ ApiBlockAnswered(t) \/ ApiUnblock(t) \/ UnblockAnswered(t)
    PROVE  EntryBacked(ip)'
<1>1. \A u \in Threads \ {t} : job'[u] = job[u]
  BY OthersUntouched DEF Handler
<1>2. CallOfJob(t) /\ job \in [Threads -> JobRecords]
  BY DEF BaseInv, JobInv, JobOK, CallsOfJobs
<1>3. CASE ApiBlock(t)
  <2>1. PICK i \in IPs : \E mac : BlockStart(t, i, mac)
    BY <1>3 DEF ApiBlock
  <2> QED
    BY <1>1, <1>3, <2>1, StartEntry DEF ApiBlock, appState
<1>4. CASE ApiUnblock(t)
  <2>1. PICK i \in IPs :
           /\ UnblockStart(t, i, BlockedIPs[i].mac)
           /\ job' = [job EXCEPT ![t] = [NoJob EXCEPT !.at = "apiUnblock", !.ip = i,
                                                      !.mac = BlockedIPs[i].mac]]
    BY <1>4 DEF ApiUnblock
  <2>2. job'[t].at = "apiUnblock"
    BY <1>2, <2>1 DEF NoJob
  <2>3. BlockedIPs' = BlockedIPs
    BY <1>4 DEF ApiUnblock, appState
  <2> QED
    BY <1>1, <2>1, <2>2, <2>3, StartEntry
<1>5. CASE ApiBlockAnswered(t)
  <2>1. Return(t) /\ job[t].at = "apiBlock"
    BY <1>5 DEF ApiBlockAnswered, Answered
  <2>2. BlockedIPs'[ip] = BlockedIPs[ip] \/ ~BlockedIPs'[ip].confirmed
    BY <1>5 DEF ApiBlockAnswered, Mark, BaseInv, AppStateOK
  <2> QED
    BY <1>1, <2>1, <2>2, ReturnEntry
<1>6. CASE UnblockAnswered(t)
  <2>1. Return(t) /\ Active(t) /\ job[t].at = "apiUnblock" /\ Unmark(job[t].ip, job[t].mac)
    BY <1>6 DEF UnblockAnswered, Answered, Active
  <2>2. ip # call[t].ip => BlockedIPs'[ip] = BlockedIPs[ip] /\ ~Works(t, ip)
    BY <1>2, <2>1 DEF Unmark, CallOfJob, Works, BaseInv, AppStateOK
  <2>3. ip = call[t].ip => ~BlockedIPs'[ip].confirmed
    BY <1>2, <2>1 DEF Unmark, CallOfJob, NoEntry, BaseInv, AppStateOK
  <2> QED
    BY <1>1, <2>1, <2>2, <2>3, ReturnEntry
<1> QED
  BY <1>3, <1>4, <1>5, <1>6

LEMMA AutoEntry ==
    ASSUME BaseInv, BaseInv', ExpiriesBounded, NEW ip \in IPs, ip \notin disturbed', EntryBacked(ip),
           AutoCollect \/ AutoNext
    PROVE  EntryBacked(ip)'
<1>1. CASE AutoCollect
  BY <1>1, QuietEntry DEF AutoCollect, appState
<1>2. CASE AutoNext
  <2>1. PICK e \in expired :
           /\ UnblockStart(AutoUnblock, e[1], e[2])
           /\ job' = [job EXCEPT ![AutoUnblock] = [NoJob EXCEPT !.at = "apiUnblock",
                                                                !.ip = e[1], !.mac = e[2]]]
    BY <1>2 DEF AutoNext
  <2>2. job \in [Threads -> JobRecords] /\ AutoUnblock \in Threads /\ e[1] \in IPs
    BY AutoIsThread DEF BaseInv, JobInv, JobOK, AppStateOK
  <2>3. /\ job'[AutoUnblock].at = "apiUnblock"
        /\ \A u \in Threads \ {AutoUnblock} : job'[u] = job[u]
    BY <2>1, <2>2 DEF NoJob
  <2>4. BlockedIPs' = BlockedIPs
    BY <1>2 DEF AutoNext, appState
  <2> QED
    BY <2>1, <2>2, <2>3, <2>4, StartEntry
<1> QED
  BY <1>1, <1>2

\* A step of the manager that no handler takes part in.
LEMMA InnerEntry ==
    ASSUME BaseInv, ExpiriesBounded, NEW ip \in IPs \ disturbed, EntryBacked(ip), InnerStep
    PROVE  EntryBacked(ip)'
<1>1. /\ BlockedIPs' = BlockedIPs /\ job' = job /\ CallsProgress
      /\ now' = now \/ now' = now + 1
  BY InnerProgress DEF InnerStep, appState, BaseInv
<1>2. AddressInv(ip) /\ \A t \in Threads : CallOfJob(t)
  BY DEF BaseInv, UndisturbedInv, JobInv, CallsOfJobs
<1>3. \A t \in Threads : (Works(t, ip)' <=> Works(t, ip))
  BY <1>1 DEF CallsProgress, Progress, Works, Active
<1>4. \A pc \in BlockPCs : pc # "done" /\ pc \notin RemovePCs
  BY DEF BlockPCs, RemovePCs
<1>5. CASE blockCache' = blockCache /\ ConfirmsNone
  <2>1. ASSUME NEW t \in Threads, Works(t, ip) PROVE CallBacked(t, ip)'
    <3>1. CallBacked(t, ip)
      BY <2>1 DEF EntryBacked
    <3>2. CASE call'[t] = call[t]
      BY <1>1, <1>5, <3>1, <3>2 DEF CallBacked, Cached
    <3>3. CASE call'[t] # call[t]
      <4>1. ~(call'[t].pc = "done" /\ call'[t].res = "CONFIRMED")
        BY <1>5, <3>3 DEF ConfirmsNone
      <4>2. call'[t].pc \in BlockPCs => call[t].pc \in BlockPCs /\ call'[t].exp = call[t].exp
        BY <1>1, <1>4, <3>3 DEF CallsProgress, Progress
      <4> QED
        BY <1>1, <1>5, <3>1, <4>1, <4>2 DEF CallBacked, Cached
    <3> QED
      BY <3>2, <3>3
  <2> QED
    BY <1>1, <1>3, <1>5, <2>1, EntryTypes, EntryKept
<1>6. ASSUME NEW t \in Threads, Renews(t) PROVE EntryBacked(ip)'
  <2>1. Active(t) /\ \A u \in Threads \ {t} : call'[u] = call[u]
    BY <1>4, <1>6, EntryTypes DEF Renews, Active, BlockPCs
  <2>2. CASE ip # call[t].ip
    <3>1. blockCache'[ip] = blockCache[ip] /\ ~Works(t, ip)
      BY <1>6, <2>2 DEF Renews, Works
    <3>2. ASSUME NEW u \in Threads, Works(u, ip) PROVE CallBacked(u, ip)'
      BY <1>1, <2>1, <3>1, <3>2 DEF EntryBacked, CallBacked, Cached
    <3> QED
      BY <1>1, <1>3, <3>1, <3>2, EntryTypes, EntryKept
  <2>3. CASE ip = call[t].ip
    <3>1. Works(t, ip) /\ \A u \in Threads : Works(u, ip) => u = t
      BY <1>2, <2>1, <2>3, EntryTypes DEF AddressInv, OneOperation, Works
    <3>2. CallBacked(t, ip) /\ job[t].at # "apiUnblock"
      BY <1>2, <1>4, <1>6, <2>1, <3>1 DEF EntryBacked, CallOfJob, Renews
    <3>3. Cached(ip)' /\ blockCache'[ip].exp = call[t].exp
      BY <1>6, <2>3 DEF Renews, Cached
    <3>4. CallBacked(t, ip)'
      BY <1>1, <1>4, <1>6, <3>2, <3>3 DEF CallBacked, Renews
    <3>5. BlockedIPs[ip].confirmed /\ now <= BlockedIPs[ip].exp
             => Cached(ip) /\ blockCache[ip].exp >= BlockedIPs[ip].exp
      BY <3>1, <3>2 DEF EntryBacked
    <3>6. Cached(ip) => call[t].exp >= blockCache[ip].exp
      BY <1>6, <3>2 DEF CallBacked, Renews
    <3>7. BlockedIPs'[ip].confirmed /\ now' <= BlockedIPs'[ip].exp
             => blockCache'[ip].exp >= BlockedIPs'[ip].exp
      BY <1>1, <3>3, <3>5, <3>6, EntryTypes
    <3> QED
      BY <1>3, <3>1, <3>3, <3>4, <3>7 DEF EntryBacked
  <2> QED
    BY <2>2, <2>3
<1>7. ASSUME NEW p \in Procs, DropCache(p) PROVE EntryBacked(ip)'
  <2>1. /\ call[p].pc = "drop" /\ Active(p) /\ now' = now
        /\ \A q \in Procs \ {p} : call'[q] = call[q]
        /\ p # Sweeper => call'[p].pc = "done" /\ call'[p].res = "UNBLOCKED"
        /\ \A j \in IPs \ {call[p].ip} : blockCache'[j] = blockCache[j]
    BY <1>7, EntryTypes, FinishFields DEF DropCache, Forget, At, Active, CallsChange
  <2>2. CASE ip # call[p].ip
    <3>1. blockCache'[ip] = blockCache[ip] /\ ~Works(p, ip)
      BY <2>1, <2>2 DEF Works
    <3>2. ASSUME NEW u \in Threads, Works(u, ip) PROVE CallBacked(u, ip)'
      <4>1. u \in Procs \ {p}
        BY <3>1, <3>2, EntryTypes
      <4> QED
        BY <1>1, <2>1, <3>1, <3>2, <4>1 DEF EntryBacked, CallBacked, Cached
    <3> QED
      BY <1>1, <1>3, <3>1, <3>2, EntryTypes, EntryKept
  <2>3. CASE ip = call[p].ip
    <3>1. Works(p, ip) /\ \A u \in Procs : Works(u, ip) => u = p
      BY <1>2, <2>1, <2>3 DEF AddressInv, OneOperation, Works
    <3>2. CASE p \in Threads
      <4>1. job[p].at = "apiUnblock"
        BY <1>2, <2>1, <3>2 DEF CallOfJob, BlockPCs
      <4>2. CallBacked(p, ip)'
        BY <2>1, <3>2, EntryTypes DEF CallBacked, BlockPCs
      <4>3. \A u \in Threads : Works(u, ip)' => CallBacked(u, ip)'
        BY <1>3, <3>1, <4>2, EntryTypes
      <4> QED
        BY <1>1, <1>3, <3>1, <3>2, <4>1, <4>3 DEF EntryBacked
    <3>3. CASE p = Sweeper
      <4>1. \A u \in Threads : ~Works(u, ip)
        BY <3>1, <3>3, EntryTypes
      <4>2. Expired(ip)
        BY <1>2, <3>1, <3>3 DEF AddressInv, CacheBacked
      <4>3. ~(BlockedIPs[ip].confirmed /\ now <= BlockedIPs[ip].exp)
        BY <4>1, <4>2, EntryTypes DEF EntryBacked, Expired
      <4> QED
        BY <1>1, <1>3, <2>1, <4>1, <4>3 DEF EntryBacked
    <3> QED
      BY <3>2, <3>3 DEF Procs
  <2> QED
    BY <2>2, <2>3
<1> QED
  BY <1>5, <1>6, <1>7, CacheEffect DEF InnerStep, BaseInv

LEMMA EntriesStep ==
    ASSUME BaseInv, BaseInv', EntriesInv, [PNext]_pvars
    PROVE  EntriesInv'
<1> SUFFICES ASSUME NEW ip \in IPs, ip \notin disturbed' PROVE EntryBacked(ip)'
  BY ExpiriesStep DEF EntriesInv, EntriesBacked
<1>1. ip \in IPs \ disturbed /\ EntryBacked(ip) /\ ExpiriesBounded
  BY PNextIsManagerNext, StaysDisturbed DEF EntriesInv, EntriesBacked, BaseInv
<1>2. CASE UNCHANGED pvars \/ Cleanup
  <2>1. BlockedIPs' = BlockedIPs /\ UNCHANGED vars /\ job' = job
    BY <1>2 DEF pvars, appState, Cleanup
  <2> QED
    BY <1>1, <2>1, QuietEntry
<1>3. CASE Crash
  <2>1. ~BlockedIPs'[ip].confirmed
    BY <1>3 DEF Crash, NoEntry
  <2>2. \A t \in Threads : ~Works(t, ip)'
    BY <1>3 DEF Crash, Restart, NoCall, NewCall, Works, Active, Procs
  <2> QED
    BY <2>1, <2>2 DEF EntryBacked
<1>4. CASE InnerStep
  BY <1>1, <1>4, InnerEntry
<1>5. CASE HandlerStep
  BY <1>1, <1>5, AlertEntry, ApiEntry, AutoEntry, AutoIsThread DEF HandlerStep, Handler
<1> QED
  BY <1>2, <1>3, <1>4, <1>5, PNextCases

LEMMA EntriesInit == PInit => EntriesInv
<1> SUFFICES ASSUME PInit PROVE EntriesInv
  OBVIOUS
<1>1. \A t \in Threads : call[t].pc = "idle" /\ call[t].exp = 0
  BY DEF PInit, Init, NoCall, NewCall, Procs
<1>2. \A ip \in IPs : ~Cached(ip) /\ ~BlockedIPs[ip].confirmed
  BY DEF PInit, Init, NoAppState, Cached, NoEntry
<1>3. now = 0 /\ TTL \in Nat
  BY TimeAssumption DEF PInit, Init
<1> QED
  BY <1>1, <1>2, <1>3 DEF EntriesInv, ExpiriesBounded, EntriesBacked, EntryBacked, Works, Active

\* An entry whose Status is CONFIRMED and that has not expired is enforced in the
\* kernel, whichever commands fail and whenever the process restarts, except on
\* addresses whose firewall operations overlapped or that an operation is on now.
THEOREM ConfirmedEntriesSound == PSpec => []ConfirmedEntryIsEnforced
<1>1. BaseInv /\ EntriesInv => ConfirmedEntryIsEnforced
  <2> SUFFICES ASSUME BaseInv, EntriesInv, NEW ip \in IPs \ disturbed,
                      BlockedIPs[ip].confirmed, now <= BlockedIPs[ip].exp, ~Busy(ip)
               PROVE  Enforced(ip)
    BY DEF ConfirmedEntryIsEnforced
  <2>1. EntryBacked(ip) /\ CacheBacked(ip)
    BY DEF BaseInv, UndisturbedInv, AddressInv, EntriesInv, EntriesBacked
  <2>2. \A p \in Procs : ~Works(p, ip)
    BY DEF Busy, Works
  <2>3. Cached(ip)
    BY <2>1, <2>2 DEF EntryBacked, Procs
  <2> QED
    BY <2>1, <2>2, <2>3 DEF CacheBacked
<1> QED
  BY <1>1, BaseCorrect, EntriesInit, EntriesStep, PTL DEF PSpec
===============================================================================
