----------------------------- MODULE ReloadProofs -----------------------------
(***************************************************************************)
(* Theorems about Reload for every value of its constants: any requesters, *)
(* bodies and settings, any number of requests, restarts and faults.       *)
(***************************************************************************)
EXTENDS Reload, TLAPS

-------------------------------------------------------------------------------
(* Who reloads *)

Idle(r) == req[r].pc = "idle"
AllIdle == \A r \in Requesters : Idle(r)
Overlapped == "overlap" \in mishaps

\* The shape of what EXCEPT changes.
Shape ==
    /\ req = [r \in Requesters |-> [pc |-> req[r].pc, old |-> req[r].old]]
    /\ \A d \in captures : DOMAIN d = {"id", "kind", "iface", "stopping"}

\* Nothing is under way without a process, and never two requests but after an overlap.
OneAtATime ==
    /\ process = "down" => captures = {} /\ AllIdle
    /\ ~Overlapped => \A r, s \in Requesters : ~Idle(r) /\ ~Idle(s) => r = s

Turns == Shape /\ OneAtATime

\* Moving one request leaves the others and every oldCfg alone.
LEMMA GoToReq ==
    ASSUME Shape, NEW r \in Requesters, NEW pc, GoTo(r, pc)
    PROVE  /\ req' = [s \in Requesters |-> [pc |-> req'[s].pc, old |-> req'[s].old]]
           /\ req'[r].pc = pc /\ req'[r].old = req[r].old
           /\ \A s \in Requesters : s # r => req'[s] = req[s]
<1>1. /\ req'[r] = [pc |-> pc, old |-> req[r].old]
      /\ \A s \in Requesters : s # r => req'[s] = req[s]
      /\ DOMAIN req' = Requesters /\ req' = [s \in Requesters |-> req'[s]]
  BY DEF Shape, GoTo
<1> QED
  BY <1>1 DEF Shape

\* Ending one request leaves the others alone.
LEMMA RestReq ==
    ASSUME Shape, NEW r \in Requesters, NEW c, req' = [req EXCEPT ![r] = Resting(c)]
    PROVE  /\ req' = [s \in Requesters |-> [pc |-> req'[s].pc, old |-> req'[s].old]]
           /\ req'[r].pc = "idle"
           /\ \A s \in Requesters : s # r => req'[s] = req[s]
<1>1. /\ req'[r] = [pc |-> "idle", old |-> c]
      /\ \A s \in Requesters : s # r => req'[s] = req[s]
      /\ req' = [s \in Requesters |-> req'[s]]
  BY DEF Shape, Resting
<1> QED
  BY <1>1 DEF Shape

\* What a request does while it is under way.
RequestStep(r) ==
    \/ \E b \in Bodies : Apply(r, b)
    \/ ReloadStop(r) \/ ReloadTeardown(r) \/ ReloadSetup(r) \/ ReloadStart(r)
    \/ Rollback(r) \/ Save(r)

\* Such a step moves one request, that was under way, and forgets no mishap.
LEMMA RequestStepReq ==
    ASSUME Shape, NEW r \in Requesters, RequestStep(r)
    PROVE  /\ ~Idle(r) /\ UNCHANGED process /\ mishaps \subseteq mishaps'
           /\ \A s \in Requesters : s # r => req'[s] = req[s]
           /\ req' = [s \in Requesters |-> [pc |-> req'[s].pc, old |-> req'[s].old]]
<1>1. ASSUME NEW b \in Bodies, Apply(r, b)
      PROVE  /\ ~Idle(r) /\ UNCHANGED process /\ mishaps \subseteq mishaps'
             /\ \/ \E pc : GoTo(r, pc)
                \/ \E c : req' = [req EXCEPT ![r] = Resting(c)]
  BY <1>1 DEF Apply, Finish, Idle
<1>2. CASE ReloadStop(r) \/ ReloadTeardown(r) \/ ReloadSetup(r) \/ ReloadStart(r)
  <2>1. /\ ~Idle(r) /\ UNCHANGED process /\ mishaps \subseteq mishaps'
        /\ \E pc : GoTo(r, pc)
    BY <1>2 DEF ReloadStop, ReloadTeardown, ReloadSetup, ReloadStart, OpenCapture, Idle, process_vars
  <2> QED
    BY <2>1, GoToReq
<1>3. CASE Rollback(r) \/ Save(r)
  <2>1. /\ ~Idle(r) /\ UNCHANGED process /\ mishaps \subseteq mishaps'
        /\ \E c : req' = [req EXCEPT ![r] = Resting(c)]
    BY <1>3 DEF Rollback, Save, Finish, Idle
  <2> QED
    BY <2>1, RestReq
<1> QED
  BY <1>1, <1>2, <1>3, GoToReq, RestReq DEF RequestStep

\* A reload puts at most one capture to those open, of the right shape.
LEMMA CapturesShape ==
    ASSUME Shape, NEW r \in Requesters, RequestStep(r)
    PROVE  \A d \in captures' : DOMAIN d = {"id", "kind", "iface", "stopping"}
<1>1. CASE ReloadStop(r)
  BY <1>1 DEF ReloadStop, StopCapture, Shape
<1>2. CASE ReloadStart(r)
  BY <1>2 DEF ReloadStart, OpenCapture, Shape
<1>3. CASE UNCHANGED captures
  BY <1>3 DEF Shape
<1> QED
  BY <1>1, <1>2, <1>3 DEF RequestStep, Apply, ReloadTeardown, ReloadSetup, Rollback, Save

\* Before the first start nothing is open and nothing under way.
LEMMA TurnsInit == RLInit => Turns
BY DEF RLInit, Turns, Shape, OneAtATime, AllIdle, Idle, Resting

\* Every step keeps the turns: Receive by what it counts as an overlap, the end of the
\* process by ending all requests, the rest by moving one request.
LEMMA TurnsNext ==
    ASSUME Turns, [RLNext]_rlvars
    PROVE  Turns'
<1> USE DEF Turns
<1>1. CASE UNCHANGED rlvars
  BY <1>1 DEF Shape, OneAtATime, AllIdle, Idle, Overlapped, rlvars, process_vars
<1>2. CASE Boot
  <2>1. Shape'
    BY <1>2 DEF Boot, OpenCapture, Shape
  <2>2. OneAtATime'
    BY <1>2 DEF Boot, OpenCapture, OneAtATime, AllIdle, Idle, Overlapped
  <2> QED
    BY <2>1, <2>2
<1>3. CASE Crash \/ Exit
  <2>1. EndProcess
    BY <1>3 DEF Crash, Exit
  <2>2. Shape'
    BY <2>1 DEF EndProcess, Shape, Resting
  <2>3. \A r \in Requesters : req'[r].pc = "idle"
    BY <2>1 DEF EndProcess, Resting
  <2> QED
    BY <2>1, <2>2, <2>3 DEF EndProcess, OneAtATime, AllIdle, Idle
<1>4. CASE Terminate \/ DestroyQueue
  BY <1>4 DEF Terminate, DestroyQueue, Shape, OneAtATime, AllIdle, Idle, Overlapped, process_vars
<1>5. ASSUME NEW r \in Requesters, Receive(r)
      PROVE  Turns'
  <2>1. req'[r] = [pc |-> "apply", old |-> cfg] /\ (\A s \in Requesters : s # r => req'[s] = req[s])
        /\ req' = [s \in Requesters |-> req'[s]]
    BY <1>5 DEF Receive, Shape
  <2>2. Shape'
    BY <1>5, <2>1 DEF Receive, Shape
  <2>3. OneAtATime'
    BY <1>5, <2>1 DEF Receive, OneAtATime, AllIdle, Idle, Overlapped
  <2> QED
    BY <2>2, <2>3
<1>6. ASSUME NEW r \in Requesters, RequestStep(r)
      PROVE  Turns'
  <2>1. Shape'
    BY <1>6, RequestStepReq, CapturesShape DEF Shape
  <2>2. process # "down"
    BY <1>6, RequestStepReq DEF OneAtATime, AllIdle
  <2>3. OneAtATime'
    BY <1>6, <2>2, RequestStepReq DEF OneAtATime, AllIdle, Idle, Overlapped
  <2> QED
    BY <2>1, <2>3
<1> QED
  BY <1>1, <1>2, <1>3, <1>4, <1>5, <1>6 DEF RLNext, RequestStep

\* Two requests are under way at once only after an overlap.
THEOREM TurnsInvariant == ReloadSpec => []Turns
BY TurnsInit, TurnsNext, PTL DEF ReloadSpec

-------------------------------------------------------------------------------
(* Captures *)

\* Between the stop and the start of a reload nothing runs; otherwise what runs can be
\* stopped.
CapturesInv ==
    ~Overlapped =>
        /\ \A d \in captures : ~d.stopping => d.id = stopCapture
        /\ \A r \in Requesters : req[r].pc \in {"teardown", "setup", "start"} =>
              \A d \in captures : d.stopping

\* Every step that is no overlap keeps it.
LEMMA CapturesNext ==
    ASSUME Turns, CapturesInv, [RLNext]_rlvars, ~Overlapped'
    PROVE  CapturesInv'
<1> USE DEF Turns
<1>0. ~Overlapped
  BY DEF RLNext, rlvars, Overlapped, Boot, Crash, Terminate, Exit, DestroyQueue, Receive, Apply, ReloadStop,
         ReloadTeardown, ReloadSetup, ReloadStart, Rollback, Save
<1>1. CASE UNCHANGED rlvars
  BY <1>1 DEF CapturesInv, Overlapped, rlvars, process_vars
<1>2. CASE Boot
  BY <1>0, <1>2 DEF Boot, OpenCapture, CapturesInv, OneAtATime, AllIdle, Idle
<1>3. CASE Crash \/ Exit
  BY <1>3 DEF Crash, Exit, EndProcess, CapturesInv
<1>4. CASE Terminate \/ DestroyQueue
  BY <1>0, <1>4 DEF Terminate, DestroyQueue, CapturesInv, process_vars
<1>5. ASSUME NEW r \in Requesters, Receive(r)
      PROVE  CapturesInv'
  BY <1>0, <1>5 DEF Receive, CapturesInv, Shape
<1>6. ASSUME NEW r \in Requesters, NEW b \in Bodies, Apply(r, b)
      PROVE  CapturesInv'
  <2>1. /\ UNCHANGED <<captures, stopCapture>>
        /\ \/ GoTo(r, "stop") \/ GoTo(r, "save") 
           \/ \E c : req' = [req EXCEPT ![r] = Resting(c)]
    BY <1>6 DEF Apply, Finish
  <2>2. /\ req'[r].pc \in {"stop", "save", "idle"}
        /\ \A s \in Requesters : s # r => req'[s] = req[s]
    BY <2>1, GoToReq, RestReq
  <2> QED
    BY <1>0, <2>1, <2>2 DEF CapturesInv
<1>7. ASSUME NEW r \in Requesters, ReloadStop(r)
      PROVE  CapturesInv'
  <2>1. ASSUME NEW d \in captures'
        PROVE  d.stopping
    <3>1. PICK e \in captures :
             /\ e.id # stopCapture \/ e.kind = "queue"
             /\ d = IF e.id = stopCapture THEN [e EXCEPT !.stopping = TRUE] ELSE e
      BY <1>7 DEF ReloadStop, StopCapture
    <3>2. CASE e.id = stopCapture
      BY <3>1, <3>2 DEF Shape
    <3>3. CASE e.id # stopCapture
      BY <1>0, <3>1, <3>3 DEF CapturesInv
    <3> QED
      BY <3>2, <3>3
  <2> QED
    BY <2>1 DEF CapturesInv
<1>8. ASSUME NEW r \in Requesters, ReloadTeardown(r) \/ ReloadSetup(r)
      PROVE  CapturesInv'
  <2>1. /\ UNCHANGED <<captures, stopCapture>> /\ \E pc : GoTo(r, pc)
        /\ \A d \in captures : d.stopping
    BY <1>0, <1>8 DEF ReloadTeardown, ReloadSetup, CapturesInv
  <2> QED
    BY <2>1 DEF CapturesInv
<1>9. ASSUME NEW r \in Requesters, ReloadStart(r)
      PROVE  CapturesInv'
  <2>1. \A d \in captures : d.stopping
    BY <1>0, <1>9 DEF ReloadStart, CapturesInv
  <2>2. \A s \in Requesters : req'[s].pc \notin {"teardown", "setup", "start"}
    <3>1. GoTo(r, "save") \/ GoTo(r, "rollback")
      BY <1>9 DEF ReloadStart
    <3>2. \A s \in Requesters : s # r => Idle(s)
      BY <1>0, <1>9 DEF ReloadStart, OneAtATime, Idle
    <3> QED
      BY <3>1, <3>2, GoToReq DEF Idle
  <2> QED
    BY <1>9, <2>1, <2>2 DEF ReloadStart, OpenCapture, CapturesInv
<1>10. ASSUME NEW r \in Requesters, Rollback(r) \/ Save(r)
       PROVE  CapturesInv'
  <2>1. UNCHANGED <<captures, stopCapture>> /\ \E c : req' = [req EXCEPT ![r] = Resting(c)]
    BY <1>10 DEF Rollback, Save, Finish
  <2> QED
    BY <1>0, <2>1, RestReq DEF CapturesInv
<1> QED
  BY <1>1, <1>2, <1>3, <1>4, <1>5, <1>6, <1>7, <1>8, <1>9, <1>10 DEF RLNext

\* Between the stop and the start of a reload every capture is stopping.
THEOREM CapturesInvariant == ReloadSpec => []CapturesInv
<1>1. RLInit => CapturesInv
  BY DEF RLInit, CapturesInv, Resting
<1>2. Turns /\ CapturesInv /\ [RLNext]_rlvars => CapturesInv'
  BY CapturesNext DEF CapturesInv
<1> QED
  BY <1>1, <1>2, TurnsInvariant, PTL DEF ReloadSpec

\* NoOrphanCapture: no capture runs that stopCapture does not stop, unless two reloads
\* overlapped (main.go, apiState.Reload).
THEOREM NoOrphanCaptureHolds == ReloadSpec => []NoOrphanCapture
<1>1. CapturesInv => NoOrphanCapture
  BY DEF CapturesInv, NoOrphanCapture, Running, Overlapped
<1> QED
  BY <1>1, CapturesInvariant, PTL

-------------------------------------------------------------------------------
(* What is saved *)

Astray == mishaps \cap {"overlap", "refused"} # {}

\* The configuration that a request found was applied, and so is one that is to be saved.
SavedInv ==
    ~Astray =>
        /\ env \in applied
        /\ AllIdle => cfg \in applied
        /\ \A r \in Requesters :
              /\ ~Idle(r) => req[r].old \in applied
              /\ req[r].pc = "apply" => cfg = req[r].old
              /\ req[r].pc = "save" => cfg \in applied

\* While there is one request, the others need not be looked at.
LEMMA OtherIdle ==
    ASSUME Turns, ~Overlapped, NEW r \in Requesters, ~Idle(r)
    PROVE  \A s \in Requesters : s # r => Idle(s)
BY DEF Turns, OneAtATime

\* Every step keeps it that neither overlaps nor refuses a body in part.
LEMMA SavedNext ==
    ASSUME Turns, SavedInv, [RLNext]_rlvars, ~Astray'
    PROVE  SavedInv'
<1> USE DEF Turns
<1>0. ~Astray /\ ~Overlapped
  BY DEF RLNext, rlvars, Astray, Overlapped, Boot, Crash, Terminate, Exit, DestroyQueue, Receive, Apply,
         ReloadStop, ReloadTeardown, ReloadSetup, ReloadStart, Rollback, Save
<1>1. CASE UNCHANGED rlvars
  BY <1>1 DEF SavedInv, Astray, AllIdle, Idle, rlvars, process_vars
<1>2. CASE Boot
  <2>1. AllIdle
    BY <1>2 DEF Boot, OneAtATime
  <2>2. cfg' = env /\ UNCHANGED <<req, env>> /\ applied \subseteq applied'
    BY <1>2 DEF Boot, OpenCapture
  <2> QED
    BY <1>0, <2>1, <2>2 DEF SavedInv, AllIdle, Idle
<1>3. CASE Crash \/ Exit
  <2>1. /\ cfg' = env /\ UNCHANGED <<env, applied>>
        /\ \A r \in Requesters : req'[r].pc = "idle"
    BY <1>3 DEF Crash, Exit, EndProcess, Resting
  <2> QED
    BY <1>0, <2>1 DEF SavedInv, Idle
<1>4. CASE Terminate \/ DestroyQueue
  BY <1>0, <1>4 DEF Terminate, DestroyQueue, SavedInv, AllIdle, Idle, process_vars
<1>5. ASSUME NEW r \in Requesters, Receive(r)
      PROVE  SavedInv'
  <2>1. AllIdle
    BY <1>0, <1>5 DEF Receive, AllIdle, Idle, Astray
  <2>2. req'[r] = [pc |-> "apply", old |-> cfg] /\ (\A s \in Requesters : s # r => req'[s] = req[s])
    BY <1>5 DEF Receive, Shape
  <2> QED
    BY <1>0, <1>5, <2>1, <2>2 DEF Receive, SavedInv, AllIdle, Idle
<1>6. ASSUME NEW r \in Requesters, NEW b \in Bodies, Apply(r, b)
      PROVE  SavedInv'
  <2>1. /\ req[r].pc = "apply" /\ ~Idle(r) /\ UNCHANGED <<env, applied>>
        /\ cfg = req[r].old /\ cfg \in applied /\ env \in applied
        /\ \A s \in Requesters : s # r => Idle(s)
    BY <1>0, <1>6, OtherIdle DEF Apply, Idle, SavedInv
  <2>2. CASE \E c : req' = [req EXCEPT ![r] = Resting(c)]
    <3>1. ~GoTo(r, "stop") /\ ~GoTo(r, "save")
      <4>1. req'[r].pc = "idle"
        BY <2>2, RestReq
      <4>2. \A pc : GoTo(r, pc) => req'[r].pc = pc
        BY GoToReq
      <4> QED
        BY <4>1, <4>2
    <3>2. "refused" \notin mishaps'
      BY DEF Astray
    <3>3. cfg' = cfg
      BY <1>6, <2>1, <3>1, <3>2 DEF Apply
    <3> QED
      BY <2>1, <2>2, <3>3, RestReq DEF SavedInv, Idle
  <2>3. CASE GoTo(r, "stop")
    BY <2>1, <2>3, GoToReq DEF SavedInv, AllIdle, Idle
  <2>4. CASE GoTo(r, "save") /\ cfg' = cfg
    BY <2>1, <2>4, GoToReq DEF SavedInv, AllIdle, Idle
  <2> QED
    BY <1>6, <2>1, <2>2, <2>3, <2>4 DEF Apply, Finish
<1>7. ASSUME NEW r \in Requesters, ReloadStop(r) \/ ReloadTeardown(r) \/ ReloadSetup(r)
      PROVE  SavedInv'
  <2>1. /\ ~Idle(r) /\ UNCHANGED <<cfg, env, applied>>
        /\ GoTo(r, "teardown") \/ GoTo(r, "setup") \/ GoTo(r, "rollback") \/ GoTo(r, "start")
    BY <1>7 DEF ReloadStop, ReloadTeardown, ReloadSetup, Idle
  <2>2. \A s \in Requesters : s # r => Idle(s)
    BY <1>0, <2>1, OtherIdle
  <2> QED
    BY <1>0, <2>1, <2>2, GoToReq DEF SavedInv, AllIdle, Idle
<1>8. ASSUME NEW r \in Requesters, ReloadStart(r)
      PROVE  SavedInv'
  <2>1. /\ ~Idle(r) /\ UNCHANGED <<cfg, env>> /\ applied \subseteq applied'
        /\ GoTo(r, "rollback") \/ (GoTo(r, "save") /\ cfg \in applied')
    BY <1>8 DEF ReloadStart, OpenCapture, Idle
  <2>2. \A s \in Requesters : s # r => Idle(s)
    BY <1>0, <2>1, OtherIdle
  <2> QED
    BY <1>0, <2>1, <2>2, GoToReq DEF SavedInv, AllIdle, Idle
<1>9. ASSUME NEW r \in Requesters, Rollback(r) \/ Save(r)
      PROVE  SavedInv'
  <2>1. /\ ~Idle(r) /\ UNCHANGED applied
        /\ \E c : req' = [req EXCEPT ![r] = Resting(c)]
        /\ cfg' \in applied /\ env' \in applied
    BY <1>0, <1>9 DEF Rollback, Save, Finish, SavedInv, Idle
  <2>2. \A s \in Requesters : s # r => Idle(s)
    BY <1>0, <2>1, OtherIdle
  <2> QED
    BY <2>1, <2>2, RestReq DEF SavedInv, Idle
<1> QED
  BY <1>1, <1>2, <1>3, <1>4, <1>5, <1>6, <1>7, <1>8, <1>9 DEF RLNext

\* .env holds settings that were in force, after crashes and failed reloads too.
THEOREM SavedWasAppliedHolds == ReloadSpec => []SavedWasApplied
<1>1. RLInit => SavedInv
  BY DEF RLInit, SavedInv, AllIdle, Idle, Resting
<1>2. Turns /\ SavedInv /\ [RLNext]_rlvars => SavedInv'
  BY SavedNext DEF SavedInv
<1>3. SavedInv => SavedWasApplied
  BY DEF SavedInv, SavedWasApplied, Astray
<1> QED
  BY <1>1, <1>2, <1>3, TurnsInvariant, PTL DEF ReloadSpec

-------------------------------------------------------------------------------
(* What is in force *)

\* The bag of no rules.
LEMMA BagOfNothing == SetToBag({}) = EmptyBag
BY DEF EmptyBag

\* Deleting the rules there are leaves none.
LEMMA RemovedAll ==
    ASSUME NEW S
    PROVE  SetToBag(S) (-) SetToBag(S) = EmptyBag
BY DEF EmptyBag, SetToBag, (-)

\* Deleting rules that are not there leaves none.
LEMMA NothingToRemove ==
    ASSUME NEW S
    PROVE  EmptyBag (-) SetToBag(S) = EmptyBag
BY DEF EmptyBag, SetToBag, (-)

\* Setting up without rules gives one copy of each.
LEMMA AddedToNothing ==
    ASSUME NEW S
    PROVE  EmptyBag (+) SetToBag(S) = SetToBag(S)
BY DEF EmptyBag, SetToBag, (+)

SetUp(c) == c.dep \in Gateways /\ ~SetupFails(c)
Clean == rules = EmptyBag /\ forward = before
InForce(c) ==
    /\ rules = SetToBag(Expected(c))
    /\ forward = IF SetUp(c) THEN 1 ELSE before
    /\ SetUp(c) => ipForwardOriginal = before
RunsFor(c) ==
    \E d \in captures : Running = {d} /\ d.id = stopCapture /\ d.kind = KindFor(c) /\ d.iface = c.cap
ForwardKnown == before \in {0, 1} /\ ipForwardOriginal \in {Unread, before}

\* TeardownGateway of what is in force leaves the host as it was found.
LEMMA TeardownCleans ==
    ASSUME NEW c, ForwardKnown, InForce(c), Teardown(c), before' = before
    PROVE  Clean'
<1>1. rules' = EmptyBag
  BY BagOfNothing, RemovedAll, NothingToRemove DEF Teardown, InForce, Expected
<1>2. forward' = before
  BY DEF Teardown, InForce, ForwardKnown, SetUp, Unread
<1> QED
  BY <1>1, <1>2 DEF Clean

\* SetupGateway on such a host puts its settings in force, also when it fails: then
\* nothing is expected.
LEMMA SetupPutsInForce ==
    ASSUME NEW c, ForwardKnown, Clean, SetupRules(c), ipForwardOriginal' = Original(c), before' = before
    PROVE  InForce(c)' /\ ForwardKnown'
<1>1. rules' = SetToBag(Expected(c))
  BY BagOfNothing, AddedToNothing DEF SetupRules, Clean, Expected
<1>2. /\ forward' = IF SetUp(c) THEN 1 ELSE before
      /\ SetUp(c) => ipForwardOriginal' = before
      /\ ForwardKnown'
  BY DEF SetupRules, Clean, SetUp, SetupFails, Original, ForwardKnown
<1> QED
  BY <1>1, <1>2 DEF InForce

\* A capture that is started while the others stop is the one that runs.
LEMMA OpenRuns ==
    ASSUME NEW c, \A d \in captures : d.stopping, OpenCapture(c)
    PROVE  RunsFor(c)'
<1> DEFINE n == [id |-> opens', kind |-> KindFor(c), iface |-> c.cap, stopping |-> FALSE]
<1>1. captures' = captures \cup {n} /\ stopCapture' = opens'
  BY DEF OpenCapture
<1>2. ~n.stopping /\ n.id = opens' /\ n.kind = KindFor(c) /\ n.iface = c.cap
  OBVIOUS
<1> HIDE DEF n
<1>3. Running' = {n}
  BY <1>1, <1>2 DEF Running
<1> QED
  BY <1>1, <1>2, <1>3 DEF RunsFor

\* From the settings of one request to those of the next, step by step: nothing went
\* wrong, so only one request, which set up what it leaves.
ForceInv ==
    mishaps = {} =>
        /\ ForwardKnown /\ process \in {"down", "up", "quitting"}
        /\ process # "up" => Clean /\ AllIdle
        /\ process = "up" /\ AllIdle => InForce(cfg) /\ RunsFor(cfg)
        /\ \A r \in Requesters :
              /\ req[r].pc = "apply" => cfg = req[r].old
              /\ req[r].pc \in {"apply", "save"} => InForce(cfg) /\ RunsFor(cfg)
              /\ req[r].pc \in {"stop", "teardown"} => InForce(req[r].old)
              /\ req[r].pc = "setup" => Clean
              /\ req[r].pc = "start" => InForce(cfg)

\* Every step keeps it with which nothing goes wrong.
LEMMA ForceNext ==
    ASSUME Turns, CapturesInv, ForceInv, [RLNext]_rlvars, mishaps' = {}
    PROVE  ForceInv'
<1> USE DEF Turns
<1>0. mishaps = {} /\ ~Overlapped
  BY DEF RLNext, rlvars, Overlapped, Boot, Crash, Terminate, Exit, DestroyQueue, Receive, Apply,
         ReloadStop, ReloadTeardown, ReloadSetup, ReloadStart, Rollback, Save
<1>1. CASE UNCHANGED rlvars
  BY <1>1 DEF ForceInv, ForwardKnown, Clean, AllIdle, Idle, InForce, RunsFor, Running, rlvars, process_vars
<1>2. CASE Boot
  <2>1. /\ AllIdle /\ Clean /\ ForwardKnown /\ captures = {}
        /\ UNCHANGED <<req, before>> /\ cfg' = env /\ SetupRules(env)
    BY <1>0, <1>2 DEF Boot, OneAtATime, ForceInv
  <2>2. OpenCapture(env) /\ process' = "up" /\ ipForwardOriginal' = Original(env)
    BY <1>2 DEF Boot
  <2>3. PICK c : c = env
    OBVIOUS
  <2>4. InForce(c)' /\ ForwardKnown'
    BY <2>1, <2>2, <2>3, SetupPutsInForce
  <2>5. RunsFor(c)'
    BY <2>1, <2>2, <2>3, OpenRuns
  <2>6. InForce(cfg)' /\ RunsFor(cfg)' /\ AllIdle'
    BY <2>1, <2>3, <2>4, <2>5 DEF InForce, RunsFor, AllIdle, Idle
  <2> QED
    BY <2>2, <2>4, <2>6 DEF ForceInv, AllIdle, Idle
<1>3. CASE Crash \/ Exit
  <2>1. EndProcess /\ process = "quitting"
    BY <1>0, <1>3 DEF Crash, Exit
  <2>2. Clean /\ ForwardKnown
    BY <1>0, <2>1 DEF ForceInv
  <2>3. /\ process' = "down" /\ \A r \in Requesters : req'[r].pc = "idle"
        /\ Clean' /\ ForwardKnown'
    BY <2>1, <2>2 DEF EndProcess, Resting, Clean, ForwardKnown
  <2> QED
    BY <2>3 DEF ForceInv, AllIdle, Idle
<1>4. CASE Terminate
  <2>1. AllIdle /\ process = "up" /\ process' = "quitting" /\ Teardown(cfg)
        /\ UNCHANGED <<req, before, ipForwardOriginal>>
    BY <1>0, <1>4 DEF Terminate, AllIdle, Idle
  <2>2. InForce(cfg) /\ ForwardKnown
    BY <1>0, <2>1 DEF ForceInv
  <2>3. Clean' /\ ForwardKnown' /\ AllIdle'
    BY <2>1, <2>2, TeardownCleans DEF ForwardKnown, AllIdle, Idle
  <2> QED
    BY <2>1, <2>3 DEF ForceInv, AllIdle, Idle
<1>5. CASE DestroyQueue
  <2>1. /\ Running' = Running /\ Running \subseteq captures'
        /\ UNCHANGED <<process_vars, rules, forward, mishaps, before>>
    BY <1>5 DEF DestroyQueue, Running
  <2>2. \A c : RunsFor(c) => RunsFor(c)'
    BY <2>1 DEF RunsFor, process_vars
  <2> QED
    BY <1>0, <2>1, <2>2 DEF ForceInv, ForwardKnown, Clean, InForce, AllIdle, Idle, RunsFor, process_vars
<1>6. ASSUME NEW r \in Requesters, Receive(r)
      PROVE  ForceInv'
  <2>1. AllIdle /\ process = "up"
    BY <1>0, <1>6 DEF Receive, AllIdle, Idle
  <2>2. InForce(cfg) /\ RunsFor(cfg) /\ ForwardKnown
    BY <1>0, <2>1 DEF ForceInv
  <2>3. InForce(cfg)' /\ RunsFor(cfg)' /\ ForwardKnown'
    BY <1>6, <2>2 DEF Receive, InForce, RunsFor, Running, ForwardKnown
  <2>4. req'[r] = [pc |-> "apply", old |-> cfg] /\ (\A s \in Requesters : s # r => req'[s] = req[s])
    BY <1>6 DEF Receive, Shape
  <2> QED
    BY <1>6, <2>1, <2>3, <2>4 DEF Receive, ForceInv, AllIdle, Idle
<1>7. ASSUME NEW r \in Requesters, RequestStep(r)
      PROVE  ForceInv'
  <2>1. ~Idle(r) /\ process = "up" /\ process' = "up" /\ ForwardKnown
    BY <1>0, <1>7, RequestStepReq DEF ForceInv, AllIdle
  <2>2. \A s \in Requesters : s # r => Idle(s) /\ req'[s].pc = "idle"
    BY <1>0, <1>7, <2>1, OtherIdle, RequestStepReq DEF Idle
  <2> DEFINE After ==
          /\ ForwardKnown'
          /\ req'[r].pc = "idle" => InForce(cfg)' /\ RunsFor(cfg)'
          /\ req'[r].pc = "apply" => cfg' = req'[r].old
          /\ req'[r].pc \in {"apply", "save"} => InForce(cfg)' /\ RunsFor(cfg)'
          /\ req'[r].pc \in {"stop", "teardown"} => InForce(req[r].old)'
          /\ req'[r].pc = "setup" => Clean'
          /\ req'[r].pc = "start" => InForce(cfg)'
  <2>3. SUFFICES After
    BY <2>1, <2>2, <2>3 DEF ForceInv, AllIdle, Idle
  <2>4. ASSUME NEW b \in Bodies, Apply(r, b)
        PROVE  After
    <3>1. /\ cfg = req[r].old /\ InForce(cfg) /\ RunsFor(cfg)
          /\ UNCHANGED <<captures, stopCapture, rules, forward, ipForwardOriginal, before>>
      BY <1>0, <2>4 DEF Apply, ForceInv
    <3>2. CASE \E c : req' = [req EXCEPT ![r] = Resting(c)]
      <4>1. req'[r].pc = "idle"
        BY <3>2, RestReq
      <4>2. \A pc : GoTo(r, pc) => req'[r].pc = pc
        BY GoToReq
      <4>3. ~GoTo(r, "stop") /\ ~GoTo(r, "save")
        BY <4>1, <4>2
      <4>4. cfg' = cfg
        BY <1>0, <2>4, <3>1, <4>3 DEF Apply
      <4> QED
        BY <2>1, <3>1, <4>1, <4>4 DEF ForwardKnown, InForce, RunsFor, Running
    <3>3. CASE GoTo(r, "stop")
      <4>1. req'[r].pc = "stop" /\ req'[r].old = req[r].old
        BY <3>3, GoToReq
      <4> QED
        BY <2>1, <3>1, <4>1 DEF ForwardKnown, InForce
    <3>4. CASE GoTo(r, "save") /\ cfg' = cfg
      <4>1. req'[r].pc = "save"
        BY <3>4, GoToReq
      <4> QED
        BY <2>1, <3>1, <3>4, <4>1 DEF ForwardKnown, InForce, RunsFor, Running
    <3> QED
      BY <2>4, <3>1, <3>2, <3>3, <3>4 DEF Apply, Finish
  <2>5. CASE ReloadStop(r)
    <3>1. req'[r].pc = "teardown" /\ req'[r].old = req[r].old
      BY <2>5, GoToReq DEF ReloadStop
    <3>2. InForce(req[r].old) /\ UNCHANGED <<rules, forward, ipForwardOriginal, before>>
      BY <1>0, <2>5 DEF ReloadStop, ForceInv
    <3> QED
      BY <2>1, <3>1, <3>2 DEF ForwardKnown, InForce
  <2>6. CASE ReloadTeardown(r)
    <3>1. req'[r].pc = "setup" /\ InForce(req[r].old) /\ Teardown(req[r].old)
          /\ UNCHANGED <<ipForwardOriginal, before>>
      BY <1>0, <2>6, GoToReq DEF ReloadTeardown, ForceInv
    <3>2. Clean'
      BY <2>1, <3>1, TeardownCleans
    <3> QED
      BY <2>1, <3>1, <3>2 DEF ForwardKnown
  <2>7. CASE ReloadSetup(r)
    <3>1. PICK c : c = cfg
      OBVIOUS
    <3>2. Clean /\ SetupRules(c) /\ ipForwardOriginal' = Original(c) /\ UNCHANGED <<before, cfg>>
      BY <1>0, <2>7, <3>1 DEF ReloadSetup, ForceInv
    <3>3. InForce(c)' /\ ForwardKnown'
      BY <2>1, <3>2, SetupPutsInForce
    <3>4. InForce(cfg)'
      BY <3>1, <3>2, <3>3 DEF InForce
    <3>5. req'[r].pc \in {"start", "rollback"}
      BY <2>7, GoToReq DEF ReloadSetup
    <3> QED
      BY <3>3, <3>4, <3>5
  <2>8. CASE ReloadStart(r)
    <3>1. PICK c : c = cfg
      OBVIOUS
    <3>2. /\ InForce(cfg) /\ (\A d \in captures : d.stopping)
          /\ UNCHANGED <<cfg, rules, forward, ipForwardOriginal, before>>
      BY <1>0, <2>8 DEF ReloadStart, ForceInv, CapturesInv
    <3>3. InForce(cfg)' /\ ForwardKnown'
      BY <2>1, <3>2 DEF InForce, ForwardKnown
    <3>4. CASE OpenCapture(c) /\ GoTo(r, "save")
      <4>1. RunsFor(c)' /\ req'[r].pc = "save"
        BY <3>2, <3>4, OpenRuns, GoToReq
      <4>2. RunsFor(cfg)'
        BY <3>1, <3>2, <4>1 DEF RunsFor
      <4> QED
        BY <3>3, <4>1, <4>2
    <3>5. CASE GoTo(r, "rollback")
      BY <3>3, <3>5, GoToReq
    <3> QED
      BY <2>8, <3>1, <3>4, <3>5 DEF ReloadStart
  <2>9. CASE Rollback(r)
    BY <2>9 DEF Rollback
  <2>10. CASE Save(r)
    <3>1. req'[r].pc = "idle"
      BY <2>10, RestReq DEF Save
    <3>2. /\ InForce(cfg) /\ RunsFor(cfg)
          /\ UNCHANGED <<cfg, captures, stopCapture, rules, forward, ipForwardOriginal, before>>
      BY <1>0, <2>10 DEF Save, ForceInv
    <3> QED
      BY <2>1, <3>1, <3>2 DEF ForwardKnown, InForce, RunsFor, Running
  <2> QED
    BY <1>7, <2>4, <2>5, <2>6, <2>7, <2>8, <2>9, <2>10 DEF RequestStep
<1> QED
  BY <1>1, <1>2, <1>3, <1>4, <1>5, <1>6, <1>7 DEF RLNext, RequestStep

\* At each step of a request it is known whose rules are in the kernel.
THEOREM ForceInvariant == ReloadSpec => []ForceInv
<1>1. RLInit => ForceInv
  BY DEF RLInit, ForceInv, ForwardKnown, Clean, AllIdle, Idle, Resting
<1>2. Turns /\ CapturesInv /\ ForceInv /\ [RLNext]_rlvars => ForceInv'
  BY ForceNext DEF ForceInv
<1> QED
  BY <1>1, <1>2, TurnsInvariant, CapturesInvariant, PTL DEF ReloadSpec

\* What was applied is what runs: the rules, the capture and ip_forward.
THEOREM AppliedIsRunningHolds == ReloadSpec => []AppliedIsRunning
<1>1. ForceInv => AppliedIsRunning
  BY DEF ForceInv, AppliedIsRunning, Settled, AllIdle, Idle, InForce, RunsFor, SetUp
<1> QED
  BY <1>1, ForceInvariant, PTL

\* After an orderly end the host is as it was found.
THEOREM NoTraceLeftHolds == ReloadSpec => []NoTraceLeft
<1>1. ForceInv => NoTraceLeft
  BY DEF ForceInv, NoTraceLeft, Clean
<1> QED
  BY <1>1, ForceInvariant, PTL

-------------------------------------------------------------------------------
(* Types *)

\* What is put to a bag of rules, or taken from it, leaves a bag.
LEMMA StaysABag ==
    ASSUME NEW B, IsABag(B), NEW S
    PROVE  IsABag(B (+) SetToBag(S)) /\ IsABag(B (-) SetToBag(S))
<1>1. \A x \in DOMAIN B : B[x] \in Nat /\ B[x] > 0
  BY DEF IsABag
<1>2. IsABag(B (+) SetToBag(S))
  <2>1. DOMAIN SetToBag(S) = S /\ \A x \in S : SetToBag(S)[x] = 1
    BY DEF SetToBag
  <2> DEFINE C == B (+) SetToBag(S)
  <2>2. C = [x \in DOMAIN B \cup S |->
               (IF x \in DOMAIN B THEN B[x] ELSE 0) + (IF x \in S THEN SetToBag(S)[x] ELSE 0)]
    BY <2>1 DEF (+)
  <2>3. \A x \in DOMAIN C : C[x] \in {n \in Nat : n > 0}
    BY <1>1, <2>1, <2>2
  <2> QED
    BY <2>2, <2>3 DEF IsABag
<1>3. IsABag(B (-) SetToBag(S))
  <2> DEFINE D == [x \in DOMAIN B |-> IF x \in DOMAIN SetToBag(S) THEN B[x] - SetToBag(S)[x] ELSE B[x]]
  <2>1. \A x \in DOMAIN D : D[x] \in Int
    BY <1>1 DEF SetToBag
  <2>2. B (-) SetToBag(S) = [x \in {d \in DOMAIN D : D[d] > 0} |-> D[x]]
    BY DEF (-)
  <2> HIDE DEF D
  <2> QED
    BY <2>1, <2>2 DEF IsABag
<1> QED
  BY <1>2, <1>3

\* ReloadTypeOK with what it needs of the settings that requests go back to.
ConfigsOK ==
    /\ DOMAIN cfg = Fields /\ DOMAIN env = Fields
    /\ \A r \in Requesters : DOMAIN req[r].old = Fields
StagesOK ==
    /\ process \in {"down", "up", "quitting"}
    /\ mishaps \subseteq {"overlap", "refused", "failed", "crash"}
    /\ \A r \in Requesters : req[r].pc \in {"idle", "apply", "stop", "teardown", "setup", "start",
                                            "rollback", "save"}
HostOK ==
    /\ IsABag(rules) /\ {forward, before} \subseteq {0, 1}
    /\ opens \in Nat /\ stopCapture \in 0..opens
ReloadTypeInv == ConfigsOK /\ StagesOK /\ HostOK

\* Only the setup and the teardown of a gateway, and the start and the stop of a
\* capture, change the host.
HostUntouched == UNCHANGED <<rules, forward, before, opens, stopCapture>>

LEMMA HostNext ==
    ASSUME HostOK, [RLNext]_rlvars
    PROVE  HostOK'
<1>1. \A c : (SetupRules(c) \/ Teardown(c)) => IsABag(rules') /\ forward' \in {0, 1}
  BY StaysABag DEF SetupRules, Teardown, HostOK
<1>2. CASE HostUntouched
  BY <1>2 DEF HostUntouched, HostOK
<1>3. CASE Boot
  BY <1>1, <1>3 DEF Boot, OpenCapture, HostOK
<1>4. CASE EndProcess
  BY <1>4 DEF EndProcess, HostOK, NoCapture
<1>5. CASE Terminate
  BY <1>1, <1>5 DEF Terminate, HostOK
<1>6. ASSUME NEW r \in Requesters, ReloadTeardown(r) \/ ReloadSetup(r) PROVE HostOK'
  BY <1>1, <1>6 DEF ReloadTeardown, ReloadSetup, HostOK
<1>7. ASSUME NEW r \in Requesters, ReloadStart(r) PROVE HostOK'
  BY <1>7 DEF ReloadStart, OpenCapture, HostOK, NoCapture
<1>8. ASSUME NEW r \in Requesters,
             Receive(r) \/ (\E b \in Bodies : Apply(r, b)) \/ ReloadStop(r) \/ Rollback(r) \/ Save(r)
      PROVE  HostUntouched
  BY <1>8 DEF Receive, Apply, ReloadStop, Rollback, Save, HostUntouched
<1> QED
  BY <1>2, <1>3, <1>4, <1>5, <1>6, <1>7, <1>8
     DEF RLNext, Crash, Exit, DestroyQueue, HostUntouched, rlvars, process_vars

\* A body changes settings field by field.
LEMMA StagesNext ==
    ASSUME Shape, StagesOK, ConfigsOK, [RLNext]_rlvars
    PROVE  StagesOK' /\ ConfigsOK'
<1>1. CASE Boot \/ Terminate \/ DestroyQueue \/ UNCHANGED rlvars
  BY <1>1 DEF Boot, Terminate, DestroyQueue, StagesOK, ConfigsOK, rlvars, process_vars
<1>2. CASE Crash \/ Exit
  BY <1>2 DEF Crash, Exit, EndProcess, StagesOK, ConfigsOK, Resting
<1>3. ASSUME NEW r \in Requesters, Receive(r) PROVE StagesOK' /\ ConfigsOK'
  <2>1. req'[r] = [pc |-> "apply", old |-> cfg] /\ (\A s \in Requesters : s # r => req'[s] = req[s])
    BY <1>3 DEF Receive, Shape
  <2> QED
    BY <1>3, <2>1 DEF Receive, StagesOK, ConfigsOK
<1>4. ASSUME NEW r \in Requesters, NEW b \in Bodies, Apply(r, b) PROVE StagesOK' /\ ConfigsOK'
  <2>1. DOMAIN Merged(cfg, b) = Fields
    BY DEF Merged
  <2>2. /\ cfg' \in {cfg, [cfg EXCEPT !.dep = Given(b, "dep", @)], req[r].old, Merged(cfg, b)}
        /\ UNCHANGED <<process, env>> /\ mishaps' \subseteq mishaps \cup {"refused"}
        /\ Finish(r) \/ GoTo(r, "stop") \/ GoTo(r, "save")
    BY <1>4 DEF Apply
  <2>3. DOMAIN cfg' = Fields
    BY <2>1, <2>2 DEF ConfigsOK
  <2>4. /\ req'[r].pc \in {"idle", "stop", "save"} /\ DOMAIN req'[r].old = Fields
        /\ \A s \in Requesters : s # r => req'[s] = req[s]
    <3>1. CASE Finish(r)
      BY <2>3, <3>1 DEF Finish, Resting, Shape
    <3>2. CASE GoTo(r, "stop") \/ GoTo(r, "save")
      BY <3>2, GoToReq DEF ConfigsOK
    <3> QED
      BY <2>2, <3>1, <3>2
  <2> QED
    BY <2>2, <2>3, <2>4 DEF StagesOK, ConfigsOK
<1>5. ASSUME NEW r \in Requesters,
             ReloadStop(r) \/ ReloadTeardown(r) \/ ReloadSetup(r) \/ ReloadStart(r)
      PROVE  StagesOK' /\ ConfigsOK'
  <2>1. /\ UNCHANGED <<cfg, env, process, mishaps>>
        /\ \E pc \in {"teardown", "setup", "rollback", "start", "save"} : GoTo(r, pc)
    BY <1>5 DEF ReloadStop, ReloadTeardown, ReloadSetup, ReloadStart
  <2> QED
    BY <2>1, GoToReq DEF StagesOK, ConfigsOK
<1>6. ASSUME NEW r \in Requesters, Rollback(r) \/ Save(r) PROVE StagesOK' /\ ConfigsOK'
  <2>1. /\ DOMAIN cfg' = Fields /\ DOMAIN env' = Fields
        /\ req' = [req EXCEPT ![r] = Resting(cfg')]
        /\ UNCHANGED process /\ mishaps' \subseteq mishaps \cup {"failed"}
    BY <1>6 DEF Rollback, Save, Finish, ConfigsOK
  <2>2. req'[r] = Resting(cfg') /\ \A s \in Requesters : s # r => req'[s] = req[s]
    BY <2>1 DEF Shape
  <2> QED
    BY <2>1, <2>2 DEF StagesOK, ConfigsOK, Resting
<1> QED
  BY <1>1, <1>2, <1>3, <1>4, <1>5, <1>6 DEF RLNext

\* Settings keep their fields, the kernel's rules stay a bag, and the capture that
\* would be stopped is one that was opened.
THEOREM ReloadTypeCorrect == ReloadSpec => []ReloadTypeOK
<1>1. RLInit => ReloadTypeInv
  BY SettingsAssumption
     DEF RLInit, ReloadTypeInv, ConfigsOK, StagesOK, HostOK, Resting, NoCapture, EmptyBag, IsABag, SetToBag
<1>2. Turns /\ ReloadTypeInv /\ [RLNext]_rlvars => ReloadTypeInv'
  BY HostNext, StagesNext DEF Turns, ReloadTypeInv
<1>3. ReloadTypeInv => ReloadTypeOK
  BY DEF ReloadTypeInv, ConfigsOK, StagesOK, HostOK, ReloadTypeOK
<1> QED
  BY <1>1, <1>2, <1>3, TurnsInvariant, PTL DEF ReloadSpec
===============================================================================
