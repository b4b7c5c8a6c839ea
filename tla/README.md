# TLA+ models of the IDPS backend

Models, model-checking runs and proofs for the Go backend under `src/backend`: an intrusion
detection and prevention system that captures packets, raises alerts by rate heuristics, rules,
Suricata and an ML service, and blocks sources in the kernel (iptables and ebtables on Linux).

The core of the program, and of this project, is the path from an alert to a kernel rule and back:
detection calls the firewall manager, the manager runs commands and keeps a cache, two background
loops lift what has expired, and an API and settings page interfere at any moment. No lock spans
that path, and the repository holds no unit test files.

## The system

| Component | State | Operations | Interacts with |
|---|---|---|---|
| Firewall manager (`firewall/`) | `allowlist`, `blockCache`, kernel rules | BlockDeviceWithResult, UnblockDevice, ttlSweeper, Setup/TeardownGateway | called by every other part; runs commands |
| Prevention (`detection/heuristic.go`, `engine.go`, `suricata.go`, `main.go`, `api/`) | `BlockedIPs`, `BlockedMACs`, `LastAlertTimes`, block counters, `Devices` | triggerAlert, roaming re-block, API block/unblock, auto-unblock loop, cleanupLoop | firewall manager, AppState |
| Settings and reload (`api.updateSettings`, `main.go` Reload) | `Config`, running capture, gateway rules | mode changes, rollback, save | firewall, capture |
| Capture and dispatch (`capture/`) | queue handles, worker choice | realCallback, getEngine, AF_PACKET workers | engines, device table |
| Flow tracker (`flow/tracker.go`, `key.go`) | table of flows, ML features | GetOrCreate, UpdateFlowML, pruneLoop | engine, ML goroutines |
| TCP reassembly (`flow/reassembly.go`) | `NextSeq`, `Data`, queued chunks | AddSegment, drainChunks | flow tracker |
| Suricata tail (`suricata.go`) | file position, reader | tail, rotation, stats | triggerAlert |
| Rate heuristics (`heuristic.go`) | sliding windows per source | AnalyzePacket | triggerAlert |
| Rules and matching (`rules/`, `match/`) | automaton, rule list | Build, Match, ruleHeaderMatch | engine |
| ML client (`detection/ml.go`) | availability, circuit | Predict | engine |
| HA sync, audit, alert log, auth, CLI, frontend | none the properties depend on | | |

What is hard here: the manager's mutex is released around every command; `AppState.Mu` is released
around every firewall call; the security and deployment modes are read several times within one
operation; two sweepers work from lists collected earlier; failed commands are ignored on removal; a
crash loses the cache and keeps the kernel's rules. `PROJECT.json` lists the hazards with their lines.

What makes each part correct, in short. Firewall: table and cache agree, a confirmed block is in the
kernel, nothing protected is ever blocked, nothing expired stays and nothing unexpired is dropped.
Prevention: one alert per rule, source and window, each request with one outcome, entries that match
the kernel and that are lifted in time. Reload: what is configured is what runs, what was saved had
worked, and nothing is left behind. Flows: both directions meet in one engine, which blames whoever
opened the connection. Reassembly: what is searched is a piece of what was sent. Tail: each event
once and in order. Windows: a rate is that of the last seconds. Rules: what the rule says.

## Modules

- `Firewall.tla` models `firewall.go` and `firewall_linux.go` with the kernel tables. A call is a
  record in `call`, indexed by the calling goroutine; each action is one critical section or one
  command of that call. `ipRules` counts DROP rules per address and chain, `macRules` per MAC.
  `pending` is the time between a settings change and the end of its reload. Two history
  variables say how much an address can be trusted: `disturbed` has those whose operations overlapped
  each other or a change of deployment mode, `failed` those a failed command or a crash left in doubt.
  Enforcement (`ConfirmedIsEnforced`, `NoEarlyRelease`, `ConfirmedEntryIsEnforced`) is claimed in
  spite of failures and only without overlap; exactness (`TableMatchesKernel`) and liveness with
  neither. `NoRuleLeak` shows that overlap alone breaks exactness.
- `Blocking.tla` is the abstract specification of the manager: an address is blocked or not, until some
  time, and each caller asks, has its effect at one moment, and gets an answer. It knows no
  commands, no chains and no cache. `Firewall` implements it (`KeepsPromise`) with
  `Promise == INSTANCE Blocking WITH trusted <- Trusted, blocked <- Dropped, ...`: the trusted addresses are
  those neither `disturbed` nor `failed`, a block takes effect with the insertion of the rule, an unblock
  or a sweep with the deletion of the last one, and `FAILED` and `REQUESTED` are refusals.
- `Prevention.tla` EXTENDS `Firewall` and says who calls it, with what, and what is written to
  `AppState` before and after. `job` holds the handler each goroutine runs. Which packet raises which
  alert is left open, so every alert the detectors could raise may come. The MAC of a packet is
  what the running capture knows: that of the frame, or, behind NFQUEUE, that of the device table.
- `ReloadProofs.tla`, `SuricataTailProofs.tla`, `RateWindowProofs.tla`, `ReassemblyProofs.tla` and
  `RuleEngineProofs.tla` hold the theorems about the module they are named after, `PreventionProofs.tla`
  those about `Firewall` and `Prevention`, `FlowProofs.tla` those about `FlowTable` and `FlowFeatures`;
  `BasicLemmas.tla` has what they share about numbers, induction and folds.
- `Reload.tla` is the life of a configuration: `env` (the file), `cfg` (in memory), `rules`, `forward`
  and `captures` (the kernel), and where each request is in updateSettings and Reload (`req`).
  `rules` is a bag, since the same rule can be set up twice. `mishaps` records what went wrong, so
  that each property can say what it holds in spite of.
- `TcpStream.tla` has the operators of `reassembly.go`; `Reassembly.tla` puts a sender in front of them
  whose segments arrive in any order, repeatedly or not at all; `ByteStream.tla` is the abstract
  specification of what is delivered, and `Delivered == INSTANCE ByteStream WITH delivered <-
  stream.Data` the refinement that is checked.
- `FlowTable.tla` EXTENDS `TcpStream`: the tables of the engines, the packets of two ends, and the
  way of a packet through `ProcessPacket`, one action per critical section. `EngineFor` is the choice
  of the capture, a constant: one engine for both directions, or two.
- `FlowFeatures.tla`: what `UpdateFlowML` accumulates for the ML service and `ExtractFlowFeatures`
  sends, against a log of the packets.
- `RateWindow.tla`: the windows of `AnalyzePacket` for one source, with workers whose clock readings
  overtake each other, and `cleanupLoop`. Two histories (`seen`, `newest`) say what a window ought to
  contain.
- `RuleEngine.tla`: parsing of the options of a rule, the two automata, the prefilter and the matcher.
  A node of an automaton is the word that leads to it. The reference definitions are
  `OccursAt` for the search and `Says` for a rule.
- `SuricataTail.tla`: a file in pieces that is renamed, created and emptied at any moment, and the
  tail loop over it, one action per system call that matters.
- `MCFirewall.tla`, `MCPrevention.tla`, `MCReload.tla`, `MCFlowTable.tla` are instances for TLC.
  `MCComponents.tla` puts the instances of six components that share no state into one
  specification: a variable `focus` selects the one that moves, the others stay where they start.

| Code | Model |
|---|---|
| `BlockDeviceWithResult` 187-275 | `BlockStart`, `CheckSafe`, `CheckMode`, `CheckCache`, `CacheConfirmed` |
| `ApplyBlock`, `VerifyBlock` | `RuleExists`, `InsertRule`, `InsertMac`, `Verify` |
| `UnblockDevice`, `RemoveBlock` | `UnblockStart`, `RemoveInput`, `RemoveForward`, `RemoveMac`, `DropCache` |
| `ttlSweeper` | `SweepCollect`, `SweepNext`, then the removal steps |
| `updateSettings`, `Reload` | `Receive`, `Apply`, `ReloadStop`, `ReloadTeardown`, `ReloadSetup`, `ReloadStart`, `Rollback`, `Save`; in `Firewall` and `Prevention` their effect on blocks only: `SetSecMode`, `SetDeploy`, `ReloadGateway`, `Reload` |
| `main`, signal, crash | `Boot`, `Terminate`, `Exit`, `Crash` |
| `SetupGateway`, `TeardownGateway` | `SetupRules`, `Original`, `Teardown` |
| `startPlatformCapture`, its stop functions | `CanOpen`, `OpenCapture`, `StopCapture`, `DestroyQueue` |
| `GetOrCreate`, `UpdateFlowML`, `pruneLoop` | `GetOrCreate`, `Update`, `Prune`; `TrackBulk`, `TrackActivity`, `TrackArrival` |
| ML throttle of `ProcessPacket` | `ReadThrottle`, `WriteThrottle` |
| `AddSegment`, `drainChunks` | `AddSegment`, `DrainChunks`, `DrainOne` |
| `ParseRule`, `AddRule`, `Build`, `Match` | `AddOption`, `Modify`, `AddRule`, `LinkLevel`, `Goto`, `SearchByte`, `NextCursor`, `Match` |
| `StartSuricataPrimaryEngine` | `OpenFirst`, `SeekEnd`, `Fill`, `ReadLine`, `ReadPartial`, `CheckRotation`, `Reopen` |
| `AnalyzePacket`, `ProcessPacket` | `PacketArrives`, `LookUp`, `RoamingAnswered`, `Analyzed`, `Inspected` |
| `triggerAlert` | `RaiseAlert`, `AlertAnswered` |
| `blockIP`, `unblockIP` | `ApiBlock`, `ApiBlockAnswered`, `ApiUnblock`, `UnblockAnswered` |
| auto-unblock goroutine of `main.go` | `AutoCollect`, `AutoNext`, `UnblockAnswered` |
| `cleanupLoop` | `Cleanup` for alert times, `Clean` for windows |
| process crash, for blocks | `Restart`, `Crash` of `Prevention` |

## Runs

| Run | Asks | Shows |
|---|---|---|
| `FirewallOverlap` | two callers and the sweeper on one address in IPS mode, one failed command or crash, two changes of deployment mode or allowlist | the number of rules is bounded whatever overlaps; without overlap a confirmed block is enforced and not released early, failures included |
| `FirewallSerial` | one caller, two addresses (one protected), the sweeper | table and cache agree; a protected address gets no rule; an expired block is lifted; `Firewall` implements `Blocking` |
| `FirewallLeak` | no faults | violated: two overlapping calls leave a rule that nothing tracks (`state.go:249-250` promises no "permanent rule leaks") |
| `PreventionAlerts` | two workers, throttle, cleanup, one settings change | alerts of a rule are a window apart; outcomes never exceed requests |
| `PreventionUnblock` | packets, ML verdicts, API, both loops, one fault or crash | an unexpired CONFIRMED entry is enforced, failures and crashes included |
| `PreventionRoaming` | a blocked device on a second address, liveness | every expired entry is lifted or renewed |
| `PreventionProtected` | a gateway that shares a blocked MAC | violated: the gateway is entered into `BlockedIPs` (`README.md:270` says it "can never be blocked") |
| `PreventionMacLeak` | one handler at a time, no faults | violated: an alert without MAC makes the later unblock forget the ebtables rule |
| `Components` | six components, each on its own instance | see the next table |
| `SuricataTail` | three events, two renames or truncations | an event is acted upon once at most, in order, and, if written whole ahead of the reader to the file that stays, in the end |
| `VisitedServer` | one local host, the two directions in different engines | violated: the server is blamed (`architecture.md:50` says both directions reach "the exact same Go worker engine") |
| `IdsDrops` | the default settings, one start | violated: packets are queued and nothing reads the queue (`architecture.md:396` says the mode monitors "without packet delays or kernel drops") |

| Properties of `Components` | What they say |
|---|---|
| `AppliedIsRunning`, `NoTraceLeft` | between requests the rules, the capture and `ip_forward` are those of the settings, and after an orderly end the host is as it was; not after overlaps, failures, a crash or a refused body |
| `NoOrphanCapture` | no capture runs that nothing can stop, failures and crashes included, unless requests overlapped |
| `SavedWasApplied` | `.env` holds settings that once worked, failures and crashes included |
| `HeldIsTracked` | a flow that a loop works on is the one in the table |
| `StreamsOfOneSide` | the client's stream is what one end sent, the server's what the other did |
| `MLSpacing`, `BlameFollowsOpener` | requests to the ML service are spaced, and name whoever opened the connection, with one engine for both directions |
| `DeliversByteStream`, `Complete` | what is delivered is a piece of what was sent that only grows, and all that can be is |
| `NothingLiveForgotten`, `FloodsAreReal`, `SpreadsAreReal` | windows keep what every worker still counts, and alerts tell the rate of the last window, up to the lag of a handler |
| `SearchFindsAll`, `PrefilterLosesNothing`, `RulesMatchAsWritten` | the automaton finds each occurrence once, hides no rule, and a match is what the rule says |
| `BulksAreThoseOfTheLog`, `TimesAddUp` | the numbers sent to the ML service are those of the packets |

What these properties except is what the code gets wrong or gives up, and the exceptions are named
in them: a queued segment beyond the wrap of sequence numbers is dropped (`NoWrap`), as is one that
meets a full queue; an event found half written, and every later one if a file cannot be opened
after a rotation, is lost; a failed reload restores the settings in memory only; the matcher does not
go back to a later place of a content (`limited`); a pruned flow begins anew with whoever speaks next
(`lapsed`).

Bounds, each a constant: `MaxTime` on the clock (two ticks are enough for a block to start, reach its
expiry and pass it, with `TTL` 1), `MaxFaults` on failed commands and crashes, `MaxEdits` on
allowlist and settings changes, `MaxRequests` on API requests, `MaxMacRules` on the ebtables table
before new work starts, `MaxLag` on how old a clock reading a handler may use. The races need
two goroutines on one address; two callers with the sweeper give all pairs of operations.
`PreventionAlerts` has a `TTL` beyond `MaxTime`: expiry is the subject of the other two runs.
In `Prevention`, `Window` and `Retain` keep the order of the code's 30 s and 300 s, at the tightest
ratio that `WindowAssumption` allows; in `RateWindow` those of 3 s, 60 s and 300 s, with
`WindowsAssumption`, whose margin of twice the lag is one the proof asked for (see Proofs).

In `Components`: two requests, two starts of the process and one capture that fails where it should
not are enough for every pair of a request with another, a signal or a crash; three packets and
`MaxFlows` 1 let a flow be refused, pruned and begun anew; five bytes in segments of one or two, with
`MaxDepth` 4 and `MaxChunks` 1, reach both limits, and `Modulus` 16 with the initial number 12 the
wrap; four packets on windows of one and two units enter and leave them, with handlers `MaxLag`
behind; two rules of eight on payloads of up to four bytes; flows of four packets, with `MinBulk` 2
and `MaxEntries` 2 for 4 and 1000. In `SuricataTail`, two rotations allow one while the other is
being handled.

Symmetry is used in the runs without liveness, over interchangeable callers and, in `Components`, whose
`DeliversByteStream` is a safety property, over goroutines and keys. Deadlock is checked wherever the
system has no end: traffic, requests and starts are bounded in `Components`, `VisitedServer` and
`IdsDrops`.

Fairness. `RestoresAccess` assumes only that the sweeper keeps running (`for` with a 5 s sleep, no
exit); `EntryLifted` only that the auto-unblock goroutine does (a ticker, ended by shutdown);
`WrittenIsIngested` only that the tail loop does (`for` with a sleep, no exit), and nothing of Suricata.
Nothing is assumed of callers, of time, or of the operator. The first two stop being true if a command hangs:
`exec.Command` is used without a timeout.

## Proofs

`PreventionProofs` proves of the firewall manager, for any sets of addresses, MACs and callers and any
bounds, from the named assumptions of `Firewall`:

- `TypeCorrect`: `Spec => []TypeOK`, by one lemma per group of actions over facts about writing one
  call record. No rule count becomes negative.
- `ProtectedSafe`: `Spec => []ProtectedNeverFirewalled`. "No rule exists" is not inductive, because
  a call past the safety check will insert one. `ProtectedInv` adds that no such call is
  for a protected address; every step but the check itself keeps the set of such calls
  (`NonePasses`).
- `RulesBounded`: `Spec => []RuleBound`. The invariant counts the calls about to insert as well as the
  rules: a rule is inserted only by giving up such a call, a call gets there only past a `-C` that
  found no rule, and a `-C` that fails to run is paid for by `faults`.

`ReloadProofs` proves, for any requesters, bodies, settings and interfaces and any number of requests,
restarts and faults:

- `NoOrphanCaptureHolds`: `ReloadSpec => []NoOrphanCapture`. Not inductive: a reload starts a
  capture without looking whether one runs. `CapturesInv` adds that from the stop to the start of
  a reload every open capture is stopping, which needs that only one request is under way
  (`OneAtATime`, of `Turns`, true until an overlap).
- `SavedWasAppliedHolds`: `ReloadSpec => []SavedWasApplied`. `SavedInv` adds that what a request
  goes back to, and what it is about to save, was in force.
- `AppliedIsRunningHolds` and `NoTraceLeftHolds`: `ReloadSpec => []AppliedIsRunning` and
  `[]NoTraceLeft`. `ForceInv` says for each step of a request whose rules are in the kernel: those of the
  old settings up to the teardown, none before the setup, those of the new after it, and that
  `ipForwardOriginal` is what the process found. `TeardownCleans` and `SetupPutsInForce` are about bags
  of rules: removing what was added leaves nothing.
- `ReloadTypeCorrect`: `ReloadSpec => []ReloadTypeOK`.

`PreventionProofs` also has the addresses whose operations neither overlapped nor changed mode:

- `TableExactness`, `ConfirmationSound` and `ReleaseSound`: `Spec => []TableMatchesKernel`,
  `[]ConfirmedIsEnforced` and `NoEarlyRelease`. Each speaks of moments between operations, so none is
  inductive. `UndisturbedInv` follows one operation: at most one works on the address, and what the cache
  holds is in the kernel or being removed, failures or not (`CacheBacked`); where nothing failed, the
  number of rules and their chain are known at each of its steps (`Exact`).

- `ImplementsBlocking`: `Spec => KeepsPromise`, the refinement. `PromiseInv` is `TypeOK`, `UndisturbedInv` and
  `Shapes` (what a record holds of a call that has ended). A step on a trusted address is a step of one
  caller of `Blocking` or of a sweep (`ApplyRefines`, `RemoveRefines`, ...), which
  `TableMatchesKernel` and `UndisturbedInv` show to be allowed there: a rule is inserted where there
  was none, and an answer is what the kernel holds. A step that makes an address lose trust is `Distrust`,
  whatever else it does; the others are not seen.

and of the pipeline, for any workers, devices, rules and API requests:

- `FirewallHolds`: every step of the pipeline is a step of `ManagerNext`, the manager under any
  callers, so the invariants proved of it and the promise (`PromiseHolds`) carry over. `BaseInv`
  adds that a thread inside a call is there for the handler that waits for it.
- `AccountsKept`, `StateCorrect`: `PSpec => []BlocksAccounted` and `[]PTypeOK`. The blocks in flight are a
  set of threads that each answer takes one from and a crash empties into `unanswered`.
- `AlertsSpaced`: `PSpec => AlertSpacing`, an action property. `StampsInv`: the throttle's stamp is that of the
  last alert, or was forgotten once it was older than `Retain`. With handlers `MaxLag` behind, this is
  enough only if `Window + MaxLag <= Retain + 1`.
- `ConfirmedEntriesSound`: `PSpec => []ConfirmedEntryIsEnforced`. `EntriesInv` compares expiries: a
  confirmed entry expires no later than what the manager's cache holds, or an unblock of the API is at
  work; and a block under way will leave the cache lasting as long as the entry it confirms.

`FlowProofs` proves, for any endpoints, engines, loops and limits:

- `HandlersKeepFlows`, `TablesBounded`: `FlowSpec => []HeldIsTracked` and `[]FlowTypeOK`. A held flow is recent
  enough not to be pruned (`HeldInv`), which needs a handler to be faster than the idle timeout.
- `RequestsSpaced`: `FlowSpec => []MLSpacing`. `SpacingInv` says how old the throttle may be made by
  another loop: no older than the packet that loop is still handling, hence the lag in the property.
- `BlameSound`: `FlowSpec => []BlameFollowsOpener`, if both directions of a connection go to one engine
  (`BothDirections`; `VisitedServer` is the counterexample without it) and an outside host that local
  ones connect to opens no connection itself (`ServersOnlyAnswer`; a host that does both is rightly
  blamed for its own). The connections and engines of `Components` satisfy both.
- `StreamsNotMixed`: `FlowSpec => []StreamsOfOneSide`. `SidesInv`: what is delivered and what is queued of a
  stream comes from one end, and the number expected next is that of the next byte of that
  end. `DrainKeeps` carries it over the fold of `drainChunks`.

and of the features, for any sizes, gaps and limits:

- `BulksAreReal`: `FeatureSpec => []BulksAreThoseOfTheLog`. The property compares totals with runs selected
  from the log, which no step relates to each other; `RunsInv` says that the run in progress is the
  last maximal one of the log (`OpenRun`), and that what was closed is the sum of the others, so that a
  packet either lengthens the last run or begins one.
- `TimesAreComplete`: `FeatureSpec => []TimesAddUp`. `ArrivalsInv` and `PeriodsInv`: the sums of the lists are the
  spans they cover, up to the start of the active period that is still open.
- `FeaturesTypeCorrect`: `FeatureSpec => []FeaturesTypeOK`. No bulk takes a negative time, since a run ends
  where the log is not earlier than where it starts.

`SuricataTailProofs` proves `TailTypeCorrect` and `EventsOnceInOrder`: `TailSpec => []TailTypeOK` and
`[]OnceInOrder`, for any number of events and rotations. Every piece of a file has a stamp, half lines
included; `TailInv` says that stamps grow along each file, from one file to the next, in the buffer, and
from what was acted upon to what can still be read.

`RateWindowProofs` proves `WindowsExact`, `FloodAlertsSound` and `SpreadAlertsSound`: `WindowSpec =>
[]NothingLiveForgotten`, `[]FloodsAreReal` and `[]SpreadsAreReal`, for any workers, keys, windows and
thresholds. `WindowInv`: a list is in order up to `MaxLag`, and counts every reading that is recent enough
to be used. The proof showed that `Window + MaxLag <= Retain` is not enough: `cleanupLoop` looks at the
last stamp of a list only, which can be `MaxLag` older than one before it. With `Window` 1, `MaxLag` 2 and
`Retain` 3 the property fails; `WindowsAssumption` therefore asks for `Window + 2 * MaxLag <= Retain`, which
the code's 3 s and 300 s leave ample room for. `RatesTypeCorrect`: `WindowSpec => []RateTypeOK`, where
`BudgetInv` says that every packet enters the list "packet", so that no list outgrows the packets.

`ReassemblyProofs` proves, for any segmentation and order of arrival and any initial number:

- `StreamBounded` and `ImplementsByteStream`: `StreamSpec => []StreamTypeOK` and `StreamSpec => DeliversByteStream`,
  the refinement: `SInit` is initial for `ByteStream`, and each segment is a `Deliver` or a stutter.
- `NothingWithheld`: `StreamSpec => []Complete`. `StreamInv`: the bytes from `a` to `b` have been taken, the
  queue is in order and beyond them, and, until the limit, a full queue or numbers that pass zero, every
  segment that arrived ends by `b` or is queued. For `DrainChunks`, the same is shown to be kept by each step of the fold.

The assumption is that the sender sends less than half of the numbers (`Modulus > 2 * Len(Sent)`, fewer than
2^31 bytes): beyond it `int32` differences no longer tell before from after.

`RuleEngineProofs` proves, for any bytes, rules, options and payloads:

- `SearchesFindAll`: `RuleSpec => []SearchFindsAll`. A node is a word, and `GotoLongest` is the reason why the
  algorithm is right: from the node of the longest suffix of what was read, the failure links lead
  through all its suffixes in the trie, longest first, so that the first one with a child for the
  next byte gives the longest suffix again. Level by level (`LinkLevelGives`) `Build` gives each node its
  longest shorter suffix and the patterns that end there; byte by byte (`SearchedUpTo`) the search has
  found what ends up to there.
- `RulesWellFormed`: `RuleSpec => []RulesTypeOK`, from `RulesInv`: each automaton has one pattern for each
  of its rules, the first of that rule, and a result is what search and rules give for its payload.
- `PrefilterSound`: `RuleSpec => []PrefilterLosesNothing`. `NextCursorIs` says where the matcher finds a content,
  `FirstContentOccurs` that the prefilter then finds it too; what ignores case is in lower case in rule,
  pattern and payload, which is idempotent.
- `RulesMatchTheirText`: `RuleSpec => []RulesMatchAsWritten`. `ParseReads`: the contents are those of the text, in
  order, each with the last value of its modifiers. `SaidIsMatched`, by induction over the contents: the
  matcher's cursor is never behind any other choice of places, and an earlier cursor allows whatever a
  later one does, unless the content has a limit counted from the cursor (`EarlierAllows`).

The assumptions on bytes: only letters have a lower case, which is its own; a byte that is no text by
itself is replaced by bytes that are no text either (U+FFFD is EF BF BD).

`BasicLemmas`: induction on numbers and on the subsets of a finite set, from the well-foundedness of `<`,
since the library's induction theorems take operators; and that `SumFunctionOnSet` and `FoldLeft` are what
their recursions say, which the proofs about windows and streams go through.

Every safety invariant, action property and refinement of the passing runs is proved. `ComponentsTypeOK` joins
the type invariants of six components for one run; it is proved part by part, each of its component's
own specification: `ReloadTypeCorrect`, `TablesBounded` (`FlowTypeOK`), `StreamBounded` (`StreamTypeOK`),
`RatesTypeCorrect`, `RulesWellFormed` (`RulesTypeOK`) and `FeaturesTypeCorrect`. Only model-checked are
`RestoresAccess`, `EntryLifted` and `WrittenIsIngested`, which are liveness, and the runs that expect a
violation.

## Not modelled, and why

- Dry run: no command is executed and `VerifyBlock` answers true, there is nothing to keep in step.
- In `Firewall`, deployment mode GATEWAY behaves as NETWORK. PASSIVE is accepted from the environment
  only, as in the code. The Windows backend (netsh) is not modelled.
- In `Firewall` and `Prevention` a reload is one step after the settings change and ends before the
  next; `Reload` has its steps, without the blocks. The commands of a setup do not fail there: their
  errors are ignored by the code.
- Allowlist entries are addresses; the code compares strings as well, subnets never match.
- Alerts that do not ask for a block (severity and confidence both below High): no caller of
  `triggerAlert` raises one.
- Pruning of the device table after 24 hours; addresses outside the private ranges, which the table
  does not hold.
- In `FlowTable`, UDP and ICMP flows, which have no streams; the other flags. Flag counters, header
  lengths and window sizes are sums that only the ML service reads.
- Two connections one after the other on the same pair of endpoints within the idle timeout.
- Characters of several bytes in contents that ignore case: `bytes.ToLower` is modelled byte by byte, and
  what is said of matches is said of payloads that are ASCII (`IsText`). Option values that overflow an
  `int` when added to a position.
- The header of a rule (addresses, ports, direction) and pcre; the options `flow:...` are parsed by the
  code and looked at nowhere. The alerts raised for one packet alone.
- HA sync (a listener that only logs), audit and alert logs, authentication, inspectors (parsers of
  one payload each, without state), CLI, frontend, the ML service.

## What could come next

1. Rule headers (`ruleHeaderMatch`) as functions against a reference definition.
2. The prevention pipeline as an abstract specification of its own: what an alert promises of its source.
3. Failing commands in `Reload`, if the code should come to look at their errors.
