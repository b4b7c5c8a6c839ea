----------------------------- MODULE FlowFeatures -----------------------------
(***************************************************************************)
(* What the flow tracker accumulates of a flow for the ML service          *)
(* (UpdateFlowML in flow/tracker.go) and what is sent of it                *)
(* (ExtractFlowFeatures in detection/ml.go), under the mutex of the flow.  *)
(*                                                                         *)
(* The numbers are built up packet by packet and a log keeps what they are *)
(* about. Means and deviations are left out: they are functions of the     *)
(* lists, sums and counts that are here.                                   *)
(***************************************************************************)
EXTENDS Integers, Sequences, FiniteSets, SequencesExt

CONSTANTS
    IdleGap,    \* bulkIdleThresholdUs: a longer gap ends a bulk and an active period
    MinBulk,    \* data packets that make a bulk: 4
    MaxEntries, \* entries kept in a list: 1000
    Sizes,      \* payload sizes, 0 among them
    Gaps,       \* times from one packet to the next
    MaxLog      \* bound on the packets of a flow

ASSUME FeatureAssumption ==
    /\ {IdleGap, MinBulk, MaxEntries, MaxLog} \subseteq Nat /\ MinBulk > 0
    /\ Sizes \subseteq Nat /\ Gaps \subseteq Nat

Directions == {"fwd", "bwd"}
Unset == -1

VARIABLES
    flow,
    log         \* history: the packets, [dir, size, at]

fvars == <<flow, log>>

NoRun == [packets |-> 0, bytes |-> 0, start |-> Unset, end |-> Unset]
NoBulk == [count |-> 0, packets |-> 0, bytes |-> 0, duration |-> 0]

NewFeatures ==
    [run  |-> [d \in Directions |-> NoRun],   \* FwdBulkRun..., BwdBulkRun...
     bulk |-> [d \in Directions |-> NoBulk],  \* FwdBulk..., BwdBulk...
     IATs |-> [x \in Directions \cup {"all"} |-> <<>>],
     last |-> [x \in Directions \cup {"all"} |-> Unset],
     packets |-> [d \in Directions |-> 0],
     bytes |-> [d \in Directions |-> 0],
     ActivePeriods |-> <<>>, IdlePeriods |-> <<>>, ActiveStart |-> Unset, ActiveEnd |-> Unset]

Keep(list, value) == IF Len(list) < MaxEntries THEN Append(list, value) ELSE list

\* Mutant: a run must be longer.
AddRunLonger(bulk, run) ==
    IF run.packets <= MinBulk THEN bulk
    ELSE [count |-> bulk.count + 1, packets |-> bulk.packets + run.packets,
          bytes |-> bulk.bytes + run.bytes, duration |-> bulk.duration + run.end - run.start]

\* The run in progress as a bulk, if it is long enough.
AddRun(bulk, run) ==
    IF run.packets < MinBulk THEN bulk
    ELSE [count |-> bulk.count + 1, packets |-> bulk.packets + run.packets,
          bytes |-> bulk.bytes + run.bytes, duration |-> bulk.duration + run.end - run.start]

\* A data packet extends the run of its direction or, after a gap, closes it and
\* starts another. Packets of the other direction do not matter.
TrackBulk(f, d, size, now) ==
    LET closes == f.run[d].packets > 0 /\ now - f.run[d].end > IdleGap
        run == IF closes \/ f.run[d].packets = 0 THEN [NoRun EXCEPT !.start = now] ELSE f.run[d]
    IN  IF size = 0 THEN f
        ELSE [f EXCEPT !.bulk[d] = IF closes THEN AddRun(@, f.run[d]) ELSE @,
                       !.run[d] = [run EXCEPT !.packets = @ + 1, !.bytes = @ + size, !.end = now]]

\* Mutant: the active period does not start anew after a gap.
TrackActivityNoReset(f, now) ==
    LET gap == now - f.last["all"]
        first == f.last["all"] = Unset
        idles == ~first /\ gap > IdleGap
    IN  [f EXCEPT !.ActivePeriods = IF idles THEN Keep(@, f.ActiveEnd - f.ActiveStart) ELSE @,
                  !.IdlePeriods = IF idles THEN Keep(@, gap) ELSE @,
                  !.ActiveStart = IF first THEN now ELSE @,
                  !.ActiveEnd = now]

TrackActivity(f, now) ==
    LET gap == now - f.last["all"]
        first == f.last["all"] = Unset
        idles == ~first /\ gap > IdleGap
    IN  [f EXCEPT !.ActivePeriods = IF idles THEN Keep(@, f.ActiveEnd - f.ActiveStart) ELSE @,
                  !.IdlePeriods = IF idles THEN Keep(@, gap) ELSE @,
                  !.ActiveStart = IF first \/ idles THEN now ELSE @,
                  !.ActiveEnd = now]

TrackArrival(f, x, now) ==
    [f EXCEPT !.IATs[x] = IF f.last[x] = Unset THEN @ ELSE Keep(@, now - f.last[x]),
              !.last[x] = now]

UpdateFlowML(f, d, size, now) ==
    LET counted == [f EXCEPT !.packets[d] = @ + 1, !.bytes[d] = @ + size]
    IN  TrackBulk(TrackArrival(TrackArrival(TrackActivity(counted, now), "all", now), d, now), d, size, now)

\* ExtractFlowFeatures: what is in progress counts as if it ended now, and the flow
\* is left as it is.
Features(f) ==
    [packets |-> f.packets, bytes |-> f.bytes, IATs |-> f.IATs,
     bulk |-> [d \in Directions |-> AddRun(f.bulk[d], f.run[d])],
     active |-> IF f.ActiveEnd = Unset THEN f.ActivePeriods
                ELSE Append(f.ActivePeriods, f.ActiveEnd - f.ActiveStart),
     idle |-> f.IdlePeriods]

FInit == flow = NewFeatures /\ log = <<>>

FlowPacket(d, size, gap) ==
    LET now == IF log = <<>> THEN 0 ELSE Last(log).at + gap
    IN
    /\ Len(log) < MaxLog
    /\ flow' = UpdateFlowML(flow, d, size, now)
    /\ log' = Append(log, [dir |-> d, size |-> size, at |-> now])

FNext == \E d \in Directions : \E size \in Sizes : \E gap \in Gaps : FlowPacket(d, size, gap)

FeatureSpec == FInit /\ [][FNext]_fvars

-------------------------------------------------------------------------------
(* Properties *)

FeaturesTypeOK ==
    /\ log \in Seq([dir : Directions, size : Sizes, at : Nat])
    /\ \A d \in Directions : \A k \in DOMAIN NoBulk : flow.bulk[d][k] \in Nat
    /\ flow.ActivePeriods \in Seq(Nat) /\ flow.IdlePeriods \in Seq(Nat)
    /\ Len(flow.ActivePeriods) <= MaxEntries /\ Len(flow.IdlePeriods) = Len(flow.ActivePeriods)

Total(s) == SumFunction(s)
\* The time from the first to the last of some packets, given by their places.
SpanOf(packets, places) ==
    IF places = {} THEN 0 ELSE packets[Max(places)].at - packets[Min(places)].at

\* A bulk, defined on the log: data packets of one direction, as many as can be had
\* with no gap between them. At any moment, what would be sent describes the bulks
\* of the packets so far, the last one included, and none twice.
DataOf(packets, d) == {i \in DOMAIN packets : packets[i].dir = d /\ packets[i].size > 0}
Parted(packets, data, i, j) ==
    /\ i < j /\ \A k \in data : k <= i \/ k >= j
    /\ packets[j].at - packets[i].at > IdleGap
IsBulk(packets, data, i, j) ==
    /\ i <= j
    /\ \A k, l \in data : Parted(packets, data, k, l) => l <= i \/ k >= j
    /\ (\A k \in data : k >= i) \/ \E k \in data : Parted(packets, data, k, i)
    /\ (\A k \in data : k <= j) \/ \E k \in data : Parted(packets, data, j, k)
    /\ Cardinality(data \cap (i..j)) >= MinBulk
BulksOf(packets, data) == {b \in data \X data : IsBulk(packets, data, b[1], b[2])}
SizeOf(packets, places) == SumFunction([i \in places |-> packets[i].size])
Describes(sent, packets, data, bulks) ==
    /\ sent.count = Cardinality(bulks)
    /\ sent.packets = SumFunction([b \in bulks |-> Cardinality(data \cap (b[1]..b[2]))])
    /\ sent.bytes = SumFunction([b \in bulks |-> SizeOf(packets, data \cap (b[1]..b[2]))])
    /\ sent.duration = SumFunction([b \in bulks |-> packets[b[2]].at - packets[b[1]].at])
BulksAreThoseOfTheLog ==
    \A d \in Directions :
        LET data == DataOf(log, d)
        IN  Describes(Features(flow).bulk[d], log, data, BulksOf(log, data))

\* The periods of activity and silence, the open one included, add up to the
\* duration of the flow, and so do the times between packets, of each direction
\* and of both, until the limit of a list is reached.
PacketsOf(packets, x) == {i \in DOMAIN packets : x \in {packets[i].dir, "all"}}
TimesAddUp ==
    LET sent == Features(flow)
    IN  /\ Len(flow.IdlePeriods) < MaxEntries
             => Total(sent.active) + Total(sent.idle) = SpanOf(log, DOMAIN log)
        /\ \A x \in Directions \cup {"all"} :
             Len(sent.IATs[x]) < MaxEntries => Total(sent.IATs[x]) = SpanOf(log, PacketsOf(log, x))
===============================================================================
