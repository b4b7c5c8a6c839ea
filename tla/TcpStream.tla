------------------------------- MODULE TcpStream -------------------------------
(***************************************************************************)
(* The reassembler of one direction of a TCP connection                    *)
(* (flow/reassembly.go): operators on a stream record, one per function    *)
(* of the code. The functions run under the mutex of the flow.             *)
(***************************************************************************)
EXTENDS Integers, Sequences, FiniteSets, SequencesExt

CONSTANTS
    Modulus,    \* sequence numbers are unsigned, modulo 2^32
    MaxDepth,   \* bytes kept of a stream: MAX_REASSEMBLY
    MaxChunks   \* out-of-order segments queued before new ones are dropped: 50

ASSUME LimitsAssumption == Modulus \in Nat \ {0} /\ MaxDepth \in Nat \ {0} /\ MaxChunks \in Nat

NewStreamReassembler == [Initialized |-> FALSE, NextSeq |-> 0, Data |-> <<>>, chunks |-> <<>>]

\* Mutant: every SYN sets it anew.
SetNextSeqAnew(sr, seq) == [sr EXCEPT !.Initialized = TRUE, !.NextSeq = seq]

\* Init: only the first call has an effect.
SetNextSeq(sr, seq) ==
    IF sr.Initialized THEN sr ELSE [sr EXCEPT !.Initialized = TRUE, !.NextSeq = seq]

\* Mutant: the limit is not applied.
AppendDataUnlimited(sr, payload) ==
    [sr EXCEPT !.Data = @ \o payload, !.NextSeq = (@ + Len(payload)) % Modulus]

\* appendData, and NextSeq, which moves by the whole payload even where the
\* limit cuts it.
AppendData(sr, payload) ==
    LET all == sr.Data \o payload
    IN  [sr EXCEPT !.Data = SubSeq(all, 1, Min({Len(all), MaxDepth})),
                   !.NextSeq = (@ + Len(payload)) % Modulus]

\* Mutants: a chunk that is due waits for another; the overlap is not cut off.
DrainOneLate(sr, c) ==
    IF c.seq >= sr.NextSeq
    THEN [sr EXCEPT !.chunks = Append(@, c)]
    ELSE LET overlap == sr.NextSeq - c.seq
         IN  IF overlap < Len(c.data)
             THEN AppendData(sr, SubSeq(c.data, overlap + 1, Len(c.data)))
             ELSE sr
DrainOneUncut(sr, c) ==
    IF c.seq > sr.NextSeq
    THEN [sr EXCEPT !.chunks = Append(@, c)]
    ELSE IF sr.NextSeq - c.seq < Len(c.data) THEN AppendData(sr, c.data) ELSE sr

\* One chunk of drainChunks, compared as plain unsigned numbers.
DrainOne(sr, c) ==
    IF c.seq > sr.NextSeq
    THEN [sr EXCEPT !.chunks = Append(@, c)]
    ELSE LET overlap == sr.NextSeq - c.seq
         IN  IF overlap < Len(c.data)
             THEN AppendData(sr, SubSeq(c.data, overlap + 1, Len(c.data)))
             ELSE sr
DrainChunks(sr) == FoldLeft(DrainOne, [sr EXCEPT !.chunks = <<>>], sr.chunks)

\* The sort puts the new chunk behind those that do not have a greater number. (It
\* promises no order among equal numbers; those chunks start at the same byte, and
\* drained in either order they deliver the same bytes.)
Queue(sr, c) ==
    LET place == Max({0} \cup {i \in DOMAIN sr.chunks : sr.chunks[i].seq <= c.seq}) + 1
    IN  [sr EXCEPT !.chunks = InsertAt(@, place, c)]

\* The difference as a signed number: at least half the range is behind.
IsBehind(diff) == diff >= Modulus \div 2
QueueFull(sr) == Len(sr.chunks) > MaxChunks
Refuses(sr, seq) == QueueFull(sr) /\ (seq - sr.NextSeq) % Modulus \in 1..(Modulus \div 2 - 1)

AddSegment(sr, seq, payload) ==
    LET s == SetNextSeq(sr, seq)
        diff == (seq - s.NextSeq) % Modulus
    IN  IF payload = <<>> \/ Len(sr.Data) >= MaxDepth THEN sr
        ELSE IF diff = 0 THEN DrainChunks(AppendData(s, payload))
        ELSE IF IsBehind(diff) \/ QueueFull(s) THEN s
        ELSE DrainChunks(Queue(s, [seq |-> seq, data |-> payload]))
===============================================================================
