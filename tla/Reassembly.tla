------------------------------ MODULE Reassembly ------------------------------
(***************************************************************************)
(* One direction of a TCP connection: a sender, whose segments arrive in   *)
(* any order, repeated or not at all, after the SYN or without it, and the *)
(* reassembler of the flow. A byte is its own offset in what was sent, so  *)
(* that what is delivered shows what was lost, repeated or reordered.      *)
(***************************************************************************)
EXTENDS TcpStream

CONSTANTS
    Sent,       \* the bytes of the sender, <<1, 2, ...>>
    Segments,   \* the pairs <<first, last>> of offsets it may send as one segment
    ISNs        \* its initial sequence numbers

ASSUME SenderAssumption ==
    /\ Sent \in Seq(Nat) /\ \A i \in DOMAIN Sent : Sent[i] = i
    /\ Modulus > 2 * Len(Sent) /\ ISNs \subseteq 0..(Modulus - 1)
    /\ Segments \subseteq {s \in (DOMAIN Sent) \X (DOMAIN Sent) : s[1] <= s[2]}

-------------------------------------------------------------------------------
VARIABLES
    stream,
    isn,        \* the initial sequence number of this connection
    arrived,    \* history: the segments that reached AddSegment
    refused     \* history: a segment met a full queue

svars == <<stream, isn, arrived, refused>>

SInit ==
    /\ stream = NewStreamReassembler
    /\ isn \in ISNs
    /\ arrived = {} /\ refused = FALSE

SeqAt(offset) == (isn + offset) % Modulus

\* UpdateFlowML: the SYN, also when it is repeated or comes late.
Syn ==
    /\ stream' = SetNextSeq(stream, SeqAt(1))
    /\ UNCHANGED <<isn, arrived, refused>>

Segment(s) ==
    /\ stream' = AddSegment(stream, SeqAt(s[1]), SubSeq(Sent, s[1], s[2]))
    /\ arrived' = arrived \cup {s}
    /\ refused' = (refused \/ Refuses(stream, SeqAt(s[1])))
    /\ UNCHANGED isn

SNext == Syn \/ \E s \in Segments : Segment(s)

StreamSpec == SInit /\ [][SNext]_svars

-------------------------------------------------------------------------------
(* Properties *)

StreamTypeOK ==
    /\ stream.Initialized \in BOOLEAN /\ stream.NextSeq \in 0..(Modulus - 1)
    /\ Len(stream.Data) <= MaxDepth /\ Len(stream.chunks) <= MaxChunks + 1
    /\ \A i, j \in DOMAIN stream.chunks : i < j => stream.chunks[i].seq <= stream.chunks[j].seq
    /\ isn \in ISNs /\ arrived \subseteq Segments /\ refused \in BOOLEAN

\* Whatever arrives in whatever order, the data searched by the detectors is
\* what ByteStream promises.
Delivered == INSTANCE ByteStream WITH delivered <- stream.Data
DeliversByteStream == Delivered!Spec

\* The offset of the first byte delivered, or to be delivered.
Start == IF stream.Data = <<>> THEN 1 ELSE stream.Data[1]

\* The sender repeats a segment as it was, or cuts it where it was cut before.
Aligned == \A s, t \in arrived : s[1] \in t[1]..t[2] => s = t
\* The numbers of the sender's bytes do not pass zero.
NoWrap == isn + Len(Sent) < Modulus

\* The bytes that can be delivered: those from the start on up to the first
\* that has not arrived.
Arrived(i) == \E s \in arrived : i \in s[1]..s[2]
Reachable == {i \in DOMAIN Sent : i >= Start /\ \A j \in Start..i : Arrived(j)}

\* Nothing that arrived is withheld: unless the queue was full, a sender that
\* does not cut its segments anew has delivered every byte up to the first
\* that is missing, or the limit. Sequence numbers must not pass zero: beyond
\* it drainChunks takes a queued segment for a duplicate.
Complete ==
    Aligned /\ NoWrap /\ ~refused
        => Len(stream.Data) = Min({Cardinality(Reachable), MaxDepth})
===============================================================================
