------------------------------ MODULE ByteStream ------------------------------
(***************************************************************************)
(* What TCP reassembly promises to the detectors that search its output    *)
(* (flow/reassembly.go): the bytes delivered are a contiguous piece of     *)
(* what the sender sent, they only ever grow at the end, and there are at  *)
(* most MaxDepth of them. Where the piece starts is fixed by the first     *)
(* delivery: a flow captured mid-stream has no beginning.                  *)
(***************************************************************************)
EXTENDS Naturals, Sequences

CONSTANTS
    Sent,       \* the bytes of one direction of a connection
    MaxDepth    \* the bytes kept of it

VARIABLE delivered

Piece(i, j) == SubSeq(Sent, i, j)
IsPiece(d) == \E i \in 1..(Len(Sent) + 1) : \E j \in (i - 1)..Len(Sent) : d = Piece(i, j)

Init == delivered = <<>>

Deliver ==
    /\ IsPiece(delivered')
    /\ Len(delivered') <= MaxDepth
    /\ Len(delivered) <= Len(delivered')
    /\ SubSeq(delivered', 1, Len(delivered)) = delivered

Spec == Init /\ [][Deliver]_delivered
===============================================================================
