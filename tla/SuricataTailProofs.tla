--------------------------- MODULE SuricataTailProofs ---------------------------
(***************************************************************************)
(* What the reader of the event file does is in order: proofs about        *)
(* SuricataTail.                                                           *)
(*                                                                         *)
(* Every piece of a line has a stamp, and the stamps of what is written    *)
(* grow, through all files. The invariant says of the reader that all it   *)
(* has yet to read has a later stamp than what waits in its buffer, and    *)
(* this a later one than what it has acted upon.                           *)
(***************************************************************************)
EXTENDS SuricataTail, BasicLemmas, SequenceTheorems

\* The first half of a line comes before its end, and before any other line. A cut
\* piece has the stamp of the piece it was cut from.
Stamp(piece) == 2 * piece.event + (IF EndsLine(piece) THEN 1 ELSE 0)
EventStamp(e) == 2 * e + 1

\* The latest stamp there is.
Top == 2 * written + (IF half THEN 0 ELSE 1)

\* Files get their place at the path, and Suricata's output, in the order of their numbers.
FilesInTurn ==
    /\ rotations \in 0..MaxRotations
    /\ path # None => path <= rotations + 1 /\ out <= path /\ file <= path
    /\ path = None => out <= rotations /\ file <= rotations
    /\ \A f \in Files : f > out => content[f] = <<>>

\* What the files hold is in the order it was written in, and no later than Top.
Written ==
    /\ \A f \in Files : \A i \in 1..Len(content[f]) : Stamp(content[f][i]) <= Top
    /\ \A f \in Files : \A i, j \in 1..Len(content[f]) :
          i < j => Stamp(content[f][i]) < Stamp(content[f][j])
    /\ \A f, g \in Files : \A i \in 1..Len(content[f]) : \A j \in 1..Len(content[g]) :
          f < g => Stamp(content[f][i]) < Stamp(content[g][j])

\* The reader may still come to piece i of file f: it is in a later file, beyond the
\* offset, or in a file that was emptied and will be read anew.
Unread(f, i) ==
    IF file = None THEN f = path
                   ELSE f > file \/ (f = file /\ (i > pos \/ pos > Len(content[f])))

ReadInOrder ==
    /\ \A j \in 1..Len(buffer) : Stamp(buffer[j]) <= Top
    /\ \A j, k \in 1..Len(buffer) : j < k => Stamp(buffer[j]) < Stamp(buffer[k])
    /\ \A f \in Files : \A i \in 1..Len(content[f]) : Unread(f, i) =>
          \A j \in 1..Len(buffer) : Stamp(buffer[j]) < Stamp(content[f][i])

IngestedInOrder ==
    /\ \A m \in 1..Len(ingested) : EventStamp(ingested[m]) <= Top
    /\ \A m \in 1..Len(ingested) : \A j \in 1..Len(buffer) : EventStamp(ingested[m]) < Stamp(buffer[j])
    /\ \A f \in Files : \A i \in 1..Len(content[f]) : Unread(f, i) =>
          \A m \in 1..Len(ingested) : EventStamp(ingested[m]) < Stamp(content[f][i])
    /\ \A m, n \in 1..Len(ingested) : m < n => ingested[m] < ingested[n]

\* Only in the loop does the buffer hold anything, and only while a file is open.
BufferInUse ==
    /\ pc # "read" \/ file = None => buffer = <<>>
    /\ pc = "open" => file = None
    /\ pc = "seek" => file # None
    /\ pc = "reopen" => file = None

Typed ==
    /\ content \in [Files -> Seq(Pieces)] /\ buffer \in Seq(Pieces)
    /\ path \in Files \cup {None} /\ out \in Files \cup {None} /\ file \in Files \cup {None}
    /\ written \in 0..MaxEvents /\ half \in BOOLEAN /\ pos \in Nat
    /\ skewed \in BOOLEAN /\ (half => written > 0)
    /\ pc \in {"open", "seek", "read", "stat", "reopen"}
    /\ ingested \in Seq(Events)

TailInv == Typed /\ FilesInTurn /\ Written /\ BufferInUse /\ ReadInOrder /\ IngestedInOrder

-------------------------------------------------------------------------------
(* Pieces *)

LEMMA StampOfPiece ==
    ASSUME NEW p \in Pieces
    PROVE  /\ Stamp(p) \in Int /\ p.event \in Events
           /\ EndsLine(p) => Stamp(p) = EventStamp(p.event)
           /\ CutPiece(p) \in Pieces /\ Stamp(CutPiece(p)) = Stamp(p)
<1> PICK q : q = CutPiece(p)
  OBVIOUS
<1>1. /\ p.event \in Events /\ p.part \in {"whole", "head", "tail", "middle"}
      /\ Events \subseteq Int /\ p = [event |-> p.event, part |-> p.part]
  BY TailBoundsAssumption DEF Pieces, Events
<1>2. q = [event |-> p.event, part |-> IF EndsLine(p) THEN "tail" ELSE "middle"]
  BY <1>1 DEF CutPiece
<1>3. q \in Pieces /\ q.event = p.event /\ (EndsLine(q) <=> EndsLine(p))
  BY <1>1, <1>2 DEF Pieces, EndsLine
<1>4. Stamp(p) \in Int /\ Stamp(q) = Stamp(p)
  BY <1>1, <1>3 DEF Stamp
<1>5. EndsLine(p) => Stamp(p) = EventStamp(p.event)
  BY <1>1 DEF Stamp, EventStamp
<1> QED
  BY <1>1, <1>3, <1>4, <1>5

\* What a file holds, and what is in the buffer, are pieces with stamps.
LEMMA StampsOf ==
    ASSUME Typed
    PROVE  /\ \A f \in Files : content[f] \in Seq(Pieces) /\ Len(content[f]) \in Nat
           /\ \A f \in Files : \A i \in 1..Len(content[f]) :
                 content[f][i] \in Pieces /\ Stamp(content[f][i]) \in Int
           /\ Len(buffer) \in Nat
           /\ \A j \in 1..Len(buffer) : buffer[j] \in Pieces /\ Stamp(buffer[j]) \in Int
           /\ Len(ingested) \in Nat
           /\ \A m \in 1..Len(ingested) : ingested[m] \in Events /\ EventStamp(ingested[m]) \in Int
           /\ Top \in Int /\ Files \subseteq Int /\ Events \subseteq Int
           /\ path \in Int /\ out \in Int /\ file \in Int /\ written \in Int
<1>1. /\ \A f \in Files : content[f] \in Seq(Pieces) /\ Len(content[f]) \in Nat
      /\ \A f \in Files : \A i \in 1..Len(content[f]) : content[f][i] \in Pieces
      /\ Len(buffer) \in Nat /\ \A j \in 1..Len(buffer) : buffer[j] \in Pieces
      /\ Len(ingested) \in Nat /\ \A m \in 1..Len(ingested) : ingested[m] \in Events
  BY DEF Typed
<1>2. /\ Files \subseteq Int /\ Events \subseteq Int /\ None \in Int
      /\ 0..MaxEvents \subseteq Int
  BY TailBoundsAssumption DEF Files, Events, None
<1>3. Top \in Int
  BY <1>2 DEF Typed, Top
<1>4. \A e \in Events : EventStamp(e) \in Int
  BY <1>2 DEF EventStamp
<1>5. path \in Int /\ out \in Int /\ file \in Int /\ written \in Int
  BY <1>2 DEF Typed
<1> QED
  BY <1>1, <1>2, <1>3, <1>4, <1>5, StampOfPiece

LEMMA Numbers ==
    ASSUME Typed
    PROVE  path \in Int /\ out \in Int /\ file \in Int
BY StampsOf

LEMMA TailInit == TInit => TailInv
<1> SUFFICES ASSUME TInit
             PROVE  TailInv
  OBVIOUS
<1>1. 0 \in 0..MaxEvents /\ 0 \in 0..MaxRotations /\ 1 \in Files
  BY TailBoundsAssumption DEF Files
<1>2. Typed
  <2>1. <<>> \in Seq(Pieces) /\ <<>> \in Seq(Events)
    OBVIOUS
  <2>2. content \in [Files -> Seq(Pieces)]
    BY <2>1 DEF TInit
  <2>3. path \in Files \cup {None} /\ out \in Files \cup {None} /\ file \in Files \cup {None}
    BY <1>1 DEF TInit
  <2>4. half \in BOOLEAN /\ skewed \in BOOLEAN
    BY DEF TInit
  <2> QED
    BY <1>1, <2>1, <2>2, <2>3, <2>4 DEF TInit, Typed
<1>3. FilesInTurn
  BY <1>1 DEF TInit, FilesInTurn, None
<1>4. /\ \A f \in Files : Len(content[f]) = 0
      /\ Len(buffer) = 0 /\ Len(ingested) = 0 /\ buffer = <<>> /\ pc = "open" /\ file = None
  BY DEF TInit
<1>5. Written /\ BufferInUse /\ ReadInOrder /\ IngestedInOrder
  BY <1>4 DEF Written, BufferInUse, ReadInOrder, IngestedInOrder
<1> QED
  BY <1>2, <1>3, <1>5 DEF TailInv

-------------------------------------------------------------------------------
(* Steps that move neither lines nor what has been read of them *)

LEMMA QuietStep ==
    ASSUME TailInv, Typed', FilesInTurn', BufferInUse',
           UNCHANGED <<content, written, half, ingested>>, buffer' \in {buffer, <<>>},
           \A f \in Files : \A i \in 1..Len(content[f]) : Unread(f, i)' => Unread(f, i)
    PROVE  TailInv'
<1>1. Top' = Top
  BY DEF Top
<1>2. Written'
  BY <1>1 DEF TailInv, Written
<1>3. CASE buffer' = buffer
  BY <1>1, <1>2, <1>3 DEF TailInv, ReadInOrder, IngestedInOrder
<1>4. CASE buffer' = <<>>
  <2>1. Len(buffer') = 0
    BY <1>4
  <2> QED
    BY <1>1, <1>2, <2>1 DEF TailInv, ReadInOrder, IngestedInOrder
<1> QED
  BY <1>3, <1>4

LEMMA RenameStep == TailInv /\ Rename => TailInv'
<1> SUFFICES ASSUME TailInv, Rename
             PROVE  TailInv'
  OBVIOUS
<1> USE DEF Rename, Reader
<1>1. rotations' = rotations + 1 /\ rotations' \in 0..MaxRotations /\ rotations \in Nat
  BY TailBoundsAssumption DEF TailInv, FilesInTurn
<1>2. Typed'
  BY DEF TailInv, Typed
<1>3. FilesInTurn'
  BY <1>1, StampsOf DEF TailInv, FilesInTurn
<1>4. BufferInUse'
  BY DEF TailInv, BufferInUse
<1>5. ASSUME NEW f \in Files, NEW i, Unread(f, i)' PROVE Unread(f, i)
  BY <1>5, StampsOf DEF TailInv, Unread, Files, None
<1> QED
  BY <1>2, <1>3, <1>4, <1>5, QuietStep

LEMMA CreateStep == TailInv /\ Create => TailInv'
<1> SUFFICES ASSUME TailInv, Create
             PROVE  TailInv'
  OBVIOUS
<1> USE DEF Create, Reader
<1>1. rotations \in 0..MaxRotations /\ path' = rotations + 1 /\ path' \in Files /\ path' # None
  BY TailBoundsAssumption DEF TailInv, FilesInTurn, Files, None
<1>2. Typed'
  BY <1>1 DEF TailInv, Typed
<1>3. out <= rotations /\ file <= rotations
  BY DEF TailInv, FilesInTurn
<1>4. FilesInTurn'
  BY <1>1, <1>3, StampsOf DEF TailInv, FilesInTurn
<1>5. BufferInUse'
  BY DEF TailInv, BufferInUse
<1>6. content[path'] = <<>>
  BY <1>1, <1>3, StampsOf DEF TailInv, FilesInTurn
<1>7. ASSUME NEW f \in Files, NEW i \in 1..Len(content[f]), Unread(f, i)' PROVE Unread(f, i)
  <2>1. f # path'
    BY <1>6
  <2> QED
    BY <1>7, <2>1 DEF Unread
<1> QED
  BY <1>2, <1>4, <1>5, <1>7, QuietStep

LEMMA ReopenOutputStep == TailInv /\ ReopenOutput => TailInv'
<1> SUFFICES ASSUME TailInv, ReopenOutput
             PROVE  TailInv'
  OBVIOUS
<1> USE DEF ReopenOutput, Reader
<1>1. Typed'
  BY DEF TailInv, Typed
<1>2. FilesInTurn'
  BY StampsOf DEF TailInv, FilesInTurn
<1>3. BufferInUse'
  BY DEF TailInv, BufferInUse
<1>4. ASSUME NEW f \in Files, NEW i, Unread(f, i)' PROVE Unread(f, i)
  BY <1>4 DEF Unread
<1> QED
  BY <1>1, <1>2, <1>3, <1>4, QuietStep

LEMMA OpenFirstStep == TailInv /\ OpenFirst => TailInv'
<1> SUFFICES ASSUME TailInv, OpenFirst
             PROVE  TailInv'
  OBVIOUS
<1> USE DEF OpenFirst, suricata
<1>1. Typed'
  BY DEF TailInv, Typed
<1>2. FilesInTurn'
  BY StampsOf DEF TailInv, FilesInTurn
<1>3. BufferInUse'
  BY DEF TailInv, BufferInUse
<1>4. ASSUME NEW f \in Files, NEW i \in 1..Len(content[f]), Unread(f, i)' PROVE Unread(f, i)
  <2>1. file = None /\ path # None /\ out <= path
    BY DEF TailInv, BufferInUse, FilesInTurn
  <2>2. ~ (f > path)
    <3> SUFFICES ASSUME f > path
                 PROVE  FALSE
      OBVIOUS
    <3>1. f > out
      BY <2>1, StampsOf DEF TailInv
    <3> QED
      BY <3>1 DEF TailInv, FilesInTurn
  <2> QED
    BY <1>4, <2>1, <2>2 DEF Unread
<1> QED
  BY <1>1, <1>2, <1>3, <1>4, QuietStep

LEMMA SeekEndStep == TailInv /\ SeekEnd => TailInv'
<1> SUFFICES ASSUME TailInv, SeekEnd
             PROVE  TailInv'
  OBVIOUS
<1> USE DEF SeekEnd, suricata
<1>1. file \in Files /\ file # None
  BY DEF TailInv, BufferInUse, Typed
<1>2. pos' = Len(content[file]) /\ pos' \in Nat
  BY <1>1, StampsOf DEF TailInv
<1>3. Typed'
  BY <1>2 DEF TailInv, Typed
<1>4. FilesInTurn'
  BY DEF TailInv, FilesInTurn
<1>5. BufferInUse'
  BY <1>1 DEF TailInv, BufferInUse
<1>6. ASSUME NEW f \in Files, NEW i \in 1..Len(content[f]), Unread(f, i)' PROVE Unread(f, i)
  BY <1>1, <1>2, <1>6 DEF Unread
<1> QED
  BY <1>3, <1>4, <1>5, <1>6, QuietStep

LEMMA ReadPartialStep == TailInv /\ ReadPartial => TailInv'
<1> SUFFICES ASSUME TailInv, ReadPartial
             PROVE  TailInv'
  OBVIOUS
<1> USE DEF ReadPartial, suricata
<1>1. Typed'
  BY DEF TailInv, Typed
<1>2. FilesInTurn'
  BY DEF TailInv, FilesInTurn
<1>3. BufferInUse'
  BY DEF TailInv, BufferInUse
<1>4. ASSUME NEW f \in Files, NEW i \in 1..Len(content[f]), Unread(f, i)' PROVE Unread(f, i)
  BY <1>4 DEF Unread
<1> QED
  BY <1>1, <1>2, <1>3, <1>4, QuietStep

LEMMA CheckRotationStep == TailInv /\ CheckRotation => TailInv'
<1> SUFFICES ASSUME TailInv, CheckRotation
             PROVE  TailInv'
  OBVIOUS
<1> USE DEF CheckRotation, suricata
<1>1. Typed'
  BY DEF TailInv, Typed
<1>2. FilesInTurn'
  <2>1. FilesInTurn /\ path \in Int /\ out \in Int /\ file \in Int
    BY Numbers DEF TailInv
  <2>2. file' = file \/ file' = None
    OBVIOUS
  <2>3. path # None => file' <= path
    <3>1. path \in Files => None <= path
      BY DEF Files, None
    <3> QED
      BY <2>1, <2>2, <3>1 DEF FilesInTurn, TailInv, Typed
  <2>4. path = None => file' <= rotations
    BY <2>1, <2>2 DEF FilesInTurn, None
  <2> QED
    BY <2>1, <2>3, <2>4 DEF FilesInTurn
<1>3. BufferInUse'
  BY DEF TailInv, BufferInUse
<1>4. ASSUME NEW f \in Files, NEW i \in 1..Len(content[f]), Unread(f, i)' PROVE Unread(f, i)
  <2>1. file' = file \/ (file' = None /\ file # None /\ path # None /\ (path # file \/ pos > Len(content[path])))
    OBVIOUS
  <2>2. CASE file' = file
    BY <1>4, <2>2 DEF Unread
  <2>3. CASE file' = None /\ file # None /\ path # None /\ (path # file \/ pos > Len(content[path]))
    <3>1. f = path /\ file <= path
      BY <1>4, <2>3 DEF Unread, TailInv, FilesInTurn
    <3> QED
      BY <2>3, <3>1, StampsOf DEF Unread, TailInv
  <2> QED
    BY <2>1, <2>2, <2>3
<1> QED
  BY <1>1, <1>2, <1>3, <1>4, QuietStep

LEMMA ReopenStep == TailInv /\ Reopen => TailInv'
<1> SUFFICES ASSUME TailInv, Reopen
             PROVE  TailInv'
  OBVIOUS
<1> USE DEF Reopen
<1>1. Typed'
  <2>1. file' \in Files \cup {None} /\ pos' \in Nat
    BY DEF TailInv, Typed
  <2>2. skewed' \in BOOLEAN
    BY DEF TailInv, Typed
  <2> QED
    BY <2>1, <2>2 DEF TailInv, Typed
<1>2. FilesInTurn'
  <2>1. FilesInTurn /\ path \in Int /\ out \in Int /\ file \in Int
    BY Numbers DEF TailInv
  <2>2. file' = IF path = None THEN file ELSE path
    OBVIOUS
  <2> QED
    BY <2>1, <2>2 DEF FilesInTurn
<1>3. file = None /\ buffer' = <<>> /\ buffer = <<>>
  BY DEF TailInv, BufferInUse
<1>4. BufferInUse'
  BY <1>3 DEF BufferInUse
<1>5. ASSUME NEW f \in Files, NEW i \in 1..Len(content[f]), Unread(f, i)' PROVE Unread(f, i)
  <2>1. CASE path = None
    BY <1>5, <2>1 DEF Unread
  <2>2. CASE path # None
    <3>1. ~ (f > path)
      <4> SUFFICES ASSUME f > path
                   PROVE  FALSE
        OBVIOUS
      <4>1. f > out
        BY <2>2, StampsOf DEF TailInv, FilesInTurn
      <4> QED
        BY <4>1 DEF TailInv, FilesInTurn
    <3> QED
      BY <1>3, <1>5, <2>2, <3>1 DEF Unread
  <2> QED
    BY <2>1, <2>2
<1> QED
  BY <1>1, <1>2, <1>3, <1>4, <1>5, QuietStep

-------------------------------------------------------------------------------
(* A line is written, or a file emptied *)

LEMMA WriteStep == ASSUME TailInv, NEW part \in {"whole", "head", "tail"}, WriteEvent(part) PROVE TailInv'
<1> PICK w : w = Piece(written', part)
  OBVIOUS
<1>1. /\ out \in Files /\ written' \in 1..MaxEvents /\ written \in Nat /\ written' \in Nat
      /\ UNCHANGED <<path, out, rotations, skewed, pc, file, pos, buffer, ingested>>
  BY TailBoundsAssumption DEF WriteEvent, Reader, TailInv, Typed
<1>2. w \in Pieces /\ half' \in BOOLEAN
  BY <1>1 DEF Piece, Pieces, Events, WriteEvent
<1>3. Stamp(w) = Top' /\ Top < Top' /\ Top \in Int /\ Top' \in Int
  <2>1. w.event = written' /\ w.part = part
    BY DEF Piece
  <2>2. EndsLine(w) <=> part # "head"
    BY <2>1 DEF EndsLine
  <2>3. Stamp(w) = 2 * written' + (IF part = "head" THEN 0 ELSE 1)
    BY <2>1, <2>2 DEF Stamp
  <2>4. /\ half' = (part = "head") /\ half = (part = "tail") /\ half \in BOOLEAN
        /\ written' = IF part = "tail" THEN written ELSE written + 1
    BY DEF WriteEvent, TailInv, Typed
  <2>5. Top = 2 * written + (IF half THEN 0 ELSE 1) /\ Top' = 2 * written' + (IF half' THEN 0 ELSE 1)
    BY DEF Top
  <2>6. CASE part = "tail"
    <3>1. half' = FALSE /\ half = TRUE /\ written' = written
      BY <2>4, <2>6
    <3> QED
      BY <1>1, <2>3, <2>5, <2>6, <3>1
  <2>7. CASE part = "head"
    <3>1. half' = TRUE /\ half = FALSE /\ written' = written + 1
      BY <2>4, <2>7
    <3> QED
      BY <1>1, <2>3, <2>5, <2>7, <3>1
  <2>8. CASE part = "whole"
    <3>1. half' = FALSE /\ half = FALSE /\ written' = written + 1
      BY <2>4, <2>8
    <3> QED
      BY <1>1, <2>3, <2>5, <2>8, <3>1
  <2> QED
    BY <2>6, <2>7, <2>8
<1>4. /\ content' \in [Files -> Seq(Pieces)]
      /\ \A f \in Files : f # out => content'[f] = content[f]
      /\ Len(content'[out]) = Len(content[out]) + 1
      /\ content'[out][Len(content[out]) + 1] = w
      /\ \A i \in 1..Len(content[out]) : content'[out][i] = content[out][i]
  <2>1. content' = [content EXCEPT ![out] = Append(content[out], w)]
    BY DEF WriteEvent
  <2>2. content \in [Files -> Seq(Pieces)]
    BY DEF TailInv, Typed
  <2>3. content'[out] = Append(content[out], w) /\ content[out] \in Seq(Pieces)
    BY <1>1, <2>1, <2>2
  <2>4. content' \in [Files -> Seq(Pieces)]
    BY <1>1, <1>2, <2>1, <2>2, <2>3
  <2> QED
    BY <1>1, <1>2, <2>1, <2>2, <2>3, <2>4
<1>5. Typed'
  BY <1>1, <1>2, <1>4 DEF TailInv, Typed
<1>6. FilesInTurn'
  <2>1. FilesInTurn /\ path \in Int /\ out \in Int /\ file \in Int
    BY Numbers DEF TailInv
  <2>2. \A f \in Files : f > out => content'[f] = content[f]
    BY <1>4, <2>1
  <2> QED
    BY <1>1, <2>1, <2>2 DEF FilesInTurn
<1>7. BufferInUse'
  BY <1>1 DEF TailInv, BufferInUse
\* A piece found after the step was there before it, or is the latest of all.
<1>8. /\ \A f \in Files : \A i \in 1..Len(content'[f]) :
            \/ i \in 1..Len(content[f]) /\ content'[f][i] = content[f][i]
            \/ f = out /\ i = Len(content[f]) + 1 /\ content'[f][i] = w
      /\ \A f \in Files : Len(content[f]) <= Len(content'[f]) /\ Len(content'[f]) \in Nat
      /\ \A f \in Files : f > out => Len(content'[f]) = 0
  <2>1. \A f \in Files : Len(content[f]) \in Nat /\ Len(content'[f]) \in Nat
    BY <1>5, StampsOf DEF TailInv
  <2>2. \A f \in Files : f > out => content'[f] = <<>>
    BY <1>6, <1>1 DEF FilesInTurn
  <2>3. out \in Files /\ Len(content'[out]) = Len(content[out]) + 1 /\ content'[out][Len(content[out]) + 1] = w
    BY <1>1, <1>4, <2>1
  <2>4. \A f \in Files : Len(content[f]) <= Len(content'[f])
    BY <1>4, <2>1, <2>3
  <2>5. ASSUME NEW f \in Files, NEW i \in 1..Len(content'[f])
        PROVE  \/ i \in 1..Len(content[f]) /\ content'[f][i] = content[f][i]
               \/ f = out /\ i = Len(content[f]) + 1 /\ content'[f][i] = w
    <3>1. CASE f # out
      BY <1>4, <2>5, <3>1
    <3>2. CASE f = out
      <4>1. i \in 1..Len(content[out]) \/ i = Len(content[out]) + 1
        BY <2>1, <2>3, <2>5, <3>2
      <4> QED
        BY <1>4, <2>3, <3>2, <4>1
    <3> QED
      BY <3>1, <3>2
  <2>6. \A f \in Files : f > out => Len(content'[f]) = 0
    BY <2>2
  <2> QED
    BY <2>1, <2>4, <2>5, <2>6
<1>9. /\ \A f \in Files : \A i \in 1..Len(content[f]) : Stamp(content[f][i]) \in Int /\ Stamp(content[f][i]) <= Top
      /\ \A j \in 1..Len(buffer) : Stamp(buffer[j]) \in Int /\ Stamp(buffer[j]) <= Top
      /\ \A m \in 1..Len(ingested) : EventStamp(ingested[m]) \in Int /\ EventStamp(ingested[m]) <= Top
      /\ \A f \in Files : Len(content[f]) \in Nat
      /\ Files \subseteq Int /\ out \in Int
  BY StampsOf DEF TailInv, Written, ReadInOrder, IngestedInOrder
<1>10. Written'
  <2>1. ASSUME NEW f \in Files, NEW i \in 1..Len(content'[f]) PROVE Stamp(content'[f][i]) <= Top'
    BY <1>3, <1>8, <1>9
  <2>2. ASSUME NEW f \in Files, NEW i \in 1..Len(content'[f]), NEW j \in 1..Len(content'[f]), i < j
        PROVE  Stamp(content'[f][i]) < Stamp(content'[f][j])
    <3>1. i \in 1..Len(content[f]) /\ content'[f][i] = content[f][i]
      <4>1. Len(content'[f]) <= Len(content[f]) + 1
        BY <1>1, <1>4, <1>9
      <4> QED
        BY <1>8, <1>9, <2>2, <4>1
    <3>2. CASE j \in 1..Len(content[f]) /\ content'[f][j] = content[f][j]
      BY <2>2, <3>1, <3>2 DEF TailInv, Written
    <3>3. CASE content'[f][j] = w
      BY <1>3, <1>9, <3>1, <3>3
    <3> QED
      BY <1>8, <3>2, <3>3
  <2>3. ASSUME NEW f \in Files, NEW g \in Files, NEW i \in 1..Len(content'[f]), NEW j \in 1..Len(content'[g]), f < g
        PROVE  Stamp(content'[f][i]) < Stamp(content'[g][j])
    <3>1. f # out
      BY <1>8, <1>9, <2>3
    <3>2. i \in 1..Len(content[f]) /\ content'[f][i] = content[f][i]
      BY <1>8, <3>1
    <3>3. CASE j \in 1..Len(content[g]) /\ content'[g][j] = content[g][j]
      BY <2>3, <3>2, <3>3 DEF TailInv, Written
    <3>4. CASE content'[g][j] = w
      BY <1>3, <1>9, <3>2, <3>4
    <3> QED
      BY <1>8, <3>3, <3>4
  <2> QED
    BY <2>1, <2>2, <2>3 DEF Written
<1>11. ASSUME NEW f \in Files, NEW i \in 1..Len(content'[f]), Unread(f, i)'
       PROVE  \/ i \in 1..Len(content[f]) /\ content'[f][i] = content[f][i] /\ Unread(f, i)
              \/ content'[f][i] = w
  <2>1. CASE i \in 1..Len(content[f]) /\ content'[f][i] = content[f][i]
    <3>1. pos > Len(content'[f]) => pos > Len(content[f])
      <4>1. pos \in Nat /\ Len(content[f]) <= Len(content'[f]) /\ Len(content'[f]) \in Nat /\ Len(content[f]) \in Nat
        BY <1>8, <1>9 DEF TailInv, Typed
      <4> QED
        BY <4>1
    <3> QED
      BY <1>1, <1>11, <2>1, <3>1 DEF Unread
  <2> QED
    BY <1>8, <2>1
<1>12. ReadInOrder'
  <2>1. ASSUME NEW f \in Files, NEW i \in 1..Len(content'[f]), Unread(f, i)', NEW j \in 1..Len(buffer)
        PROVE  Stamp(buffer[j]) < Stamp(content'[f][i])
    <3>1. CASE i \in 1..Len(content[f]) /\ content'[f][i] = content[f][i] /\ Unread(f, i)
      BY <3>1 DEF TailInv, ReadInOrder
    <3>2. CASE content'[f][i] = w
      BY <1>3, <1>9, <3>2
    <3> QED
      BY <1>11, <2>1, <3>1, <3>2
  <2>2. \A j \in 1..Len(buffer) : Stamp(buffer[j]) <= Top'
    BY <1>3, <1>9
  <2>3. buffer' = buffer
    BY <1>1
  <2> QED
    BY <2>1, <2>2, <2>3 DEF TailInv, ReadInOrder
<1>13. IngestedInOrder'
  <2>1. ASSUME NEW f \in Files, NEW i \in 1..Len(content'[f]), Unread(f, i)', NEW m \in 1..Len(ingested)
        PROVE  EventStamp(ingested[m]) < Stamp(content'[f][i])
    <3>1. CASE i \in 1..Len(content[f]) /\ content'[f][i] = content[f][i] /\ Unread(f, i)
      BY <3>1 DEF TailInv, IngestedInOrder
    <3>2. CASE content'[f][i] = w
      BY <1>3, <1>9, <3>2
    <3> QED
      BY <1>11, <2>1, <3>1, <3>2
  <2>2. \A m \in 1..Len(ingested) : EventStamp(ingested[m]) <= Top'
    BY <1>3, <1>9
  <2>3. buffer' = buffer /\ ingested' = ingested
    BY <1>1
  <2> QED
    BY <2>1, <2>2, <2>3 DEF TailInv, IngestedInOrder
<1> QED
  BY <1>5, <1>6, <1>7, <1>10, <1>12, <1>13 DEF TailInv

LEMMA TruncateStep == TailInv /\ Truncate => TailInv'
<1> SUFFICES ASSUME TailInv, Truncate
             PROVE  TailInv'
  OBVIOUS
<1>1. /\ path \in Files /\ rotations' = rotations + 1 /\ rotations' \in 0..MaxRotations /\ rotations \in Nat
      /\ UNCHANGED <<path, out, written, half, pc, file, pos, buffer, ingested>>
      /\ skewed' \in BOOLEAN
  BY TailBoundsAssumption DEF TailInv, Typed, FilesInTurn, Truncate, Reader
<1>2. /\ content' \in [Files -> Seq(Pieces)]
      /\ \A f \in Files : f # path => content'[f] = content[f]
      /\ content'[path] = <<>> /\ Len(content'[path]) = 0
  BY <1>1 DEF Truncate, TailInv, Typed
<1>3. Typed'
  BY <1>1, <1>2 DEF TailInv, Typed
<1>4. FilesInTurn'
  BY <1>1, <1>2, StampsOf, SMTT(40) DEF TailInv, FilesInTurn
<1>5. BufferInUse'
  BY <1>1 DEF TailInv, BufferInUse
<1>6. Top' = Top
  BY <1>1 DEF Top
<1>7. \A f \in Files : \A i \in 1..Len(content'[f]) : f # path /\ content'[f] = content[f]
  BY <1>2
<1>8. Written'
  BY <1>6, <1>7 DEF TailInv, Written
<1>9. ASSUME NEW f \in Files, NEW i \in 1..Len(content'[f]), Unread(f, i)'
      PROVE  content'[f] = content[f] /\ Unread(f, i)
  BY <1>1, <1>7, <1>9 DEF Unread
<1>10. ReadInOrder'
  BY <1>1, <1>6, <1>9 DEF TailInv, ReadInOrder
<1>11. IngestedInOrder'
  BY <1>1, <1>6, <1>9 DEF TailInv, IngestedInOrder
<1> QED
  BY <1>3, <1>4, <1>5, <1>8, <1>10, <1>11 DEF TailInv

-------------------------------------------------------------------------------
(* Lines are read *)

\* What Fill reads of a file: pieces with the stamps of those that are there.
LEMMA PiecesRead ==
    ASSUME NEW c \in Seq(Pieces), NEW m \in Nat, NEW n \in (m + 1)..Len(c)
    PROVE  LET read == SubSeq(c, m + 1, n)
               cut == <<CutPiece(Head(read))>> \o Tail(read)
           IN  \A r \in {read, cut} :
                  /\ r \in Seq(Pieces) /\ Len(r) = n - m
                  /\ \A k \in 1..Len(r) : r[k] \in Pieces /\ Stamp(r[k]) = Stamp(c[m + k])
<1> PICK read : read = SubSeq(c, m + 1, n)
  OBVIOUS
<1>1. Len(c) \in Nat /\ n \in Nat /\ \A i \in m + 1..n : c[i] \in Pieces
  OBVIOUS
<1>2. /\ read \in Seq(Pieces) /\ Len(read) = n - m /\ Len(read) \in Nat /\ Len(read) >= 1
      /\ \A k \in 1..Len(read) : read[k] = c[m + k] /\ m + k \in m + 1..n
  BY <1>1, SubSeqProperties
<1>3. \A k \in 1..Len(read) : read[k] \in Pieces /\ Stamp(read[k]) = Stamp(c[m + k])
  BY <1>1, <1>2
<1> PICK h : h = <<CutPiece(Head(read))>>
  OBVIOUS
<1>4. /\ Head(read) = read[1] /\ Tail(read) \in Seq(Pieces) /\ Len(Tail(read)) = Len(read) - 1
      /\ \A k \in 1..Len(Tail(read)) : Tail(read)[k] = read[k + 1]
  <2>1. read # <<>>
    BY <1>2
  <2>2. Head(read) = read[1]
    BY <1>2, <2>1
  <2> QED
    BY <1>2, <2>1, <2>2, HeadTailProperties
<1>5. h \in Seq(Pieces) /\ Len(h) = 1 /\ h[1] \in Pieces /\ Stamp(h[1]) = Stamp(read[1])
  BY <1>2, <1>3, <1>4, StampOfPiece
<1> PICK r : r = h \o Tail(read)
  OBVIOUS
<1>6. /\ r \in Seq(Pieces) /\ Len(r) = n - m
      /\ \A k \in 1..Len(r) : r[k] = IF k <= 1 THEN h[k] ELSE Tail(read)[k - 1]
  <2>1. /\ h \o Tail(read) \in Seq(Pieces) /\ Len(h \o Tail(read)) = Len(h) + Len(Tail(read))
        /\ \A k \in 1..(Len(h) + Len(Tail(read))) :
              (h \o Tail(read))[k] = IF k <= Len(h) THEN h[k] ELSE Tail(read)[k - Len(h)]
    BY <1>4, <1>5, ConcatProperties
  <2>2. Len(h) + Len(Tail(read)) = n - m
    BY <1>1, <1>2, <1>4, <1>5
  <2> QED
    BY <1>5, <2>1, <2>2
<1>7. ASSUME NEW k \in 1..Len(r) PROVE r[k] \in Pieces /\ Stamp(r[k]) = Stamp(c[m + k])
  <2>1. CASE k = 1
    BY <1>2, <1>3, <1>5, <1>6, <2>1
  <2>2. CASE k # 1
    <3>1. k - 1 \in 1..Len(Tail(read)) /\ r[k] = Tail(read)[k - 1] /\ k \in 1..Len(read) /\ (k - 1) + 1 = k
      BY <1>1, <1>2, <1>4, <1>6, <2>2
    <3>2. r[k] = read[k]
      BY <1>4, <3>1
    <3> QED
      BY <1>3, <3>1, <3>2
  <2> QED
    BY <2>1, <2>2
<1> QED
  BY <1>2, <1>3, <1>6, <1>7

LEMMA FillStep == TailInv /\ Fill => TailInv'
<1> SUFFICES ASSUME TailInv, Fill
             PROVE  TailInv'
  OBVIOUS
<1> PICK c : c = content[file]
  OBVIOUS
<1>1. /\ UNCHANGED <<content, path, out, written, half, rotations, pc, file, ingested>>
      /\ skewed' = FALSE /\ file \in Files /\ file # None /\ pos \in Nat /\ pc = "read"
      /\ c \in Seq(Pieces) /\ Len(c) \in Nat /\ buffer \in Seq(Pieces) /\ Len(buffer) \in Nat
  BY StampsOf DEF Fill, MoreToRead, TailInv, Typed
<1>2. PICK n \in (pos + 1)..Len(c) : pos' = n /\ \E r : /\ buffer' = buffer \o r
           /\ r \in Seq(Pieces) /\ Len(r) = n - pos
           /\ \A k \in 1..Len(r) : r[k] \in Pieces /\ Stamp(r[k]) = Stamp(c[pos + k])
  <2>1. PICK n \in (pos + 1)..Len(c), cut \in {FALSE, skewed} :
          /\ buffer' = buffer \o (IF cut THEN <<CutPiece(Head(SubSeq(c, pos + 1, n)))>> \o Tail(SubSeq(c, pos + 1, n))
                                        ELSE SubSeq(c, pos + 1, n))
          /\ pos' = n
    BY DEF Fill
  <2>2. cut \in BOOLEAN
    BY DEF TailInv, Typed
  <2>3. \/ buffer' = buffer \o SubSeq(c, pos + 1, n)
        \/ buffer' = buffer \o (<<CutPiece(Head(SubSeq(c, pos + 1, n)))>> \o Tail(SubSeq(c, pos + 1, n)))
    BY <2>1, <2>2
  <2> PICK read : read = SubSeq(c, pos + 1, n)
    OBVIOUS
  <2> PICK part : part = <<CutPiece(Head(read))>> \o Tail(read)
    OBVIOUS
  <2>4. \A r \in {read, part} :
           /\ r \in Seq(Pieces) /\ Len(r) = n - pos
           /\ \A k \in 1..Len(r) : r[k] \in Pieces /\ Stamp(r[k]) = Stamp(c[pos + k])
    BY <1>1, PiecesRead, ZenonT(40)
  <2>5. PICK r \in {read, part} : buffer' = buffer \o r
    BY <2>3
  <2>6. /\ buffer' = buffer \o r /\ r \in Seq(Pieces) /\ Len(r) = n - pos
        /\ \A k \in 1..Len(r) : r[k] \in Pieces /\ Stamp(r[k]) = Stamp(c[pos + k])
    BY <2>4, <2>5
  <2> QED
    BY <2>1, <2>6, Zenon
<1>3. n \in Nat /\ n <= Len(c)
  BY <1>1
<1>4. PICK r : /\ buffer' = buffer \o r
           /\ r \in Seq(Pieces) /\ Len(r) = n - pos
           /\ \A k \in 1..Len(r) : r[k] \in Pieces /\ Stamp(r[k]) = Stamp(c[pos + k])
  BY <1>2
<1>5. /\ buffer' \in Seq(Pieces) /\ Len(buffer') = Len(buffer) + (n - pos) /\ Len(buffer') \in Nat
      /\ \A j \in 1..Len(buffer') :
            buffer'[j] = IF j <= Len(buffer) THEN buffer[j] ELSE r[j - Len(buffer)]
  <2>1. /\ buffer \o r \in Seq(Pieces) /\ Len(buffer \o r) = Len(buffer) + Len(r)
        /\ \A j \in 1..(Len(buffer) + Len(r)) :
              (buffer \o r)[j] = IF j <= Len(buffer) THEN buffer[j] ELSE r[j - Len(buffer)]
    BY <1>1, <1>4, ConcatProperties
  <2> QED
    BY <1>1, <1>3, <1>4, <2>1
<1>6. Typed'
  BY <1>1, <1>2, <1>3, <1>5 DEF TailInv, Typed
<1>7. FilesInTurn'
  BY <1>1 DEF TailInv, FilesInTurn
<1>8. BufferInUse'
  BY <1>1 DEF TailInv, BufferInUse
<1>9. Top' = Top /\ Written'
  BY <1>1 DEF TailInv, Written, Top
\* What is in the buffer was there, or is what the reader had yet to read in this file.
<1>10. \A j \in 1..Len(buffer') :
          \/ j \in 1..Len(buffer) /\ buffer'[j] = buffer[j]
          \/ LET i == pos + j - Len(buffer) IN
             j > Len(buffer) /\ i \in 1..Len(c) /\ i <= n /\ i > pos /\ Stamp(buffer'[j]) = Stamp(c[i]) /\ Unread(file, i)
  <2> TAKE j \in 1..Len(buffer')
  <2>1. CASE j <= Len(buffer)
    BY <1>1, <1>5, <2>1
  <2>2. CASE j > Len(buffer)
    <3> PICK k : k = j - Len(buffer)
      OBVIOUS
    <3>1. k \in 1..(n - pos) /\ buffer'[j] = r[k] /\ pos + k \in 1..Len(c) /\ pos + k > pos /\ pos + k <= n
      BY <1>1, <1>5, <2>2
    <3>2. Unread(file, pos + k)
      BY <1>1, <3>1 DEF Unread
    <3> QED
      BY <1>1, <1>4, <2>2, <3>1, <3>2
  <2> QED
    BY <1>1, <2>1, <2>2
<1>11. /\ \A j \in 1..Len(buffer) : Stamp(buffer[j]) \in Int /\ Stamp(buffer[j]) <= Top
       /\ \A i \in 1..Len(c) : Stamp(c[i]) \in Int /\ Stamp(c[i]) <= Top
       /\ \A i, k \in 1..Len(c) : i < k => Stamp(c[i]) < Stamp(c[k])
       /\ Top \in Int
  BY <1>1, StampsOf DEF TailInv, Written, ReadInOrder
<1>12. ASSUME NEW f \in Files, NEW i \in 1..Len(content[f]), Unread(f, i)'
       PROVE  Unread(f, i) /\ (f > file \/ (f = file /\ i > n))
  BY <1>1, <1>2, <1>12 DEF Unread
<1>13. ReadInOrder'
  <2>1. ASSUME NEW j \in 1..Len(buffer') PROVE Stamp(buffer'[j]) <= Top
    BY <1>10, <1>11
  <2>2. ASSUME NEW j \in 1..Len(buffer'), NEW k \in 1..Len(buffer'), j < k
        PROVE  Stamp(buffer'[j]) < Stamp(buffer'[k])
    <3>1. CASE k \in 1..Len(buffer) /\ buffer'[k] = buffer[k]
      <4>1. j \in 1..Len(buffer) /\ buffer'[j] = buffer[j]
        BY <1>1, <1>5, <2>2, <3>1
      <4> QED
        BY <2>2, <3>1, <4>1 DEF TailInv, ReadInOrder
    <3>2. CASE ~ (k \in 1..Len(buffer) /\ buffer'[k] = buffer[k])
      <4> PICK i : i = pos + k - Len(buffer)
        OBVIOUS
      <4>1. k > Len(buffer) /\ i \in 1..Len(c) /\ Stamp(buffer'[k]) = Stamp(c[i]) /\ Unread(file, i)
        BY <1>10, <3>2
      <4>2. CASE j \in 1..Len(buffer) /\ buffer'[j] = buffer[j]
        BY <1>1, <4>1, <4>2 DEF TailInv, ReadInOrder
      <4>3. CASE ~ (j \in 1..Len(buffer) /\ buffer'[j] = buffer[j])
        <5> PICK h : h = pos + j - Len(buffer)
          OBVIOUS
        <5>1. h \in 1..Len(c) /\ Stamp(buffer'[j]) = Stamp(c[h])
          BY <1>10, <4>3
        <5>2. h < i
          BY <1>1, <2>2
        <5> QED
          BY <1>11, <4>1, <5>1, <5>2
      <4> QED
        BY <4>2, <4>3
    <3> QED
      BY <3>1, <3>2
  <2>3. ASSUME NEW f \in Files, NEW i \in 1..Len(content[f]), Unread(f, i)', NEW j \in 1..Len(buffer')
        PROVE  Stamp(buffer'[j]) < Stamp(content[f][i])
    <3>1. Unread(f, i) /\ (f > file \/ (f = file /\ i > n))
      BY <1>12, <2>3
    <3>2. CASE j \in 1..Len(buffer) /\ buffer'[j] = buffer[j]
      BY <3>1, <3>2 DEF TailInv, ReadInOrder
    <3>3. CASE ~ (j \in 1..Len(buffer) /\ buffer'[j] = buffer[j])
      <4> PICK h : h = pos + j - Len(buffer)
        OBVIOUS
      <4>1. h \in 1..Len(c) /\ h <= n /\ Stamp(buffer'[j]) = Stamp(c[h])
        BY <1>10, <3>3
      <4>2. CASE f > file
        BY <1>1, <4>1, <4>2 DEF TailInv, Written
      <4>3. CASE f = file /\ i > n
        <5>1. h < i /\ i \in 1..Len(c)
          BY <1>1, <1>2, <4>1, <4>3
        <5> QED
          BY <1>11, <4>1, <4>3, <5>1
      <4> QED
        BY <3>1, <4>2, <4>3
    <3> QED
      BY <3>2, <3>3
  <2> QED
    BY <1>1, <1>9, <2>1, <2>2, <2>3 DEF ReadInOrder
<1>14. IngestedInOrder'
  <2>1. ASSUME NEW m \in 1..Len(ingested), NEW j \in 1..Len(buffer')
        PROVE  EventStamp(ingested[m]) < Stamp(buffer'[j])
    <3>1. CASE j \in 1..Len(buffer) /\ buffer'[j] = buffer[j]
      BY <3>1 DEF TailInv, IngestedInOrder
    <3>2. CASE ~ (j \in 1..Len(buffer) /\ buffer'[j] = buffer[j])
      <4> PICK h : h = pos + j - Len(buffer)
        OBVIOUS
      <4>1. h \in 1..Len(c) /\ Stamp(buffer'[j]) = Stamp(c[h]) /\ Unread(file, h)
        BY <1>10, <3>2
      <4> QED
        BY <1>1, <4>1 DEF TailInv, IngestedInOrder
    <3> QED
      BY <3>1, <3>2
  <2>2. ASSUME NEW f \in Files, NEW i \in 1..Len(content[f]), Unread(f, i)', NEW m \in 1..Len(ingested)
        PROVE  EventStamp(ingested[m]) < Stamp(content[f][i])
    BY <1>12, <2>2 DEF TailInv, IngestedInOrder
  <2> QED
    BY <1>1, <1>9, <2>1, <2>2 DEF TailInv, IngestedInOrder
<1> QED
  BY <1>6, <1>7, <1>8, <1>9, <1>13, <1>14 DEF TailInv

\* A sequence of pieces, split after its n-th.
LEMMA SplitAfter ==
    ASSUME NEW b \in Seq(Pieces), NEW n \in 1..Len(b)
    PROVE  LET rest == SubSeq(b, n + 1, Len(b)) IN
           /\ SubSeq(b, 1, n)[n] = b[n]
           /\ rest \in Seq(Pieces) /\ Len(rest) = Len(b) - n /\ Len(rest) \in Nat
           /\ \A j \in 1..Len(rest) : n + j \in 1..Len(b) /\ rest[j] = b[n + j]
<1>1. Len(b) \in Nat /\ n \in Int /\ \A i \in 1..Len(b) : b[i] \in Pieces
  OBVIOUS
<1>2. SubSeq(b, 1, n)[n] = b[n]
  <2>1. \A i \in 1..n : b[i] \in Pieces
    BY <1>1
  <2>2. \A i \in 1..n - 1 + 1 : SubSeq(b, 1, n)[i] = b[1 + i - 1]
    BY <1>1, <2>1, SubSeqProperties
  <2> QED
    BY <1>1, <2>2
<1> PICK k : k = n + 1
  OBVIOUS
<1>3. \A i \in k..Len(b) : b[i] \in Pieces
  BY <1>1
<1> PICK rest : rest = SubSeq(b, k, Len(b))
  OBVIOUS
<1>4. /\ rest \in Seq(Pieces) /\ Len(rest) = IF k <= Len(b) THEN Len(b) - k + 1 ELSE 0
      /\ \A i \in 1..Len(b) - k + 1 : rest[i] = b[k + i - 1]
  BY <1>1, <1>3, SubSeqProperties
<1>5. Len(rest) = Len(b) - n /\ Len(rest) \in Nat
  BY <1>1, <1>4
<1>6. ASSUME NEW j \in 1..Len(rest) PROVE n + j \in 1..Len(b) /\ rest[j] = b[n + j]
  <2>1. j \in 1..Len(b) - k + 1 /\ k + j - 1 = n + j /\ n + j \in 1..Len(b)
    BY <1>1, <1>5
  <2> QED
    BY <1>4, <2>1
<1> QED
  BY <1>2, <1>4, <1>5, <1>6

LEMMA ReadLineStep == TailInv /\ ReadLine => TailInv'
<1> SUFFICES ASSUME TailInv, ReadLine
             PROVE  TailInv'
  OBVIOUS
<1> PICK ends : ends = {i \in DOMAIN buffer : EndsLine(buffer[i])}
  OBVIOUS
<1> PICK n : n = Min(ends)
  OBVIOUS
<1> PICK e : e = buffer[n].event
  OBVIOUS
<1>1. /\ UNCHANGED <<content, path, out, written, half, rotations, pc, file, pos, skewed>>
      /\ buffer \in Seq(Pieces) /\ Len(buffer) \in Nat /\ ingested \in Seq(Events) /\ Len(ingested) \in Nat
      /\ file # None /\ file \in Files
  <2>1. buffer # <<>>
    BY DEF ReadLine, HasLine
  <2> QED
    BY <2>1, StampsOf DEF ReadLine, suricata, TailInv, Typed, BufferInUse
<1>2. n \in 1..Len(buffer) /\ EndsLine(buffer[n])
  <2>1. ends # {} /\ ends \subseteq Nat
    BY <1>1 DEF ReadLine, HasLine
  <2>2. n \in ends
    BY <2>1, MinOf
  <2> QED
    BY <1>1, <2>2
<1>3. e \in Events /\ Stamp(buffer[n]) = EventStamp(e) /\ EventStamp(e) \in Int
  <2>1. buffer[n] \in Pieces
    BY <1>1, <1>2
  <2> QED
    BY <1>2, <2>1, StampOfPiece
<1>4. SubSeq(buffer, 1, n)[n] = buffer[n]
  BY <1>1, <1>2, SplitAfter
<1>5. buffer' = SubSeq(buffer, n + 1, Len(buffer)) /\ ingested' \in {ingested, Append(ingested, e)}
  BY <1>4 DEF ReadLine
<1>6. /\ buffer' \in Seq(Pieces) /\ Len(buffer') = Len(buffer) - n /\ Len(buffer') \in Nat
      /\ \A j \in 1..Len(buffer') : n + j \in 1..Len(buffer) /\ buffer'[j] = buffer[n + j]
  BY <1>1, <1>2, <1>5, SplitAfter, ZenonT(40)
<1>7. /\ ingested' \in Seq(Events) /\ Len(ingested') \in Nat
      /\ \A m \in 1..Len(ingested') :
            \/ m \in 1..Len(ingested) /\ ingested'[m] = ingested[m]
            \/ m = Len(ingested) + 1 /\ m = Len(ingested') /\ ingested'[m] = e
  <2>1. CASE ingested' = ingested
    BY <1>1, <2>1
  <2>2. CASE ingested' = Append(ingested, e)
    <3>1. ingested' \in Seq(Events) /\ Len(ingested') = Len(ingested) + 1
      BY <1>1, <1>3, <2>2
    <3>2. \A m \in 1..Len(ingested') : ingested'[m] = IF m = Len(ingested) + 1 THEN e ELSE ingested[m]
      BY <1>1, <1>3, <2>2, <3>1
    <3> QED
      BY <1>1, <3>1, <3>2
  <2> QED
    BY <1>5, <2>1, <2>2
<1>8. Typed' /\ FilesInTurn' /\ BufferInUse' /\ Top' = Top /\ Written'
  <2>1. Typed'
    BY <1>1, <1>6, <1>7 DEF TailInv, Typed
  <2>2. FilesInTurn'
    BY <1>1 DEF TailInv, FilesInTurn
  <2>3. BufferInUse'
    BY <1>1 DEF TailInv, BufferInUse, ReadLine
  <2>4. Top' = Top
    BY <1>1 DEF Top
  <2>5. Written'
    BY <1>1, <2>4 DEF TailInv, Written
  <2> QED
    BY <2>1, <2>2, <2>3, <2>4, <2>5
<1>9. /\ \A j \in 1..Len(buffer) : Stamp(buffer[j]) \in Int /\ Stamp(buffer[j]) <= Top
      /\ \A m \in 1..Len(ingested) : ingested[m] \in Events
      /\ \A f \in Files : \A i \in 1..Len(content[f]) : Unread(f, i)' => Unread(f, i)
      /\ Top \in Int /\ Events \subseteq Int
  BY <1>1, StampsOf DEF TailInv, ReadInOrder, Unread
<1>10. ReadInOrder'
  <2>1. ASSUME NEW j \in 1..Len(buffer') PROVE Stamp(buffer'[j]) <= Top
    BY <1>6, <1>9
  <2>2. ASSUME NEW j \in 1..Len(buffer'), NEW k \in 1..Len(buffer'), j < k
        PROVE  Stamp(buffer'[j]) < Stamp(buffer'[k])
    <3>1. n + j < n + k
      BY <1>2, <2>2
    <3> QED
      BY <1>6, <3>1 DEF TailInv, ReadInOrder
  <2>3. ASSUME NEW f \in Files, NEW i \in 1..Len(content[f]), Unread(f, i)', NEW j \in 1..Len(buffer')
        PROVE  Stamp(buffer'[j]) < Stamp(content[f][i])
    BY <1>6, <1>9, <2>3 DEF TailInv, ReadInOrder
  <2> QED
    BY <1>1, <1>8, <2>1, <2>2, <2>3 DEF ReadInOrder
<1>11. IngestedInOrder'
  <2>1. ASSUME NEW m \in 1..Len(ingested') PROVE EventStamp(ingested'[m]) <= Top
    BY <1>2, <1>3, <1>7, <1>9 DEF TailInv, IngestedInOrder
  <2>2. ASSUME NEW m \in 1..Len(ingested'), NEW j \in 1..Len(buffer')
        PROVE  EventStamp(ingested'[m]) < Stamp(buffer'[j])
    <3>1. n + j \in 1..Len(buffer) /\ buffer'[j] = buffer[n + j] /\ n < n + j
      BY <1>2, <1>6
    <3>2. Stamp(buffer[n]) < Stamp(buffer[n + j])
      BY <1>2, <3>1 DEF TailInv, ReadInOrder
    <3>3. CASE m \in 1..Len(ingested) /\ ingested'[m] = ingested[m]
      BY <3>1, <3>3 DEF TailInv, IngestedInOrder
    <3>4. CASE ingested'[m] = e
      BY <1>3, <3>1, <3>2, <3>4
    <3> QED
      BY <1>7, <3>3, <3>4
  <2>3. ASSUME NEW f \in Files, NEW i \in 1..Len(content[f]), Unread(f, i)', NEW m \in 1..Len(ingested')
        PROVE  EventStamp(ingested'[m]) < Stamp(content[f][i])
    <3>1. Unread(f, i)
      BY <1>9, <2>3
    <3>2. CASE m \in 1..Len(ingested) /\ ingested'[m] = ingested[m]
      BY <3>1, <3>2 DEF TailInv, IngestedInOrder
    <3>3. CASE ingested'[m] = e
      <4>1. Stamp(buffer[n]) < Stamp(content[f][i])
        BY <1>2, <3>1 DEF TailInv, ReadInOrder
      <4> QED
        BY <1>3, <3>3, <4>1
    <3> QED
      BY <1>7, <3>2, <3>3
  <2>4. ASSUME NEW m \in 1..Len(ingested'), NEW k \in 1..Len(ingested'), m < k
        PROVE  ingested'[m] < ingested'[k]
    <3>1. m \in 1..Len(ingested) /\ ingested'[m] = ingested[m]
      BY <1>7, <2>4
    <3>2. CASE k \in 1..Len(ingested) /\ ingested'[k] = ingested[k]
      BY <2>4, <3>1, <3>2 DEF TailInv, IngestedInOrder
    <3>3. CASE ingested'[k] = e
      <4>1. EventStamp(ingested[m]) < EventStamp(e)
        BY <1>2, <1>3, <3>1 DEF TailInv, IngestedInOrder
      <4> QED
        BY <1>3, <1>9, <3>1, <3>3, <4>1 DEF EventStamp
    <3> QED
      BY <1>7, <3>2, <3>3
  <2> QED
    BY <1>1, <1>8, <2>1, <2>2, <2>3, <2>4 DEF IngestedInOrder
<1> QED
  BY <1>8, <1>10, <1>11 DEF TailInv

-------------------------------------------------------------------------------
LEMMA TailInvStep == TailInv /\ [TNext]_tvars => TailInv'
<1> SUFFICES ASSUME TailInv, [TNext]_tvars
             PROVE  TailInv'
  OBVIOUS
<1>1. CASE TailStep
  BY <1>1, OpenFirstStep, SeekEndStep, FillStep, ReadLineStep, ReadPartialStep, CheckRotationStep,
     ReopenStep DEF TailStep
<1>2. CASE \E part \in {"whole", "head", "tail"} : WriteEvent(part)
  BY <1>2, WriteStep
<1>3. CASE Rename \/ Create \/ ReopenOutput \/ Truncate
  BY <1>3, RenameStep, CreateStep, ReopenOutputStep, TruncateStep
<1>4. CASE UNCHANGED tvars
  <2>1. Typed' /\ FilesInTurn' /\ BufferInUse'
    BY <1>4 DEF tvars, TailInv, Typed, FilesInTurn, BufferInUse
  <2>2. \A f \in Files : \A i \in 1..Len(content[f]) : Unread(f, i)' => Unread(f, i)
    BY <1>4 DEF tvars, Unread
  <2> QED
    BY <1>4, <2>1, <2>2, QuietStep DEF tvars
<1> QED
  BY <1>1, <1>2, <1>3, <1>4 DEF TNext

\* Under any rotation and truncation, and with lines found half written, the reader's
\* state is well formed: offsets, files and the buffer of StartSuricataPrimaryEngine.
THEOREM TailTypeCorrect == TailSpec => []TailTypeOK
<1>1. TailInv => TailTypeOK
  <2> SUFFICES ASSUME TailInv
               PROVE  TailTypeOK
    OBVIOUS
  <2>1. {path, out, file} \subseteq Files \cup {None}
    BY DEF TailInv, Typed
  <2> QED
    BY <2>1 DEF TailInv, Typed, FilesInTurn, TailTypeOK
<1> QED
  BY <1>1, TailInit, TailInvStep, PTL DEF TailSpec

\* However often the file is renamed, recreated or emptied, and wherever the reader is
\* then, no event is acted upon twice or after a later one.
THEOREM EventsOnceInOrder == TailSpec => []OnceInOrder
<1>1. TailInv => OnceInOrder
  <2> SUFFICES ASSUME TailInv
               PROVE  OnceInOrder
    OBVIOUS
  <2>1. DOMAIN ingested = 1..Len(ingested)
    BY DEF TailInv, Typed
  <2> QED
    BY <2>1 DEF TailInv, IngestedInOrder, OnceInOrder
<1> QED
  BY <1>1, TailInit, TailInvStep, PTL DEF TailSpec
================================================================================
