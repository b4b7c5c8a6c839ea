----------------------------- MODULE SuricataTail -----------------------------
(***************************************************************************)
(* Following Suricata's event file (StartSuricataPrimaryEngine in          *)
(* detection/suricata.go): wait for the file, go to its end, read lines,   *)
(* and at the end of the file look whether it was rotated or truncated.    *)
(*                                                                         *)
(* The other side is modelled from what the code expects of it: Suricata   *)
(* appends lines, a reader may find a line half written, and the file is   *)
(* rotated by renaming (a new one is created by the rotation or by         *)
(* Suricata when it reopens) or emptied in place. What an event does is    *)
(* the subject of Prevention; here it is ingested.                         *)
(***************************************************************************)
EXTENDS Integers, Sequences, FiniteSets, SequencesExt

CONSTANTS
    MaxEvents,      \* bound on the events written
    MaxRotations    \* bound on renames and truncations

ASSUME TailBoundsAssumption == {MaxEvents, MaxRotations} \subseteq Nat

Events == 1..MaxEvents
Files == 1..(MaxRotations + 1)
None == 0           \* no file: at the path, or held open by the reader

\* A line as it is found in the file: in one piece or in two. The rest of a line
\* that is read from its middle looks like the second piece.
Piece(e, part) == [event |-> e, part |-> part]
Pieces == [event : Events, part : {"whole", "head", "tail", "middle"}]
EndsLine(piece) == piece.part \in {"whole", "tail"}
CutPiece(piece) == [piece EXCEPT !.part = IF EndsLine(piece) THEN "tail" ELSE "middle"]

VARIABLES
    content,    \* per file: the pieces in it
    path,       \* the file at evePath
    out,        \* the file Suricata has open
    written,    \* the number of events begun
    half,       \* Suricata has written the first half of a line
    rotations,
    pc, file,   \* the reader: where it is, and the file it has open
    pos,        \* its offset in the file, in pieces
    skewed,     \* the file was emptied below pos, which may now be inside a piece
    buffer,     \* pieces read and not yet split off as a line
    ingested    \* history: the events processed

suricata == <<content, path, out, written, half, rotations, skewed>>
tvars == <<content, path, out, written, half, rotations, pc, file, pos, skewed, buffer, ingested>>

TInit ==
    /\ content = [f \in Files |-> <<>>]
    /\ path \in {None, 1} /\ out = path
    /\ written = 0 /\ half = FALSE /\ rotations = 0
    /\ pc = "open" /\ file = None /\ pos = 0 /\ skewed = FALSE /\ buffer = <<>>
    /\ ingested = <<>>

-------------------------------------------------------------------------------
(* Suricata and the rotation *)

Reader == <<pc, file, pos, buffer, ingested>>

WriteEvent(part) ==
    /\ out # None
    /\ part = "tail" <=> half
    /\ half' = (part = "head")
    /\ IF part = "tail" THEN UNCHANGED written ELSE written < MaxEvents /\ written' = written + 1
    /\ content' = [content EXCEPT ![out] = Append(@, Piece(written', part))]
    /\ UNCHANGED <<path, out, rotations, skewed, Reader>>

\* The file is moved away; Suricata still has it open.
Rename ==
    /\ path # None /\ rotations < MaxRotations
    /\ path' = None /\ rotations' = rotations + 1
    /\ UNCHANGED <<content, out, written, half, skewed, Reader>>

\* An empty file appears, created by the rotation or by Suricata at its start.
Create ==
    /\ path = None
    /\ path' = rotations + 1
    /\ UNCHANGED <<content, out, written, half, rotations, skewed, Reader>>

\* Suricata flushes what it holds before it closes a file.
ReopenOutput ==
    /\ path # None /\ out # path /\ ~half
    /\ out' = path
    /\ UNCHANGED <<content, path, written, half, rotations, skewed, Reader>>

Truncate ==
    /\ path # None /\ rotations < MaxRotations
    /\ content' = [content EXCEPT ![path] = <<>>]
    /\ rotations' = rotations + 1
    /\ skewed' = (skewed \/ (file = path /\ pos > 0))
    /\ UNCHANGED <<path, out, written, half, Reader>>

-------------------------------------------------------------------------------
(* The reader *)

\* Retried every two seconds until the file is there.
OpenFirst ==
    /\ pc = "open" /\ path # None
    /\ file' = path /\ pc' = "seek"
    /\ UNCHANGED <<suricata, pos, buffer, ingested>>

\* Mutant: the last piece is read.
SeekBeforeEnd ==
    /\ pc = "seek"
    /\ pos' = Len(content[file]) - 1 /\ pc' = "read"
    /\ UNCHANGED <<suricata, file, buffer, ingested>>
SeekEnd ==
    /\ pc = "seek"
    /\ pos' = Len(content[file]) /\ pc' = "read"
    /\ UNCHANGED <<suricata, file, buffer, ingested>>

HasLine == \E i \in DOMAIN buffer : EndsLine(buffer[i])
MoreToRead == file # None /\ pos < Len(content[file])

\* ReadString asks for more: it gets what fits its buffer.
Fill ==
    /\ pc = "read" /\ ~HasLine /\ MoreToRead
    /\ \E n \in (pos + 1)..Len(content[file]) : \E cut \in {FALSE, skewed} :
          LET read == SubSeq(content[file], pos + 1, n)
          IN  /\ buffer' = buffer \o (IF cut THEN <<CutPiece(Head(read))>> \o Tail(read) ELSE read)
              /\ pos' = n
    /\ skewed' = FALSE
    /\ UNCHANGED <<content, path, out, written, half, rotations, pc, file, ingested>>

\* A line that is not the whole event is not JSON, and is skipped.
ReadLine ==
    LET n == Min({i \in DOMAIN buffer : EndsLine(buffer[i])})
        line == SubSeq(buffer, 1, n)
        e == line[n].event
    IN
    /\ pc = "read" /\ HasLine
    /\ buffer' = SubSeq(buffer, n + 1, Len(buffer))
    /\ ingested' = IF line \in {<<Piece(e, "whole")>>, <<Piece(e, "head"), Piece(e, "tail")>>}
                   THEN Append(ingested, e) ELSE ingested
    /\ UNCHANGED <<suricata, pc, file, pos>>

\* At the end of the file ReadString returns what it has, with an error: it is dropped.
ReadPartial ==
    /\ pc = "read" /\ ~HasLine /\ ~MoreToRead
    /\ buffer' = <<>> /\ pc' = "stat"
    /\ UNCHANGED <<suricata, file, pos, ingested>>

\* Mutants: a file that has not grown counts as truncated; only a truncation is noticed.
CheckRotationUngrown ==
    LET replaced == file # None /\ path # None /\ (path # file \/ pos >= Len(content[path]))
    IN
    /\ pc = "stat"
    /\ IF replaced THEN pc' = "reopen" /\ file' = None ELSE pc' = "read" /\ UNCHANGED file
    /\ UNCHANGED <<suricata, pos, buffer, ingested>>
CheckTruncationOnly ==
    LET replaced == file # None /\ path # None /\ pos > Len(content[path])
    IN
    /\ pc = "stat"
    /\ IF replaced THEN pc' = "reopen" /\ file' = None ELSE pc' = "read" /\ UNCHANGED file
    /\ UNCHANGED <<suricata, pos, buffer, ingested>>

\* Stat fails on a closed file, or when there is none at the path.
CheckRotation ==
    LET replaced == file # None /\ path # None /\ (path # file \/ pos > Len(content[path]))
    IN
    /\ pc = "stat"
    /\ IF replaced THEN pc' = "reopen" /\ file' = None ELSE pc' = "read" /\ UNCHANGED file
    /\ UNCHANGED <<suricata, pos, buffer, ingested>>

\* If this fails, the reader keeps the closed file.
Reopen ==
    /\ pc = "reopen"
    /\ IF path = None THEN UNCHANGED <<file, pos, skewed>>
       ELSE file' = path /\ pos' = 0 /\ skewed' = FALSE
    /\ pc' = "read"
    /\ UNCHANGED <<content, path, out, written, half, rotations, buffer, ingested>>

TailStep == OpenFirst \/ SeekEnd \/ Fill \/ ReadLine \/ ReadPartial \/ CheckRotation \/ Reopen

TNext ==
    \/ TailStep
    \/ \E part \in {"whole", "head", "tail"} : WriteEvent(part)
    \/ Rename \/ Create \/ ReopenOutput \/ Truncate

\* The loop has no exit. Nothing is assumed of Suricata.
TailSpec == TInit /\ [][TNext]_tvars /\ WF_tvars(TailStep)

-------------------------------------------------------------------------------
(* Properties *)

TailTypeOK ==
    /\ content \in [Files -> Seq(Pieces)] /\ buffer \in Seq(Pieces)
    /\ {path, out, file} \subseteq Files \cup {None}
    /\ written \in 0..MaxEvents /\ rotations \in 0..MaxRotations /\ pos \in Nat
    /\ pc \in {"open", "seek", "read", "stat", "reopen"}

\* Through every rotation and truncation, an event is acted upon once at most and
\* never after a later one: what is lost stays lost and is not made up for.
OnceInOrder == \A i, j \in DOMAIN ingested : i < j => ingested[i] < ingested[j]

\* The file is not rotated any more, and the reader is at or before piece i of it,
\* or has another file open and will come to it.
Ahead(f, i) ==
    /\ rotations = MaxRotations /\ path = f /\ i <= Len(content[f])
    /\ content[f][i].part = "whole"
    /\ pc \in {"read", "stat"} /\ file # None
    /\ file = f => pos < i /\ ~skewed
    /\ i = 1 \/ EndsLine(content[f][i - 1])

\* An event written whole to the current file is acted upon, wherever the reader
\* is when it is written, unless the file is rotated once more. The exceptions
\* are the cases in which the code loses events: a line found half written, a
\* file replaced while the reader is between Stat and Open, and one emptied and
\* filled again behind its back.
WrittenIsIngested ==
    \A f \in Files : \A i, e \in Events :
        (Ahead(f, i) /\ content[f][i].event = e) ~> (e \in Range(ingested))
===============================================================================
