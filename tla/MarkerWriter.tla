---------------------------- MODULE MarkerWriter ----------------------------
(***************************************************************************)
(* The serial sink of the boot test (e2e/cmd/qemuboot): a writer that      *)
(* looks for a marker in a byte stream arriving in arbitrary chunks,       *)
(* keeping only Len(Marker) - 1 bytes between two chunks, and that keeps   *)
(* the last CaptureLimit bytes in a ring for the failure report.  Write    *)
(* holds the writer's mutex from its first to its last statement, so it is *)
(* one step.  `written' is a history variable: the bytes the output        *)
(* accepted so far; no action reads it.                                    *)
(***************************************************************************)
EXTENDS Integers, Sequences, FiniteSetsExt

CONSTANTS
    Bytes,          \* the alphabet of the serial line
    Zero,           \* the content of a fresh cell of the ring
    Marker,         \* config.Expect
    CaptureLimit,   \* serialCaptureLimit
    MaxWritten      \* bound: bytes the stream may hold

\* validateConfig refuses an empty "expect"; the capture limit is 1 << 20.
ASSUME MarkerAssumption ==
    /\ Marker \in Seq(Bytes) /\ Marker /= <<>>
    /\ CaptureLimit \in Nat \ {0}
    /\ MaxWritten \in Nat

VARIABLES
    markerTail,     \* markerWriter.markerTail
    matched,        \* markerWriter.matched
    found,          \* the found channel is closed
    capture,        \* the tailBuffer: data, start, size, truncated
    written         \* history: every byte the output accepted

writerVars == <<markerTail, matched, found, capture, written>>

-----------------------------------------------------------------------------
\* bytes.Contains.
BytesContain(s, pattern) ==
    \E i \in 0 .. Len(s) - Len(pattern) :
        SubSeq(s, i + 1, i + Len(pattern)) = pattern

\* The last n elements of s, or all of s when it is shorter.
LastBytes(s, n) ==
    SubSeq(s, IF Len(s) > n THEN Len(s) - n + 1 ELSE 1, Len(s))

TailLimit == Len(Marker) - 1

\* Fault: the search across the chunk boundary is skipped.
matchChunkOnly(chunk) == BytesContain(chunk, Marker)

\* The marker lies inside the chunk, or straddles its first bytes.
match(chunk) ==
    \/ BytesContain(chunk, Marker)
    \/ /\ markerTail /= <<>> /\ TailLimit > 0
       /\ BytesContain(markerTail \o SubSeq(chunk, 1, Min({Len(chunk), TailLimit})),
                       Marker)

\* The tail after a chunk: a chunk that is long enough replaces the tail, a
\* shorter one is appended to it and the front is dropped.
updatedMarkerTail(tail, chunk) ==
    IF TailLimit <= 0 THEN <<>>
    ELSE IF Len(chunk) >= TailLimit THEN LastBytes(chunk, TailLimit)
    ELSE LastBytes(tail \o chunk, TailLimit)

-----------------------------------------------------------------------------
Cells == 0 .. CaptureLimit - 1

\* A fresh ring; the code allocates the cells at the first non-empty write.
EmptyCapture ==
    [data |-> [k \in Cells |-> Zero], start |-> 0, size |-> 0, truncated |-> FALSE]

\* The ring with p stored from cell `end' on, wrapping around.
storedFrom(data, end, p) ==
    [k \in Cells |->
        LET i == (k + CaptureLimit - end) % CaptureLimit
        IN  IF i < Len(p) THEN p[i + 1] ELSE data[k]]

\* tailBuffer.Write.
captureWrite(b, p) ==
    LET free == CaptureLimit - b.size
        dropped == IF Len(p) > free THEN Len(p) - free ELSE 0
        start == (b.start + dropped) % CaptureLimit
        kept == b.size - dropped
        end == (start + kept) % CaptureLimit
    IN  IF Len(p) = 0 THEN b
        ELSE IF Len(p) >= CaptureLimit
        THEN [data |-> storedFrom(b.data, 0, LastBytes(p, CaptureLimit)),
              start |-> 0,
              size |-> CaptureLimit,
              truncated |-> b.truncated \/ b.size > 0 \/ Len(p) > CaptureLimit]
        ELSE [data |-> storedFrom(b.data, end, p),
              start |-> start,
              size |-> kept + Len(p),
              truncated |-> b.truncated \/ dropped > 0]

\* tailBuffer.String without the note that marks a truncated report.
captureString(b) ==
    [i \in 1 .. b.size |-> b.data[(b.start + i - 1) % CaptureLimit]]

-----------------------------------------------------------------------------
WriterInit ==
    /\ markerTail = <<>>
    /\ matched = FALSE
    /\ found = FALSE
    /\ capture = EmptyCapture
    /\ written = <<>>

\* What the writer does with the bytes the output accepted: the marker is
\* remembered, the channel closed once, the tail moved on.
Accept(chunk) ==
    /\ Len(written) + Len(chunk) <= MaxWritten
    /\ written' = written \o chunk
    /\ capture' = captureWrite(capture, chunk)
    /\ matched' = (matched \/ match(chunk))
    /\ found' = (found \/ match(chunk))
    /\ markerTail' = updatedMarkerTail(markerTail, chunk)

\* Write(p): the output takes the first n bytes, and only those are looked
\* at; n = 0 leaves the writer alone.
Write(p, n) ==
    \/ n > 0 /\ Accept(SubSeq(p, 1, n))
    \/ n = 0 /\ UNCHANGED writerVars

-----------------------------------------------------------------------------
(***************************************************************************)
(* Properties.                                                             *)
(***************************************************************************)
\* However the stream was cut into chunks, markerWriter has matched exactly
\* when the marker occurs in the stream: no split marker is missed, and no
\* match is invented from bytes that were not adjacent.
MatchedIffSeen ==
    /\ matched <=> BytesContain(written, Marker)
    /\ found <=> matched

\* The report of tailBuffer.String is the end of the stream, in order, whole
\* when it fits, and marked truncated exactly when bytes were lost.
CaptureIsTail ==
    /\ captureString(capture) = LastBytes(written, CaptureLimit)
    /\ capture.truncated <=> Len(written) > CaptureLimit

\* However the stream was cut, the writer knows of the marker and reports the end.
WriterExact == MatchedIffSeen /\ CaptureIsTail
=============================================================================
