----------------------------- MODULE SseDecoder -----------------------------
(***************************************************************************)
(* Reading a text/event-stream body: SseDecoder of sse/mod.rs and the      *)
(* poll_next of sse/stream.rs.  The body arrives in frames cut anywhere,   *)
(* through a CR LF pair or a byte order mark too, and the decoder keeps    *)
(* only a buffer, where to go on scanning, and whether it is dropping an   *)
(* event that was too large.  A byte is a line terminator, a byte of the   *)
(* byte order mark or a byte of a data line; other fields are left out.    *)
(***************************************************************************)
EXTENDS Naturals, Sequences, SequencesExt

CONSTANTS
    MaxBytes,        \* bound: bytes of the stream
    MaxPayload       \* values of max_payload_size; 0 is no limit

ASSUME SseDecoderAssumption ==
    /\ MaxBytes \in Nat \ (0..2)
    /\ MaxPayload \subseteq Nat

VARIABLES
    stream,       \* the whole body
    max_payload_size,
    fed,          \* how many bytes of it were read into the buffer
    decoder,      \* the SseDecoder and its buffer
    delivered,    \* what poll_next returned: messages, and "too_large" errors
    reading       \* "decode", "frame" (decode returned None), "ended", "done", "failed"

sseVars == <<stream, max_payload_size, fed, decoder, delivered, reading>>

Mark == <<"BOM", "BOM", "BOM">>
EndsLine == {"CR", "LF"}

\* draining: "no", or whether the next byte starts a line of the dropped event.
NewDecoder ==
    [buf |-> <<>>, scan_pos |-> 0, bom_stripped |-> FALSE, draining |-> "no"]

\* A limit is no smaller than the mark of a stream that has one.
SseInit ==
    /\ max_payload_size \in MaxPayload
    /\ \E mark \in {<<>>, Mark} :
        /\ max_payload_size > 0 => max_payload_size >= Len(mark)
        /\ \E n \in 0..(MaxBytes - Len(mark)) :
            \E body \in [1..n -> {"data", "CR", "LF"}] : stream = mark \o body
    /\ fed = 0
    /\ decoder = NewDecoder
    /\ delivered = <<>>
    /\ reading = "decode"
-----------------------------------------------------------------------------
Advanced(buf, n) == SubSeq(buf, n + 1, Len(buf))

\* strip_bom: a buffer shorter than the mark that may still become it waits.
strip_bom(d) ==
    IF d.bom_stripped \/ d.buf = <<>> THEN d
    ELSE IF Len(d.buf) < 3 THEN [d EXCEPT !.bom_stripped = ~IsPrefix(d.buf, Mark)]
    ELSE [d EXCEPT !.buf = IF IsPrefix(Mark, @) THEN Advanced(@, 3) ELSE @,
                   !.bom_stripped = TRUE]

\* How many bytes lie before the byte after the line terminator at i.
consume_line_ending(buf, i) ==
    IF buf[i] = "CR" /\ i < Len(buf) /\ buf[i + 1] = "LF" THEN i + 1 ELSE i

NoBoundary == [found |-> FALSE, block_end |-> 0, consume |-> 0]

\* The first line terminator after pos that another one follows.
find_event_boundary_from(buf, pos) ==
    LET ends == {i \in (pos + 1)..Len(buf) :
                    LET line_end == consume_line_ending(buf, i)
                    IN  /\ buf[i] \in EndsLine
                        /\ line_end < Len(buf)
                        /\ buf[line_end + 1] \in EndsLine}
        i == CHOOSE first \in ends : \A j \in ends : first <= j
    IN  IF ends = {} THEN NoBoundary
        ELSE [found |-> TRUE, block_end |-> i - 1,
              consume |-> consume_line_ending(buf, consume_line_ending(buf, i) + 1)]

exceeds_payload_limit(buf, limit) ==
    LET n == Len(buf)
        ending == IF n > 1 /\ buf[n] = "LF" /\ buf[n - 1] = "CR" THEN 2
                  ELSE IF n > 0 /\ buf[n] \in EndsLine THEN 1
                  ELSE 0
    IN  n - ending > limit

\* Whether a line starts with byte i; line_start says it of the first byte.
LineStarts(buf, i, line_start) ==
    IF i = 1 THEN line_start
    ELSE buf[i - 1] \in EndsLine /\ ~(buf[i - 1] = "CR" /\ buf[i] = "LF")

\* DrainingOversized::scan over the first n bytes: up to and with the first line
\* that is empty, else all of them.
ScanUpTo(buf, n, line_start) ==
    LET blank == {i \in 1..n : buf[i] \in EndsLine /\ LineStarts(buf, i, line_start)}
        i == CHOOSE first \in blank : \A j \in blank : first <= j
    IN  IF blank = {}
        THEN [boundary |-> FALSE, consumed |-> n,
              line_start |-> IF n = 0 THEN line_start ELSE buf[n] \in EndsLine]
        ELSE [boundary |-> TRUE, consumed |-> consume_line_ending(buf, i), line_start |-> TRUE]

\* A scan that takes a CR at the end of the buffer for a whole line terminator.
ScanEager(buf, line_start) == ScanUpTo(buf, Len(buf), line_start)

\* A CR at the end stays in the buffer: its LF may be in the next frame.
scan(buf, line_start) ==
    LET n == Len(buf)
    IN  ScanUpTo(buf, IF n > 0 /\ buf[n] = "CR" THEN n - 1 ELSE n, line_start)

\* One byte of a block: a line that is not empty ends with its terminator.
LineStep(s, byte) ==
    IF byte \notin EndsLine THEN [s EXCEPT !.line = @ + 1]
    ELSE [ended |-> IF s.line > 0 THEN Append(s.ended, s.line) ELSE s.ended, line |-> 0]

LinesRead(block) ==
    LET read[n \in 0..Len(block)] ==
            IF n = 0 THEN [ended |-> <<>>, line |-> 0] ELSE LineStep(read[n - 1], block[n])
    IN  read

\* The lengths of the data lines of a block; empty lines are skipped.
DataLines(block) ==
    LET s == LinesRead(block)[Len(block)]
    IN  IF s.line > 0 THEN Append(s.ended, s.line) ELSE s.ended

\* What is left to scan after a search without a boundary, forgetting that the
\* last line terminator may be half of the boundary.
ScanFromEnd(d) == [d EXCEPT !.scan_pos = Len(d.buf)]

ScanFrom(d) == [d EXCEPT !.scan_pos = IF Len(d.buf) > 2 THEN Len(d.buf) - 2 ELSE 0]

\* The drain goes on over the new bytes; a boundary ends it.
DrainStep(d) ==
    LET s == scan(d.buf, d.draining = "line_start")
    IN  IF s.boundary
        THEN [d EXCEPT !.buf = Advanced(@, s.consumed), !.draining = "no", !.scan_pos = 0]
        ELSE [d EXCEPT !.buf = Advanced(@, s.consumed),
                       !.draining = IF s.line_start THEN "line_start" ELSE "mid_line"]

\* No boundary and too many bytes: the error, and the rest of the event is dropped.
StartDrain(d) ==
    LET s == scan(d.buf, FALSE)
    IN  [d EXCEPT !.buf = Advanced(@, s.consumed),
                  !.draining = IF s.boundary THEN "no"
                               ELSE IF s.line_start THEN "line_start"
                               ELSE "mid_line"]

\* One pass of the loop of decode_impl: an outcome, "none" when it needs more
\* data, and the decoder it leaves.  After a block without data the loop goes on.
LoopPass(d, limit) ==
    LET boundary == find_event_boundary_from(d.buf, d.scan_pos)
        rest == [d EXCEPT !.buf = Advanced(@, boundary.consume), !.scan_pos = 0]
        lines == DataLines(SubSeq(d.buf, 1, boundary.block_end))
        Result(is, data, left) == [outcome |-> is, lines |-> data, decoder |-> left]
    IN  IF ~boundary.found /\ limit > 0 /\ exceeds_payload_limit(d.buf, limit)
        THEN Result("too_large", <<>>, StartDrain(d))
        ELSE IF ~boundary.found THEN Result("none", <<>>, ScanFrom(d))
        ELSE IF limit > 0 /\ boundary.block_end > limit
        THEN Result("too_large", <<>>, rest)
        ELSE Result(IF lines = <<>> THEN "skip" ELSE "message", lines, rest)

\* decode_impl up to the end of a pass.  What comes before the loop changes
\* nothing when it is read again for the next pass: a boundary was found.
decode(d0, limit) ==
    LET d1 == strip_bom(d0)
        d2 == IF d1.draining = "no" THEN d1 ELSE DrainStep(d1)
    IN  IF d2.draining # "no" THEN [outcome |-> "none", lines |-> <<>>, decoder |-> d2]
        ELSE LoopPass(d2, limit)
-----------------------------------------------------------------------------
\* poll_next decodes what is buffered before it asks for a frame ...
Decode ==
    LET r == decode(decoder, max_payload_size)
    IN  /\ reading \in {"decode", "ended"}
        /\ decoder' = r.decoder
        /\ \/ /\ r.outcome = "message"
              /\ delivered' = Append(delivered, r.lines)
              /\ UNCHANGED reading
           \/ /\ r.outcome = "too_large"
              /\ delivered' = Append(delivered, <<>>)
              /\ UNCHANGED reading
           \/ /\ r.outcome = "skip"
              /\ UNCHANGED <<delivered, reading>>
           \/ /\ r.outcome = "none"
              /\ reading' = IF reading = "ended" THEN "done" ELSE "frame"
              /\ UNCHANGED delivered
        /\ UNCHANGED <<stream, max_payload_size, fed>>

\* ... a frame of any size, possibly empty (trailers carry no data) ...
NextFrame(n) ==
    /\ reading = "frame"
    /\ fed + n <= Len(stream)
    /\ fed' = fed + n
    /\ decoder' = [decoder EXCEPT !.buf = @ \o SubSeq(stream, fed + 1, fed + n)]
    /\ reading' = "decode"
    /\ UNCHANGED <<stream, max_payload_size, delivered>>

\* ... the end of the body, after which what is buffered is decoded once more,
\* or an error, which is returned at once.
BodyEnds ==
    /\ reading = "frame"
    /\ fed = Len(stream)
    /\ reading' = "ended"
    /\ UNCHANGED <<stream, max_payload_size, fed, decoder, delivered>>

BodyErrs ==
    /\ reading = "frame"
    /\ reading' = "failed"
    /\ UNCHANGED <<stream, max_payload_size, fed, decoder, delivered>>

SseNext ==
    \/ Decode
    \/ \E n \in 0..MaxBytes : NextFrame(n)
    \/ BodyEnds
    \/ BodyErrs

SseSpec == SseInit /\ [][SseNext]_sseVars
-----------------------------------------------------------------------------
\* The reference: a decoder that sees the stream one byte at a time and keeps
\* no buffer.  size counts the bytes of the event, its inner terminators too.
ByteStep(s, byte) ==
    IF byte = "LF" /\ s.after_cr
    THEN [s EXCEPT !.after_cr = FALSE, !.size = IF s.lines = <<>> THEN 0 ELSE @ + 1]
    ELSE IF byte \notin EndsLine
    THEN [s EXCEPT !.line = @ + 1, !.size = @ + 1, !.upto = s.size + 1, !.after_cr = FALSE]
    ELSE IF s.line > 0
    THEN [s EXCEPT !.lines = Append(@, s.line), !.line = 0, !.size = @ + 1,
                   !.after_cr = byte = "CR"]
    ELSE [s EXCEPT !.events = IF s.lines = <<>> THEN @
                              ELSE Append(@, [lines |-> s.lines, size |-> s.upto]),
                   !.lines = <<>>, !.size = 0, !.upto = 0, !.after_cr = byte = "CR"]

Unread ==
    [events |-> <<>>, lines |-> <<>>, line |-> 0, size |-> 0, upto |-> 0, after_cr |-> FALSE]

MarkLen == IF IsPrefix(Mark, stream) THEN 3 ELSE 0

\* What it has after n bytes of the stream, the byte order mark passed over.
Reference[n \in MarkLen..Len(stream)] ==
    IF n = MarkLen THEN Unread ELSE ByteStep(Reference[n - 1], stream[n])

\* An outcome that is right for an event: a message only within the limit, the
\* error only near it: a block may start with the terminator of a blank line,
\* which counts.
RightFor(outcome, event) ==
    \/ /\ outcome = event.lines
       /\ max_payload_size > 0 => event.size <= max_payload_size
    \/ /\ outcome = <<>>
       /\ max_payload_size > 0 /\ event.size + 2 > max_payload_size

\* Wherever the frames are cut, the messages delivered are those of the stream
\* read byte by byte, in order, none lost, none merged, none twice; without a
\* limit exactly those; with one, an error stands in the place of an event that
\* is too large and the events after it are whole.
SplitInvariant ==
    LET ref == Reference[Len(stream)]
        open == [lines |-> <<0>>, size |-> ref.upto]
        all == IF ref.upto > 0 THEN Append(ref.events, open) ELSE ref.events
    IN  /\ Len(delivered) <= Len(all)
        /\ \A k \in DOMAIN delivered : RightFor(delivered[k], all[k])
        /\ reading = "done" => Len(delivered) >= Len(ref.events)
=============================================================================
