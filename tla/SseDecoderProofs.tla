-------------------------- MODULE SseDecoderProofs --------------------------
(***************************************************************************)
(* Proofs about the event stream decoder: SplitInvariant, for streams and  *)
(* limits of any size and frames cut anywhere.  The reader of the stream   *)
(* byte by byte and the decoder with its buffer are compared at the place  *)
(* of the stream where the decoder's buffer begins.                        *)
(***************************************************************************)
EXTENDS SseDecoder, SequenceTheorems, WellFoundedInduction, TLAPS

Byte == {"BOM", "data", "CR", "LF"}

Event == [lines : Seq(Nat), size : Nat]

Reader ==
    [events : Seq(Event), lines : Seq(Nat), line : Nat, size : Nat, upto : Nat,
     after_cr : BOOLEAN]

\* What SseInit and the steps promise about the stream.
StreamOK ==
    /\ stream \in Seq(Byte)
    /\ MarkLen \in {0, 3}
    /\ MarkLen <= Len(stream)
    /\ \A i \in 1..Len(stream) : stream[i] = "BOM" <=> i <= MarkLen
    /\ max_payload_size \in Nat
    /\ max_payload_size > 0 => max_payload_size >= MarkLen
    /\ fed \in 0..Len(stream)

-----------------------------------------------------------------------------
(***************************************************************************)
(* Induction along the stream.                                             *)
(***************************************************************************)
\* A non-empty set of naturals has a least element.
LEMMA LeastOf ==
  ASSUME NEW S, S \subseteq Nat, S # {}
  PROVE  \E x \in S : \A y \in S : x <= y
<1>1. PICK x \in S : \A y \in S : ~(<<y, x>> \in OpToRel(<, Nat))
  BY NatLessThanWellFounded, WFMin, Zenon
<1>2. ASSUME NEW y \in S, y < x PROVE FALSE
  <2>1. <<y, x>> \in OpToRel(<, Nat)
    BY <1>2 DEF OpToRel
  <2> QED BY <1>1, <2>1
<1> QED BY <1>2

\* What holds of a and passes from each place to the next holds up to b.
LEMMA Along ==
  ASSUME NEW a \in Nat, NEW b \in Nat, NEW S,
         a \in S, \A n \in a..(b - 1) : n \in S => n + 1 \in S
  PROVE  a..b \subseteq S
<1> DEFINE Out == {n \in a..b : n \notin S}
<1>1. SUFFICES ASSUME Out # {} PROVE FALSE
  OBVIOUS
<1>2. Out \subseteq Nat
  OBVIOUS
<1>3. PICK x \in Out : \A y \in Out : x <= y
  <2> HIDE DEF Out
  <2> QED BY <1>1, <1>2, LeastOf
<1>4. x \in a..b /\ x \notin S /\ x # a
  BY <1>3
<1>5. x - 1 \in a..(b - 1) /\ x - 1 \notin Out
  BY <1>3, <1>4
<1>6. x - 1 \in S
  BY <1>5
<1> QED BY <1>4, <1>5, <1>6

-----------------------------------------------------------------------------
(***************************************************************************)
(* The reader that sees the stream byte by byte.                           *)
(***************************************************************************)
\* Its defining equation has a solution.
LEMMA ReferenceEquation ==
  ASSUME StreamOK
  PROVE  /\ Reference[MarkLen] = Unread
         /\ \A n \in (MarkLen + 1)..Len(stream) :
                Reference[n] = ByteStep(Reference[n - 1], stream[n])
<1> DEFINE m == MarkLen
           L == Len(stream)
           Solves(g, k) ==
             g = [n \in m..k |-> IF n = m THEN Unread ELSE ByteStep(g[n - 1], stream[n])]
           S == {k \in m..L : \E g : Solves(g, k)}
<1>1. m \in Nat /\ L \in Nat /\ m <= L
  BY LenProperties DEF StreamOK
<1>2. m \in S
  <2> DEFINE g == [n \in m..m |-> Unread]
  <2> HIDE DEF m
  <2>1. Solves(g, m)
    BY <1>1
  <2>2. m \in m..L
    BY <1>1
  <2> HIDE DEF g, Solves
  <2> QED BY <2>1, <2>2
<1>3. ASSUME NEW k \in m..(L - 1), k \in S PROVE k + 1 \in S
  <2>1. PICK g : Solves(g, k)
    BY <1>3
  <2> DEFINE h == [n \in m..(k + 1) |->
                     IF n = k + 1 THEN ByteStep(g[k], stream[k + 1]) ELSE g[n]]
  <2> HIDE DEF m
  <2>2. ASSUME NEW n \in m..(k + 1)
        PROVE  h[n] = IF n = m THEN Unread ELSE ByteStep(h[n - 1], stream[n])
    <3>1. CASE n = k + 1
      <4>1. h[n - 1] = g[k] /\ n # m
        BY <1>1, <3>1
      <4> QED BY <3>1, <4>1
    <3>2. CASE n # k + 1
      <4>1. n \in m..k /\ h[n] = g[n]
        BY <1>1, <3>2
      <4>2. n # m => h[n - 1] = g[n - 1]
        BY <1>1, <4>1
      <4>3. g[n] = IF n = m THEN Unread ELSE ByteStep(g[n - 1], stream[n])
        BY <2>1, <4>1
      <4> QED BY <4>1, <4>2, <4>3
    <3> QED BY <3>1, <3>2
  <2>3. Solves(h, k + 1)
    BY <2>2
  <2>4. k + 1 \in m..L
    BY <1>1
  <2> HIDE DEF h, Solves
  <2> QED BY <2>3, <2>4
<1>4. L \in S
  <2> HIDE DEF S
  <2>1. m..L \subseteq S
    BY <1>1, <1>2, <1>3, Along
  <2> QED BY <1>1, <2>1
<1>5. Solves(Reference, L)
  BY <1>4 DEF Reference
<1> HIDE DEF m
<1> QED BY <1>1, <1>5 DEF m

\* A reader's counts: an event is open as long as it has bytes, and the last of
\* its data is no further than its end.
Sound(s) ==
    /\ s \in Reader
    /\ s.upto <= s.size
    /\ s.after_cr => s.line = 0
    /\ s.line = 0 /\ s.lines = <<>> => s.upto = 0 /\ s.size = 0
    /\ s.line > 0 \/ s.lines # <<>> => s.upto > 0

\* A byte of data.
LEMMA ReadData ==
  ASSUME NEW s, Sound(s), NEW t, t = ByteStep(s, "data")
  PROVE  /\ Sound(t)
         /\ t.events = s.events /\ t.lines = s.lines /\ t.line = s.line + 1
         /\ t.size = s.size + 1 /\ t.upto = s.size + 1 /\ t.after_cr = FALSE
<1>1. t = [s EXCEPT !.line = s.line + 1, !.size = s.size + 1, !.upto = s.size + 1,
                    !.after_cr = FALSE]
  BY DEF ByteStep, EndsLine
<1>2. s \in Reader /\ s.line \in Nat /\ s.size \in Nat
  BY DEF Sound, Reader
<1> DEFINE line == s.line + 1
           size == s.size + 1
<1>3. line \in Nat /\ size \in Nat
  BY <1>2
<1>4. t = [s EXCEPT !.line = line, !.size = size, !.upto = size, !.after_cr = FALSE]
  BY <1>1
<1> HIDE DEF line, size
<1>5. /\ t \in Reader
      /\ t.events = s.events /\ t.lines = s.lines /\ t.line = line
      /\ t.size = size /\ t.upto = size /\ t.after_cr = FALSE
  BY <1>2, <1>3, <1>4 DEF Reader
<1> QED BY <1>2, <1>5 DEF Sound, line, size

\* The LF of a CR LF pair.
LEMMA ReadPaired ==
  ASSUME NEW s, Sound(s), s.after_cr, NEW t, t = ByteStep(s, "LF")
  PROVE  /\ Sound(t)
         /\ t.events = s.events /\ t.lines = s.lines /\ t.line = 0 /\ s.line = 0
         /\ t.upto = s.upto /\ t.after_cr = FALSE
         /\ t.size = IF s.lines = <<>> THEN 0 ELSE s.size + 1
<1>1. t = [s EXCEPT !.after_cr = FALSE, !.size = IF s.lines = <<>> THEN 0 ELSE s.size + 1]
  BY DEF ByteStep
<1> DEFINE size == IF s.lines = <<>> THEN 0 ELSE s.size + 1
<1>2. s \in Reader /\ s.line = 0 /\ s.upto \in Nat /\ s.size \in Nat /\ size \in Nat
  BY DEF Sound, Reader
<1>3. t = [s EXCEPT !.after_cr = FALSE, !.size = size]
  BY <1>1
<1>4. s.upto <= size
  BY <1>2 DEF Sound
<1> HIDE DEF size
<1>5. /\ t \in Reader
      /\ t.events = s.events /\ t.lines = s.lines /\ t.line = 0
      /\ t.upto = s.upto /\ t.after_cr = FALSE /\ t.size = size
  BY <1>2, <1>3 DEF Reader
<1> QED BY <1>2, <1>4, <1>5 DEF Sound, size

\* A line terminator: it ends a line with data, or else the event.
LEMMA ReadEnding ==
  ASSUME NEW s, Sound(s), NEW b \in EndsLine, ~(b = "LF" /\ s.after_cr),
         NEW t, t = ByteStep(s, b)
  PROVE  /\ Sound(t)
         /\ t.after_cr = (b = "CR")
         /\ t.line = 0
         /\ s.line > 0 => /\ t.events = s.events /\ t.lines = Append(s.lines, s.line)
                          /\ t.lines # <<>>
                          /\ t.size = s.size + 1 /\ t.upto = s.upto
         /\ s.line = 0 => /\ t.lines = <<>> /\ t.size = 0 /\ t.upto = 0
                          /\ s.lines = <<>> => t.events = s.events
                          /\ s.lines # <<>> =>
                               t.events = Append(s.events, [lines |-> s.lines, size |-> s.upto])
<1>0. (b = "CR") \in BOOLEAN /\ s \in Reader
  BY DEF Sound
<1>1. CASE s.line > 0
  <2>1. t = [s EXCEPT !.lines = Append(s.lines, s.line), !.line = 0, !.size = s.size + 1,
                      !.after_cr = (b = "CR")]
    BY <1>1 DEF ByteStep
  <2>2. Append(s.lines, s.line) \in Seq(Nat) /\ Append(s.lines, s.line) # <<>>
    BY <1>0, AppendProperties, SMTT(30) DEF Reader
  <2>3. s.line \in Nat /\ s.size \in Nat /\ s.upto \in Nat
    BY <1>0 DEF Reader
  <2> DEFINE lines == Append(s.lines, s.line)
             size == s.size + 1
  <2>4. /\ t \in Reader
        /\ t.events = s.events /\ t.lines = lines /\ t.line = 0
        /\ t.upto = s.upto /\ t.after_cr = (b = "CR") /\ t.size = size
    <3> HIDE DEF lines, size
    <3>1. lines \in Seq(Nat) /\ size \in Nat
      BY <1>0, <2>2, <2>3 DEF lines, size
    <3>2. t = [s EXCEPT !.lines = lines, !.line = 0, !.size = size,
                        !.after_cr = (b = "CR")]
      BY <2>1 DEF lines, size
    <3>3. t \in Reader
      <4>1. ASSUME NEW cr \in BOOLEAN
            PROVE  [s EXCEPT !.lines = lines, !.line = 0, !.size = size, !.after_cr = cr]
                     \in Reader
        BY <1>0, <3>1 DEF Reader
      <4> QED BY <1>0, <3>2, <4>1
    <3>4. t.events = s.events /\ t.lines = lines /\ t.line = 0
      BY <1>0, <3>2 DEF Reader
    <3>5. t.upto = s.upto /\ t.size = size
      BY <1>0, <3>2 DEF Reader
    <3>6. t.after_cr = (b = "CR")
      BY <1>0, <3>2 DEF Reader
    <3> QED BY <3>3, <3>4, <3>5, <3>6
  <2> QED BY <1>0, <1>1, <2>2, <2>3, <2>4 DEF Sound
<1>2. CASE ~(s.line > 0)
  <2> DEFINE e == [lines |-> s.lines, size |-> s.upto]
             events == IF s.lines = <<>> THEN s.events ELSE Append(s.events, e)
  <2>1. t = [s EXCEPT !.events = events, !.lines = <<>>, !.size = 0, !.upto = 0,
                      !.after_cr = (b = "CR")]
    BY <1>2 DEF ByteStep
  <2>2. e \in Event /\ s.events \in Seq(Event) /\ s.line \in Nat
    BY <1>0 DEF Reader, Event
  <2>3. events \in Seq(Event)
    BY <2>2, AppendProperties
  <2>4. <<>> \in Seq(Nat)
    OBVIOUS
  <2>5. s.line = 0
    BY <1>2, <2>2
  <2>6. /\ t.events = events /\ t.lines = <<>> /\ t.line = 0 /\ t.size = 0 /\ t.upto = 0
        /\ t.after_cr = (b = "CR") /\ t \in Reader
    <3> HIDE DEF events
    <3> QED BY <1>0, <2>1, <2>3, <2>4, <2>5 DEF Reader
  <2> QED BY <1>0, <2>5, <2>6 DEF Sound
<1> QED BY <1>1, <1>2

\* The reader is sound at every place of the stream.
LEMMA ReferenceSound ==
  ASSUME StreamOK
  PROVE  \A n \in MarkLen..Len(stream) :
           /\ Sound(Reference[n])
           /\ Reference[n].after_cr <=> n > MarkLen /\ stream[n] = "CR"
<1> DEFINE S == {n \in MarkLen..Len(stream) :
                   /\ Sound(Reference[n])
                   /\ Reference[n].after_cr <=> n > MarkLen /\ stream[n] = "CR"}
<1>1. MarkLen \in Nat /\ Len(stream) \in Nat /\ MarkLen <= Len(stream)
  BY LenProperties DEF StreamOK
<1>2. MarkLen \in S
  <2>1. Sound(Unread) /\ Unread.after_cr = FALSE
    BY DEF Unread, Sound, Reader
  <2> QED BY <1>1, <2>1, ReferenceEquation
<1>3. ASSUME NEW n \in MarkLen..(Len(stream) - 1), n \in S PROVE n + 1 \in S
  <2> DEFINE s == Reference[n]
             t == Reference[n + 1]
             b == stream[n + 1]
  <2>1. n + 1 \in (MarkLen + 1)..Len(stream) /\ n + 1 \in 1..Len(stream)
    BY <1>1
  <2>2. t = ByteStep(s, b)
    BY <1>1, <2>1, ReferenceEquation
  <2>3. b \in {"data", "CR", "LF"} /\ n + 1 > MarkLen
    BY <1>1, <2>1 DEF StreamOK, Byte
  <2>4. Sound(s)
    BY <1>3
  <2> SUFFICES Sound(t) /\ (t.after_cr <=> b = "CR")
    BY <1>1, <2>1, <2>3
  <2> HIDE DEF s, t, b
  <2>5. CASE b = "data"
    BY <2>2, <2>4, <2>5, ReadData
  <2>6. CASE b = "LF" /\ s.after_cr
    BY <2>2, <2>4, <2>6, ReadPaired
  <2>7. CASE b \in EndsLine /\ ~(b = "LF" /\ s.after_cr)
    BY <2>2, <2>4, <2>7, ReadEnding
  <2> QED BY <2>3, <2>5, <2>6, <2>7 DEF EndsLine
<1> HIDE DEF S
<1>4. MarkLen..Len(stream) \subseteq S
  BY <1>1, <1>2, <1>3, Along
<1> QED BY <1>4 DEF S
-----------------------------------------------------------------------------
(***************************************************************************)
(* Places of the stream.                                                   *)
(***************************************************************************)
\* Byte i is of a line terminator; it is the CR of a CR LF pair.
Ends(i) == stream[i] \in EndsLine
Pair(i) == i < Len(stream) /\ stream[i] = "CR" /\ stream[i + 1] = "LF"

\* Another terminator follows the one at i within the first p bytes.
Blank(i, p) ==
    /\ Ends(i)
    /\ IF Pair(i) THEN i + 2 <= p /\ Ends(i + 2) ELSE i + 1 <= p /\ Ends(i + 1)

NoBlank(c, p) == \A i \in (c + 1)..p : ~Blank(i, p)

\* The reader is between two events; how many bytes it then passes over.
Idle(c) == Reference[c].line = 0 /\ Reference[c].lines = <<>>
Lead(c) == IF c = Len(stream) \/ ~Ends(c + 1) THEN 0 ELSE IF Pair(c + 1) THEN 2 ELSE 1

\* What the byte after place n does to the reader: s before it, t after it.
ByteRead(n, s, t) ==
    /\ Sound(s) /\ Sound(t)
    /\ s.after_cr <=> n > MarkLen /\ stream[n] = "CR"
    /\ ~Ends(n + 1) =>
         /\ t.events = s.events /\ t.lines = s.lines /\ t.line = s.line + 1
         /\ t.size = s.size + 1 /\ t.upto = s.size + 1
    /\ stream[n + 1] = "LF" /\ s.after_cr =>
         /\ t.events = s.events /\ t.lines = s.lines /\ t.line = 0 /\ s.line = 0
         /\ t.upto = s.upto
         /\ t.size = IF s.lines = <<>> THEN 0 ELSE s.size + 1
    /\ Ends(n + 1) /\ ~(stream[n + 1] = "LF" /\ s.after_cr) =>
         /\ t.line = 0
         /\ s.line > 0 => /\ t.events = s.events /\ t.lines = Append(s.lines, s.line)
                          /\ t.lines # <<>>
                          /\ t.size = s.size + 1 /\ t.upto = s.upto
         /\ s.line = 0 => /\ t.lines = <<>> /\ t.size = 0 /\ t.upto = 0
                          /\ s.lines = <<>> => t.events = s.events
                          /\ s.lines # <<>> =>
                               t.events = Append(s.events, [lines |-> s.lines, size |-> s.upto])

\* The equation of the reader, one byte at a time.
LEMMA NextByte ==
  ASSUME StreamOK, NEW n \in MarkLen..(Len(stream) - 1)
  PROVE  ByteRead(n, Reference[n], Reference[n + 1])
<1> DEFINE s == Reference[n]
           t == Reference[n + 1]
<1> SUFFICES ByteRead(n, s, t)
  OBVIOUS
<1> DEFINE b == stream[n + 1]
<1>1. MarkLen \in Nat /\ Len(stream) \in Nat
  BY LenProperties DEF StreamOK
<1>2. n + 1 \in (MarkLen + 1)..Len(stream) /\ n + 1 \in 1..Len(stream)
      /\ n \in MarkLen..Len(stream) /\ n + 1 \in MarkLen..Len(stream) /\ n + 1 - 1 = n
  BY <1>1
<1>3. t = ByteStep(s, b)
  BY <1>1, <1>2, ReferenceEquation
<1>4. b \in {"data", "CR", "LF"}
  BY <1>1, <1>2 DEF StreamOK, Byte
<1>5. Sound(s) /\ Sound(t) /\ (s.after_cr <=> n > MarkLen /\ stream[n] = "CR")
  BY <1>2, ReferenceSound
<1>6. Ends(n + 1) <=> b \in EndsLine
  BY DEF Ends
<1> HIDE DEF b, s, t
<1> USE DEF ByteRead
<1>7. CASE b = "data"
  <2>1. ~Ends(n + 1) /\ stream[n + 1] # "LF"
    BY <1>6, <1>7 DEF EndsLine, b
  <2> QED BY <1>3, <1>5, <1>7, <2>1, ReadData
<1>8. CASE b = "LF" /\ s.after_cr
  <2>1. Ends(n + 1) /\ stream[n + 1] = "LF"
    BY <1>6, <1>8 DEF EndsLine, b
  <2> QED BY <1>3, <1>5, <1>8, <2>1, ReadPaired
<1>9. CASE b \in EndsLine /\ ~(b = "LF" /\ s.after_cr)
  <2>1. Ends(n + 1) /\ stream[n + 1] = b
    BY <1>6, <1>9 DEF EndsLine, b
  <2> QED BY <1>3, <1>5, <1>9, <2>1, ReadEnding
<1> QED BY <1>4, <1>7, <1>8, <1>9 DEF EndsLine

\* What a reader has inside a block that began at place c.
Inside(c, p) ==
    LET s == Reference[p]
    IN  /\ s.events = Reference[c].events
        /\ p <= c + Lead(c) => s.lines = <<>> /\ s.line = 0
        /\ p > c + Lead(c) =>
             /\ s.size = p - c - Lead(c)
             /\ s.line = 0 <=> Ends(p)
             /\ s.line = 0 => s.lines # <<>>
             /\ s.line > 0 => s.upto = s.size
             /\ Ends(p) => s.upto = s.size -
                             (IF stream[p] = "LF" /\ stream[p - 1] = "CR" THEN 2 ELSE 1)

\* As long as no two terminators follow one another the reader stays inside.
LEMMA StaysInside ==
  ASSUME StreamOK, NEW c \in MarkLen..Len(stream), Idle(c),
         NEW q \in c..Len(stream), NoBlank(c, q)
  PROVE  \A p \in c..q : Inside(c, p)
<1> DEFINE S == {p \in c..q : Inside(c, p)}
<1>1. /\ MarkLen \in Nat /\ Len(stream) \in Nat /\ c \in Nat /\ q \in Nat /\ q <= Len(stream)
      /\ MarkLen <= c /\ c <= q
  BY LenProperties DEF StreamOK
<1>2. Lead(c) \in {0, 1, 2}
  BY DEF Lead
<1>3. c \in S
  BY <1>1, <1>2 DEF Idle, Inside
<1>4. ASSUME NEW p \in c..(q - 1), p \in S PROVE p + 1 \in S
  <2> DEFINE s == Reference[p]
             t == Reference[p + 1]
  <2>1. p \in MarkLen..(Len(stream) - 1) /\ p \in Nat /\ p + 1 \in c..q
    BY <1>1
  <2>2. Inside(c, p)
    BY <1>4
  <2>3. ByteRead(p, s, t)
    BY <2>1, NextByte
  <2> HIDE DEF s, t
  <2>4. s.line \in Nat /\ s.size \in Nat /\ s.upto \in Nat
    BY <2>3 DEF ByteRead, Sound, Reader
  <2>5. \A i \in (c + 1)..(p + 1) : ~Blank(i, p + 1)
    <3>1. ASSUME NEW i \in (c + 1)..(p + 1), Blank(i, p + 1) PROVE Blank(i, q)
      BY <1>1, <2>1, <3>1 DEF Blank
    <3> QED BY <1>1, <2>1, <3>1 DEF NoBlank
  <2> SUFFICES Inside(c, p + 1)
    BY <2>1
  <2>6. s.events = Reference[c].events
    BY <2>2 DEF Inside, s
  <2>7. CASE p < c + Lead(c)
    <3>1. s.lines = <<>> /\ s.line = 0
      BY <1>1, <1>2, <2>1, <2>2, <2>7 DEF Inside, s
    <3>2. Ends(p + 1)
      <4>1. CASE p = c
        BY <1>1, <2>1, <2>7, <4>1 DEF Lead
      <4>2. CASE p # c
        <5>1. p = c + 1 /\ Lead(c) = 2
          BY <1>1, <1>2, <2>1, <2>7, <4>2
        <5>2. Pair(c + 1)
          BY <5>1 DEF Lead
        <5> QED BY <5>1, <5>2 DEF Pair, Ends, EndsLine
      <4> QED BY <4>1, <4>2
    <3>3. t.events = s.events /\ t.lines = <<>> /\ t.line = 0
      BY <2>3, <3>1, <3>2 DEF ByteRead
    <3>4. p + 1 <= c + Lead(c)
      BY <1>1, <1>2, <2>1, <2>7
    <3> QED BY <1>1, <1>2, <2>1, <2>6, <3>3, <3>4 DEF Inside, t
  <2>8. CASE p = c + Lead(c)
    <3>1. s.lines = <<>> /\ s.line = 0 /\ s.size = 0
      BY <1>1, <1>2, <2>1, <2>2, <2>3, <2>8 DEF Inside, s, ByteRead, Sound
    <3>2. ~Ends(p + 1)
      <4>1. SUFFICES ASSUME Ends(p + 1) PROVE FALSE
        OBVIOUS
      <4>2. c # Len(stream) /\ c + 1 \in (c + 1)..(p + 1)
        BY <1>1, <1>2, <2>1, <2>8
      <4>3. CASE Lead(c) = 0
        BY <1>1, <2>8, <4>1, <4>2, <4>3 DEF Lead
      <4>4. CASE Lead(c) # 0
        <5>1. Ends(c + 1) /\ (Lead(c) = 2 <=> Pair(c + 1))
          BY <4>2, <4>4 DEF Lead
        <5>2. IF Pair(c + 1) THEN p + 1 = c + 3 ELSE p + 1 = c + 2
          BY <1>1, <1>2, <2>8, <4>4, <5>1
        <5>3. Blank(c + 1, p + 1)
          BY <1>1, <4>1, <5>1, <5>2 DEF Blank
        <5> QED BY <2>5, <4>2, <5>3
      <4> QED BY <4>3, <4>4
    <3>3. /\ t.events = s.events /\ t.line = 1 /\ t.size = 1 /\ t.upto = 1
      BY <2>3, <3>1, <3>2 DEF ByteRead
    <3>4. p + 1 > c + Lead(c) /\ p + 1 - c - Lead(c) = 1
      BY <1>1, <1>2, <2>1, <2>8
    <3> QED BY <1>1, <1>2, <2>1, <2>6, <3>2, <3>3, <3>4, SMTT(30) DEF Inside, t
  <2>9. CASE p > c + Lead(c)
    <3>1. /\ s.size = p - c - Lead(c)
          /\ s.line = 0 <=> Ends(p)
          /\ s.line = 0 => s.lines # <<>>
          /\ s.line > 0 => s.upto = s.size
          /\ Ends(p) => s.upto = s.size -
                          (IF stream[p] = "LF" /\ stream[p - 1] = "CR" THEN 2 ELSE 1)
      BY <2>2, <2>9 DEF Inside, s
    <3>2. /\ p + 1 > c + Lead(c) /\ p + 1 - 1 = p
          /\ p + 1 - c - Lead(c) = (p - c - Lead(c)) + 1
          /\ p \in (c + 1)..(p + 1) /\ p > MarkLen
      BY <1>1, <1>2, <2>1, <2>9
    <3>3. CASE ~Ends(p + 1)
      <4>1. /\ t.events = s.events /\ t.line = s.line + 1 /\ t.size = s.size + 1
            /\ t.upto = s.size + 1
        BY <2>3, <3>3 DEF ByteRead
      <4>2. t.line > 0 /\ t.line # 0
        BY <2>4, <4>1
      <4>8. t.size = (p + 1) - c - Lead(c) /\ stream[(p + 1) - 1] = stream[p]
        <5> DEFINE lead == Lead(c)
        <5>1. s.size = p - c - lead /\ lead \in Nat /\ p \in Nat /\ c \in Nat
          BY <1>1, <1>2, <2>1, <3>1
        <5>2. t.size = s.size + 1
          BY <4>1
        <5> HIDE DEF lead
        <5>3. t.size = (p + 1) - c - lead
          BY <5>1, <5>2
        <5>4. stream[(p + 1) - 1] = stream[p]
          BY <3>2
        <5> QED BY <5>3, <5>4 DEF lead
      <4>9. /\ p + 1 > c + Lead(c) /\ ~(p + 1 <= c + Lead(c))
            /\ t.events = Reference[c].events
        BY <1>1, <1>2, <2>1, <2>6, <3>2, <4>1
      <4> QED BY <3>3, <4>1, <4>2, <4>8, <4>9 DEF Inside, t
    <3>4. CASE Ends(p + 1) /\ s.line > 0
      <4>1. ~Ends(p)
        BY <3>1, <3>4
      <4>2. ~s.after_cr
        BY <2>3, <4>1 DEF ByteRead, Ends, EndsLine
      <4>3. /\ t.events = s.events /\ t.line = 0 /\ t.lines # <<>>
            /\ t.size = s.size + 1 /\ t.upto = s.upto
        BY <2>3, <3>4, <4>2 DEF ByteRead
      <4>4. stream[p] # "CR"
        BY <4>1 DEF Ends, EndsLine
      <4>5. t.upto = t.size - 1
        BY <2>4, <3>1, <3>4, <4>3
      <4>8. t.size = (p + 1) - c - Lead(c) /\ stream[(p + 1) - 1] = stream[p]
        BY <1>1, <1>2, <2>1, <3>1, <4>3
      <4>9. /\ p + 1 > c + Lead(c) /\ ~(p + 1 <= c + Lead(c))
            /\ t.events = Reference[c].events
        BY <1>1, <1>2, <2>1, <2>6, <3>2, <4>3
      <4> QED BY <3>4, <4>3, <4>4, <4>5, <4>8, <4>9 DEF Inside, t
    <3>5. CASE Ends(p + 1) /\ s.line = 0
      <4>1. Ends(p)
        BY <3>1, <3>5
      <4>2. Pair(p)
        <5>1. SUFFICES ASSUME ~Pair(p) PROVE FALSE
          OBVIOUS
        <5>2. Blank(p, p + 1)
          BY <2>1, <3>5, <4>1, <5>1 DEF Blank
        <5> QED BY <2>5, <3>2, <5>2
      <4>3. stream[p] = "CR" /\ stream[p + 1] = "LF" /\ s.after_cr
        BY <2>3, <3>2, <4>2 DEF Pair, ByteRead
      <4>4. /\ t.events = s.events /\ t.line = 0 /\ t.lines # <<>>
            /\ t.size = s.size + 1 /\ t.upto = s.upto
        BY <2>3, <3>1, <3>5, <4>3 DEF ByteRead
      <4>5. t.upto = t.size - 2
        BY <2>4, <3>1, <4>1, <4>3, <4>4
      <4>8. t.size = (p + 1) - c - Lead(c) /\ stream[(p + 1) - 1] = stream[p]
        BY <1>1, <1>2, <2>1, <3>1, <4>4
      <4>9. /\ p + 1 > c + Lead(c) /\ ~(p + 1 <= c + Lead(c))
            /\ t.events = Reference[c].events
        BY <1>1, <1>2, <2>1, <2>6, <3>2, <4>4
      <4> QED BY <3>5, <4>3, <4>4, <4>5, <4>8, <4>9 DEF Inside, t
    <3> QED BY <2>4, <3>3, <3>4, <3>5
  <2> QED BY <1>1, <1>2, <2>1, <2>7, <2>8, <2>9
<1> HIDE DEF S
<1>5. c..q \subseteq S
  BY <1>1, <1>3, <1>4, Along
<1> QED BY <1>5 DEF S

\* The last byte of the terminator at i.
EndOf(i) == IF Pair(i) THEN i + 1 ELSE i

\* The LF of a pair may be left in the stream: an idle reader passes over it.
LEMMA IdlePastPair ==
  ASSUME StreamOK, NEW c \in (MarkLen + 1)..(Len(stream) - 1), Idle(c), Pair(c)
  PROVE  Idle(c + 1) /\ Reference[c + 1].events = Reference[c].events
<1>1. MarkLen \in Nat /\ Len(stream) \in Nat
  BY LenProperties DEF StreamOK
<1>2. ByteRead(c, Reference[c], Reference[c + 1])
  BY <1>1, NextByte
<1> QED BY <1>1, <1>2 DEF ByteRead, Idle, Pair

\* The block that began at place c ends with the terminator at i: without a byte in
\* it the reader stays idle, else it has one more event.
BlockEnded(c, q, i) ==
    /\ \A p \in c..(i - 1) : Inside(c, p)
    /\ EndOf(i) + 1 \in (c + 1)..q
    /\ Idle(EndOf(i) + 1)
    /\ i = c + 1 => Reference[EndOf(i) + 1].events = Reference[c].events
    /\ i # c + 1 =>
         /\ Reference[i - 1].line > 0
         /\ Reference[i - 1].upto = i - 1 - c - Lead(c)
         /\ Reference[EndOf(i) + 1].events =
              Append(Reference[c].events,
                     [lines |-> Append(Reference[i - 1].lines, Reference[i - 1].line),
                      size |-> Reference[i - 1].upto])

\* The first terminator that another one follows ends the block.
LEMMA BlockEnds ==
  ASSUME StreamOK, NEW c \in MarkLen..Len(stream), Idle(c),
         NEW q \in c..Len(stream), NEW i \in (c + 1)..q, Blank(i, q),
         \A j \in (c + 1)..(i - 1) : ~Blank(j, q)
  PROVE  BlockEnded(c, q, i)
<1> SUFFICES /\ \A p \in c..(i - 1) : Inside(c, p)
             /\ EndOf(i) + 1 \in (c + 1)..q
             /\ Idle(EndOf(i) + 1)
             /\ i = c + 1 => Reference[EndOf(i) + 1].events = Reference[c].events
             /\ i # c + 1 =>
                  /\ Reference[i - 1].line > 0
                  /\ Reference[i - 1].upto = i - 1 - c - Lead(c)
                  /\ Reference[EndOf(i) + 1].events =
                       Append(Reference[c].events,
                              [lines |-> Append(Reference[i - 1].lines, Reference[i - 1].line),
                               size |-> Reference[i - 1].upto])
  BY DEF BlockEnded
<1> DEFINE e == EndOf(i)
<1>1. /\ MarkLen \in Nat /\ Len(stream) \in Nat /\ c \in Nat /\ q \in Nat /\ i \in Nat
      /\ q <= Len(stream) /\ MarkLen <= c /\ c < i /\ i <= q
  BY LenProperties DEF StreamOK
<1>2. /\ Ends(i) /\ e \in {i, i + 1} /\ e + 1 <= q /\ Ends(e + 1)
      /\ e = i + 1 => Pair(i)
      /\ e = i => ~Pair(i)
  BY <1>1 DEF Blank, EndOf
<1>3. \A p \in c..(i - 1) : Inside(c, p)
  <2>1. NoBlank(c, i - 1)
    <3>1. ASSUME NEW j \in (c + 1)..(i - 1), Blank(j, i - 1) PROVE Blank(j, q)
      BY <1>1, <3>1 DEF Blank
    <3> QED BY <3>1 DEF NoBlank
  <2> QED BY <1>1, <2>1, StaysInside
<1>4. ~(Pair(i - 1) /\ i - 1 > c) /\ (i - 1 > c => ~Ends(i - 1))
  <2>1. SUFFICES ASSUME i - 1 > c, Ends(i - 1) PROVE FALSE
    BY DEF Pair, Ends, EndsLine
  <2>2. i - 1 \in (c + 1)..(i - 1)
    BY <1>1, <2>1
  <2>3. CASE Pair(i - 1)
    <3>1. stream[i] = "LF" /\ e = i
      BY <1>1, <1>2, <2>3 DEF Pair
    <3>2. Blank(i - 1, q)
      BY <1>1, <1>2, <2>1, <2>3, <3>1 DEF Blank
    <3> QED BY <2>2, <3>2
  <2>4. CASE ~Pair(i - 1)
    <3>1. Blank(i - 1, q)
      BY <1>1, <1>2, <2>1, <2>4 DEF Blank
    <3> QED BY <2>2, <3>1
  <2> QED BY <2>3, <2>4
<1> DEFINE r == Reference[i - 1]
           s == Reference[i]
           t == Reference[e]
           u == Reference[e + 1]
<1>5. ByteRead(i - 1, r, s) /\ Sound(r)
  <2>1. i - 1 \in MarkLen..(Len(stream) - 1) /\ (i - 1) + 1 = i
    BY <1>1
  <2> QED BY <2>1, NextByte DEF ByteRead
<1>6. ByteRead(e, t, u)
  <2>1. e \in MarkLen..(Len(stream) - 1)
    BY <1>1, <1>2
  <2> QED BY <2>1, NextByte
<1>7. /\ t.events = s.events /\ t.lines = s.lines /\ t.upto = s.upto
      /\ s.line = 0 => t.line = 0
      /\ ~(stream[e + 1] = "LF" /\ t.after_cr)
  <2>1. CASE e = i
    <3>1. ~(stream[e + 1] = "LF" /\ stream[e] = "CR")
      BY <1>1, <1>2, <2>1 DEF Pair
    <3> QED BY <1>6, <2>1, <3>1 DEF ByteRead
  <2>2. CASE e = i + 1
    <3>1. Pair(i) /\ i \in MarkLen..(Len(stream) - 1)
      BY <1>1, <1>2, <2>2
    <3>2. ByteRead(i, s, t)
      BY <2>2, <3>1, NextByte
    <3>3. stream[e] = "LF" /\ stream[i] = "CR" /\ stream[i + 1] = "LF"
      BY <2>2, <3>1 DEF Pair
    <3> QED BY <1>1, <1>6, <3>2, <3>3 DEF ByteRead
  <2> QED BY <1>2, <2>1, <2>2
<1>8. CASE i = c + 1
  <2>1. r = Reference[c] /\ r.line = 0 /\ r.lines = <<>> /\ Ends((i - 1) + 1)
    BY <1>1, <1>2, <1>8 DEF Idle
  <2> HIDE DEF r, s, t, u, e
  <2>2. s.events = r.events /\ s.lines = <<>> /\ s.line = 0
    BY <1>5, <2>1 DEF ByteRead
  <2>3. u.line = 0 /\ u.lines = <<>> /\ u.events = r.events
    BY <1>2, <1>6, <1>7, <2>2 DEF ByteRead
  <2> QED BY <1>1, <1>2, <1>3, <1>8, <2>1, <2>3 DEF Idle, e, u
<1>9. CASE i # c + 1
  <2>1. i - 1 > c /\ i - 1 \in c..(i - 1) /\ Inside(c, i - 1) /\ (i - 1) + 1 = i
    BY <1>1, <1>3, <1>9
  <2>2. ~Ends(i - 1)
    BY <1>4, <2>1
  <2>3. r.events = Reference[c].events /\ r.line > 0 /\ r.upto = i - 1 - c - Lead(c)
    <3>1. Lead(c) \in {0, 1, 2} /\ r.line \in Nat /\ r.size \in Nat
      BY <1>5 DEF Lead, Sound, Reader
    <3>2. i - 1 > c + Lead(c)
      <4>1. SUFFICES ASSUME i - 1 <= c + Lead(c) PROVE FALSE
        BY <1>1, <3>1
      <4>2. CASE i - 1 = c + 1
        BY <1>1, <2>1, <2>2, <3>1, <4>1, <4>2 DEF Lead
      <4>3. CASE i - 1 # c + 1
        <5>1. i - 1 = c + 2 /\ Lead(c) = 2
          BY <1>1, <2>1, <3>1, <4>1, <4>3
        <5>2. Pair(c + 1) /\ (c + 1) + 1 = i - 1
          BY <1>1, <5>1 DEF Lead
        <5> QED BY <2>2, <5>2 DEF Pair, Ends, EndsLine
      <4> QED BY <4>2, <4>3
    <3> HIDE DEF r
    <3>3. /\ r.events = Reference[c].events /\ r.size = i - 1 - c - Lead(c)
          /\ r.line # 0 /\ (r.line > 0 => r.upto = r.size)
      BY <2>1, <2>2, <3>2 DEF Inside, r
    <3> QED BY <3>1, <3>3
  <2>4. ~(stream[i] = "LF" /\ r.after_cr) /\ r.line \in Nat
    BY <1>5, <2>1, <2>2 DEF ByteRead, Sound, Reader, Ends, EndsLine
  <2> HIDE DEF r, s, t, u, e
  <2>5. /\ s.events = r.events /\ s.lines = Append(r.lines, r.line)
        /\ s.lines # <<>> /\ s.upto = r.upto /\ s.line = 0
    BY <1>2, <1>5, <2>1, <2>3, <2>4 DEF ByteRead
  <2>6. /\ u.line = 0 /\ u.lines = <<>>
        /\ u.events = Append(r.events, [lines |-> Append(r.lines, r.line), size |-> r.upto])
    BY <1>2, <1>6, <1>7, <2>5 DEF ByteRead
  <2> QED BY <1>1, <1>2, <1>3, <1>9, <2>3, <2>6 DEF Idle, e, u, r
<1> QED BY <1>8, <1>9

\* From s to t events are only added, and an event that was open grows.
Kept(s, t) ==
    /\ Len(s.events) <= Len(t.events)
    /\ \A j \in 1..Len(s.events) : t.events[j] = s.events[j]
    /\ s.upto > 0 =>
         \/ Len(t.events) = Len(s.events) /\ t.upto >= s.upto
         \/ Len(t.events) > Len(s.events) /\ t.events[Len(s.events) + 1].size >= s.upto

\* A later reader has the events of an earlier one.
LEMMA EventsKept ==
  ASSUME StreamOK, NEW n \in MarkLen..Len(stream), NEW k \in n..Len(stream)
  PROVE  Kept(Reference[n], Reference[k])
<1> DEFINE s == Reference[n]
           S == {p \in n..k : Kept(s, Reference[p])}
<1>1. /\ MarkLen \in Nat /\ Len(stream) \in Nat /\ n \in Nat /\ k \in Nat
      /\ MarkLen <= n /\ n <= k /\ k <= Len(stream)
  BY LenProperties DEF StreamOK
<1>2. Sound(s)
  BY ReferenceSound
<1>3. Len(s.events) \in Nat /\ s.upto \in Nat
  BY <1>2, LenProperties DEF Sound, Reader
<1>4. n \in S
  BY <1>1, <1>3 DEF Kept
<1>5. ASSUME NEW p \in n..(k - 1), p \in S PROVE p + 1 \in S
  <2> DEFINE t == Reference[p]
             u == Reference[p + 1]
  <2>1. ByteRead(p, t, u) /\ p + 1 \in n..k
    BY <1>1, NextByte
  <2>2. Kept(s, t)
    BY <1>5
  <2> SUFFICES Kept(s, u)
    BY <2>1
  <2> HIDE DEF s, t, u
  <2>3. Sound(t) /\ t \in Reader /\ t.line \in Nat /\ t.size \in Nat /\ t.upto \in Nat
    BY <2>1 DEF ByteRead, Sound, Reader
  <2>4. t.events \in Seq(Event) /\ Len(t.events) \in Nat
    BY <2>3, LenProperties DEF Reader
  <2>5. CASE u.events = t.events /\ u.upto >= t.upto
    <3>1. u.upto \in Nat
      BY <2>1 DEF ByteRead, Sound, Reader
    <3> QED BY <1>3, <2>2, <2>3, <2>5, <3>1, SMTT(30) DEF Kept
  <2>6. CASE u.events = t.events /\ t.upto = 0
    BY <1>3, <2>2, <2>6 DEF Kept
  <2> DEFINE e == [lines |-> t.lines, size |-> t.upto]
  <2>7. CASE u.events = Append(t.events, e)
    <3>1. e \in Event /\ e.size = t.upto
      BY <2>3 DEF Reader, Event
    <3> HIDE DEF e
    <3>2. /\ Len(u.events) = Len(t.events) + 1
          /\ \A j \in 1..Len(t.events) : u.events[j] = t.events[j]
          /\ u.events[Len(t.events) + 1] = e
      BY <2>4, <2>7, <3>1, AppendProperties
    <3> DEFINE a == Len(s.events)
               b == Len(t.events)
               d == Len(u.events)
    <3>3. /\ a <= b /\ \A j \in 1..a : t.events[j] = s.events[j]
          /\ s.upto > 0 => \/ b = a /\ t.upto >= s.upto
                           \/ b > a /\ t.events[a + 1].size >= s.upto
      BY <2>2 DEF Kept
    <3>4. a \in Nat /\ b \in Nat /\ d = b + 1
      BY <1>3, <2>4, <3>2
    <3> SUFFICES /\ a <= d /\ \A j \in 1..a : u.events[j] = s.events[j]
                 /\ s.upto > 0 => \/ d = a /\ u.upto >= s.upto
                                  \/ d > a /\ u.events[a + 1].size >= s.upto
      BY DEF Kept
    <3>5. b > a => a + 1 \in 1..b /\ u.events[a + 1] = t.events[a + 1]
      BY <3>2, <3>4, SMTT(30)
    <3>6. b = a => u.events[a + 1].size = t.upto
      BY <3>1, <3>2
    <3>7. \A j \in 1..a : u.events[j] = s.events[j]
      BY <3>2, <3>3, <3>4
    <3> HIDE DEF a, b, d
    <3> QED BY <1>3, <2>3, <3>3, <3>4, <3>5, <3>6, <3>7, SMTT(30)
  <2>8. CASE ~Ends(p + 1)
    <3>1. u.events = t.events /\ u.upto = t.size + 1 /\ t.upto <= t.size
      BY <2>1, <2>8 DEF ByteRead, Sound
    <3> QED BY <2>3, <2>5, <3>1
  <2>9. CASE Ends(p + 1)
    BY <2>1, <2>3, <2>5, <2>6, <2>7, <2>9, SMTT(30) DEF ByteRead, Sound
  <2> QED BY <2>8, <2>9
<1> HIDE DEF S
<1>6. n..k \subseteq S
  BY <1>1, <1>4, <1>5, Along
<1> QED BY <1>1, <1>6 DEF S

-----------------------------------------------------------------------------
(***************************************************************************)
(* An event that is dropped.                                               *)
(***************************************************************************)
\* The terminator at i ends an empty line; ls: the line at place c was just begun.
Empty(c, ls, i) ==
    Ends(i) /\ IF i = c + 1 THEN ls ELSE Ends(i - 1) /\ ~Pair(i - 1)

\* What a reader has while the event it was in at place c goes on.
GoesOn(c, ls, p) ==
    LET s == Reference[p]
    IN  /\ s.events = Reference[c].events
        /\ s.upto >= Reference[c].upto
        /\ s.line = 0 <=> IF p = c THEN ls ELSE Ends(p)

\* Without an empty line the event goes on.
LEMMA EventGoesOn ==
  ASSUME StreamOK, NEW c \in MarkLen..Len(stream), NEW ls \in BOOLEAN,
         Reference[c].upto > 0, ls <=> Reference[c].line = 0,
         NEW q \in c..Len(stream), \A i \in (c + 1)..q : ~Empty(c, ls, i)
  PROVE  \A p \in c..q : GoesOn(c, ls, p)
<1> DEFINE S == {p \in c..q : GoesOn(c, ls, p)}
<1>1. /\ MarkLen \in Nat /\ Len(stream) \in Nat /\ c \in Nat /\ q \in Nat /\ q <= Len(stream)
      /\ MarkLen <= c /\ c <= q
  BY LenProperties DEF StreamOK
<1>2. Reference[c].upto \in Nat
  BY ReferenceSound DEF Sound, Reader
<1>3. c \in S
  BY <1>1, <1>2 DEF GoesOn
<1>4. ASSUME NEW p \in c..(q - 1), p \in S PROVE p + 1 \in S
  <2> DEFINE s == Reference[p]
             t == Reference[p + 1]
  <2>1. ByteRead(p, s, t) /\ p + 1 \in c..q /\ p + 1 # c /\ p + 1 \in (c + 1)..q
    BY <1>1, NextByte
  <2>2. /\ s.events = Reference[c].events /\ s.upto >= Reference[c].upto
        /\ s.line = 0 <=> IF p = c THEN ls ELSE Ends(p)
    BY <1>4 DEF GoesOn
  <2> SUFFICES /\ t.events = Reference[c].events /\ t.upto >= Reference[c].upto
               /\ t.line = 0 <=> Ends(p + 1)
    BY <2>1 DEF GoesOn
  <2> HIDE DEF s, t
  <2>3. s.line \in Nat /\ s.size \in Nat /\ s.upto \in Nat /\ s.upto <= s.size
    BY <2>1 DEF ByteRead, Sound, Reader
  <2>4. CASE ~Ends(p + 1)
    <3>1. t.events = s.events /\ t.line = s.line + 1 /\ t.upto = s.size + 1
      BY <2>1, <2>4 DEF ByteRead
    <3>2. t.upto >= Reference[c].upto /\ t.line # 0
      BY <1>2, <2>2, <2>3, <3>1
    <3> QED BY <2>2, <2>4, <3>1, <3>2
  <2>5. CASE Ends(p + 1) /\ ~(stream[p + 1] = "LF" /\ s.after_cr)
    <3>1. s.line > 0
      <4>1. SUFFICES ASSUME s.line = 0 PROVE FALSE
        BY <2>3
      <4>2. p # c => ~Pair(p)
        BY <1>1, <2>1, <2>5 DEF Pair, ByteRead
      <4>3. Empty(c, ls, p + 1)
        <5>1. CASE p = c
          BY <2>2, <2>5, <4>1, <5>1 DEF Empty
        <5>2. CASE p # c
          <6>1. Ends(p) /\ ~Pair(p) /\ (p + 1) - 1 = p /\ p + 1 # c + 1
            BY <1>1, <2>2, <4>1, <4>2, <5>2
          <6> QED BY <2>5, <6>1 DEF Empty
        <5> QED BY <5>1, <5>2
      <4> QED BY <2>1, <4>3
    <3> QED BY <2>1, <2>2, <2>5, <3>1 DEF ByteRead
  <2>6. CASE Ends(p + 1) /\ stream[p + 1] = "LF" /\ s.after_cr
    BY <2>1, <2>2, <2>6 DEF ByteRead
  <2> QED BY <2>4, <2>5, <2>6
<1> HIDE DEF S
<1>5. c..q \subseteq S
  BY <1>1, <1>3, <1>4, Along
<1> QED BY <1>5 DEF S

\* The first empty line ends the event.
LEMMA EventEnds ==
  ASSUME StreamOK, NEW c \in MarkLen..Len(stream), NEW ls \in BOOLEAN,
         Reference[c].upto > 0, ls <=> Reference[c].line = 0,
         NEW i \in (c + 1)..Len(stream), Empty(c, ls, i),
         \A j \in (c + 1)..(i - 1) : ~Empty(c, ls, j),
         Reference[c].after_cr => stream[c + 1] = "CR"
  PROVE  /\ Idle(i)
         /\ \E e \in Event : /\ Reference[i].events = Append(Reference[c].events, e)
                             /\ e.size >= Reference[c].upto
<1> DEFINE s == Reference[i - 1]
           t == Reference[i]
           e == [lines |-> s.lines, size |-> s.upto]
<1>1. /\ MarkLen \in Nat /\ Len(stream) \in Nat /\ c \in Nat /\ i \in Nat
      /\ MarkLen <= c /\ c < i /\ i <= Len(stream) /\ (i - 1) + 1 = i
  BY LenProperties DEF StreamOK
<1>2. GoesOn(c, ls, i - 1)
  <2>1. i - 1 \in c..Len(stream) /\ i - 1 \in c..(i - 1)
    BY <1>1
  <2>2. \A p \in c..(i - 1) : GoesOn(c, ls, p)
    BY <2>1, EventGoesOn
  <2> QED BY <2>1, <2>2
<1>3. ByteRead(i - 1, s, t)
  <2>1. i - 1 \in MarkLen..(Len(stream) - 1)
    BY <1>1
  <2> QED BY <1>1, <2>1, NextByte
<1>4. s.events = Reference[c].events /\ s.upto >= Reference[c].upto /\ s.line = 0
  BY <1>1, <1>2 DEF GoesOn, Empty
<1>5. s.upto > 0 /\ s \in Reader /\ Sound(s) /\ s.line \in Nat
  <2>1. Sound(s) /\ s \in Reader /\ Reference[c].upto \in Nat
    BY <1>3, ReferenceSound DEF ByteRead, Sound, Reader
  <2>2. s.upto \in Nat /\ s.line \in Nat
    BY <2>1 DEF Reader
  <2> QED BY <1>4, <2>1, <2>2
<1>6. s.lines # <<>>
  BY <1>4, <1>5 DEF Sound
<1>7. ~(stream[i] = "LF" /\ s.after_cr)
  <2>1. CASE i = c + 1
    BY <1>1, <2>1
  <2>2. CASE i # c + 1
    <3>1. ~Pair(i - 1)
      BY <2>2 DEF Empty
    <3> QED BY <1>1, <1>3, <3>1 DEF ByteRead, Pair
  <2> QED BY <2>1, <2>2
<1>8. e \in Event /\ e.size = s.upto
  BY <1>5 DEF Reader, Event
<1>9. t.line = 0 /\ t.lines = <<>> /\ t.events = Append(s.events, e)
  <2> HIDE DEF s, t
  <2> QED BY <1>1, <1>3, <1>4, <1>6, <1>7 DEF ByteRead, Empty
<1> HIDE DEF e, s
<1> QED BY <1>4, <1>8, <1>9 DEF Idle

-----------------------------------------------------------------------------
(***************************************************************************)
(* The buffer is a window of the stream that ends with the last byte fed.  *)
(***************************************************************************)
\* buf holds the bytes after place c.
Window(buf, c) ==
    /\ c \in Nat
    /\ buf \in Seq(Byte)
    /\ c + Len(buf) = fed
    /\ \A i \in 1..Len(buf) : buf[i] = stream[c + i]

\* BytesMut::advance moves the window.
LEMMA AdvancedWindow ==
  ASSUME NEW buf, NEW c, Window(buf, c), NEW k \in 0..Len(buf)
  PROVE  Window(Advanced(buf, k), c + k) /\ Len(Advanced(buf, k)) = Len(buf) - k
<1>1. Len(buf) \in Nat /\ c \in Nat
  BY LenProperties DEF Window
<1>2. \A i \in (k + 1)..Len(buf) : buf[i] \in Byte
  BY <1>1, ElementOfSeq DEF Window
<1> DEFINE t == Advanced(buf, k)
<1>3. /\ t \in Seq(Byte)
      /\ Len(t) = IF k + 1 <= Len(buf) THEN Len(buf) - (k + 1) + 1 ELSE 0
      /\ \A i \in 1..(Len(buf) - (k + 1) + 1) : t[i] = buf[(k + 1) + i - 1]
  BY <1>1, <1>2, SubSeqProperties DEF Advanced
<1> HIDE DEF t
<1>4. Len(t) = Len(buf) - k
  BY <1>1, <1>3
<1>5. ASSUME NEW i \in 1..Len(t) PROVE t[i] = stream[(c + k) + i]
  <2>1. t[i] = buf[k + i] /\ k + i \in 1..Len(buf)
    BY <1>1, <1>3, <1>4
  <2>2. buf[k + i] = stream[c + (k + i)]
    BY <2>1 DEF Window
  <2>3. c + (k + i) = (c + k) + i
    BY <1>1
  <2> QED BY <2>1, <2>2, <2>3
<1>6. c + k \in Nat /\ (c + k) + Len(t) = fed
  BY <1>1, <1>4 DEF Window
<1>7. Window(t, c + k)
  BY <1>3, <1>5, <1>6 DEF Window
<1> QED BY <1>4, <1>7 DEF t

\* consume_line_ending, at a place of the stream.
LEMMA ConsumeAt ==
  ASSUME StreamOK, NEW buf, NEW c, Window(buf, c), NEW i \in 1..Len(buf)
  PROVE  /\ c + consume_line_ending(buf, i) = IF c + i < fed THEN EndOf(c + i) ELSE c + i
         /\ consume_line_ending(buf, i) \in i..Len(buf)
<1>1. Len(buf) \in Nat /\ c \in Nat /\ c + Len(buf) = fed /\ fed <= Len(stream)
      /\ Len(stream) \in Nat
  BY LenProperties DEF Window, StreamOK
<1>2. buf[i] = stream[c + i]
  BY DEF Window
<1>3. CASE i < Len(buf)
  <2>1. buf[i + 1] = stream[(c + i) + 1]
    <3>1. i + 1 \in 1..Len(buf) /\ c + (i + 1) = (c + i) + 1
      BY <1>1, <1>3
    <3>2. buf[i + 1] = stream[c + (i + 1)]
      BY <3>1 DEF Window
    <3> QED BY <3>1, <3>2
  <2>2. c + i < fed /\ c + i < Len(stream)
    BY <1>1, <1>3
  <2> QED BY <1>1, <1>2, <1>3, <2>1, <2>2 DEF consume_line_ending, EndOf, Pair
<1>4. CASE ~(i < Len(buf))
  BY <1>1, <1>4 DEF consume_line_ending
<1> QED BY <1>3, <1>4

\* find_event_boundary_from finds the first terminator after pos that another
\* one follows, if there is one.
LEMMA FindAt ==
  ASSUME StreamOK, NEW buf, NEW c, Window(buf, c), NEW pos \in 0..Len(buf),
         NEW r, r = find_event_boundary_from(buf, pos)
  PROVE  /\ r.found \in BOOLEAN
         /\ ~r.found => \A j \in (c + pos + 1)..fed : ~Blank(j, fed)
         /\ r.found =>
              \E i \in (c + pos + 1)..fed :
                 /\ Blank(i, fed)
                 /\ \A j \in (c + pos + 1)..(i - 1) : ~Blank(j, fed)
                 /\ r.block_end = i - 1 - c
                 /\ r.consume \in 1..Len(buf)
                 /\ c + r.consume = IF EndOf(i) + 1 < fed THEN EndOf(EndOf(i) + 1)
                                    ELSE EndOf(i) + 1
<1> DEFINE Follows(i) ==
             LET line_end == consume_line_ending(buf, i)
             IN  /\ buf[i] \in EndsLine
                 /\ line_end < Len(buf)
                 /\ buf[line_end + 1] \in EndsLine
           ends == {i \in (pos + 1)..Len(buf) : Follows(i)}
           x == CHOOSE first \in ends : \A j \in ends : first <= j
<1>1. /\ Len(buf) \in Nat /\ c \in Nat /\ c + Len(buf) = fed /\ fed <= Len(stream)
      /\ Len(stream) \in Nat /\ fed \in Nat /\ pos \in Nat
  BY LenProperties DEF Window, StreamOK
<1>2. ASSUME NEW i \in 1..Len(buf) PROVE Follows(i) <=> Blank(c + i, fed)
  <2> DEFINE e == consume_line_ending(buf, i)
  <2>1. /\ c + e = IF c + i < fed THEN EndOf(c + i) ELSE c + i
        /\ e \in i..Len(buf)
    BY ConsumeAt
  <2>2. buf[i] \in EndsLine <=> Ends(c + i)
    BY DEF Window, Ends
  <2>3. e < Len(buf) => (buf[e + 1] \in EndsLine <=> Ends(c + e + 1))
    <3>1. SUFFICES ASSUME e < Len(buf) PROVE buf[e + 1] = stream[c + e + 1]
      BY DEF Ends
    <3>2. e + 1 \in 1..Len(buf) /\ c + (e + 1) = c + e + 1
      BY <1>1, <2>1, <3>1
    <3>3. buf[e + 1] = stream[c + (e + 1)]
      BY <3>2 DEF Window
    <3> QED BY <3>2, <3>3
  <2> HIDE DEF e
  <2>4. Follows(i) <=> Ends(c + i) /\ e < Len(buf) /\ Ends(c + e + 1)
    BY <2>2, <2>3 DEF e
  <2> HIDE DEF Follows
  <2>5. CASE c + i < fed
    <3>1. c + e = EndOf(c + i) /\ (e < Len(buf) <=> c + e + 1 <= fed)
      BY <1>1, <2>1, <2>5
    <3> QED BY <1>1, <2>4, <3>1 DEF Blank, EndOf
  <2>6. CASE ~(c + i < fed)
    <3>1. c + i = fed /\ e = i /\ ~(e < Len(buf))
      BY <1>1, <2>1, <2>6
    <3> QED BY <1>1, <2>4, <3>1 DEF Blank
  <2> QED BY <2>5, <2>6
<1>3. r = IF ends = {} THEN NoBoundary
          ELSE [found |-> TRUE, block_end |-> x - 1,
                consume |-> consume_line_ending(buf, consume_line_ending(buf, x) + 1)]
  BY DEF find_event_boundary_from
<1> HIDE DEF Follows
<1>4. CASE ends = {}
  <2>1. r.found = FALSE
    BY <1>3, <1>4 DEF NoBoundary
  <2>2. ASSUME NEW j \in (c + pos + 1)..fed PROVE ~Blank(j, fed)
    <3>1. j - c \in (pos + 1)..Len(buf) /\ j - c \in 1..Len(buf) /\ c + (j - c) = j
      BY <1>1
    <3> QED BY <1>2, <1>4, <3>1
  <2> QED BY <2>1, <2>2
<1>5. CASE ends # {}
  <2>1. x \in ends /\ \A j \in ends : x <= j
    <3>1. ends \subseteq Nat
      BY <1>1
    <3>2. \E first \in ends : \A j \in ends : first <= j
      <4> HIDE DEF ends
      <4> QED BY <1>5, <3>1, LeastOf
    <3> QED BY <3>2
  <2> HIDE DEF x
  <2>2. x \in 1..Len(buf) /\ x \in (pos + 1)..Len(buf) /\ Follows(x)
    BY <1>1, <2>1
  <2>3. /\ r.found = TRUE /\ r.block_end = x - 1
        /\ r.consume = consume_line_ending(buf, consume_line_ending(buf, x) + 1)
    BY <1>3, <1>5
  <2> DEFINE i == c + x
             e == consume_line_ending(buf, x)
  <2>4. Blank(i, fed)
    BY <1>2, <2>2
  <2>5. ASSUME NEW j \in (c + pos + 1)..(i - 1) PROVE ~Blank(j, fed)
    <3>1. /\ j - c \in (pos + 1)..Len(buf) /\ j - c \in 1..Len(buf) /\ c + (j - c) = j
          /\ ~(x <= j - c)
      BY <1>1, <2>2
    <3>2. j - c \notin ends
      BY <2>1, <3>1
    <3>3. ~Follows(j - c)
      BY <3>1, <3>2
    <3> QED BY <1>2, <3>1, <3>3
  <2>6. e \in x..Len(buf) /\ e < Len(buf) /\ c + e = EndOf(i)
    <3>1. e < Len(buf)
      BY <2>2 DEF Follows
    <3>2. e \in x..Len(buf) /\ c + e = IF c + x < fed THEN EndOf(c + x) ELSE c + x
      BY <2>2, ConsumeAt
    <3> QED BY <1>1, <2>2, <3>1, <3>2
  <2>7. e + 1 \in 1..Len(buf) /\ c + (e + 1) = EndOf(i) + 1
    BY <1>1, <2>2, <2>6
  <2>8. /\ c + r.consume = IF EndOf(i) + 1 < fed THEN EndOf(EndOf(i) + 1) ELSE EndOf(i) + 1
        /\ r.consume \in (e + 1)..Len(buf)
    <3> HIDE DEF e
    <3> QED BY <2>3, <2>7, ConsumeAt DEF e
  <2>9. r.consume \in 1..Len(buf) /\ i \in (c + pos + 1)..fed /\ r.block_end = i - 1 - c
    <3> HIDE DEF e
    <3> QED BY <1>1, <2>2, <2>3, <2>7, <2>8
  <2> HIDE DEF i
  <2> QED BY <2>3, <2>4, <2>5, <2>8, <2>9
<1> QED BY <1>4, <1>5

\* The equation of the lines of a block.
LEMMA LinesEquation ==
  ASSUME NEW block, Len(block) \in Nat
  PROVE  /\ LinesRead(block)[0] = [ended |-> <<>>, line |-> 0]
         /\ \A n \in 1..Len(block) :
                LinesRead(block)[n] = LineStep(LinesRead(block)[n - 1], block[n])
<1> DEFINE L == Len(block)
           None == [ended |-> <<>>, line |-> 0]
           Solves(g, k) ==
             g = [n \in 0..k |-> IF n = 0 THEN None ELSE LineStep(g[n - 1], block[n])]
           S == {k \in 0..L : \E g : Solves(g, k)}
<1> HIDE DEF None
<1>1. L \in Nat
  OBVIOUS
<1>2. 0 \in S
  <2> DEFINE g == [n \in 0..0 |-> None]
  <2>1. Solves(g, 0)
    OBVIOUS
  <2>2. 0 \in 0..L
    BY <1>1
  <2> HIDE DEF g, Solves
  <2> QED BY <2>1, <2>2
<1>3. ASSUME NEW k \in 0..(L - 1), k \in S PROVE k + 1 \in S
  <2>1. PICK g : Solves(g, k)
    BY <1>3
  <2> DEFINE h == [n \in 0..(k + 1) |->
                     IF n = k + 1 THEN LineStep(g[k], block[k + 1]) ELSE g[n]]
  <2>2. ASSUME NEW n \in 0..(k + 1)
        PROVE  h[n] = IF n = 0 THEN None ELSE LineStep(h[n - 1], block[n])
    <3>1. CASE n = k + 1
      <4>1. h[n - 1] = g[k] /\ n # 0
        BY <1>1, <3>1
      <4> QED BY <3>1, <4>1
    <3>2. CASE n # k + 1
      <4>1. n \in 0..k /\ h[n] = g[n]
        BY <1>1, <3>2
      <4>2. n # 0 => h[n - 1] = g[n - 1]
        BY <1>1, <4>1
      <4>3. g[n] = IF n = 0 THEN None ELSE LineStep(g[n - 1], block[n])
        BY <2>1, <4>1
      <4> QED BY <4>1, <4>2, <4>3
    <3> QED BY <3>1, <3>2
  <2>3. Solves(h, k + 1)
    BY <2>2
  <2>4. k + 1 \in 0..L
    BY <1>1
  <2> HIDE DEF h, Solves
  <2> QED BY <2>3, <2>4
<1>4. L \in S
  <2> HIDE DEF S
  <2>1. 0..L \subseteq S
    BY <1>1, <1>2, <1>3, Along
  <2> QED BY <1>1, <2>1
<1>5. Solves(LinesRead(block), L)
  BY <1>4 DEF LinesRead, None
<1> QED BY <1>1, <1>5 DEF None

\* Inside a block its lines are those of the reader.
LEMMA LinesAt ==
  ASSUME StreamOK, NEW buf, NEW c \in MarkLen..fed, Window(buf, c), Idle(c),
         NEW n \in 0..Len(buf), \A p \in c..(c + n) : Inside(c, p)
  PROVE  DataLines(SubSeq(buf, 1, n)) =
           LET s == Reference[c + n]
           IN  IF s.line > 0 THEN Append(s.lines, s.line) ELSE s.lines
<1> DEFINE block == SubSeq(buf, 1, n)
           d == LinesRead(block)
           Agree(k) == d[k] = [ended |-> Reference[c + k].lines, line |-> Reference[c + k].line]
           S == {k \in 0..n : Agree(k)}
<1>1. /\ Len(buf) \in Nat /\ c \in Nat /\ c + Len(buf) = fed /\ fed <= Len(stream)
      /\ Len(stream) \in Nat /\ fed \in Nat /\ n \in Nat /\ n <= Len(buf)
      /\ MarkLen \in Nat /\ MarkLen <= c
  BY LenProperties DEF Window, StreamOK
<1>2. /\ Len(block) = n
      /\ \A i \in 1..n : block[i] = stream[c + i]
  <2>1. \A i \in 1..n : buf[i] \in Byte
    BY <1>1, ElementOfSeq DEF Window
  <2>2. /\ Len(block) = IF 1 <= n THEN n - 1 + 1 ELSE 0
        /\ \A i \in 1..(n - 1 + 1) : block[i] = buf[1 + i - 1]
    BY <1>1, <2>1, SubSeqProperties
  <2> HIDE DEF block
  <2>3. Len(block) = n
    BY <1>1, <2>2
  <2>4. ASSUME NEW i \in 1..n PROVE block[i] = stream[c + i]
    <3>1. block[i] = buf[i] /\ i \in 1..Len(buf)
      BY <1>1, <2>2
    <3> QED BY <3>1 DEF Window
  <2> QED BY <2>3, <2>4
<1> HIDE DEF block
<1>3. /\ d[0] = [ended |-> <<>>, line |-> 0]
      /\ \A k \in 1..n : d[k] = LineStep(d[k - 1], block[k])
  BY <1>1, <1>2, LinesEquation
<1> HIDE DEF d
<1>4. 0 \in S
  BY <1>1, <1>3 DEF Idle
<1>5. ASSUME NEW k \in 0..(n - 1), k \in S PROVE k + 1 \in S
  <2> DEFINE p == c + k
             s == Reference[p]
             t == Reference[p + 1]
             b == stream[p + 1]
  <2>1. /\ p \in MarkLen..(Len(stream) - 1) /\ p \in c..(c + n) /\ p + 1 \in c..(c + n)
        /\ p + 1 = c + (k + 1) /\ k + 1 \in 1..n /\ (k + 1) - 1 = k
    BY <1>1
  <2>2. ByteRead(p, s, t)
    BY <2>1, NextByte
  <2>3. s.events = t.events
    BY <2>1 DEF Inside
  <2>4. d[k + 1] = LineStep(d[k], b)
    BY <1>2, <1>3, <2>1
  <2>5. d[k] = [ended |-> s.lines, line |-> s.line]
    BY <1>5
  <2> SUFFICES d[k + 1] = [ended |-> t.lines, line |-> t.line]
    BY <2>1
  <2> HIDE DEF s, t, b, p
  <2>6. Sound(s) /\ s.line \in Nat /\ s.events \in Seq(Event) /\ Len(s.events) \in Nat
    BY <2>2, LenProperties DEF ByteRead, Sound, Reader
  <2>7. CASE ~Ends(p + 1)
    <3>1. t.lines = s.lines /\ t.line = s.line + 1 /\ b \notin EndsLine
      BY <2>2, <2>7 DEF ByteRead, Ends, b
    <3>2. d[k + 1] = [ended |-> s.lines, line |-> s.line + 1]
      BY <2>4, <2>5, <3>1 DEF LineStep
    <3> QED BY <3>1, <3>2
  <2>8. CASE Ends(p + 1)
    <3>1. d[k + 1] = [ended |-> IF s.line > 0 THEN Append(s.lines, s.line) ELSE s.lines,
                      line |-> 0]
      BY <2>4, <2>5, <2>8 DEF LineStep, Ends, b
    <3>2. t.line = 0
      BY <2>2, <2>8 DEF ByteRead
    <3>3. t.lines = IF s.line > 0 THEN Append(s.lines, s.line) ELSE s.lines
      <4>1. CASE stream[p + 1] = "LF" /\ s.after_cr
        BY <2>2, <2>6, <4>1 DEF ByteRead
      <4>2. CASE ~(stream[p + 1] = "LF" /\ s.after_cr) /\ s.line > 0
        BY <2>2, <2>8, <4>2 DEF ByteRead
      <4>3. CASE ~(stream[p + 1] = "LF" /\ s.after_cr) /\ s.line = 0
        <5> DEFINE e == [lines |-> s.lines, size |-> s.upto]
        <5>1. t.lines = <<>> /\ (s.lines # <<>> => t.events = Append(s.events, e))
          BY <2>2, <2>8, <4>3 DEF ByteRead
        <5>2. e \in Event
          BY <2>6 DEF Sound, Reader, Event
        <5> HIDE DEF e
        <5>3. Len(Append(s.events, e)) = Len(s.events) + 1
          BY <2>6, <5>2, AppendProperties
        <5>4. s.lines = <<>>
          BY <2>3, <2>6, <5>1, <5>3
        <5> QED BY <4>3, <5>1, <5>4
      <4> QED BY <2>6, <4>1, <4>2, <4>3
    <3> QED BY <3>1, <3>2, <3>3
  <2> QED BY <2>7, <2>8
<1>6. n \in S
  <2> HIDE DEF S
  <2>1. 0..n \subseteq S
    BY <1>1, <1>4, <1>5, Along
  <2> QED BY <1>1, <2>1
<1>7. DataLines(block) = IF d[n].line > 0 THEN Append(d[n].ended, d[n].line) ELSE d[n].ended
  BY <1>2 DEF DataLines, d
<1> QED BY <1>6, <1>7 DEF block

\* i is the first empty line, and k bytes of the window lie before the next one.
FirstEmpty(buf, c, ls, i, k) ==
    /\ Empty(c, ls, i)
    /\ \A j \in (c + 1)..(i - 1) : ~Empty(c, ls, j)
    /\ k \in 1..Len(buf)
    /\ c + k = IF i < fed THEN EndOf(i) ELSE i

\* Where a scan that looks at n bytes of the window stops.
ScanStops(buf, c, ls, r, n) ==
    /\ n = Len(buf) => (n > 0 => stream[fed] # "CR")
    /\ n # Len(buf) => n + 1 = Len(buf) /\ stream[fed] = "CR"
    /\ r.boundary \in BOOLEAN
    /\ ~r.boundary => /\ r.consumed = n
                      /\ r.line_start = (IF n = 0 THEN ls ELSE Ends(c + n))
                      /\ \A i \in (c + 1)..(c + n) : ~Empty(c, ls, i)
    /\ r.boundary => \E i \in (c + 1)..(c + n) : FirstEmpty(buf, c, ls, i, r.consumed)

\* DrainingOversized::scan stops behind the first empty line of the event, else
\* at the end of the buffer or before a CR there.
LEMMA ScanAt ==
  ASSUME StreamOK, NEW buf, NEW c, Window(buf, c), NEW ls \in BOOLEAN,
         NEW r, r = scan(buf, ls)
  PROVE  \E n \in 0..Len(buf) : ScanStops(buf, c, ls, r, n)
<1> DEFINE n == IF Len(buf) > 0 /\ buf[Len(buf)] = "CR" THEN Len(buf) - 1 ELSE Len(buf)
           Begins(i) == buf[i] \in EndsLine /\ LineStarts(buf, i, ls)
           blank == {i \in 1..n : Begins(i)}
           x == CHOOSE first \in blank : \A j \in blank : first <= j
<1>1. /\ Len(buf) \in Nat /\ c \in Nat /\ c + Len(buf) = fed /\ fed <= Len(stream)
      /\ Len(stream) \in Nat /\ fed \in Nat
  BY LenProperties DEF Window, StreamOK
<1>2. n \in 0..Len(buf)
  BY <1>1
<1>3. /\ n = Len(buf) => (n > 0 => stream[fed] # "CR")
      /\ n # Len(buf) => n + 1 = Len(buf) /\ stream[fed] = "CR"
  <2>1. Len(buf) > 0 => buf[Len(buf)] = stream[fed]
    <3>1. SUFFICES ASSUME Len(buf) > 0 PROVE buf[Len(buf)] = stream[fed]
      OBVIOUS
    <3>2. Len(buf) \in 1..Len(buf)
      BY <1>1, <3>1
    <3> QED BY <1>1, <3>2 DEF Window
  <2> QED BY <1>1, <2>1
<1>4. r = IF blank = {}
          THEN [boundary |-> FALSE, consumed |-> n,
                line_start |-> IF n = 0 THEN ls ELSE buf[n] \in EndsLine]
          ELSE [boundary |-> TRUE, consumed |-> consume_line_ending(buf, x),
                line_start |-> TRUE]
  BY DEF scan, ScanUpTo
<1> HIDE DEF n
<1>5. ASSUME NEW i \in 1..n PROVE Begins(i) <=> Empty(c, ls, c + i)
  <2>1. i \in 1..Len(buf) /\ buf[i] = stream[c + i]
    BY <1>1, <1>2 DEF Window
  <2>2. CASE i = 1
    BY <1>1, <2>1, <2>2 DEF LineStarts, Empty, Ends
  <2>3. CASE i # 1
    <3>1. i - 1 \in 1..Len(buf) /\ c + (i - 1) = (c + i) - 1 /\ c + i # c + 1
          /\ (c + i) - 1 < Len(stream) /\ ((c + i) - 1) + 1 = c + i
      BY <1>1, <2>1, <2>3
    <3>2. buf[i - 1] = stream[(c + i) - 1]
      BY <3>1 DEF Window
    <3> QED BY <2>1, <2>3, <3>1, <3>2 DEF LineStarts, Empty, Ends, Pair
  <2> QED BY <2>2, <2>3
<1> HIDE DEF Begins
<1>6. CASE blank = {}
  <2>1. r.boundary = FALSE /\ r.consumed = n
        /\ r.line_start = (IF n = 0 THEN ls ELSE buf[n] \in EndsLine)
    BY <1>4, <1>6
  <2>2. n # 0 => buf[n] = stream[c + n]
    BY <1>1, <1>2 DEF Window
  <2>3. r.line_start = (IF n = 0 THEN ls ELSE Ends(c + n))
    BY <2>1, <2>2 DEF Ends
  <2>4. ASSUME NEW i \in (c + 1)..(c + n) PROVE ~Empty(c, ls, i)
    <3>1. i - c \in 1..n /\ c + (i - c) = i
      BY <1>1, <1>2
    <3> QED BY <1>5, <1>6, <3>1
  <2> QED BY <1>2, <1>3, <2>1, <2>3, <2>4 DEF ScanStops
<1>7. CASE blank # {}
  <2>1. x \in blank /\ \A j \in blank : x <= j
    <3>1. blank \subseteq Nat
      BY <1>1, <1>2
    <3>2. \E first \in blank : \A j \in blank : first <= j
      <4> HIDE DEF blank
      <4> QED BY <1>7, <3>1, LeastOf
    <3> QED BY <3>2
  <2> HIDE DEF x
  <2>2. x \in 1..n /\ Begins(x) /\ x \in 1..Len(buf)
    BY <1>1, <1>2, <2>1
  <2>3. r.boundary = TRUE /\ r.consumed = consume_line_ending(buf, x)
    BY <1>4, <1>7
  <2> DEFINE i == c + x
  <2>4. Empty(c, ls, i) /\ i \in (c + 1)..(c + n)
    BY <1>1, <1>2, <1>5, <2>2
  <2>5. ASSUME NEW j \in (c + 1)..(i - 1) PROVE ~Empty(c, ls, j)
    <3>1. j - c \in 1..n /\ c + (j - c) = j /\ ~(x <= j - c)
      BY <1>1, <1>2, <2>2
    <3>2. ~Begins(j - c)
      BY <2>1, <3>1
    <3> QED BY <1>5, <3>1, <3>2
  <2>6. /\ c + r.consumed = IF i < fed THEN EndOf(i) ELSE i
        /\ r.consumed \in x..Len(buf)
    BY <2>2, <2>3, ConsumeAt
  <2>7. r.consumed \in 1..Len(buf)
    BY <1>1, <2>2, <2>6
  <2> HIDE DEF i
  <2>8. FirstEmpty(buf, c, ls, i, r.consumed)
    BY <2>4, <2>5, <2>6, <2>7 DEF FirstEmpty
  <2> QED BY <1>2, <1>3, <2>3, <2>4, <2>8 DEF ScanStops
<1> QED BY <1>6, <1>7

-----------------------------------------------------------------------------
(***************************************************************************)
(* The decoder.  out is what poll_next has returned.                       *)
(***************************************************************************)
Decoders ==
    [buf : Seq(Byte), scan_pos : Nat, bom_stripped : BOOLEAN,
     draining : {"no", "line_start", "mid_line"}]

\* The place where the buffer begins.
Gone(d) == fed - Len(d.buf)

\* The first n outcomes are right for the first n events.
RightUpTo(out, events, n) == \A k \in 1..n : RightFor(out[k], events[k])

\* The byte order mark may still come.
Untouched(d, out) ==
    /\ ~d.bom_stripped
    /\ Gone(d) = 0
    /\ d.draining = "no"
    /\ d.scan_pos = 0
    /\ out = <<>>

\* The buffer begins between two events, and an outcome was returned for each event
\* before it.  Before scan_pos no block ends.
Between(d, out) ==
    LET c == Gone(d)
    IN  /\ d.bom_stripped
        /\ d.draining = "no"
        /\ c >= MarkLen
        /\ Idle(c)
        /\ d.scan_pos = 0 \/ d.scan_pos + 2 <= Len(d.buf)
        /\ \A j \in (c + 1)..(c + d.scan_pos) : ~Blank(j, Len(stream))
        /\ Len(out) = Len(Reference[c].events)
        /\ RightUpTo(out, Reference[c].events, Len(out))

\* The buffer begins in an event that was found too large: the error was returned
\* and the rest of the event is being dropped.
Dropping(d, out) ==
    LET c == Gone(d)
        s == Reference[c]
    IN  /\ d.bom_stripped
        /\ d.draining # "no"
        /\ c >= MarkLen
        /\ s.upto > 0
        /\ d.draining = "line_start" <=> s.line = 0
        /\ s.after_cr => c < fed /\ stream[c + 1] = "CR"
        /\ max_payload_size > 0 /\ s.upto + 2 > max_payload_size
        /\ Len(out) = Len(s.events) + 1
        /\ out[Len(out)] = <<>>
        /\ RightUpTo(out, s.events, Len(s.events))

DecoderOK(d, out) ==
    /\ d \in Decoders
    /\ out \in Seq(Seq(Nat))
    /\ Window(d.buf, Gone(d))
    /\ Untouched(d, out) \/ Between(d, out) \/ Dropping(d, out)

\* Every event of the stream has its outcome.
AllTold(out) == Len(out) >= Len(Reference[Len(stream)].events)

SseInv ==
    /\ StreamOK
    /\ DecoderOK(decoder, delivered)
    /\ reading \in {"decode", "frame", "ended", "done", "failed"}
    /\ reading \in {"ended", "done"} => fed = Len(stream)
    /\ reading = "done" => AllTold(delivered)

\* The places a buffer begins at and ends at.
LEMMA WindowPlaces ==
  ASSUME StreamOK, NEW buf, NEW c, Window(buf, c)
  PROVE  /\ c = fed - Len(buf)
         /\ Len(buf) \in Nat /\ c \in Nat /\ fed \in Nat /\ Len(stream) \in Nat
         /\ MarkLen \in Nat /\ c + Len(buf) = fed /\ fed <= Len(stream)
<1>1. Len(buf) \in Nat /\ c \in Nat /\ c + Len(buf) = fed
  BY LenProperties DEF Window
<1>2. Len(stream) \in Nat /\ fed \in Nat /\ fed <= Len(stream) /\ MarkLen \in Nat
  BY LenProperties DEF StreamOK
<1> QED BY <1>1, <1>2

\* A sequence is a prefix of another one that is no shorter and begins alike.
LEMMA PrefixAlike ==
  ASSUME NEW s \in Seq(Byte), NEW t \in Seq(Byte)
  PROVE  IsPrefix(s, t) <=> Len(s) <= Len(t) /\ \A i \in 1..Len(s) : s[i] = t[i]
<1>1. Len(s) \in Nat /\ Len(t) \in Nat
  BY LenProperties
<1>2. CASE Len(s) <= Len(t)
  <2> DEFINE a == SubSeq(s, 1, Len(s))
             b == SubSeq(t, 1, Len(s))
  <2>1. (\A i \in 1..Len(s) : s[i] \in Byte) /\ (\A i \in 1..Len(s) : t[i] \in Byte)
    BY <1>1, <1>2, ElementOfSeq
  <2>2. /\ a \in Seq(Byte) /\ Len(a) = IF 1 <= Len(s) THEN Len(s) - 1 + 1 ELSE 0
        /\ \A i \in 1..(Len(s) - 1 + 1) : a[i] = s[1 + i - 1]
    BY <1>1, <2>1, SubSeqProperties
  <2>3. /\ b \in Seq(Byte) /\ Len(b) = IF 1 <= Len(s) THEN Len(s) - 1 + 1 ELSE 0
        /\ \A i \in 1..(Len(s) - 1 + 1) : b[i] = t[1 + i - 1]
    BY <1>1, <2>1, SubSeqProperties
  <2> HIDE DEF a, b
  <2>4. /\ Len(a) = Len(s) /\ Len(b) = Len(s)
        /\ \A i \in 1..Len(s) : a[i] = s[i] /\ b[i] = t[i]
    BY <1>1, <2>2, <2>3
  <2>5. a = b <=> \A i \in 1..Len(s) : s[i] = t[i]
    BY <2>2, <2>3, <2>4, SeqEqual
  <2> QED BY <1>2, <2>5 DEF IsPrefix, a, b
<1>3. CASE ~(Len(s) <= Len(t))
  BY <1>3 DEF IsPrefix
<1> QED BY <1>2, <1>3

\* The mark: three bytes.
LEMMA MarkBytes == Mark \in Seq(Byte) /\ Len(Mark) = 3 /\ \A i \in 1..3 : Mark[i] = "BOM"
BY DEF Mark, Byte

\* At the beginning of the stream's text nothing was read and nothing is told.
LEMMA BetweenAtStart ==
  ASSUME StreamOK, NEW d, d \in Decoders, d.bom_stripped, d.draining = "no", d.scan_pos = 0,
         Window(d.buf, MarkLen)
  PROVE  DecoderOK(d, <<>>)
<1>1. Gone(d) = MarkLen /\ MarkLen \in Nat
  BY WindowPlaces DEF Gone
<1>2. Reference[MarkLen] = Unread
  BY ReferenceEquation
<1>3. Idle(MarkLen) /\ Reference[MarkLen].events = <<>>
  BY <1>2 DEF Idle, Unread
<1>4. <<>> \in Seq(Seq(Nat)) /\ Len(<<>>) = 0
  OBVIOUS
<1>5. RightUpTo(<<>>, Reference[MarkLen].events, Len(<<>>))
  BY <1>4 DEF RightUpTo
<1>6. Between(d, <<>>)
  BY <1>1, <1>3, <1>4, <1>5 DEF Between
<1> QED BY <1>1, <1>4, <1>6 DEF DecoderOK

\* strip_bom keeps what is known of the decoder.  If the mark may still come, the
\* buffer holds less than a mark.
LEMMA StripKeeps ==
  ASSUME StreamOK, NEW d, NEW out, DecoderOK(d, out), NEW e, e = strip_bom(d)
  PROVE  /\ DecoderOK(e, out)
         /\ ~e.bom_stripped => /\ Untouched(e, out)
                               /\ \A i \in 1..Len(e.buf) : e.buf[i] = "BOM"
                               /\ Len(e.buf) > 0 => MarkLen = 3 /\ Len(e.buf) < 3
<1>1. /\ d \in Decoders /\ d.buf \in Seq(Byte) /\ d.bom_stripped \in BOOLEAN
      /\ out \in Seq(Seq(Nat)) /\ Window(d.buf, Gone(d))
  BY DEF DecoderOK, Decoders
<1>2. /\ Len(d.buf) \in Nat /\ Gone(d) \in Nat /\ fed \in Nat /\ Len(stream) \in Nat
      /\ Gone(d) + Len(d.buf) = fed /\ fed <= Len(stream)
  BY <1>1, WindowPlaces
<1>3. ~d.bom_stripped => Untouched(d, out)
  BY DEF DecoderOK, Between, Dropping
<1>4. CASE d.bom_stripped \/ d.buf = <<>>
  <2>1. e = d
    BY <1>4 DEF strip_bom
  <2> QED BY <1>3, <1>4, <2>1
<1>5. CASE ~(d.bom_stripped \/ d.buf = <<>>)
  <2>1. /\ Gone(d) = 0 /\ d.draining = "no" /\ d.scan_pos = 0 /\ out = <<>>
        /\ Window(d.buf, 0) /\ Len(d.buf) > 0
    BY <1>1, <1>2, <1>3, <1>5, EmptySeq DEF Untouched
  <2>2. /\ \A i \in 1..Len(d.buf) : d.buf[i] = "BOM" <=> i <= MarkLen
        /\ MarkLen \in {0, 3} /\ 1 \in 1..Len(d.buf)
    <3>1. \A i \in 1..Len(d.buf) : d.buf[i] = stream[i] /\ i \in 1..Len(stream)
      BY <1>2, <2>1 DEF Window
    <3> QED BY <1>2, <2>1, <3>1 DEF StreamOK
  <2>3. CASE Len(d.buf) < 3
    <3>1. e = [d EXCEPT !.bom_stripped = ~IsPrefix(d.buf, Mark)]
      BY <1>5, <2>3 DEF strip_bom
    <3>2. IsPrefix(d.buf, Mark) <=> MarkLen = 3
      <4>1. IsPrefix(d.buf, Mark) <=>
              Len(d.buf) <= Len(Mark) /\ \A i \in 1..Len(d.buf) : d.buf[i] = Mark[i]
        BY <1>1, PrefixAlike, MarkBytes
      <4>2. (\A i \in 1..Len(d.buf) : d.buf[i] = Mark[i])
              <=> \A i \in 1..Len(d.buf) : d.buf[i] = "BOM"
        BY <1>2, <2>3, MarkBytes
      <4> QED BY <1>2, <2>2, <2>3, <4>1, <4>2, MarkBytes
    <3>3. CASE MarkLen = 3
      <4>1. e = d
        BY <1>1, <1>5, <3>1, <3>2, <3>3 DEF Decoders
      <4> QED BY <1>2, <1>3, <1>5, <2>1, <2>2, <2>3, <3>3, <4>1
    <3>4. CASE MarkLen # 3
      <4>1. e = [d EXCEPT !.bom_stripped = TRUE] /\ MarkLen = 0
        BY <2>2, <3>1, <3>2, <3>4
      <4>2. /\ e \in Decoders /\ e.bom_stripped /\ e.draining = "no" /\ e.scan_pos = 0
            /\ e.buf = d.buf
        BY <1>1, <2>1, <4>1 DEF Decoders
      <4> QED BY <2>1, <4>1, <4>2, BetweenAtStart
    <3> QED BY <3>3, <3>4
  <2>4. CASE ~(Len(d.buf) < 3)
    <3> DEFINE left == IF IsPrefix(Mark, d.buf) THEN Advanced(d.buf, 3) ELSE d.buf
    <3>1. e = [d EXCEPT !.buf = left, !.bom_stripped = TRUE]
      BY <1>5, <2>4 DEF strip_bom
    <3>2. IsPrefix(Mark, d.buf) <=> MarkLen = 3
      <4>1. IsPrefix(Mark, d.buf) <=>
              Len(Mark) <= Len(d.buf) /\ \A i \in 1..Len(Mark) : Mark[i] = d.buf[i]
        BY <1>1, PrefixAlike, MarkBytes
      <4>2. (\A i \in 1..3 : Mark[i] = d.buf[i]) <=> \A i \in 1..3 : d.buf[i] = "BOM"
        BY MarkBytes
      <4>3. (\A i \in 1..3 : d.buf[i] = "BOM") <=> MarkLen = 3
        <5>1. 1..3 \subseteq 1..Len(d.buf)
          BY <1>2, <2>4
        <5> QED BY <2>2, <5>1
      <4> QED BY <1>2, <2>4, <4>1, <4>2, <4>3, MarkBytes
    <3>3. Window(left, MarkLen)
      <4>1. CASE MarkLen = 3
        <5>1. 3 \in 0..Len(d.buf) /\ 0 + 3 = 3
          BY <1>2, <2>4
        <5>2. Window(Advanced(d.buf, 3), 0 + 3)
          BY <2>1, <5>1, AdvancedWindow
        <5> QED BY <3>2, <4>1, <5>1, <5>2
      <4>2. CASE MarkLen # 3
        BY <2>1, <2>2, <3>2, <4>2
      <4> QED BY <4>1, <4>2
    <3>4. left \in Seq(Byte)
      BY <3>3 DEF Window
    <3> HIDE DEF left
    <3>5. /\ e \in Decoders /\ e.bom_stripped /\ e.draining = "no" /\ e.scan_pos = 0
          /\ e.buf = left
      BY <1>1, <2>1, <3>1, <3>4 DEF Decoders
    <3> QED BY <2>1, <3>3, <3>5, BetweenAtStart
  <2> QED BY <2>3, <2>4
<1> QED BY <1>4, <1>5

\* A byte adds at most one event.
LEMMA OneMore ==
  ASSUME StreamOK, NEW n \in MarkLen..(Len(stream) - 1)
  PROVE  /\ Len(Reference[n].events) \in Nat /\ Len(Reference[n + 1].events) \in Nat
         /\ Len(Reference[n + 1].events) <= Len(Reference[n].events) + 1
<1> DEFINE s == Reference[n]
           t == Reference[n + 1]
           e == [lines |-> s.lines, size |-> s.upto]
<1>1. ByteRead(n, s, t)
  BY NextByte
<1> HIDE DEF s, t
<1>2. s \in Reader /\ t \in Reader /\ s.line \in Nat
  BY <1>1 DEF ByteRead, Sound, Reader
<1>3. /\ s.events \in Seq(Event) /\ t.events \in Seq(Event) /\ e \in Event
      /\ Len(s.events) \in Nat /\ Len(t.events) \in Nat
  BY <1>2, LenProperties DEF Reader, Event
<1>4. t.events = s.events \/ t.events = Append(s.events, e)
  BY <1>1, <1>2 DEF ByteRead
<1> HIDE DEF e
<1>5. Len(Append(s.events, e)) = Len(s.events) + 1
  BY <1>3, AppendProperties
<1> QED BY <1>3, <1>4, <1>5 DEF s, t

\* One more outcome that is right for one more event.
LEMMA RightNext ==
  ASSUME NEW evs \in Seq(Event), NEW e \in Event, NEW out \in Seq(Seq(Nat)),
         Len(out) = Len(evs) + 1, RightUpTo(out, evs, Len(evs)), RightFor(out[Len(out)], e)
  PROVE  /\ Len(out) = Len(Append(evs, e))
         /\ RightUpTo(out, Append(evs, e), Len(out))
<1> DEFINE t == Append(evs, e)
<1>1. /\ Len(evs) \in Nat /\ Len(t) = Len(evs) + 1
      /\ \A j \in 1..Len(evs) : t[j] = evs[j]
      /\ t[Len(evs) + 1] = e
  BY AppendProperties, LenProperties
<1> HIDE DEF t
<1>2. ASSUME NEW k \in 1..Len(out) PROVE RightFor(out[k], t[k])
  <2>1. CASE k = Len(out)
    BY <1>1, <2>1
  <2>2. CASE k # Len(out)
    <3>1. k \in 1..Len(evs)
      BY <1>1, <2>2
    <3> QED BY <1>1, <3>1 DEF RightUpTo
  <2> QED BY <2>1, <2>2
<1> QED BY <1>1, <1>2 DEF RightUpTo, t

\* Setting the fields of a decoder.
HasSet(d, e, left, mode, k) ==
    /\ e \in Decoders /\ e.buf = left /\ e.draining = mode /\ e.scan_pos = k
    /\ e.bom_stripped = d.bom_stripped

LEMMA DecoderSet ==
  ASSUME NEW d \in Decoders, NEW left \in Seq(Byte), NEW k \in Nat,
         NEW mode \in {"no", "line_start", "mid_line"}
  PROVE  HasSet(d, [d EXCEPT !.buf = left, !.draining = mode, !.scan_pos = k], left, mode, k)
BY DEF Decoders, HasSet

\* While an event is dropped, decode goes on with the drop or ends it behind the
\* event's empty line; no other event is lost.
LEMMA DrainKeeps ==
  ASSUME StreamOK, NEW d, NEW out, DecoderOK(d, out), Dropping(d, out),
         NEW e, e = DrainStep(d)
  PROVE  /\ DecoderOK(e, out)
         /\ e.draining = "no" => Between(e, out)
         /\ e.draining # "no" /\ fed = Len(stream) => AllTold(out)
<1> DEFINE c == Gone(d)
           s == Reference[c]
           ls == d.draining = "line_start"
           r == scan(d.buf, ls)
<1>1. /\ d \in Decoders /\ d.buf \in Seq(Byte) /\ out \in Seq(Seq(Nat)) /\ Window(d.buf, c)
  BY DEF DecoderOK, Decoders
<1>2. /\ Len(d.buf) \in Nat /\ c \in Nat /\ fed \in Nat /\ Len(stream) \in Nat
      /\ c + Len(d.buf) = fed /\ fed <= Len(stream) /\ MarkLen \in Nat
  BY <1>1, WindowPlaces
<1>3. /\ d.bom_stripped /\ d.draining # "no" /\ c >= MarkLen /\ s.upto > 0
      /\ ls <=> s.line = 0
      /\ s.after_cr => c < fed /\ stream[c + 1] = "CR"
      /\ max_payload_size > 0 /\ s.upto + 2 > max_payload_size
      /\ Len(out) = Len(s.events) + 1
      /\ out[Len(out)] = <<>>
      /\ RightUpTo(out, s.events, Len(s.events))
  BY DEF Dropping
<1>4. ls \in BOOLEAN /\ c \in MarkLen..Len(stream) /\ max_payload_size \in Nat
  BY <1>2, <1>3 DEF StreamOK
<1>5. Sound(s) /\ s.upto \in Nat /\ s.events \in Seq(Event) /\ Len(s.events) \in Nat
  BY <1>4, ReferenceSound, LenProperties DEF Sound, Reader
<1> HIDE DEF c, ls
<1>6. PICK n \in 0..Len(d.buf) : ScanStops(d.buf, c, ls, r, n)
  BY <1>1, <1>4, ScanAt
<1> USE DEF ScanStops
<1>7. CASE r.boundary
  <2>1. PICK i \in (c + 1)..(c + n) : FirstEmpty(d.buf, c, ls, i, r.consumed)
    BY <1>6, <1>7
  <2> USE DEF FirstEmpty
  <2> DEFINE p == c + r.consumed
             left == Advanced(d.buf, r.consumed)
  <2>2. i \in (c + 1)..Len(stream) /\ i \in Nat /\ i > MarkLen
    BY <1>2, <1>3, <1>6
  <2>3. s.after_cr => stream[c + 1] = "CR"
    BY <1>3
  <2>4. /\ Idle(i)
        /\ \E ev \in Event : Reference[i].events = Append(s.events, ev) /\ ev.size >= s.upto
    BY <1>3, <1>4, <2>1, <2>2, <2>3, EventEnds
  <2>5. PICK ev \in Event : Reference[i].events = Append(s.events, ev) /\ ev.size >= s.upto
    BY <2>4
  <2>6. Idle(p) /\ Reference[p].events = Append(s.events, ev) /\ p >= MarkLen
    <3>1. CASE p = i
      BY <1>2, <2>2, <2>4, <2>5, <3>1
    <3>2. CASE p # i
      <4>1. i < fed /\ p = EndOf(i)
        BY <2>1, <3>2
      <4>2. Pair(i) /\ p = i + 1
        BY <3>2, <4>1 DEF EndOf
      <4>3. i \in (MarkLen + 1)..(Len(stream) - 1)
        BY <1>2, <2>2, <4>1
      <4>4. Idle(i + 1) /\ Reference[i + 1].events = Reference[i].events
        BY <2>4, <4>2, <4>3, IdlePastPair
      <4>5. Reference[i + 1].events = Append(s.events, ev)
        BY <2>5, <4>4
      <4>6. i + 1 >= MarkLen
        BY <1>2, <2>2
      <4> HIDE DEF p, s
      <4> QED BY <4>2, <4>4, <4>5, <4>6
    <3> QED BY <3>1, <3>2
  <2>7. Window(left, p)
    BY <1>1, <1>2, <2>1, AdvancedWindow
  <2>8. e = [d EXCEPT !.buf = left, !.draining = "no", !.scan_pos = 0]
    BY <1>7 DEF DrainStep, ls
  <2>9. left \in Seq(Byte)
    BY <2>7 DEF Window
  <2> HIDE DEF left, p
  <2>10. /\ e \in Decoders /\ e.bom_stripped /\ e.draining = "no" /\ e.scan_pos = 0
         /\ e.buf = left
    <3>1. HasSet(d, [d EXCEPT !.buf = left, !.draining = "no", !.scan_pos = 0], left, "no", 0)
      BY <1>1, <2>9, DecoderSet
    <3>2. HasSet(d, e, left, "no", 0)
      BY <2>8, <3>1
    <3> QED BY <1>3, <3>2 DEF HasSet
  <2>11. Gone(e) = p /\ p \in Nat
    BY <2>7, <2>10, WindowPlaces DEF Gone
  <2>12. RightFor(out[Len(out)], ev)
    <3>1. ev.size \in Nat
      BY DEF Event
    <3>2. ev.size + 2 > max_payload_size
      BY <1>3, <1>4, <1>5, <2>5, <3>1, SMTT(30)
    <3> QED BY <1>3, <3>2 DEF RightFor
  <2>13. /\ Len(out) = Len(Reference[p].events)
         /\ RightUpTo(out, Reference[p].events, Len(out))
    <3> HIDE DEF s
    <3>1. /\ Len(out) = Len(Append(s.events, ev))
          /\ RightUpTo(out, Append(s.events, ev), Len(out))
      BY <1>1, <1>3, <1>5, <2>12, RightNext
    <3> QED BY <2>6, <3>1
  <2>14. Between(e, out)
    <3>1. \A j \in (p + 1)..(p + e.scan_pos) : ~Blank(j, Len(stream))
      BY <2>10, <2>11
    <3> QED BY <2>6, <2>10, <2>11, <2>13, <3>1 DEF Between
  <2> QED BY <1>1, <2>7, <2>10, <2>11, <2>14 DEF DecoderOK
<1>8. CASE ~r.boundary
  <2> DEFINE p == c + n
             t == Reference[p]
             left == Advanced(d.buf, n)
             mode == IF r.line_start THEN "line_start" ELSE "mid_line"
  <2>1. p \in c..Len(stream) /\ p \in c..p /\ p \in Nat /\ p \in MarkLen..Len(stream)
    BY <1>2, <1>3, <1>6
  <2>2. GoesOn(c, ls, p)
    <3>1. \A i \in (c + 1)..p : ~Empty(c, ls, i)
      BY <1>6, <1>8
    <3>2. \A k \in c..p : GoesOn(c, ls, k)
      <4> HIDE DEF p
      <4> QED BY <1>3, <1>4, <2>1, <3>1, EventGoesOn
    <3> QED BY <2>1, <3>2
  <2>3. /\ t.events = s.events /\ t.upto >= s.upto /\ Sound(t) /\ t.upto \in Nat
        /\ t.line = 0 <=> IF n = 0 THEN ls ELSE Ends(p)
    <3>1. p = c <=> n = 0
      BY <1>2, <1>6
    <3>2. Sound(t) /\ t.upto \in Nat
      BY <2>1, ReferenceSound DEF Sound, Reader
    <3> QED BY <2>2, <3>1, <3>2 DEF GoesOn
  <2>4. Window(left, p)
    BY <1>1, <1>6, AdvancedWindow
  <2>5. e = [d EXCEPT !.buf = left, !.draining = mode]
    BY <1>6, <1>8 DEF DrainStep, ls
  <2>6. left \in Seq(Byte) /\ mode \in {"line_start", "mid_line"}
    BY <2>4 DEF Window
  <2>7. mode = "line_start" <=> t.line = 0
    BY <1>6, <1>8, <2>3
  <2>8. t.after_cr => p < fed /\ stream[p + 1] = "CR"
    <3>1. SUFFICES ASSUME t.after_cr PROVE p < fed /\ stream[p + 1] = "CR"
      OBVIOUS
    <3>2. stream[p] = "CR"
      BY <2>1, <3>1, ReferenceSound
    <3>3. CASE n = Len(d.buf) /\ n > 0
      BY <1>2, <1>6, <3>2, <3>3
    <3>4. CASE n = 0 /\ Len(d.buf) = 0
      BY <1>2, <1>3, <3>1, <3>4
    <3>5. CASE n # Len(d.buf)
      <4>1. p + 1 = fed /\ stream[fed] = "CR"
        BY <1>2, <1>6, <3>5
      <4> QED BY <1>2, <2>1, <4>1
    <3> QED BY <1>6, <3>3, <3>4, <3>5
  <2>9. fed = Len(stream) => AllTold(out)
    <3>1. SUFFICES ASSUME fed = Len(stream) PROVE Len(out) >= Len(Reference[fed].events)
      BY DEF AllTold
    <3>2. CASE n = Len(d.buf)
      <4>1. p = fed
        BY <1>2, <3>2
      <4> QED BY <1>3, <1>5, <2>3, <4>1
    <3>3. CASE n # Len(d.buf)
      <4>1. p + 1 = fed /\ p \in MarkLen..(Len(stream) - 1)
        BY <1>2, <1>6, <2>1, <3>1, <3>3
      <4>2. Len(Reference[fed].events) <= Len(t.events) + 1 /\ Len(Reference[fed].events) \in Nat
        BY <4>1, OneMore
      <4> QED BY <1>3, <1>5, <2>3, <4>2
    <3> QED BY <3>2, <3>3
  <2> HIDE DEF left, p, mode, t
  <2>10. /\ e \in Decoders /\ e.bom_stripped /\ e.draining = mode /\ e.buf = left
    BY <1>1, <1>3, <2>5, <2>6 DEF Decoders
  <2>11. Gone(e) = p
    BY <2>4, <2>10, WindowPlaces DEF Gone
  <2>12. t.upto > 0 /\ t.upto + 2 > max_payload_size
    BY <1>3, <1>4, <1>5, <2>3
  <2>13. /\ t.events = s.events /\ t = Reference[p] /\ p >= MarkLen /\ mode # "no"
    BY <1>2, <2>1, <2>3, <2>6 DEF t
  <2>14. Dropping(e, out)
    BY <1>3, <2>7, <2>8, <2>10, <2>11, <2>12, <2>13 DEF Dropping
  <2> QED BY <1>1, <2>4, <2>9, <2>10, <2>11, <2>13, <2>14 DEF DecoderOK
<1> QED BY <1>6, <1>7, <1>8

\* Whether another terminator follows one does not depend on bytes that are far away.
LEMMA BlankSeen ==
  ASSUME StreamOK, NEW j \in 1..Len(stream)
  PROVE  /\ Blank(j, fed) => Blank(j, Len(stream))
         /\ Blank(j, Len(stream)) /\ j + 2 <= fed => Blank(j, fed)
<1>1. Len(stream) \in Nat /\ fed \in Nat /\ fed <= Len(stream)
  BY LenProperties DEF StreamOK
<1> QED BY <1>1 DEF Blank

\* What a boundary that was found takes off the buffer: nothing but terminators, or
\* one event, and its size is that of the block but for the terminator it begins with.
TakesOff(c, p, block_end, lines) ==
    /\ p \in c..Len(stream)
    /\ Idle(p)
    /\ lines \in Seq(Nat)
    /\ block_end \in Nat
    /\ lines = <<>> => block_end = 0 /\ Reference[p].events = Reference[c].events
    /\ lines # <<>> =>
         \E ev \in Event : /\ ev.lines = lines
                           /\ ev.size <= block_end /\ block_end <= ev.size + 2
                           /\ Reference[p].events = Append(Reference[c].events, ev)

LEMMA BoundaryAt ==
  ASSUME StreamOK, NEW d, NEW out, DecoderOK(d, out), Between(d, out),
         NEW b, b = find_event_boundary_from(d.buf, d.scan_pos), b.found
  PROVE  /\ b.consume \in 1..Len(d.buf)
         /\ TakesOff(Gone(d), Gone(d) + b.consume, b.block_end,
                     DataLines(SubSeq(d.buf, 1, b.block_end)))
<1> DEFINE c == Gone(d)
<1>1. /\ d \in Decoders /\ d.scan_pos \in Nat /\ Window(d.buf, c)
  BY DEF DecoderOK, Decoders
<1>2. /\ Len(d.buf) \in Nat /\ c \in Nat /\ fed \in Nat /\ Len(stream) \in Nat
      /\ c + Len(d.buf) = fed /\ fed <= Len(stream) /\ MarkLen \in Nat
  BY <1>1, WindowPlaces
<1>3. /\ c >= MarkLen /\ Idle(c)
      /\ d.scan_pos = 0 \/ d.scan_pos + 2 <= Len(d.buf)
      /\ \A j \in (c + 1)..(c + d.scan_pos) : ~Blank(j, Len(stream))
  BY DEF Between
<1> HIDE DEF c
<1>4. d.scan_pos \in 0..Len(d.buf)
  BY <1>1, <1>2, <1>3
<1>5. PICK i \in (c + d.scan_pos + 1)..fed :
         /\ Blank(i, fed)
         /\ \A j \in (c + d.scan_pos + 1)..(i - 1) : ~Blank(j, fed)
         /\ b.block_end = i - 1 - c
         /\ b.consume \in 1..Len(d.buf)
         /\ c + b.consume = IF EndOf(i) + 1 < fed THEN EndOf(EndOf(i) + 1) ELSE EndOf(i) + 1
  BY <1>1, <1>4, FindAt
<1>6. i \in (c + 1)..fed /\ i \in Nat /\ c \in MarkLen..Len(stream) /\ fed \in c..Len(stream)
  BY <1>1, <1>2, <1>3, <1>4
<1>7. ASSUME NEW j \in (c + 1)..(i - 1) PROVE ~Blank(j, fed)
  <2>1. CASE j <= c + d.scan_pos
    <3>1. j \in (c + 1)..(c + d.scan_pos) /\ j \in 1..Len(stream)
      BY <1>1, <1>2, <1>6, <2>1
    <3> QED BY <1>3, <3>1, BlankSeen
  <2>2. CASE ~(j <= c + d.scan_pos)
    <3>1. j \in (c + d.scan_pos + 1)..(i - 1)
      BY <1>1, <1>2, <1>6, <2>2
    <3> QED BY <1>5, <3>1
  <2> QED BY <2>1, <2>2
<1> DEFINE q == EndOf(i) + 1
           p == c + b.consume
           n == i - 1 - c
           w == Reference[i - 1]
           ev == [lines |-> Append(w.lines, w.line), size |-> w.upto]
<1>8. /\ \A k \in c..(i - 1) : Inside(c, k)
      /\ q \in (c + 1)..fed
      /\ Idle(q)
      /\ i = c + 1 => Reference[q].events = Reference[c].events
      /\ i # c + 1 => /\ w.line > 0
                      /\ w.upto = n - Lead(c)
                      /\ Reference[q].events = Append(Reference[c].events, ev)
  <2>1. \A j \in (c + 1)..(i - 1) : ~Blank(j, fed)
    BY <1>7
  <2>2. BlockEnded(c, fed, i)
    BY <1>3, <1>5, <1>6, <2>1, BlockEnds
  <2>3. /\ \A k \in c..(i - 1) : Inside(c, k)
        /\ q \in (c + 1)..fed
        /\ Idle(q)
        /\ i = c + 1 => Reference[q].events = Reference[c].events
        /\ i # c + 1 => /\ w.line > 0
                        /\ w.upto = i - 1 - c - Lead(c)
                        /\ Reference[q].events = Append(Reference[c].events, ev)
    BY <2>2 DEF BlockEnded
  <2> HIDE DEF q, w
  <2> QED BY <2>3
<1>9. n \in 0..Len(d.buf) /\ n \in Nat /\ c + n = i - 1 /\ i - 1 \in MarkLen..Len(stream)
  BY <1>2, <1>3, <1>6
<1>10. Sound(w)
  BY <1>9, ReferenceSound
<1>11. /\ p \in c..Len(stream) /\ Idle(p) /\ Reference[p].events = Reference[q].events
  <2> HIDE DEF q
  <2>1. p \in c..Len(stream)
    BY <1>2, <1>5
  <2>2. p = IF q < fed THEN EndOf(q) ELSE q
    BY <1>5 DEF q
  <2> HIDE DEF p
  <2>3. CASE p = q
    BY <1>8, <2>1, <2>3
  <2>4. CASE p # q
    <3>1. q < fed /\ Pair(q) /\ p = q + 1
      BY <2>2, <2>4 DEF EndOf
    <3>2. q \in (MarkLen + 1)..(Len(stream) - 1)
      BY <1>2, <1>3, <1>8, <3>1
    <3>3. Idle(q + 1) /\ Reference[q + 1].events = Reference[q].events
      BY <1>8, <3>1, <3>2, IdlePastPair
    <3> QED BY <2>1, <3>1, <3>3
  <2> QED BY <2>3, <2>4
<1>12. DataLines(SubSeq(d.buf, 1, n)) = IF w.line > 0 THEN Append(w.lines, w.line) ELSE w.lines
  <2>1. c \in MarkLen..fed
    BY <1>2, <1>6
  <2>2. DataLines(SubSeq(d.buf, 1, n)) =
           LET s == Reference[c + n]
           IN  IF s.line > 0 THEN Append(s.lines, s.line) ELSE s.lines
    <3> HIDE DEF n
    <3> QED BY <1>1, <1>3, <1>8, <1>9, <2>1, LinesAt
  <2> QED BY <1>9, <2>2
<1> DEFINE lines == DataLines(SubSeq(d.buf, 1, n))
<1>13. Lead(c) \in {0, 1, 2}
  BY DEF Lead
<1> HIDE DEF p, q, w
<1>14. CASE i = c + 1
  <2>1. n = 0 /\ i - 1 = c
    BY <1>2, <1>14
  <2>2. lines = <<>>
    BY <1>3, <1>12, <2>1 DEF w, Idle
  <2> HIDE DEF lines, n
  <2>3. lines \in Seq(Nat)
    BY <2>2
  <2>4. TakesOff(c, p, n, lines)
    BY <1>8, <1>9, <1>11, <1>14, <2>1, <2>2, <2>3 DEF TakesOff
  <2> QED BY <1>5, <2>4 DEF p, c, n, lines
<1>15. CASE i # c + 1
  <2>1. /\ w.line > 0 /\ w.upto = n - Lead(c) /\ w.line \in Nat /\ w.lines \in Seq(Nat)
        /\ w.upto \in Nat
    BY <1>8, <1>10, <1>15 DEF Sound, Reader
  <2>2. lines = Append(w.lines, w.line)
    BY <1>12, <2>1
  <2> HIDE DEF lines
  <2>3. lines \in Seq(Nat) /\ lines # <<>>
    BY <2>1, <2>2, AppendProperties
  <2>4. ev \in Event /\ ev.lines = lines /\ ev.size = w.upto
    BY <2>1, <2>2, <2>3 DEF Event
  <2>5. Reference[p].events = Append(Reference[c].events, ev)
    BY <1>8, <1>11, <1>15
  <2> HIDE DEF ev, n
  <2>6. ev.size <= n /\ n <= ev.size + 2
    BY <1>9, <1>13, <2>1, <2>4
  <2>7. TakesOff(c, p, n, lines)
    BY <1>9, <1>11, <2>3, <2>4, <2>5, <2>6 DEF TakesOff
  <2> QED BY <1>5, <2>7 DEF p, c, n, lines
<1> QED BY <1>14, <1>15

\* One more outcome, that is right for the next event.
LEMMA RightAppended ==
  ASSUME NEW evs \in Seq(Event), NEW ev \in Event, NEW out \in Seq(Seq(Nat)),
         Len(out) = Len(evs), RightUpTo(out, evs, Len(out)),
         NEW o \in Seq(Nat), RightFor(o, ev)
  PROVE  /\ Append(out, o) \in Seq(Seq(Nat))
         /\ Len(Append(out, o)) = Len(Append(evs, ev))
         /\ RightUpTo(Append(out, o), Append(evs, ev), Len(Append(out, o)))
<1> DEFINE t == Append(out, o)
<1>1. /\ t \in Seq(Seq(Nat)) /\ Len(t) = Len(out) + 1 /\ Len(out) \in Nat
      /\ \A j \in 1..Len(out) : t[j] = out[j]
      /\ t[Len(out) + 1] = o
  BY AppendProperties, LenProperties
<1> HIDE DEF t
<1>2. RightUpTo(t, evs, Len(evs))
  BY <1>1 DEF RightUpTo
<1>3. Len(t) = Len(evs) + 1 /\ RightFor(t[Len(t)], ev)
  BY <1>1
<1>4. Len(t) = Len(Append(evs, ev)) /\ RightUpTo(t, Append(evs, ev), Len(t))
  BY <1>1, <1>2, <1>3, RightNext
<1> QED BY <1>1, <1>4 DEF t

\* The decoder behind a boundary is between two events again.
LEMMA RestKeeps ==
  ASSUME StreamOK, NEW d, NEW out, DecoderOK(d, out), Between(d, out),
         NEW k \in 1..Len(d.buf), Gone(d) + k \in Gone(d)..Len(stream), Idle(Gone(d) + k),
         NEW new \in Seq(Seq(Nat)), Len(new) = Len(Reference[Gone(d) + k].events),
         RightUpTo(new, Reference[Gone(d) + k].events, Len(new)),
         NEW e, e = [d EXCEPT !.buf = Advanced(@, k), !.scan_pos = 0]
  PROVE  DecoderOK(e, new)
<1> DEFINE c == Gone(d)
           p == c + k
           left == Advanced(d.buf, k)
<1>1. /\ d \in Decoders /\ Window(d.buf, c) /\ d.bom_stripped /\ d.draining = "no"
      /\ c >= MarkLen
  BY DEF DecoderOK, Between
<1>2. /\ Len(d.buf) \in Nat /\ c \in Nat /\ MarkLen \in Nat
  BY <1>1, WindowPlaces
<1>3. Window(left, p) /\ left \in Seq(Byte)
  <2>1. k \in 0..Len(d.buf)
    BY <1>2
  <2>2. Window(left, p)
    BY <1>1, <2>1, AdvancedWindow
  <2> QED BY <2>2 DEF Window
<1>4. Idle(p) /\ p >= MarkLen /\ p \in Nat
  BY <1>1, <1>2
<1> HIDE DEF left
<1>5. HasSet(d, e, left, "no", 0)
  <2>1. e = [d EXCEPT !.buf = left, !.scan_pos = 0]
    BY DEF left
  <2>2. [d EXCEPT !.buf = left, !.scan_pos = 0] =
          [d EXCEPT !.buf = left, !.draining = "no", !.scan_pos = 0]
    BY <1>1 DEF Decoders
  <2>3. HasSet(d, [d EXCEPT !.buf = left, !.draining = "no", !.scan_pos = 0], left, "no", 0)
    BY <1>1, <1>3, DecoderSet
  <2> QED BY <2>1, <2>2, <2>3
<1>6. Gone(e) = p
  <2>1. e.buf = left
    BY <1>5 DEF HasSet
  <2> QED BY <1>3, <2>1, WindowPlaces DEF Gone
<1> HIDE DEF p
<1>7. \A j \in (p + 1)..(p + e.scan_pos) : ~Blank(j, Len(stream))
  BY <1>4, <1>5 DEF HasSet
<1>8. Len(new) = Len(Reference[p].events) /\ RightUpTo(new, Reference[p].events, Len(new))
  BY DEF p
<1>9. Between(e, new)
  BY <1>1, <1>4, <1>5, <1>6, <1>7, <1>8 DEF Between, HasSet
<1> QED BY <1>3, <1>5, <1>6, <1>9 DEF DecoderOK, HasSet

\* A pass of the loop of decode_impl keeps what is known: with the outcome it returned
\* added to out, or, when it needs more data at the end of the stream, with nothing
\* left to tell.
PassOK(r, out) ==
    /\ r.outcome \in {"none", "skip", "too_large", "message"}
    /\ r.outcome = "none" => /\ DecoderOK(r.decoder, out)
                             /\ fed = Len(stream) => AllTold(out)
    /\ r.outcome = "skip" => DecoderOK(r.decoder, out)
    /\ r.outcome = "too_large" => DecoderOK(r.decoder, Append(out, <<>>))
    /\ r.outcome = "message" => DecoderOK(r.decoder, Append(out, r.lines))

LEMMA FoundPass ==
  ASSUME StreamOK, NEW d, NEW out, DecoderOK(d, out), Between(d, out),
         NEW b, b = find_event_boundary_from(d.buf, d.scan_pos), b.found,
         NEW r, r = LoopPass(d, max_payload_size)
  PROVE  PassOK(r, out)
<1> DEFINE c == Gone(d)
           p == c + b.consume
           s == Reference[c]
           lines == DataLines(SubSeq(d.buf, 1, b.block_end))
           rest == [d EXCEPT !.buf = Advanced(@, b.consume), !.scan_pos = 0]
           limit == max_payload_size
<1>1. b.consume \in 1..Len(d.buf) /\ TakesOff(c, p, b.block_end, lines)
  BY BoundaryAt
<1>2. /\ p \in c..Len(stream) /\ Idle(p) /\ lines \in Seq(Nat) /\ b.block_end \in Nat
      /\ lines = <<>> => b.block_end = 0 /\ Reference[p].events = s.events
      /\ lines # <<>> =>
           \E ev \in Event : /\ ev.lines = lines
                             /\ ev.size <= b.block_end /\ b.block_end <= ev.size + 2
                             /\ Reference[p].events = Append(s.events, ev)
  BY <1>1 DEF TakesOff
<1>3. /\ limit > 0 /\ b.block_end > limit =>
           r = [outcome |-> "too_large", lines |-> <<>>, decoder |-> rest]
      /\ ~(limit > 0 /\ b.block_end > limit) =>
           r = [outcome |-> IF lines = <<>> THEN "skip" ELSE "message", lines |-> lines,
                decoder |-> rest]
  BY DEF LoopPass
<1>4. /\ limit \in Nat /\ out \in Seq(Seq(Nat)) /\ Window(d.buf, c) /\ c >= MarkLen
      /\ Len(out) = Len(s.events) /\ RightUpTo(out, s.events, Len(out))
  BY DEF StreamOK, DecoderOK, Between
<1>5. s.events \in Seq(Event)
  <2>1. c \in MarkLen..Len(stream)
    <3>1. c \in Nat /\ MarkLen \in Nat /\ Len(stream) \in Nat /\ Len(d.buf) \in Nat
          /\ c + Len(d.buf) = fed /\ fed <= Len(stream) /\ fed \in Nat
      BY <1>4, WindowPlaces
    <3> HIDE DEF c
    <3> QED BY <1>4, <3>1
  <2> QED BY <2>1, ReferenceSound DEF Sound, Reader
<1>6. ASSUME NEW new \in Seq(Seq(Nat)), Len(new) = Len(Reference[p].events),
             RightUpTo(new, Reference[p].events, Len(new))
      PROVE  DecoderOK(rest, new)
  <2> HIDE DEF rest
  <2> QED BY <1>1, <1>2, <1>6, RestKeeps DEF rest
<1> HIDE DEF c, p, s, lines, rest
<1>7. CASE lines = <<>>
  <2>1. r = [outcome |-> "skip", lines |-> lines, decoder |-> rest]
    BY <1>2, <1>3, <1>4, <1>7
  <2>2. DecoderOK(rest, out)
    BY <1>2, <1>4, <1>6, <1>7
  <2> QED BY <2>1, <2>2 DEF PassOK
<1>8. CASE lines # <<>>
  <2>1. PICK ev \in Event : /\ ev.lines = lines
                            /\ ev.size <= b.block_end /\ b.block_end <= ev.size + 2
                            /\ Reference[p].events = Append(s.events, ev)
    BY <1>2, <1>8
  <2>2. ev.size \in Nat
    BY DEF Event
  <2>3. ASSUME NEW o \in Seq(Nat), RightFor(o, ev) PROVE DecoderOK(rest, Append(out, o))
    <3>1. /\ Append(out, o) \in Seq(Seq(Nat))
          /\ Len(Append(out, o)) = Len(Append(s.events, ev))
          /\ RightUpTo(Append(out, o), Append(s.events, ev), Len(Append(out, o)))
      BY <1>4, <1>5, <2>3, RightAppended
    <3> QED BY <1>6, <2>1, <3>1
  <2>4. CASE limit > 0 /\ b.block_end > limit
    <3>1. RightFor(<<>>, ev)
      BY <1>2, <1>4, <2>1, <2>2, <2>4 DEF RightFor
    <3>2. DecoderOK(rest, Append(out, <<>>))
      <4>1. <<>> \in Seq(Nat)
        OBVIOUS
      <4> QED BY <2>3, <3>1, <4>1
    <3>3. r = [outcome |-> "too_large", lines |-> <<>>, decoder |-> rest]
      BY <1>3, <2>4
    <3> QED BY <3>2, <3>3 DEF PassOK
  <2>5. CASE ~(limit > 0 /\ b.block_end > limit)
    <3>1. RightFor(lines, ev)
      BY <1>2, <1>4, <2>1, <2>2, <2>5 DEF RightFor
    <3>2. DecoderOK(rest, Append(out, lines))
      BY <1>2, <2>3, <3>1
    <3>3. r = [outcome |-> "message", lines |-> lines, decoder |-> rest]
      BY <1>3, <1>8, <2>5
    <3> QED BY <3>2, <3>3 DEF PassOK
  <2> QED BY <2>4, <2>5
<1> QED BY <1>7, <1>8

\* Without a boundary the whole buffer is inside one block.
LEMMA NothingFound ==
  ASSUME StreamOK, NEW d, NEW out, DecoderOK(d, out), Between(d, out),
         NEW b, b = find_event_boundary_from(d.buf, d.scan_pos), ~b.found
  PROVE  /\ NoBlank(Gone(d), fed)
         /\ \A p \in Gone(d)..fed : Inside(Gone(d), p)
<1> DEFINE c == Gone(d)
<1>1. /\ d \in Decoders /\ d.scan_pos \in Nat /\ Window(d.buf, c)
  BY DEF DecoderOK, Decoders
<1>2. /\ Len(d.buf) \in Nat /\ c \in Nat /\ fed \in Nat /\ Len(stream) \in Nat
      /\ c + Len(d.buf) = fed /\ fed <= Len(stream) /\ MarkLen \in Nat
  BY <1>1, WindowPlaces
<1>3. /\ c >= MarkLen /\ Idle(c)
      /\ d.scan_pos = 0 \/ d.scan_pos + 2 <= Len(d.buf)
      /\ \A j \in (c + 1)..(c + d.scan_pos) : ~Blank(j, Len(stream))
  BY DEF Between
<1> HIDE DEF c
<1>4. d.scan_pos \in 0..Len(d.buf)
  BY <1>1, <1>2, <1>3
<1>5. \A j \in (c + d.scan_pos + 1)..fed : ~Blank(j, fed)
  BY <1>1, <1>4, FindAt
<1>6. ASSUME NEW j \in (c + 1)..fed PROVE ~Blank(j, fed)
  <2>1. CASE j <= c + d.scan_pos
    <3>1. j \in (c + 1)..(c + d.scan_pos) /\ j \in 1..Len(stream)
      BY <1>1, <1>2, <2>1
    <3> QED BY <1>3, <3>1, BlankSeen
  <2>2. CASE ~(j <= c + d.scan_pos)
    <3>1. j \in (c + d.scan_pos + 1)..fed
      BY <1>1, <1>2, <2>2
    <3> QED BY <1>5, <3>1
  <2> QED BY <2>1, <2>2
<1>7. NoBlank(c, fed)
  BY <1>6 DEF NoBlank
<1>8. c \in MarkLen..Len(stream) /\ fed \in c..Len(stream)
  BY <1>2, <1>3
<1>9. \A p \in c..fed : Inside(c, p)
  BY <1>3, <1>7, <1>8, StaysInside
<1> QED BY <1>7, <1>9 DEF c

\* A pass that needs more data leaves what it must look at again to the next one.
LEMMA PassWaits ==
  ASSUME StreamOK, NEW d, NEW out, DecoderOK(d, out), Between(d, out),
         NEW b, b = find_event_boundary_from(d.buf, d.scan_pos), ~b.found,
         NEW r, r = [outcome |-> "none", lines |-> <<>>, decoder |-> ScanFrom(d)]
  PROVE  PassOK(r, out)
<1> DEFINE c == Gone(d)
           n == Len(d.buf)
           k == IF n > 2 THEN n - 2 ELSE 0
           e == [d EXCEPT !.scan_pos = k]
<1>1. /\ d \in Decoders /\ Window(d.buf, c) /\ out \in Seq(Seq(Nat))
  BY DEF DecoderOK
<1>2. /\ n \in Nat /\ c \in Nat /\ fed \in Nat /\ Len(stream) \in Nat
      /\ c + n = fed /\ fed <= Len(stream) /\ MarkLen \in Nat
  BY <1>1, WindowPlaces
<1>3. NoBlank(c, fed) /\ Inside(c, fed)
  <2>1. NoBlank(c, fed) /\ \A p \in c..fed : Inside(c, p)
    BY NothingFound
  <2>2. fed \in c..fed
    BY <1>2
  <2> QED BY <2>1, <2>2
<1>4. /\ c >= MarkLen /\ Idle(c) /\ d.bom_stripped /\ d.draining = "no"
      /\ Len(out) = Len(Reference[c].events) /\ RightUpTo(out, Reference[c].events, Len(out))
  BY DEF Between
<1>5. k \in Nat /\ (k = 0 \/ k + 2 <= n)
  BY <1>2
<1> HIDE DEF k
<1>6. /\ e \in Decoders /\ e.buf = d.buf /\ e.scan_pos = k /\ e.draining = d.draining
      /\ e.bom_stripped = d.bom_stripped
  BY <1>1, <1>5 DEF Decoders
<1>7. Gone(e) = c
  BY <1>6 DEF Gone
<1> HIDE DEF c
<1>8. ASSUME NEW j \in (c + 1)..(c + k) PROVE ~Blank(j, Len(stream))
  <2>1. j \in (c + 1)..fed /\ j + 2 <= fed /\ j \in 1..Len(stream)
    BY <1>2, <1>5
  <2> QED BY <1>3, <2>1, BlankSeen DEF NoBlank
<1>9. fed = Len(stream) => AllTold(out)
  <2>1. Reference[fed].events = Reference[c].events
    BY <1>3 DEF Inside
  <2>2. Reference[c].events \in Seq(Event)
    <3>1. c \in MarkLen..Len(stream)
      BY <1>2, <1>4
    <3> QED BY <3>1, ReferenceSound DEF Sound, Reader
  <2>3. Len(Reference[c].events) \in Nat
    BY <2>2, LenProperties
  <2> QED BY <1>4, <2>1, <2>3 DEF AllTold
<1>10. r = [outcome |-> "none", lines |-> <<>>, decoder |-> e]
  BY DEF ScanFrom, k
<1> HIDE DEF e, n
<1>11. Between(e, out)
  BY <1>4, <1>5, <1>6, <1>7, <1>8 DEF Between, n
<1>12. DecoderOK(e, out)
  BY <1>1, <1>6, <1>7, <1>11 DEF DecoderOK
<1>13. r.outcome = "none" /\ r.decoder = e
  BY <1>10
<1> QED BY <1>9, <1>12, <1>13 DEF PassOK

\* A buffer over the limit, inside one block, ends in the data of an event.  With
\* its last terminators left out it is the event read so far and what precedes it.
OverLimit(c) ==
    LET s == Reference[fed]
    IN  /\ fed > c + Lead(c)
        /\ s.upto > 0
        /\ s.upto + Lead(c) > max_payload_size
        /\ s.size = fed - c - Lead(c)

LEMMA LimitAt ==
  ASSUME StreamOK, NEW buf, NEW c \in MarkLen..fed, Window(buf, c), Inside(c, fed),
         max_payload_size > 0, exceeds_payload_limit(buf, max_payload_size)
  PROVE  OverLimit(c)
<1> DEFINE n == Len(buf)
           ending == IF n > 1 /\ buf[n] = "LF" /\ buf[n - 1] = "CR" THEN 2
                     ELSE IF n > 0 /\ buf[n] \in EndsLine THEN 1
                     ELSE 0
           s == Reference[fed]
           limit == max_payload_size
<1>1. /\ n \in Nat /\ c \in Nat /\ fed \in Nat /\ Len(stream) \in Nat
      /\ c + n = fed /\ fed <= Len(stream) /\ MarkLen \in Nat /\ MarkLen <= c
      /\ limit \in Nat
  BY WindowPlaces DEF StreamOK
<1>2. n - ending > limit /\ ending \in {0, 1, 2}
  BY DEF exceeds_payload_limit
<1>3. /\ Lead(c) \in {0, 1, 2}
      /\ Lead(c) = 2 => Pair(c + 1)
      /\ Lead(c) # 0 => Ends(c + 1)
      /\ Lead(c) = 0 => c = Len(stream) \/ ~Ends(c + 1)
  BY DEF Lead
<1>4. n > 1 /\ buf[n] = stream[fed] /\ buf[n - 1] = stream[fed - 1]
  <2>1. n > 1
    BY <1>1, <1>2
  <2>2. n \in 1..n /\ n - 1 \in 1..n /\ c + (n - 1) = fed - 1
    BY <1>1, <2>1
  <2>3. buf[n] = stream[c + n] /\ buf[n - 1] = stream[c + (n - 1)]
    BY <2>2 DEF Window
  <2> QED BY <1>1, <2>1, <2>2, <2>3
<1>5. ending = IF stream[fed] = "LF" /\ stream[fed - 1] = "CR" THEN 2
               ELSE IF Ends(fed) THEN 1 ELSE 0
  BY <1>1, <1>4 DEF Ends
<1> HIDE DEF ending, n
<1>6. fed > c + Lead(c)
  <2>1. SUFFICES ASSUME ~(fed > c + Lead(c)) PROVE FALSE
    OBVIOUS
  <2>2. n = 2 /\ Lead(c) = 2 /\ fed = c + 2 /\ fed - 1 = c + 1
    BY <1>1, <1>3, <1>4, <2>1
  <2>3. stream[c + 1] = "CR" /\ stream[(c + 1) + 1] = "LF" /\ (c + 1) + 1 = fed
    BY <1>1, <1>3, <2>2 DEF Pair
  <2>4. ending = 2
    BY <1>5, <2>2, <2>3
  <2> QED BY <1>1, <1>2, <2>2, <2>4
<1>7. Sound(s)
  <2>1. fed \in MarkLen..Len(stream)
    BY <1>1
  <2> QED BY <2>1, ReferenceSound
<1>8. s.upto \in Nat /\ s.size \in Nat /\ s.line \in Nat /\ (s.line > 0 \/ s.lines # <<>> => s.upto > 0)
  BY <1>7 DEF Sound, Reader
<1>9. /\ s.size = fed - c - Lead(c)
      /\ s.line = 0 <=> Ends(fed)
      /\ s.line = 0 => s.lines # <<>>
      /\ s.line > 0 => s.upto = s.size
      /\ Ends(fed) => s.upto = s.size -
                         (IF stream[fed] = "LF" /\ stream[fed - 1] = "CR" THEN 2 ELSE 1)
  BY <1>6 DEF Inside
<1> HIDE DEF s
<1>10. s.upto = s.size - ending
  <2>1. CASE Ends(fed)
    BY <1>5, <1>9, <2>1
  <2>2. CASE ~Ends(fed)
    <3>1. ending = 0
      BY <1>5, <2>2 DEF Ends, EndsLine
    <3> QED BY <1>8, <1>9, <2>2, <3>1
  <2> QED BY <2>1, <2>2
<1>11. s.upto > 0
  BY <1>8, <1>9
<1>12. s.upto + Lead(c) > limit
  BY <1>1, <1>2, <1>3, <1>8, <1>9, <1>10, SMTT(30)
<1> QED BY <1>6, <1>9, <1>11, <1>12 DEF OverLimit, s

\* The scan that begins a drop finds no empty line in a buffer without a boundary: it
\* takes the buffer up to its end, or up to a CR there, and the event goes on.
DropsFrom(c, r, k) ==
    LET t == Reference[c + k]
    IN  /\ ~r.boundary /\ r.consumed = k
        /\ c + k \in MarkLen..Len(stream)
        /\ t.events = Reference[c].events
        /\ t.upto > 0 /\ t.upto + 2 > max_payload_size
        /\ r.line_start \in BOOLEAN
        /\ r.line_start <=> t.line = 0
        /\ ~t.after_cr

LEMMA DropBegins ==
  ASSUME StreamOK, NEW buf, NEW c \in MarkLen..fed, Window(buf, c),
         NoBlank(c, fed), \A p \in c..fed : Inside(c, p), OverLimit(c),
         NEW r, r = scan(buf, FALSE)
  PROVE  \E k \in 0..Len(buf) : DropsFrom(c, r, k)
<1> DEFINE n == Len(buf)
           s == Reference[fed]
           limit == max_payload_size
<1>1. /\ n \in Nat /\ c \in Nat /\ fed \in Nat /\ Len(stream) \in Nat
      /\ c + n = fed /\ fed <= Len(stream) /\ MarkLen \in Nat /\ MarkLen <= c
      /\ limit \in Nat
  BY WindowPlaces DEF StreamOK
<1>2. Lead(c) \in {0, 1, 2}
  BY DEF Lead
<1>3. PICK k \in 0..n : ScanStops(buf, c, FALSE, r, k)
  BY ScanAt
<1>4. /\ k = n => (k > 0 => stream[fed] # "CR")
      /\ k # n => k + 1 = n /\ stream[fed] = "CR"
      /\ r.boundary \in BOOLEAN
      /\ ~r.boundary => /\ r.consumed = k
                        /\ r.line_start = (IF k = 0 THEN FALSE ELSE Ends(c + k))
      /\ r.boundary => \E i \in (c + 1)..(c + k) : FirstEmpty(buf, c, FALSE, i, r.consumed)
  BY <1>3 DEF ScanStops
<1>5. ~r.boundary
  <2>1. SUFFICES ASSUME r.boundary PROVE FALSE
    OBVIOUS
  <2>2. PICK i \in (c + 1)..(c + k) : Empty(c, FALSE, i)
    BY <1>4, <2>1 DEF FirstEmpty
  <2>3. Ends(i) /\ i # c + 1 /\ Ends(i - 1) /\ ~Pair(i - 1)
    BY <2>2 DEF Empty
  <2>4. i - 1 \in (c + 1)..fed /\ (i - 1) + 1 = i /\ i <= fed
    BY <1>1, <1>3, <2>3
  <2>5. Blank(i - 1, fed)
    BY <2>3, <2>4 DEF Blank
  <2> QED BY <2>4, <2>5 DEF NoBlank
<1>6. /\ fed > c + Lead(c) /\ s.upto > 0 /\ s.upto + Lead(c) > limit
      /\ s.size = fed - c - Lead(c)
  BY DEF OverLimit
<1>7. fed \in c..fed /\ fed \in MarkLen..Len(stream) /\ fed > MarkLen
  BY <1>1, <1>2, <1>6
<1>8. Inside(c, fed) /\ Sound(s) /\ (s.after_cr <=> fed > MarkLen /\ stream[fed] = "CR")
  BY <1>7, ReferenceSound
<1>9. s.upto \in Nat /\ s.size \in Nat
  BY <1>8 DEF Sound, Reader
<1>10. CASE k = n
  <2>1. c + k = fed /\ k > 0
    BY <1>1, <1>2, <1>6, <1>10
  <2>2. /\ s.events = Reference[c].events /\ (s.line = 0 <=> Ends(fed))
    BY <1>6, <1>8 DEF Inside
  <2>3. r.line_start = Ends(fed) /\ r.line_start \in BOOLEAN
    <3>1. k # 0
      BY <2>1
    <3>2. r.line_start = Ends(c + k)
      BY <1>4, <1>5, <3>1, Zenon
    <3>3. r.line_start = Ends(fed)
      BY <2>1, <3>2, Zenon
    <3>4. Ends(fed) \in BOOLEAN
      BY DEF Ends
    <3> QED BY <3>3, <3>4, Zenon
  <2>4. ~s.after_cr
    BY <1>4, <1>8, <1>10, <2>1
  <2>5. s.upto + 2 > limit
    <3> HIDE DEF s
    <3> QED BY <1>1, <1>2, <1>6, <1>9
  <2>6. DropsFrom(c, r, k)
    <3> HIDE DEF s
    <3>1. s = Reference[c + k] /\ c + k \in MarkLen..Len(stream)
      BY <1>7, <2>1 DEF s
    <3> QED BY <1>4, <1>5, <1>6, <2>2, <2>3, <2>4, <2>5, <3>1 DEF DropsFrom
  <2> QED BY <1>3, <2>6
<1>11. CASE k # n
  <2> DEFINE p == c + k
             t == Reference[p]
  <2>1. p + 1 = fed /\ stream[fed] = "CR" /\ Ends(fed) /\ p \in Nat /\ p = fed - 1
    BY <1>1, <1>3, <1>4, <1>11 DEF Ends, EndsLine
  <2>2. s.upto = s.size - 1
    BY <1>6, <1>8, <2>1 DEF Inside
  <2>3. p > c + Lead(c) /\ p \in c..fed /\ p \in MarkLen..Len(stream) /\ k > 0
    <3> DEFINE lead == Lead(c)
    <3>1. lead \in {0, 1, 2} /\ s.upto > 0 /\ s.size = fed - c - lead
      BY <1>2, <1>6
    <3> HIDE DEF s, lead, p, n
    <3>2. p > c + lead
      BY <1>1, <1>9, <2>1, <2>2, <3>1
    <3>3. p \in c..fed /\ p \in MarkLen..Len(stream)
      BY <1>1, <2>1, <3>1, <3>2
    <3>4. k > 0
      BY <1>1, <1>3, <3>1, <3>2 DEF p
    <3> QED BY <3>2, <3>3, <3>4 DEF lead
  <2>4. ~Ends(p)
    <3>1. p \in (c + 1)..fed
      BY <1>1, <1>2, <2>3
    <3>2. ~Blank(p, fed)
      BY <3>1 DEF NoBlank
    <3>3. ~Pair(p)
      BY <2>1 DEF Pair
    <3>4. p + 1 <= fed /\ Ends(p + 1)
      BY <2>1, <1>1
    <3> QED BY <3>2, <3>3, <3>4 DEF Blank
  <2>5. Inside(c, p) /\ Sound(t) /\ (t.after_cr <=> p > MarkLen /\ stream[p] = "CR")
    BY <2>3, ReferenceSound
  <2>6. /\ t.events = Reference[c].events /\ t.size = p - c - Lead(c)
        /\ t.line # 0 /\ (t.line > 0 => t.upto = t.size)
    BY <2>3, <2>4, <2>5 DEF Inside
  <2>7. t.line \in Nat /\ t.size \in Nat /\ t.upto \in Nat
    BY <2>5 DEF Sound, Reader
  <2> HIDE DEF t, s, p
  <2>8. t.upto > 0 /\ t.upto + 2 > limit
    <3> DEFINE lead == Lead(c)
    <3>1. /\ lead \in {0, 1, 2} /\ s.upto + lead > limit /\ s.size = fed - c - lead
          /\ t.upto = t.size /\ t.size = p - c - lead /\ p > c + lead
      BY <1>2, <1>6, <2>3, <2>6, <2>7
    <3> HIDE DEF lead
    <3> QED BY <1>1, <1>9, <2>1, <2>2, <2>7, <3>1
  <2>9. ~t.after_cr
    BY <2>4, <2>5 DEF Ends, EndsLine
  <2>10. r.line_start = FALSE /\ r.consumed = k
    <3>1. k # 0
      BY <2>3
    <3>2. r.line_start = Ends(c + k) /\ r.consumed = k
      BY <1>4, <1>5, <3>1, Zenon
    <3>3. ~Ends(c + k)
      BY <2>4 DEF p
    <3>4. Ends(c + k) = FALSE
      BY <3>3 DEF Ends
    <3> QED BY <3>2, <3>4, Zenon
  <2>11. t = Reference[c + k] /\ c + k \in MarkLen..Len(stream)
    BY <2>3 DEF t, p
  <2>12. DropsFrom(c, r, k)
    BY <1>5, <2>6, <2>8, <2>9, <2>10, <2>11 DEF DropsFrom
  <2> QED BY <1>3, <2>12
<1> QED BY <1>10, <1>11

\* The error of a buffer over the limit: the event is dropped from here on.
LEMMA PassDrops ==
  ASSUME StreamOK, NEW d, NEW out, DecoderOK(d, out), Between(d, out),
         NEW b, b = find_event_boundary_from(d.buf, d.scan_pos), ~b.found,
         max_payload_size > 0, exceeds_payload_limit(d.buf, max_payload_size),
         NEW r, r = [outcome |-> "too_large", lines |-> <<>>, decoder |-> StartDrain(d)]
  PROVE  PassOK(r, out)
<1> DEFINE c == Gone(d)
           x == scan(d.buf, FALSE)
           new == Append(out, <<>>)
<1>1. /\ d \in Decoders /\ d.scan_pos \in Nat /\ Window(d.buf, c) /\ out \in Seq(Seq(Nat))
  BY DEF DecoderOK, Decoders
<1>2. /\ Len(d.buf) \in Nat /\ c \in Nat /\ fed \in Nat /\ Len(stream) \in Nat
      /\ c + Len(d.buf) = fed /\ fed <= Len(stream) /\ MarkLen \in Nat
  BY <1>1, WindowPlaces
<1>3. /\ c >= MarkLen /\ d.bom_stripped
      /\ Len(out) = Len(Reference[c].events) /\ RightUpTo(out, Reference[c].events, Len(out))
  BY DEF Between
<1>4. NoBlank(c, fed) /\ \A p \in c..fed : Inside(c, p)
  BY NothingFound
<1> HIDE DEF c
<1>5. c \in MarkLen..fed /\ fed \in c..fed
  BY <1>2, <1>3
<1>6. OverLimit(c)
  BY <1>1, <1>4, <1>5, LimitAt
<1>7. PICK k \in 0..Len(d.buf) : DropsFrom(c, x, k)
  BY <1>1, <1>4, <1>5, <1>6, DropBegins
<1> DEFINE p == c + k
           t == Reference[p]
           left == Advanced(d.buf, k)
           mode == IF x.line_start THEN "line_start" ELSE "mid_line"
           e == [d EXCEPT !.buf = left, !.draining = mode]
<1>8. /\ ~x.boundary /\ x.consumed = k /\ p \in MarkLen..Len(stream)
      /\ t.events = Reference[c].events /\ t.upto > 0 /\ t.upto + 2 > max_payload_size
      /\ x.line_start \in BOOLEAN /\ (x.line_start <=> t.line = 0) /\ ~t.after_cr
  BY <1>7 DEF DropsFrom
<1>9. Window(left, p) /\ left \in Seq(Byte)
  <2>1. Window(left, p)
    BY <1>1, <1>7, AdvancedWindow
  <2> QED BY <2>1 DEF Window
<1>10. /\ mode \in {"line_start", "mid_line"}
       /\ mode = "line_start" <=> t.line = 0
  BY <1>8
<1>11. StartDrain(d) = e
  BY <1>8 DEF StartDrain
<1> HIDE DEF x, p, t, left, mode
<1>12. /\ e \in Decoders /\ e.buf = left /\ e.draining = mode
       /\ e.bom_stripped = d.bom_stripped
  BY <1>1, <1>9, <1>10 DEF Decoders
<1> HIDE DEF e
<1>13. Gone(e) = p
  BY <1>9, <1>12, WindowPlaces DEF Gone
<1>14. /\ new \in Seq(Seq(Nat)) /\ Len(new) = Len(out) + 1 /\ Len(out) \in Nat
       /\ \A j \in 1..Len(out) : new[j] = out[j]
       /\ new[Len(out) + 1] = <<>>
  <2>1. <<>> \in Seq(Nat)
    OBVIOUS
  <2> QED BY <1>1, <2>1, AppendProperties, LenProperties
<1> HIDE DEF new
<1>15. Len(new) = Len(t.events) + 1 /\ new[Len(new)] = <<>>
  BY <1>3, <1>8, <1>14
<1>16. RightUpTo(new, t.events, Len(t.events))
  BY <1>3, <1>8, <1>14 DEF RightUpTo
<1>17. t = Reference[p] /\ p >= MarkLen /\ mode # "no"
  BY <1>2, <1>8, <1>10 DEF t
<1>18. Dropping(e, new)
  BY <1>3, <1>8, <1>10, <1>12, <1>13, <1>15, <1>16, <1>17 DEF Dropping
<1>19. DecoderOK(e, new)
  BY <1>9, <1>12, <1>13, <1>14, <1>18 DEF DecoderOK
<1>20. r.outcome = "too_large" /\ r.decoder = e
  BY <1>11
<1> QED BY <1>19, <1>20 DEF PassOK, new

\* A buffer that may still become the mark, or an empty one, waits.
LEMMA PassUntouched ==
  ASSUME StreamOK, NEW d, NEW out, DecoderOK(d, out), Untouched(d, out),
         \A i \in 1..Len(d.buf) : d.buf[i] = "BOM",
         Len(d.buf) > 0 => MarkLen = 3 /\ Len(d.buf) < 3,
         NEW r, r = LoopPass(d, max_payload_size)
  PROVE  PassOK(r, out)
<1> DEFINE b == find_event_boundary_from(d.buf, d.scan_pos)
           n == Len(d.buf)
           limit == max_payload_size
<1>1. /\ d \in Decoders /\ Window(d.buf, Gone(d)) /\ Gone(d) = 0 /\ d.scan_pos = 0 /\ out = <<>>
  BY DEF DecoderOK, Untouched
<1>2. /\ n \in Nat /\ fed \in Nat /\ Len(stream) \in Nat
      /\ n = fed /\ fed <= Len(stream) /\ MarkLen \in Nat /\ MarkLen <= Len(stream)
      /\ limit \in Nat /\ (limit > 0 => limit >= MarkLen)
  BY <1>1, WindowPlaces DEF StreamOK
<1>3. b = NoBoundary
  <2> DEFINE ends == {i \in (d.scan_pos + 1)..Len(d.buf) :
                       LET line_end == consume_line_ending(d.buf, i)
                       IN  /\ d.buf[i] \in EndsLine
                           /\ line_end < Len(d.buf)
                           /\ d.buf[line_end + 1] \in EndsLine}
  <2>1. ends = {}
    <3>1. \A i \in 1..Len(d.buf) : d.buf[i] \notin EndsLine
      BY DEF EndsLine
    <3>2. (d.scan_pos + 1)..Len(d.buf) \subseteq 1..Len(d.buf)
      BY <1>1, <1>2
    <3> QED BY <3>1, <3>2
  <2> HIDE DEF ends
  <2> QED BY <2>1 DEF find_event_boundary_from, ends
<1>4. ~b.found
  BY <1>3 DEF NoBoundary
<1>5. ~(limit > 0 /\ exceeds_payload_limit(d.buf, limit))
  <2> DEFINE ending == IF n > 1 /\ d.buf[n] = "LF" /\ d.buf[n - 1] = "CR" THEN 2
                       ELSE IF n > 0 /\ d.buf[n] \in EndsLine THEN 1
                       ELSE 0
  <2>1. exceeds_payload_limit(d.buf, limit) => n - ending > limit
    BY DEF exceeds_payload_limit
  <2>2. ending \in {0, 1, 2}
    OBVIOUS
  <2> HIDE DEF ending
  <2>3. limit > 0 => n - ending <= limit
    BY <1>2, <2>2
  <2> QED BY <1>2, <2>1, <2>2, <2>3
<1>6. r = [outcome |-> "none", lines |-> <<>>, decoder |-> ScanFrom(d)]
  <2> HIDE DEF b
  <2> QED BY <1>4, <1>5 DEF LoopPass, b
<1>7. ScanFrom(d) = d
  <2>1. ~(n > 2)
    BY <1>2
  <2>2. ScanFrom(d) = [d EXCEPT !.scan_pos = 0]
    BY <2>1 DEF ScanFrom
  <2> QED BY <1>1, <2>2 DEF Decoders
<1>8. fed = Len(stream) => AllTold(out)
  <2>1. SUFFICES ASSUME fed = Len(stream) PROVE AllTold(out)
    OBVIOUS
  <2>2. Len(stream) = 0 /\ MarkLen = 0
    BY <1>2, <2>1
  <2>3. Reference[Len(stream)] = Unread
    BY <2>2, ReferenceEquation
  <2> QED BY <1>1, <2>3 DEF AllTold, Unread
<1> QED BY <1>6, <1>7, <1>8 DEF PassOK

\* Every pass keeps what is known.
LEMMA PassKeeps ==
  ASSUME StreamOK, NEW d, NEW out, DecoderOK(d, out), Between(d, out),
         NEW r, r = LoopPass(d, max_payload_size)
  PROVE  PassOK(r, out)
<1> DEFINE b == find_event_boundary_from(d.buf, d.scan_pos)
           limit == max_payload_size
           over == limit > 0 /\ exceeds_payload_limit(d.buf, limit)
<1>1. CASE b.found
  BY <1>1, FoundPass
<1>2. CASE ~b.found /\ over
  <2>1. r = [outcome |-> "too_large", lines |-> <<>>, decoder |-> StartDrain(d)]
    BY <1>2 DEF LoopPass
  <2> QED BY <1>2, <2>1, PassDrops
<1>3. CASE ~b.found /\ ~over
  <2>1. r = [outcome |-> "none", lines |-> <<>>, decoder |-> ScanFrom(d)]
    BY <1>3 DEF LoopPass
  <2> QED BY <1>3, <2>1, PassWaits
<1> QED BY <1>1, <1>2, <1>3

\* decode_impl up to the end of a pass.
LEMMA DecodeKeeps ==
  ASSUME StreamOK, NEW d, NEW out, DecoderOK(d, out),
         NEW r, r = decode(d, max_payload_size)
  PROVE  PassOK(r, out)
<1> DEFINE d1 == strip_bom(d)
           d2 == IF d1.draining = "no" THEN d1 ELSE DrainStep(d1)
<1>1. r = IF d2.draining # "no" THEN [outcome |-> "none", lines |-> <<>>, decoder |-> d2]
          ELSE LoopPass(d2, max_payload_size)
  BY DEF decode
<1>2. /\ DecoderOK(d1, out)
      /\ ~d1.bom_stripped => /\ Untouched(d1, out)
                             /\ \A i \in 1..Len(d1.buf) : d1.buf[i] = "BOM"
                             /\ Len(d1.buf) > 0 => MarkLen = 3 /\ Len(d1.buf) < 3
  BY StripKeeps
<1> HIDE DEF d1
<1>3. CASE Untouched(d1, out)
  <2>1. d1.draining = "no" /\ ~d1.bom_stripped
    BY <1>3 DEF Untouched
  <2>2. r = LoopPass(d1, max_payload_size)
    BY <1>1, <2>1
  <2> QED BY <1>2, <1>3, <2>1, <2>2, PassUntouched
<1>4. CASE Between(d1, out)
  <2>1. d1.draining = "no"
    BY <1>4 DEF Between
  <2>2. r = LoopPass(d1, max_payload_size)
    BY <1>1, <2>1
  <2> QED BY <1>2, <1>4, <2>2, PassKeeps
<1>5. CASE Dropping(d1, out)
  <2>1. d1.draining # "no"
    BY <1>5 DEF Dropping
  <2>2. d2 = DrainStep(d1)
    BY <2>1
  <2> HIDE DEF d2
  <2>3. /\ DecoderOK(d2, out)
        /\ d2.draining = "no" => Between(d2, out)
        /\ d2.draining # "no" /\ fed = Len(stream) => AllTold(out)
    BY <1>2, <1>5, <2>2, DrainKeeps
  <2>4. CASE d2.draining = "no"
    BY <1>1, <2>3, <2>4, PassKeeps
  <2>5. CASE d2.draining # "no"
    <3>1. r = [outcome |-> "none", lines |-> <<>>, decoder |-> d2]
      BY <1>1, <2>5
    <3>2. r.outcome = "none" /\ r.decoder = d2
      BY <3>1
    <3> QED BY <2>3, <2>5, <3>2 DEF PassOK
  <2> QED BY <2>4, <2>5
<1> QED BY <1>2, <1>3, <1>4, <1>5 DEF DecoderOK

-----------------------------------------------------------------------------
(***************************************************************************)
(* The invariant of the specification.                                     *)
(***************************************************************************)
\* The reader depends on the stream only.
LEMMA SameReader ==
  ASSUME stream' = stream
  PROVE  MarkLen' = MarkLen /\ Reference' = Reference
<1>1. MarkLen' = MarkLen
  BY DEF MarkLen
<1>2. Reference' = Reference
  BY <1>1 DEF Reference
<1> QED BY <1>1, <1>2

\* A decoder and what was returned, when the stream and what was read stay.
LEMMA SameStream ==
  ASSUME stream' = stream, max_payload_size' = max_payload_size, fed' = fed,
         DecoderOK(decoder', delivered')
  PROVE  DecoderOK(decoder, delivered)'
<1>1. MarkLen' = MarkLen /\ Reference' = Reference
  BY SameReader
<1>2. /\ decoder' \in Decoders /\ delivered' \in Seq(Seq(Nat))
      /\ Window(decoder'.buf, Gone(decoder'))
      /\ Untouched(decoder', delivered') \/ Between(decoder', delivered')
           \/ Dropping(decoder', delivered')
  BY DEF DecoderOK
<1>3. Gone(decoder)' = Gone(decoder') /\ (\A c : Idle(c)' <=> Idle(c))
      /\ \A j, p : Blank(j, p)' <=> Blank(j, p)
  BY <1>1 DEF Gone, Idle, Blank, Pair, Ends
<1>4. Window(decoder.buf, Gone(decoder))'
  BY <1>2, <1>3 DEF Window
<1>5. \A out, evs, n : RightUpTo(out, evs, n)' <=> RightUpTo(out, evs, n)
  BY DEF RightUpTo, RightFor
<1>6. CASE Untouched(decoder', delivered')
  <2>1. Untouched(decoder, delivered)'
    BY <1>3, <1>6 DEF Untouched
  <2> QED BY <1>2, <1>4, <2>1 DEF DecoderOK
<1>7. CASE Between(decoder', delivered')
  <2>1. Between(decoder, delivered)'
    BY <1>1, <1>3, <1>5, <1>7 DEF Between
  <2> QED BY <1>2, <1>4, <2>1 DEF DecoderOK
<1>8. CASE Dropping(decoder', delivered')
  <2>1. Dropping(decoder, delivered)'
    BY <1>1, <1>3, <1>5, <1>8 DEF Dropping
  <2> QED BY <1>2, <1>4, <2>1 DEF DecoderOK
<1> QED BY <1>2, <1>6, <1>7, <1>8

\* At first nothing was read.
LEMMA SseInitInv == SseInit => SseInv
<1> SUFFICES ASSUME SseInit PROVE SseInv
  OBVIOUS
<1>1. PICK mark \in {<<>>, Mark} :
         /\ max_payload_size > 0 => max_payload_size >= Len(mark)
         /\ \E n \in 0..(MaxBytes - Len(mark)) :
              \E body \in [1..n -> {"data", "CR", "LF"}] : stream = mark \o body
  BY DEF SseInit
<1>2. PICK n \in 0..(MaxBytes - Len(mark)) :
         \E body \in [1..n -> {"data", "CR", "LF"}] : stream = mark \o body
  BY <1>1
<1>3. PICK body \in [1..n -> {"data", "CR", "LF"}] : stream = mark \o body
  BY <1>2
<1>4. /\ mark \in Seq(Byte) /\ Len(mark) \in {0, 3}
      /\ \A i \in 1..Len(mark) : mark[i] = "BOM"
  <2>1. CASE mark = <<>>
    BY <2>1
  <2>2. CASE mark = Mark
    BY <2>2, MarkBytes
  <2> QED BY <2>1, <2>2
<1>5. /\ body \in Seq(Byte) /\ Len(body) = n /\ n \in Nat
      /\ \A i \in 1..n : body[i] \in {"data", "CR", "LF"}
  <2>1. n \in Nat
    BY <1>4
  <2>2. \A i \in 1..n : body[i] \in {"data", "CR", "LF"}
    OBVIOUS
  <2>3. body \in [1..n -> Byte]
    BY <2>2 DEF Byte
  <2>4. body \in Seq(Byte) /\ Len(body) = n
    BY <2>1, <2>3
  <2> QED BY <2>1, <2>2, <2>4
<1>6. /\ stream \in Seq(Byte)
      /\ Len(stream) = Len(mark) + n
      /\ \A i \in 1..(Len(mark) + n) :
           stream[i] = IF i <= Len(mark) THEN mark[i] ELSE body[i - Len(mark)]
  <2>1. /\ mark \o body \in Seq(Byte)
        /\ Len(mark \o body) = Len(mark) + Len(body)
        /\ \A i \in 1..(Len(mark) + Len(body)) :
             (mark \o body)[i] = IF i <= Len(mark) THEN mark[i] ELSE body[i - Len(mark)]
    <3>1. mark \in Seq(Byte) /\ body \in Seq(Byte)
      BY <1>4, <1>5
    <3> QED BY <3>1, ConcatProperties, ZenonT(30)
  <2>2. Len(body) = n
    BY <1>5
  <2> QED BY <1>3, <2>1, <2>2
<1>7. \A i \in 1..Len(stream) : stream[i] = "BOM" <=> i <= Len(mark)
  <2>1. ASSUME NEW i \in 1..Len(stream) PROVE stream[i] = "BOM" <=> i <= Len(mark)
    <3>1. CASE i <= Len(mark)
      BY <1>4, <1>5, <1>6, <3>1
    <3>2. CASE ~(i <= Len(mark))
      <4>1. i - Len(mark) \in 1..n /\ stream[i] = body[i - Len(mark)]
        BY <1>4, <1>5, <1>6, <3>2
      <4> QED BY <1>5, <3>2, <4>1
    <3> QED BY <3>1, <3>2
  <2> QED BY <2>1
<1>8. MarkLen = Len(mark)
  <2>1. IsPrefix(Mark, stream) <=>
          Len(Mark) <= Len(stream) /\ \A i \in 1..Len(Mark) : Mark[i] = stream[i]
    BY <1>6, PrefixAlike, MarkBytes
  <2>2. IsPrefix(Mark, stream) <=> 3 <= Len(stream) /\ \A i \in 1..3 : stream[i] = "BOM"
    BY <2>1, MarkBytes
  <2>3. CASE Len(mark) = 3
    <3>1. 3 <= Len(stream) /\ 1..3 \subseteq 1..Len(stream)
      BY <1>5, <1>6, <2>3
    <3>2. \A i \in 1..3 : stream[i] = "BOM"
      BY <1>7, <2>3, <3>1
    <3> QED BY <2>2, <2>3, <3>1, <3>2 DEF MarkLen
  <2>4. CASE Len(mark) = 0
    <3>1. ~(3 <= Len(stream) /\ \A i \in 1..3 : stream[i] = "BOM")
      <4>1. 3 <= Len(stream) => 1 \in 1..Len(stream)
        BY <1>5, <1>6, <2>4
      <4>2. 1 \in 1..3
        OBVIOUS
      <4> QED BY <1>7, <2>4, <4>1, <4>2
    <3> QED BY <2>2, <2>4, <3>1 DEF MarkLen
  <2> QED BY <1>4, <2>3, <2>4
<1>9. fed = 0 /\ decoder = NewDecoder /\ delivered = <<>> /\ reading = "decode"
      /\ max_payload_size \in Nat
  BY SseDecoderAssumption DEF SseInit
<1>10. StreamOK
  <2>1. MarkLen <= Len(stream) /\ fed \in 0..Len(stream)
    BY <1>4, <1>5, <1>6, <1>8, <1>9
  <2> QED BY <1>1, <1>4, <1>6, <1>7, <1>8, <1>9, <2>1 DEF StreamOK
<1>11. DecoderOK(decoder, delivered)
  <2>1. decoder \in Decoders /\ decoder.buf = <<>>
    BY <1>9 DEF NewDecoder, Decoders
  <2>2. Gone(decoder) = 0
    <3>1. Len(decoder.buf) = 0
      BY <2>1
    <3> QED BY <1>9, <3>1 DEF Gone
  <2>3. Window(decoder.buf, 0)
    BY <1>9, <2>1 DEF Window
  <2>4. Untouched(decoder, delivered)
    BY <1>9, <2>2 DEF Untouched, NewDecoder
  <2> QED BY <1>9, <2>1, <2>2, <2>3, <2>4 DEF DecoderOK
<1> QED BY <1>9, <1>10, <1>11 DEF SseInv

\* A frame only adds to the end of the buffer.
LEMMA FrameKeeps ==
  ASSUME SseInv, NEW n \in 0..MaxBytes, NextFrame(n)
  PROVE  SseInv'
<1> DEFINE c == Gone(decoder)
           frame == SubSeq(stream, fed + 1, fed + n)
           buf == decoder.buf \o frame
<1>1. /\ StreamOK /\ DecoderOK(decoder, delivered) /\ decoder \in Decoders
      /\ Window(decoder.buf, c) /\ decoder.buf \in Seq(Byte) /\ stream \in Seq(Byte)
  BY DEF SseInv, StreamOK, DecoderOK, Decoders
<1>2. /\ fed + n <= Len(stream) /\ fed' = fed + n
      /\ decoder' = [decoder EXCEPT !.buf = buf]
      /\ reading' = "decode" /\ stream' = stream
      /\ max_payload_size' = max_payload_size /\ delivered' = delivered
  BY DEF NextFrame
<1>3. /\ Len(decoder.buf) \in Nat /\ c \in Nat /\ fed \in Nat /\ Len(stream) \in Nat
      /\ c + Len(decoder.buf) = fed /\ fed <= Len(stream) /\ n \in Nat
  BY <1>1, WindowPlaces, SseDecoderAssumption
<1>4. /\ frame \in Seq(Byte) /\ Len(frame) = n
      /\ \A i \in 1..n : frame[i] = stream[fed + i]
  <2>1. \A i \in (fed + 1)..(fed + n) : stream[i] \in Byte
    BY <1>1, <1>2, <1>3, ElementOfSeq
  <2>2. /\ frame \in Seq(Byte)
        /\ Len(frame) = IF fed + 1 <= fed + n THEN (fed + n) - (fed + 1) + 1 ELSE 0
        /\ \A i \in 1..((fed + n) - (fed + 1) + 1) : frame[i] = stream[(fed + 1) + i - 1]
    BY <1>3, <2>1, SubSeqProperties
  <2> HIDE DEF frame
  <2> QED BY <1>3, <2>2
<1> HIDE DEF frame
<1>5. /\ buf \in Seq(Byte) /\ Len(buf) = Len(decoder.buf) + n
      /\ \A i \in 1..(Len(decoder.buf) + n) :
           buf[i] = IF i <= Len(decoder.buf) THEN decoder.buf[i] ELSE frame[i - Len(decoder.buf)]
  BY <1>1, <1>4, ConcatProperties
<1> HIDE DEF buf
<1>6. /\ decoder' \in Decoders /\ decoder'.buf = buf
      /\ decoder'.scan_pos = decoder.scan_pos /\ decoder'.draining = decoder.draining
      /\ decoder'.bom_stripped = decoder.bom_stripped
  BY <1>1, <1>2, <1>5 DEF Decoders
<1>7. Gone(decoder)' = c /\ c + Len(buf) = fed' /\ fed' \in Nat /\ Len(decoder.buf) <= Len(buf)
      /\ fed <= fed'
  <2>1. c + Len(buf) = fed' /\ fed' \in Nat /\ Len(decoder.buf) <= Len(buf) /\ fed <= fed'
        /\ Len(buf) \in Nat
    BY <1>2, <1>3, <1>5
  <2> HIDE DEF c
  <2>2. fed' - Len(buf) = c
    BY <1>3, <2>1
  <2> QED BY <1>6, <2>1, <2>2 DEF Gone
<1>8. MarkLen' = MarkLen /\ Reference' = Reference
  BY <1>2, SameReader
<1> HIDE DEF c
<1>9. Window(decoder.buf, Gone(decoder))'
  <2>1. ASSUME NEW i \in 1..Len(buf) PROVE buf[i] = stream[c + i]
    <3>1. CASE i <= Len(decoder.buf)
      BY <1>1, <1>3, <1>5, <3>1 DEF Window
    <3>2. CASE ~(i <= Len(decoder.buf))
      <4> DEFINE j == i - Len(decoder.buf)
      <4>1. j \in 1..n /\ fed + j = c + i
        <5> DEFINE m == Len(decoder.buf)
        <5>1. i \in 1..(m + n) /\ m \in Nat /\ c + m = fed /\ ~(i <= m)
          BY <1>3, <1>5, <3>2
        <5> HIDE DEF m
        <5>2. i - m \in 1..n /\ fed + (i - m) = c + i
          BY <1>3, <5>1
        <5> QED BY <5>2 DEF m
      <4>2. buf[i] = frame[j]
        BY <1>5, <3>2
      <4> HIDE DEF j
      <4>3. frame[j] = stream[fed + j]
        BY <1>4, <4>1
      <4> QED BY <4>1, <4>2, <4>3
    <3> QED BY <3>1, <3>2
  <2> QED BY <1>2, <1>3, <1>5, <1>6, <1>7, <2>1 DEF Window
<1>10. /\ \A k : Idle(k)' <=> Idle(k)
       /\ \A j, p : Blank(j, p)' <=> Blank(j, p)
       /\ \A out, evs, k : RightUpTo(out, evs, k)' <=> RightUpTo(out, evs, k)
  BY <1>2, <1>8 DEF Idle, Blank, Pair, Ends, RightUpTo, RightFor
<1>11. DecoderOK(decoder, delivered)'
  <2>1. CASE Untouched(decoder, delivered)
    <3>1. Untouched(decoder, delivered)'
      BY <1>2, <1>6, <1>7, <2>1 DEF Untouched, c
    <3> QED BY <1>1, <1>2, <1>6, <1>9, <3>1 DEF DecoderOK
  <2>2. CASE Between(decoder, delivered)
    <3>1. decoder.scan_pos = 0 \/ decoder.scan_pos + 2 <= Len(buf)
      <4>1. decoder.scan_pos \in Nat /\ Len(buf) \in Nat
        BY <1>1, <1>3, <1>5 DEF Decoders
      <4>2. decoder.scan_pos = 0 \/ decoder.scan_pos + 2 <= Len(decoder.buf)
        BY <2>2 DEF Between
      <4> QED BY <1>3, <1>7, <4>1, <4>2, SMTT(30)
    <3>2. Between(decoder, delivered)'
      BY <1>2, <1>6, <1>7, <1>8, <1>10, <2>2, <3>1 DEF Between, c
    <3> QED BY <1>1, <1>2, <1>6, <1>9, <3>2 DEF DecoderOK
  <2>3. CASE Dropping(decoder, delivered)
    <3>1. c < fed => c < fed'
      BY <1>3, <1>7
    <3>2. Dropping(decoder, delivered)'
      BY <1>2, <1>6, <1>7, <1>8, <1>10, <2>3, <3>1 DEF Dropping, c
    <3> QED BY <1>1, <1>2, <1>6, <1>9, <3>2 DEF DecoderOK
  <2> QED BY <1>1, <2>1, <2>2, <2>3 DEF DecoderOK
<1>12. StreamOK'
  <2>1. fed' \in 0..Len(stream)
    BY <1>2, <1>3
  <2> QED BY <1>1, <1>2, <1>8, <2>1 DEF StreamOK
<1> QED BY <1>2, <1>11, <1>12 DEF SseInv

\* Every step keeps the invariant.
LEMMA SseNextInv == SseInv /\ [SseNext]_sseVars => SseInv'
<1> SUFFICES ASSUME SseInv, [SseNext]_sseVars PROVE SseInv'
  OBVIOUS
<1> DEFINE Same == /\ stream' = stream /\ max_payload_size' = max_payload_size /\ fed' = fed
<1>1. ASSUME Same PROVE StreamOK'
  <2>1. MarkLen' = MarkLen
    BY <1>1, SameReader
  <2> QED BY <1>1, <2>1 DEF StreamOK, SseInv
<1>2. ASSUME Same, decoder' = decoder, delivered' = delivered PROVE DecoderOK(decoder, delivered)'
  BY <1>2, SameStream DEF SseInv
<1>3. ASSUME Same, delivered' = delivered PROVE AllTold(delivered) => AllTold(delivered)'
  <2>1. Reference' = Reference
    BY <1>3, SameReader
  <2> QED BY <1>3, <2>1 DEF AllTold
<1>4. CASE Decode
  <2> DEFINE r == decode(decoder, max_payload_size)
  <2>1. PassOK(r, delivered)
    BY DecodeKeeps DEF SseInv
  <2>2. Same /\ decoder' = r.decoder /\ reading \in {"decode", "ended"}
    BY <1>4 DEF Decode
  <2>3. reading \in {"decode", "ended"} /\ (reading = "ended" => fed = Len(stream))
    BY <2>2 DEF SseInv
  <2>4. CASE r.outcome = "message" /\ delivered' = Append(delivered, r.lines) /\ reading' = reading
    <3>1. DecoderOK(decoder', delivered')
      <4> HIDE DEF r
      <4> QED BY <2>1, <2>2, <2>4 DEF PassOK
    <3> HIDE DEF r
    <3>2. DecoderOK(decoder, delivered)'
      BY <2>2, <3>1, SameStream
    <3> QED BY <1>1, <2>2, <2>3, <2>4, <3>2 DEF SseInv
  <2>5. CASE r.outcome = "too_large" /\ delivered' = Append(delivered, <<>>) /\ reading' = reading
    <3>1. DecoderOK(decoder', delivered')
      <4> HIDE DEF r
      <4> QED BY <2>1, <2>2, <2>5 DEF PassOK
    <3> HIDE DEF r
    <3>2. DecoderOK(decoder, delivered)'
      BY <2>2, <3>1, SameStream
    <3> QED BY <1>1, <2>2, <2>3, <2>5, <3>2 DEF SseInv
  <2>6. CASE r.outcome = "skip" /\ delivered' = delivered /\ reading' = reading
    <3>1. DecoderOK(decoder', delivered')
      <4> HIDE DEF r
      <4> QED BY <2>1, <2>2, <2>6 DEF PassOK
    <3> HIDE DEF r
    <3>2. DecoderOK(decoder, delivered)'
      BY <2>2, <3>1, SameStream
    <3> QED BY <1>1, <2>2, <2>3, <2>6, <3>2 DEF SseInv
  <2>7. CASE /\ r.outcome = "none" /\ delivered' = delivered
             /\ reading' = IF reading = "ended" THEN "done" ELSE "frame"
    <3>1. DecoderOK(decoder', delivered') /\ (fed = Len(stream) => AllTold(delivered))
      <4> HIDE DEF r
      <4> QED BY <2>1, <2>2, <2>7 DEF PassOK
    <3> HIDE DEF r
    <3>2. DecoderOK(decoder, delivered)'
      BY <2>2, <3>1, SameStream
    <3>3. reading' = "done" => fed' = Len(stream') /\ AllTold(delivered)'
      BY <1>3, <2>2, <2>3, <2>7, <3>1
    <3>4. reading' \in {"done", "frame"}
      BY <2>7
    <3> QED BY <1>1, <2>2, <3>2, <3>3, <3>4 DEF SseInv
  <2> HIDE DEF r
  <2> QED BY <1>4, <2>4, <2>5, <2>6, <2>7 DEF Decode, r
<1>5. CASE \E n \in 0..MaxBytes : NextFrame(n)
  BY <1>5, FrameKeeps
<1>6. CASE BodyEnds
  BY <1>1, <1>2, <1>6 DEF BodyEnds, SseInv
<1>7. CASE BodyErrs
  BY <1>1, <1>2, <1>7 DEF BodyErrs, SseInv
<1>8. CASE UNCHANGED sseVars
  BY <1>1, <1>2, <1>3, <1>8 DEF sseVars, SseInv
<1> QED BY <1>4, <1>5, <1>6, <1>7, <1>8 DEF SseNext

\* The outcomes are those of the whole stream's events: each is right for the event
\* before the buffer that it stands for, an error may stand for the event that is
\* still being dropped, and the events before the buffer are the stream's first ones.
LEMMA InvSplit == SseInv => SplitInvariant
<1> SUFFICES ASSUME SseInv PROVE SplitInvariant
  OBVIOUS
<1> DEFINE c == Gone(decoder)
           L == Len(stream)
           s == Reference[c]
           ref == Reference[L]
           open == [lines |-> <<0>>, size |-> ref.upto]
           all == IF ref.upto > 0 THEN Append(ref.events, open) ELSE ref.events
<1>1. StreamOK /\ DecoderOK(decoder, delivered) /\ (reading = "done" => AllTold(delivered))
  BY DEF SseInv
<1>2. delivered \in Seq(Seq(Nat)) /\ Window(decoder.buf, c)
  BY <1>1 DEF DecoderOK
<1>3. /\ Len(decoder.buf) \in Nat /\ c \in Nat /\ fed \in Nat /\ L \in Nat
      /\ c + Len(decoder.buf) = fed /\ fed <= L /\ MarkLen \in Nat /\ MarkLen <= L
  BY <1>1, <1>2, WindowPlaces DEF StreamOK
<1>4. Len(delivered) \in Nat /\ DOMAIN delivered = 1..Len(delivered)
  BY <1>2, LenProperties
<1>5. ref.events \in Seq(Event) /\ ref.upto \in Nat /\ Len(ref.events) \in Nat
  <2>1. L \in MarkLen..L
    BY <1>3
  <2> HIDE DEF ref
  <2>2. Sound(ref)
    BY <1>1, <2>1, ReferenceSound DEF ref
  <2> QED BY <2>2, LenProperties DEF Sound, Reader
<1> HIDE DEF ref
<1>6. /\ Len(all) \in Nat /\ Len(ref.events) <= Len(all)
      /\ \A k \in 1..Len(ref.events) : all[k] = ref.events[k]
      /\ ref.upto > 0 => /\ Len(all) = Len(ref.events) + 1
                         /\ all[Len(ref.events) + 1].size = ref.upto
  <2>1. CASE ref.upto > 0
    <3>1. open \in Event /\ open.size = ref.upto
      BY <1>5 DEF Event
    <3> HIDE DEF open
    <3>2. all = Append(ref.events, open)
      BY <2>1
    <3> QED BY <1>5, <3>1, <3>2, AppendProperties
  <2>2. CASE ~(ref.upto > 0)
    BY <1>5, <2>2
  <2> QED BY <2>1, <2>2
<1> HIDE DEF all, c
<1>7. /\ Len(delivered) <= Len(all)
      /\ \A k \in 1..Len(delivered) : RightFor(delivered[k], all[k])
  <2>1. CASE Untouched(decoder, delivered)
    <3>1. Len(delivered) = 0
      BY <2>1 DEF Untouched
    <3> QED BY <1>6, <3>1
  <2>2. ASSUME c >= MarkLen
        PROVE  /\ Kept(s, ref) /\ Len(s.events) \in Nat /\ s.upto \in Nat
    <3>1. c \in MarkLen..L /\ L \in c..L
      BY <1>3, <2>2
    <3>2. Sound(s)
      BY <1>1, <3>1, ReferenceSound
    <3>3. Kept(s, ref)
      BY <1>1, <3>1, EventsKept DEF ref
    <3> QED BY <3>2, <3>3, LenProperties DEF Sound, Reader
  <2>3. CASE Between(decoder, delivered)
    <3>1. c >= MarkLen /\ Len(delivered) = Len(s.events)
          /\ RightUpTo(delivered, s.events, Len(delivered))
      BY <2>3 DEF Between, c
    <3> HIDE DEF s
    <3>2. /\ Len(s.events) <= Len(ref.events)
          /\ \A j \in 1..Len(s.events) : ref.events[j] = s.events[j]
      BY <2>2, <3>1 DEF Kept
    <3>3. ASSUME NEW k \in 1..Len(delivered) PROVE RightFor(delivered[k], all[k])
      <4>1. k \in 1..Len(s.events) /\ k \in 1..Len(ref.events)
        BY <1>4, <1>5, <2>2, <3>1, <3>2
      <4>2. all[k] = s.events[k]
        BY <1>6, <3>2, <4>1
      <4> QED BY <3>1, <4>2 DEF RightUpTo
    <3> QED BY <1>4, <1>5, <1>6, <3>1, <3>2, <3>3
  <2>4. CASE Dropping(decoder, delivered)
    <3>1. /\ c >= MarkLen /\ s.upto > 0 /\ Len(delivered) = Len(s.events) + 1
          /\ RightUpTo(delivered, s.events, Len(s.events))
          /\ delivered[Len(delivered)] = <<>>
          /\ max_payload_size > 0 /\ s.upto + 2 > max_payload_size
      BY <2>4 DEF Dropping, c
    <3> HIDE DEF s
    <3>2. /\ Len(s.events) <= Len(ref.events)
          /\ \A j \in 1..Len(s.events) : ref.events[j] = s.events[j]
          /\ \/ Len(ref.events) = Len(s.events) /\ ref.upto >= s.upto
             \/ /\ Len(ref.events) > Len(s.events)
                /\ ref.events[Len(s.events) + 1].size >= s.upto
      BY <2>2, <3>1 DEF Kept
    <3>3. max_payload_size \in Nat
      BY <1>1 DEF StreamOK
    <3> DEFINE last == all[Len(delivered)]
    <3>4. Len(delivered) <= Len(all) /\ last.size >= s.upto /\ last.size \in Nat
      <4>1. CASE Len(ref.events) = Len(s.events) /\ ref.upto >= s.upto
        <5>1. ref.upto > 0
          BY <1>5, <2>2, <3>1, <4>1
        <5>2. Len(all) = Len(delivered) /\ last.size = ref.upto
          BY <1>6, <3>1, <4>1, <5>1
        <5> QED BY <1>4, <1>5, <4>1, <5>2
      <4>2. CASE /\ Len(ref.events) > Len(s.events)
                 /\ ref.events[Len(s.events) + 1].size >= s.upto
        <5>1. Len(delivered) \in 1..Len(ref.events)
          BY <1>4, <1>5, <2>2, <3>1, <4>2
        <5>2. last = ref.events[Len(delivered)] /\ last \in Event
          BY <1>5, <1>6, <5>1, ElementOfSeq
        <5>3. last.size \in Nat
          BY <5>2 DEF Event
        <5> HIDE DEF last
        <5>4. last.size >= s.upto
          BY <3>1, <4>2, <5>2
        <5> QED BY <1>4, <1>5, <1>6, <5>1, <5>3, <5>4 DEF last
      <4> QED BY <3>2, <4>1, <4>2
    <3> HIDE DEF last
    <3>5. RightFor(<<>>, last)
      <4>1. last.size + 2 > max_payload_size
        BY <2>2, <3>1, <3>3, <3>4
      <4> QED BY <3>1, <4>1 DEF RightFor
    <3>6. ASSUME NEW k \in 1..Len(delivered) PROVE RightFor(delivered[k], all[k])
      <4>1. CASE k = Len(delivered)
        BY <3>1, <3>5, <4>1 DEF last
      <4>2. CASE k # Len(delivered)
        <5>1. k \in 1..Len(s.events) /\ k \in 1..Len(ref.events)
          BY <1>4, <1>5, <2>2, <3>1, <3>2, <4>2
        <5>2. all[k] = s.events[k]
          BY <1>6, <3>2, <5>1
        <5> QED BY <3>1, <5>1, <5>2 DEF RightUpTo
      <4> QED BY <4>1, <4>2
    <3> QED BY <3>4, <3>6
  <2> QED BY <1>1, <2>1, <2>3, <2>4 DEF DecoderOK
<1>8. reading = "done" => Len(delivered) >= Len(ref.events)
  BY <1>1 DEF AllTold, ref
<1> QED BY <1>4, <1>7, <1>8 DEF SplitInvariant, all, ref

\* The inductive invariant of the decoder: what was read into the buffer and not yet
\* taken off is the stream's, at a place where the byte-by-byte reader is between two
\* events, or inside one whose error was returned, and the outcomes returned are
\* right for the events before that place.
THEOREM SseInvariant == SseSpec => []SseInv
<1>1. SseInit => SseInv
  BY SseInitInv
<1>2. SseInv /\ [SseNext]_sseVars => SseInv'
  BY SseNextInv
<1> QED BY <1>1, <1>2, PTL DEF SseSpec

\* Wherever the frames are cut, the messages of sse/stream.rs's poll_next are those of
\* the body read byte by byte: in order, none lost, merged or returned twice, an error
\* only in the place of an event at the limit, for bodies and limits of any size.
THEOREM MessagesAreTheStreams == SseSpec => []SplitInvariant
<1>1. SseInv => SplitInvariant
  BY InvSplit
<1> QED BY <1>1, SseInvariant, PTL
=============================================================================
