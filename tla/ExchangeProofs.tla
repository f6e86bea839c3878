--------------------------- MODULE ExchangeProofs ---------------------------
(***************************************************************************)
(* Proofs about the parts of an exchange: an upload is cancelled only for  *)
(* someone who gave the exchange up (DetachedUploadKept), for any number   *)
(* of frames; a chunked download that succeeds over ranges returns the     *)
(* file (AssembledWhole), for any size and any number of chunks; a         *)
(* connection race gives up only when every address was tried and failed   *)
(* (RaceTriesAll), for any answer of the resolver; and a body under a      *)
(* bandwidth limit sleeps without a waker only when its timer had run out  *)
(* at its first poll (BodiesAreWoken), for any frames of any number of     *)
(* bodies.                                                                 *)
(***************************************************************************)
EXTENDS Upload, ChunkDownload, HappyEyeballs, Bandwidth,
        FiniteSetTheorems, SequenceTheorems, WellFoundedInduction, TLAPS

(***************************************************************************)
(* The upload.                                                             *)
(***************************************************************************)
\* Somebody gave the exchange up.
Abandoned == body = "dropped" \/ outcome \in {"timeout", "error", "dropped"}

\* A cancellation, sent or heard, is on behalf of someone who gave up; there is
\* no response body before the request's future has ended.
UploadInv ==
    /\ UploadTypeOK
    /\ outcome = "waiting" => body = "none"
    /\ control = "cancel" => Abandoned
    /\ uploader = "cancelled" => Abandoned

\* Initially nobody has cancelled.
LEMMA UploadInitInv == UploadInit => UploadInv
<1> SUFFICES ASSUME UploadInit PROVE UploadInv
  OBVIOUS
<1>1. UploadTypeOK
  BY UploadAssumption DEF UploadInit, UploadTypeOK
<1> QED BY <1>1 DEF UploadInit, UploadInv

\* Every step of the three tasks keeps the invariant.
LEMMA UploadNextInv == UploadInv /\ [UploadNext]_uploadVars => UploadInv'
<1> SUFFICES ASSUME UploadInv, [UploadNext]_uploadVars PROVE UploadInv'
  OBVIOUS
<1> USE UploadAssumption DEF UploadInv, UploadTypeOK, Abandoned
<1>1. CASE BodyFrame
  BY <1>1 DEF BodyFrame
<1>2. CASE BodyDry
  BY <1>2 DEF BodyDry
<1>0. ASSUME NEW r \in {"ok", "err"}, Reports(r)
      PROVE  result' \in {"none", "ok", "err"} /\ woken' \in BOOLEAN
  BY <1>0 DEF Reports
<1>3. CASE BodyFails
  BY <1>0, <1>3 DEF BodyFails
<1>4. CASE UploadFinishes
  BY <1>0, <1>4 DEF UploadFinishes
<1>5. CASE WriteFails
  BY <1>0, <1>5 DEF WriteFails
<1>6. CASE PeerStops("ok")
  BY <1>0, <1>6 DEF PeerStops
<1>7. CASE PeerStops("err")
  BY <1>0, <1>7 DEF PeerStops
<1>8. CASE HearsCancel
  BY <1>8 DEF HearsCancel
<1>9. CASE HearsDetach
  BY <1>9 DEF HearsDetach
<1>10. CASE ServerAnswers
  BY <1>10 DEF ServerAnswers
<1>11. CASE Poll
  <2>1. CASE FutureReady
    <3>0. UNCHANGED <<driver, frames, ends_with_frame, complete, uploader, result, replied>>
          /\ sleep' \in {"none", "armed", "over"} /\ woken' \in BOOLEAN /\ outcome = "waiting"
      BY <1>11 DEF Poll
    <3>1. CASE FutureEnds("error")
      BY <3>0, <3>1 DEF FutureEnds
    <3>2. CASE outcome' = "response" /\ body' = "reading" /\ control' \in {"guarded", "gone"}
      BY <3>0, <3>2
    <3> QED BY <2>1, <3>1, <3>2 DEF FutureReady
  <2>2. CASE ~FutureReady
    BY <1>11, <2>2 DEF Poll, FutureEnds
  <2> QED BY <2>1, <2>2
<1>12. CASE SleepFires
  BY <1>12 DEF SleepFires
<1>13. CASE RequestFails("dropped")
  BY <1>13 DEF RequestFails, FutureEnds
<1>14. CASE RequestFails("error")
  BY <1>14 DEF RequestFails, FutureEnds
<1>15. CASE BodyRead
  BY <1>15 DEF BodyRead
<1>16. CASE ResponseDropped
  BY <1>16 DEF ResponseDropped
<1>17. CASE UNCHANGED uploadVars
  BY <1>17 DEF uploadVars
<1> QED
  BY <1>1, <1>2, <1>3, <1>4, <1>5, <1>6, <1>7, <1>8, <1>9, <1>10, <1>11, <1>12,
     <1>13, <1>14, <1>15, <1>16, <1>17 DEF UploadNext

\* The invariant holds in every state of an upload.
THEOREM UploadInvariant == UploadSpec => []UploadInv
BY UploadInitInv, UploadNextInv, PTL DEF UploadSpec

\* The state of FirstByteTimeout, supervise_upload and its channels keeps its
\* type.
THEOREM UploadTypes == UploadSpec => []UploadTypeOK
<1>1. UploadInv => UploadTypeOK
  BY DEF UploadInv
<1> QED BY UploadInvariant, <1>1, PTL

\* supervise_upload is cancelled only after the request failed, timed out or was
\* dropped, or its response was dropped unread: never once the response body
\* was read to its end.
THEOREM UploadDetachedKept == UploadSpec => []DetachedUploadKept
<1>1. UploadInv => DetachedUploadKept
  BY DEF UploadInv, DetachedUploadKept, Abandoned
<1> QED BY UploadInvariant, <1>1, PTL

(***************************************************************************)
(* The chunked download: the arithmetic of its ranges.                     *)
(***************************************************************************)
\* A file whose chunks are fetched: it has bytes and somebody wants chunks.
Divided == total_size \in Nat \ {0} /\ chunks \in Nat \ {0}

\* The chunks are at most as many as the bytes and do not reach past the file.
LEMMA Division ==
  ASSUME Divided
  PROVE  /\ num_chunks \in Nat \ {0}
         /\ chunk_size \in Nat
         /\ num_chunks * chunk_size <= total_size
<1>1. num_chunks \in Nat \ {0}
  BY DEF Divided, num_chunks
<1>2. \A t \in Nat, n \in Nat \ {0} : t \div n \in Nat /\ n * (t \div n) <= t
  OBVIOUS
<1> QED BY <1>1, <1>2 DEF Divided, chunk_size

\* The ranges follow one another: the first begins the file, each next one
\* begins behind the one before, the last ends the file, and none ends before it begins.
LEMMA RangesTile ==
  ASSUME Divided, NEW i \in 1..num_chunks
  PROVE  /\ RangeEnd(0) = -1 /\ RangeEnd(num_chunks) = total_size - 1
         /\ RangeStart(i) = RangeEnd(i - 1) + 1
         /\ RangeStart(i) \in Nat
         /\ RangeEnd(i) \in Int
         /\ RangeStart(i) <= RangeEnd(i) + 1
<1> DEFINE n == num_chunks
           q == chunk_size
<1>1. n \in Nat \ {0} /\ q \in Nat /\ n * q <= total_size /\ total_size \in Nat
  BY Division DEF Divided
<1>2. i \in Nat /\ i >= 1 /\ i <= n
  BY <1>1
<1>3. \A a \in Nat, b \in Nat : a <= b => a * q <= b * q /\ a * q \in Nat
  <2> HIDE DEF q
  <2> QED BY <1>1
<1>4. (i - 1) * q \in Nat /\ (i - 1) * q <= i * q /\ i * q <= n * q /\ i * q \in Nat
  BY <1>1, <1>2, <1>3
<1>5. RangeStart(i) = (i - 1) * q
  BY DEF RangeStart
<1>6. RangeEnd(i) = IF i = n THEN total_size - 1 ELSE i * q - 1
  BY DEF RangeEnd
<1>7. RangeEnd(i - 1) = (i - 1) * q - 1
  <2>1. i - 1 # n
    BY <1>1, <1>2
  <2> QED BY <2>1 DEF RangeEnd
<1>8. RangeEnd(0) = -1
  <2>1. 0 * q = 0 /\ 0 # n
    BY <1>1
  <2> QED BY <2>1 DEF RangeEnd
<1>9. RangeEnd(n) = total_size - 1
  BY DEF RangeEnd
<1> HIDE DEF n, q
<1>10. RangeStart(i) = RangeEnd(i - 1) + 1
  BY <1>4, <1>5, <1>7
<1>11. RangeStart(i) <= RangeEnd(i) + 1 /\ RangeEnd(i) \in Int
  BY <1>1, <1>2, <1>4, <1>5, <1>6
<1> QED BY <1>4, <1>5, <1>8, <1>9, <1>10, <1>11 DEF n

\* Bytes is a sequence, as long as the range it names.
LEMMA BytesAreSeq ==
  ASSUME NEW a \in Nat, NEW b \in Int, a <= b + 1
  PROVE  /\ Bytes(a, b) \in Seq(Int)
         /\ Len(Bytes(a, b)) = b + 1 - a
         /\ \A k \in 1..(b + 1 - a) : Bytes(a, b)[k] = a + k - 1
<1> DEFINE l == b + 1 - a
<1>1. l \in Nat
  OBVIOUS
<1> HIDE DEF l
<1>2. Bytes(a, b) = [k \in 1..l |-> a + k - 1]
  BY DEF Bytes, l
<1>3. \A k \in 1..l : a + k - 1 \in Int
  BY <1>1
<1>4. Bytes(a, b) \in [1..l -> Int] /\ \A k \in 1..l : Bytes(a, b)[k] = a + k - 1
  BY <1>2, <1>3
<1>5. Bytes(a, b) \in Seq(Int)
  BY <1>1, <1>4
<1>6. Len(Bytes(a, b)) = l
  BY <1>1, <1>4, <1>5
<1> QED BY <1>4, <1>5, <1>6 DEF l

\* Two adjacent ranges of bytes make one.
LEMMA BytesJoin ==
  ASSUME NEW a \in Nat, NEW b \in Int, a <= b + 1
  PROVE  Bytes(0, a - 1) \o Bytes(a, b) = Bytes(0, b)
<1> DEFINE s == Bytes(0, a - 1)
           t == Bytes(a, b)
           u == Bytes(0, b)
<1>1. s \in Seq(Int) /\ Len(s) = a /\ \A k \in 1..a : s[k] = k - 1
  <2>1. a - 1 \in Int /\ 0 <= (a - 1) + 1 /\ (a - 1) + 1 - 0 = a
    OBVIOUS
  <2>2. /\ s \in Seq(Int) /\ Len(s) = (a - 1) + 1 - 0
        /\ \A k \in 1..((a - 1) + 1 - 0) : s[k] = 0 + k - 1
    BY <2>1, BytesAreSeq
  <2> HIDE DEF s
  <2> QED BY <2>1, <2>2
<1>2. t \in Seq(Int) /\ Len(t) = b + 1 - a /\ \A k \in 1..(b + 1 - a) : t[k] = a + k - 1
  BY BytesAreSeq
<1>3. u \in Seq(Int) /\ Len(u) = b + 1 /\ \A k \in 1..(b + 1) : u[k] = k - 1
  <2>1. 0 <= b + 1 /\ b + 1 - 0 = b + 1
    OBVIOUS
  <2>2. /\ u \in Seq(Int) /\ Len(u) = b + 1 - 0
        /\ \A k \in 1..(b + 1 - 0) : u[k] = 0 + k - 1
    BY <2>1, BytesAreSeq
  <2> HIDE DEF u
  <2> QED BY <2>1, <2>2
<1> HIDE DEF s, t, u
<1>4. /\ s \o t \in Seq(Int) /\ Len(s \o t) = b + 1
      /\ \A k \in 1..(b + 1) : (s \o t)[k] = IF k <= a THEN s[k] ELSE t[k - a]
  <2>1. /\ s \o t \in Seq(Int) /\ Len(s \o t) = Len(s) + Len(t)
        /\ \A k \in 1..(Len(s) + Len(t)) :
              (s \o t)[k] = IF k <= Len(s) THEN s[k] ELSE t[k - Len(s)]
    BY <1>1, <1>2, ConcatProperties
  <2>2. Len(s) + Len(t) = b + 1
    BY <1>1, <1>2
  <2> QED BY <1>1, <2>1, <2>2
<1>5. ASSUME NEW k \in 1..(b + 1) PROVE (s \o t)[k] = u[k]
  <2>1. u[k] = k - 1
    BY <1>3
  <2>2. CASE k <= a
    <3>1. s[k] = k - 1
      BY <1>1, <2>2
    <3> QED BY <1>4, <2>1, <2>2, <3>1
  <2>3. CASE ~(k <= a)
    <3>1. k - a \in 1..(b + 1 - a) /\ a + (k - a) - 1 = k - 1
      BY <2>3
    <3>2. t[k - a] = a + (k - a) - 1
      BY <1>2, <3>1
    <3> QED BY <1>4, <2>1, <2>3, <3>1, <3>2
  <2> QED BY <2>2, <2>3
<1>6. s \o t = u
  BY <1>3, <1>4, <1>5, SeqEqual
<1> QED BY <1>6 DEF s, t, u

(***************************************************************************)
(* The chunked download: what its channel and its results hold.            *)
(***************************************************************************)
\* What chunk i may answer with.
ResultsOf(i) ==
    {[is |-> "bytes", data |-> Bytes(RangeStart(i), RangeEnd(i))],
     [is |-> "error", data |-> <<>>]}

Unanswered == [is |-> "none", data |-> <<>>]

\* A message pairs an index with an answer of that chunk.
Messages == UNION {{i} \X ResultsOf(i) : i \in 1..num_chunks}

Entries == {Unanswered} \cup (UNION {ResultsOf(i) : i \in 1..num_chunks})

\* While the chunks are collected, there is a task and a result for each; every
\* message and every result is the chunk's own.
CollectingOK ==
    /\ Divided
    /\ DOMAIN tasks = 1..num_chunks
    /\ channel \in Seq(Messages)
    /\ results \in Seq(Entries) /\ DOMAIN results = 1..num_chunks
    /\ \A i \in 1..num_chunks : results[i] \in ResultsOf(i) \cup {Unanswered}

ChunkInv ==
    /\ total_size \in Nat /\ chunks \in Nat \ {0}
    /\ transfer \in {"head", "collecting", "whole", "failed"}
    /\ transfer = "head" => tasks = <<>> /\ channel = <<>>
    /\ transfer = "collecting" => CollectingOK
    /\ AssembledWhole

\* Every set of natural numbers has a least one.
LEMMA LeastOf ==
  ASSUME NEW T, T \subseteq Nat, T # {}
  PROVE  \E x \in T : \A y \in T : x <= y
<1>1. PICK x \in T : \A y \in T : ~(<<y, x>> \in OpToRel(<, Nat))
  BY NatLessThanWellFounded, WFMin, Zenon
<1>2. ASSUME NEW y \in T, y < x PROVE FALSE
  <2>1. <<y, x>> \in OpToRel(<, Nat)
    BY <1>2 DEF OpToRel
  <2> QED BY <1>1, <2>1
<1> QED BY <1>2

\* The pieces of chunks that all answered with their bytes, put together by
\* index, are the file: the equation of Pieces has a solution, and only one.
LEMMA PiecesMakeTheFile ==
  ASSUME CollectingOK, \A i \in DOMAIN results : results[i].is = "bytes"
  PROVE  Pieces[Len(results)] = Bytes(0, total_size - 1)
<1> DEFINE n == num_chunks
           Prefix(i) == Bytes(0, RangeEnd(i))
<1>1. n \in Nat \ {0}
  BY Division DEF CollectingOK
<1>2. Len(results) = n
  <2>1. Len(results) \in Nat /\ 1..Len(results) = 1..n
    <3>1. DOMAIN results = 1..n /\ results \in Seq(Entries)
      BY DEF CollectingOK
    <3> QED BY <3>1, LenProperties
  <2> HIDE DEF n
  <2>2. n \in 1..Len(results)
    BY <1>1, <2>1
  <2>3. Len(results) \in 1..n
    BY <1>1, <2>1, <2>2
  <2> QED BY <1>1, <2>1, <2>2, <2>3
<1>3. ASSUME NEW i \in 1..n
      PROVE  results[i].data = Bytes(RangeStart(i), RangeEnd(i))
  <2>1. results[i] \in ResultsOf(i) \cup {Unanswered} /\ results[i].is = "bytes"
    BY DEF CollectingOK
  <2> QED BY <2>1 DEF ResultsOf, Unanswered
<1>4. Prefix(0) = <<>> /\ Prefix(n) = Bytes(0, total_size - 1)
  <2>1. 1 \in 1..n
    BY <1>1
  <2>2. RangeEnd(0) = -1 /\ RangeEnd(n) = total_size - 1
    BY <2>1, RangesTile DEF CollectingOK
  <2>3. Bytes(0, -1) = <<>>
    <3>1. Bytes(0, -1) \in Seq(Int) /\ Len(Bytes(0, -1)) = 0
      BY BytesAreSeq
    <3> QED BY <3>1, EmptySeq
  <2> QED BY <2>2, <2>3
<1>5. ASSUME NEW i \in 1..n
      PROVE  Prefix(i) = Prefix(i - 1) \o results[i].data
  <2> DEFINE a == RangeStart(i)
             b == RangeEnd(i)
  <2>1. a = RangeEnd(i - 1) + 1 /\ a \in Nat /\ b \in Int /\ a <= b + 1
    BY RangesTile DEF CollectingOK
  <2>2. RangeEnd(i - 1) = a - 1
    <3>1. RangeEnd(i - 1) \in Int
      BY Division, <1>1 DEF RangeEnd, CollectingOK, Divided
    <3> HIDE DEF a
    <3> QED BY <2>1, <3>1
  <2>3. Bytes(0, a - 1) \o Bytes(a, b) = Bytes(0, b)
    <3> HIDE DEF a, b
    <3> QED BY <2>1, BytesJoin
  <2> QED BY <1>3, <2>2, <2>3
<1> HIDE DEF Prefix
<1>6. Pieces = [i \in 0..Len(results) |->
                  IF i = 0 THEN <<>> ELSE Pieces[i - 1] \o results[i].data]
  <2> DEFINE g == [i \in 0..Len(results) |-> Prefix(i)]
  <2>1. ASSUME NEW i \in 0..Len(results)
        PROVE  Prefix(i) = IF i = 0 THEN <<>> ELSE g[i - 1] \o results[i].data
    <3>1. CASE i = 0
      BY <1>4, <3>1
    <3>2. CASE i # 0
      <4>1. i \in 1..n /\ i - 1 \in 0..Len(results)
        <5> HIDE DEF n
        <5> QED BY <1>1, <1>2, <3>2
      <4>2. g[i - 1] = Prefix(i - 1)
        BY <4>1
      <4> QED BY <1>5, <3>2, <4>1, <4>2
    <3> QED BY <3>1, <3>2
  <2>2. g = [i \in 0..Len(results) |->
               IF i = 0 THEN <<>> ELSE g[i - 1] \o results[i].data]
    BY <2>1
  <2>3. \E f : f = [i \in 0..Len(results) |->
                      IF i = 0 THEN <<>> ELSE f[i - 1] \o results[i].data]
    BY <2>2
  <2> QED BY <2>3 DEF Pieces
<1>7. \A i \in 0..n : Pieces[i] = Prefix(i)
  <2> DEFINE T == {i \in 0..n : Pieces[i] # Prefix(i)}
  <2>1. SUFFICES ASSUME T # {} PROVE FALSE
    OBVIOUS
  <2>2. PICK i \in T : \A j \in T : i <= j
    <3>1. T \subseteq Nat
      BY <1>1
    <3> HIDE DEF T
    <3> QED BY <2>1, <3>1, LeastOf
  <2>3. i \in 0..n /\ Pieces[i] # Prefix(i)
    BY <2>2
  <2>4. Pieces[i] = IF i = 0 THEN <<>> ELSE Pieces[i - 1] \o results[i].data
    BY <1>2, <1>6, <2>3
  <2>5. CASE i = 0
    BY <1>4, <2>3, <2>4, <2>5
  <2>6. CASE i # 0
    <3>1. i \in 1..n /\ i - 1 \in 0..n /\ ~(i <= i - 1)
      <4> HIDE DEF n
      <4> QED BY <1>1, <2>3, <2>6
    <3>2. Pieces[i - 1] = Prefix(i - 1)
      BY <2>2, <3>1
    <3>3. Pieces[i] = Prefix(i)
      BY <1>5, <2>4, <2>6, <3>1, <3>2
    <3> QED BY <2>3, <3>3
  <2> QED BY <2>5, <2>6
<1> QED
  <2>1. n \in 0..n
    BY <1>1
  <2> QED BY <1>2, <1>4, <1>7, <2>1

\* Initially nothing was asked for.
LEMMA ChunkInitInv == ChunkInit => ChunkInv
BY ChunkDownloadAssumption DEF ChunkInit, ChunkInv, AssembledWhole

\* The sets the invariant speaks of depend on the size and the chunks only.
LEMMA ShapeKept ==
  ASSUME UNCHANGED <<total_size, chunks>>
  PROVE  /\ num_chunks' = num_chunks
         /\ Messages' = Messages /\ Entries' = Entries
         /\ \A i : ResultsOf(i)' = ResultsOf(i)
         /\ Divided' <=> Divided
<1>1. num_chunks' = num_chunks
  BY DEF num_chunks
<1>2. chunk_size' = chunk_size
  BY <1>1 DEF chunk_size
<1>3. \A i : RangeStart(i)' = RangeStart(i) /\ RangeEnd(i)' = RangeEnd(i)
  BY <1>1, <1>2 DEF RangeStart, RangeEnd
<1>4. \A i : ResultsOf(i)' = ResultsOf(i)
  BY <1>3 DEF ResultsOf
<1>5. Messages' = Messages /\ Entries' = Entries
  BY <1>1, <1>4 DEF Messages, Entries
<1>6. Divided' <=> Divided
  BY DEF Divided
<1> QED BY <1>1, <1>4, <1>5, <1>6

\* The chunks are spawned: one task and no result for each.
LEMMA SpawnChunksInv ==
  ASSUME ChunkInv, SpawnChunks
  PROVE  ChunkInv'
<1>1. Divided
  BY DEF ChunkInv, SpawnChunks, Divided
<1>2. /\ transfer = "head" /\ transfer' = "collecting"
      /\ tasks' = [i \in 1..num_chunks |-> "running"]
      /\ results' = [i \in 1..num_chunks |-> Unanswered]
      /\ UNCHANGED <<total_size, chunks, ranged, channel, file>>
  BY DEF SpawnChunks, Unanswered
<1>3. num_chunks \in Nat
  BY <1>1, Division
<1>4. channel' \in Seq(Messages)
  <2>1. channel' = <<>>
    BY <1>2 DEF ChunkInv
  <2> QED BY <2>1, EmptySeq
<1>5. results' \in Seq(Entries) /\ DOMAIN results' = 1..num_chunks
  <2>1. Unanswered \in Entries
    BY DEF Entries
  <2> HIDE DEF Unanswered
  <2>2. results' \in [1..num_chunks -> Entries]
    BY <1>2, <2>1
  <2> QED BY <1>2, <1>3, <2>2
<1>6. \A i \in 1..num_chunks : results'[i] \in ResultsOf(i) \cup {Unanswered}
  BY <1>2
<1>7. DOMAIN tasks' = 1..num_chunks
  BY <1>2
<1>8. CollectingOK'
  <2>1. /\ num_chunks' = num_chunks /\ Messages' = Messages /\ Entries' = Entries
        /\ \A i : ResultsOf(i)' = ResultsOf(i)
        /\ Divided' /\ Unanswered' = Unanswered
    BY <1>1, <1>2, ShapeKept DEF Unanswered
  <2> QED BY <1>4, <1>5, <1>6, <1>7, <2>1 DEF CollectingOK
<1> QED BY <1>2, <1>8 DEF ChunkInv, AssembledWhole

\* A task's answer joins the channel while somebody collects.
LEMMA ChunkAnswersInv ==
  ASSUME ChunkInv, NEW i \in 1..MaxChunks, ChunkAnswers(i)
  PROVE  ChunkInv'
<1>1. /\ i \in DOMAIN tasks
      /\ tasks' = [tasks EXCEPT ![i] = "sent"]
      /\ UNCHANGED <<total_size, chunks, ranged, results, transfer, file>>
  BY DEF ChunkAnswers
<1>2. PICK r \in ResultsOf(i) :
        channel' = IF transfer = "collecting" THEN Append(channel, <<i, r>>) ELSE channel
  BY DEF ChunkAnswers, ResultsOf
<1>3. transfer # "head"
  BY <1>1 DEF ChunkInv
<1>4. CASE transfer = "collecting"
  <2>1. CollectingOK
    BY <1>4 DEF ChunkInv
  <2>2. i \in 1..num_chunks
    BY <1>1, <2>1 DEF CollectingOK
  <2>3. <<i, r>> \in Messages
    BY <2>2 DEF Messages
  <2>4. channel' \in Seq(Messages)
    <3>1. channel \in Seq(Messages) /\ channel' = Append(channel, <<i, r>>)
      BY <1>2, <1>4, <2>1 DEF CollectingOK
    <3> QED BY <2>3, <3>1, AppendProperties
  <2>5. DOMAIN tasks' = DOMAIN tasks
    BY <1>1
  <2>6. /\ num_chunks' = num_chunks /\ Messages' = Messages /\ Entries' = Entries
        /\ \A j : ResultsOf(j)' = ResultsOf(j)
        /\ (Divided' <=> Divided) /\ Unanswered' = Unanswered
    BY <1>1, ShapeKept DEF Unanswered
  <2>7. CollectingOK'
    BY <1>1, <2>1, <2>4, <2>5, <2>6 DEF CollectingOK
  <2> QED BY <1>1, <1>4, <2>7 DEF ChunkInv, AssembledWhole
<1>5. CASE transfer # "collecting"
  BY <1>1, <1>3, <1>5 DEF ChunkInv, AssembledWhole
<1> QED BY <1>4, <1>5

\* A lost task leaves nothing behind.
LEMMA ChunkLostInv ==
  ASSUME ChunkInv, NEW i \in 1..MaxChunks, ChunkLost(i)
  PROVE  ChunkInv'
<1>1. /\ i \in DOMAIN tasks
      /\ tasks' = [tasks EXCEPT ![i] = "lost"]
      /\ UNCHANGED <<total_size, chunks, ranged, channel, results, transfer, file>>
  BY DEF ChunkLost
<1>2. transfer # "head" /\ DOMAIN tasks' = DOMAIN tasks
  BY <1>1 DEF ChunkInv
<1>3. CollectingOK => CollectingOK'
  <2>1. /\ num_chunks' = num_chunks /\ Messages' = Messages /\ Entries' = Entries
        /\ \A j : ResultsOf(j)' = ResultsOf(j)
        /\ (Divided' <=> Divided) /\ Unanswered' = Unanswered
    BY <1>1, ShapeKept DEF Unanswered
  <2> QED BY <1>1, <1>2, <2>1 DEF CollectingOK
<1> QED BY <1>1, <1>2, <1>3 DEF ChunkInv, AssembledWhole

\* A message received fills the result of its own chunk.
LEMMA CollectInv ==
  ASSUME ChunkInv, Collect
  PROVE  ChunkInv'
<1>1. /\ transfer = "collecting" /\ channel # <<>>
      /\ results' = [results EXCEPT ![Head(channel)[1]] = Head(channel)[2]]
      /\ channel' = Tail(channel)
      /\ UNCHANGED <<total_size, chunks, ranged, tasks, transfer, file>>
  BY DEF Collect
<1>2. CollectingOK
  BY <1>1 DEF ChunkInv
<1>3. Head(channel) \in Messages /\ channel' \in Seq(Messages)
  <2>1. channel \in Seq(Messages)
    BY <1>2 DEF CollectingOK
  <2> QED BY <1>1, <2>1, HeadTailProperties
<1>4. PICK i \in 1..num_chunks : Head(channel) \in {i} \X ResultsOf(i)
  BY <1>3 DEF Messages
<1> DEFINE r == Head(channel)[2]
<1>5. r \in ResultsOf(i) /\ results' = [results EXCEPT ![i] = r]
  BY <1>1, <1>4
<1> HIDE DEF r
<1>6. /\ results \in Seq(Entries) /\ DOMAIN results = 1..num_chunks
      /\ \A j \in 1..num_chunks : results[j] \in ResultsOf(j) \cup {Unanswered}
  BY <1>2 DEF CollectingOK
<1>7. r \in Entries
  BY <1>5 DEF Entries
<1>8. results' \in Seq(Entries) /\ DOMAIN results' = 1..num_chunks
  <2>1. i \in 1..Len(results)
    BY <1>6, LenProperties
  <2> QED BY <1>5, <1>6, <1>7, <2>1, ExceptSeq
<1>9. \A j \in 1..num_chunks : results'[j] \in ResultsOf(j) \cup {Unanswered}
  BY <1>5, <1>6
<1>10. CollectingOK'
  <2>1. /\ num_chunks' = num_chunks /\ Messages' = Messages /\ Entries' = Entries
        /\ \A j : ResultsOf(j)' = ResultsOf(j)
        /\ (Divided' <=> Divided) /\ Unanswered' = Unanswered
    BY <1>1, ShapeKept DEF Unanswered
  <2> QED BY <1>1, <1>2, <1>3, <1>8, <1>9, <2>1 DEF CollectingOK
<1> QED BY <1>1, <1>10 DEF ChunkInv, AssembledWhole

\* Every step of the download keeps the invariant.
LEMMA ChunkNextInv == ChunkInv /\ [ChunkNext]_chunkVars => ChunkInv'
<1> SUFFICES ASSUME ChunkInv, [ChunkNext]_chunkVars PROVE ChunkInv'
  OBVIOUS
<1>1. CASE HeadFails
  BY <1>1 DEF HeadFails, ChunkInv, AssembledWhole
<1>2. CASE PlainGetBody
  BY <1>2 DEF PlainGetBody, ChunkInv, AssembledWhole
<1>3. CASE SpawnChunks
  BY <1>3, SpawnChunksInv
<1>4. CASE \E i \in 1..MaxChunks : ChunkAnswers(i) \/ ChunkLost(i)
  BY <1>4, ChunkAnswersInv, ChunkLostInv
<1>5. CASE Collect
  BY <1>5, CollectInv
<1>6. CASE CollectClosed
  BY <1>6 DEF CollectClosed, ChunkInv, AssembledWhole
<1>7. CASE Assemble
  <2>1. CollectingOK /\ UNCHANGED <<total_size, chunks, ranged>>
    BY <1>7 DEF Assemble, ChunkInv
  <2>2. CASE transfer' = "failed"
    BY <2>1, <2>2 DEF ChunkInv, AssembledWhole
  <2>3. CASE transfer' # "failed"
    <3>1. /\ \A i \in DOMAIN results : results[i].is = "bytes"
          /\ file' = Pieces[Len(results)] /\ transfer' = "whole"
      BY <1>7, <2>3 DEF Assemble
    <3>2. file' = Bytes(0, total_size - 1)
      BY <2>1, <3>1, PiecesMakeTheFile
    <3> QED BY <2>1, <3>1, <3>2 DEF ChunkInv, AssembledWhole
  <2> QED BY <2>2, <2>3
<1>8. CASE UNCHANGED chunkVars
  <2>1. UNCHANGED <<total_size, chunks, ranged, tasks, channel, results, transfer, file>>
    BY <1>8 DEF chunkVars
  <2>2. /\ num_chunks' = num_chunks /\ Messages' = Messages /\ Entries' = Entries
        /\ \A j : ResultsOf(j)' = ResultsOf(j)
        /\ (Divided' <=> Divided) /\ Unanswered' = Unanswered
    BY <2>1, ShapeKept DEF Unanswered
  <2>3. CollectingOK => CollectingOK'
    BY <2>1, <2>2 DEF CollectingOK
  <2> QED BY <2>1, <2>3 DEF ChunkInv, AssembledWhole
<1> QED
  BY <1>1, <1>2, <1>3, <1>4, <1>5, <1>6, <1>7, <1>8 DEF ChunkNext

\* The invariant holds in every state of a chunked download.
THEOREM ChunkInvariant == ChunkSpec => []ChunkInv
BY ChunkInitInv, ChunkNextInv, PTL DEF ChunkSpec

\* ChunkDownloadSend::download returns, when it asked for ranges and succeeds,
\* every byte of the file once and in order, for every size, number of chunks and
\* order of answers.  (A plain GET may return the body of an error response.)
THEOREM ChunkAssembledWhole == ChunkSpec => []AssembledWhole
<1>1. ChunkInv => AssembledWhole
  BY DEF ChunkInv
<1> QED BY ChunkInvariant, <1>1, PTL
-----------------------------------------------------------------------------
(***************************************************************************)
(* The race for a connection.                                              *)
(***************************************************************************)
Families == {"v4", "v6"}

\* A larger finite set of numbers counts more.
LEMMA CountsMore ==
  ASSUME NEW n \in Nat, NEW S \in SUBSET (1..n), NEW T \in SUBSET S, NEW x \in S, x \notin T
  PROVE  /\ Cardinality(T) \in Nat /\ Cardinality(S) \in 0..n
         /\ Cardinality(T) < Cardinality(S)
<1>1. IsFiniteSet(1..n) /\ Cardinality(1..n) = n
  BY FS_Interval
<1>2. IsFiniteSet(S) /\ Cardinality(S) <= n
  BY <1>1, FS_Subset
<1>3. IsFiniteSet(T) /\ Cardinality(T) <= Cardinality(S) /\ Cardinality(S) # Cardinality(T)
  BY <1>2, FS_Subset
<1>4. Cardinality(S) \in Nat /\ Cardinality(T) \in Nat
  BY <1>2, <1>3, FS_CardinalityType
<1> QED BY <1>2, <1>3, <1>4

\* No two addresses have their turn at the same time.
LEMMA TurnsDiffer ==
  ASSUME NEW addrs, Len(addrs) \in Nat, \A i \in 1..Len(addrs) : addrs[i][1] \in Families
  PROVE  \A i, j \in 1..Len(addrs) :
            /\ Turn(addrs, i) \in Nat
            /\ Turn(addrs, i) = Turn(addrs, j) => i = j
<1> DEFINE n == Len(addrs)
           Before(i) == {j \in 1..(i - 1) : addrs[j][1] = addrs[i][1]}
<1>1. ASSUME NEW i \in 1..n PROVE Pass(addrs, i) = Cardinality(Before(i)) /\ Pass(addrs, i) \in Nat
  <2>1. Pass(addrs, i) = Cardinality(Before(i))
    BY DEF Pass
  <2>2. IsFiniteSet(1..(i - 1))
    BY FS_Interval
  <2>3. IsFiniteSet(Before(i))
    BY <2>2, FS_Subset
  <2> QED BY <2>1, <2>3, FS_CardinalityType
<1>2. ASSUME NEW i \in 1..n, NEW j \in 1..n, i < j, addrs[i][1] = addrs[j][1]
      PROVE  Pass(addrs, i) < Pass(addrs, j)
  <2>1. Before(j) \in SUBSET (1..n) /\ Before(i) \in SUBSET Before(j)
        /\ i \in Before(j) /\ i \notin Before(i)
    BY <1>2
  <2> HIDE DEF Before
  <2> QED BY <1>1, <2>1, CountsMore
<1>3. ASSUME NEW i \in 1..n PROVE Turn(addrs, i) \in Nat
  <2> DEFINE a == Pass(addrs, i)
             x == IF addrs[i][1] = addrs[1][1] THEN 0 ELSE 1
  <2>1. a \in Nat /\ x \in {0, 1} /\ Turn(addrs, i) = 2 * a + x
    BY <1>1 DEF Turn
  <2> HIDE DEF a, x
  <2> QED BY <2>1
<1>4. ASSUME NEW i \in 1..n, NEW j \in 1..n, Turn(addrs, i) = Turn(addrs, j) PROVE i = j
  <2> DEFINE a == Pass(addrs, i)
             b == Pass(addrs, j)
             lead == addrs[1][1]
             x == IF addrs[i][1] = lead THEN 0 ELSE 1
             y == IF addrs[j][1] = lead THEN 0 ELSE 1
  <2>1. a \in Nat /\ b \in Nat /\ x \in {0, 1} /\ y \in {0, 1} /\ 2 * a + x = 2 * b + y
    BY <1>1, <1>4 DEF Turn
  <2>2. x = y /\ a = b
    <3> HIDE DEF a, b, x, y
    <3> QED BY <2>1
  <2>3. addrs[i][1] = addrs[j][1]
    <3>1. addrs[i][1] = lead <=> addrs[j][1] = lead
      BY <2>2
    <3>2. 1 \in 1..n
      OBVIOUS
    <3>3. addrs[i][1] \in Families /\ addrs[j][1] \in Families /\ lead \in Families
      BY <3>2
    <3> QED BY <3>1, <3>3 DEF Families
  <2>4. ~(a < b) /\ ~(b < a)
    BY <2>1, <2>2
  <2> QED BY <1>2, <2>3, <2>4
<1> QED BY <1>3, <1>4

\* Every address has a place of its own.
LEMMA PlacesDiffer ==
  ASSUME NEW addrs, Len(addrs) \in Nat, \A i \in 1..Len(addrs) : addrs[i][1] \in Families
  PROVE  /\ \A i \in 1..Len(addrs) : Place(addrs, i) \in 1..Len(addrs)
         /\ \A i, j \in 1..Len(addrs) : Place(addrs, i) = Place(addrs, j) => i = j
         /\ \A p \in 1..Len(addrs) : \E i \in 1..Len(addrs) : Place(addrs, i) = p
<1> DEFINE n == Len(addrs)
           t(i) == Turn(addrs, i)
           UpTo(i) == {j \in 1..n : t(j) <= t(i)}
<1>1. \A i, j \in 1..n : t(i) \in Nat /\ (t(i) = t(j) => i = j)
  BY TurnsDiffer
<1>2. \A i \in 1..n : Place(addrs, i) = Cardinality(UpTo(i))
  BY DEF Place
<1> HIDE DEF t
<1>3. ASSUME NEW i \in 1..n PROVE Place(addrs, i) \in 1..n
  <2>1. UpTo(i) \in SUBSET (1..n) /\ {} \in SUBSET UpTo(i) /\ i \in UpTo(i) /\ i \notin {}
    BY <1>1
  <2> HIDE DEF UpTo
  <2>2. Cardinality({}) \in Nat /\ Cardinality(UpTo(i)) \in 0..n
        /\ Cardinality({}) < Cardinality(UpTo(i))
    BY <2>1, CountsMore
  <2> QED BY <1>2, <2>2
<1>4. ASSUME NEW i \in 1..n, NEW j \in 1..n, t(i) < t(j) PROVE Place(addrs, i) < Place(addrs, j)
  <2>1. UpTo(j) \in SUBSET (1..n) /\ UpTo(i) \in SUBSET UpTo(j) /\ j \in UpTo(j)
        /\ j \notin UpTo(i)
    BY <1>1, <1>4
  <2> HIDE DEF UpTo
  <2>2. Cardinality(UpTo(i)) < Cardinality(UpTo(j))
    BY <2>1, CountsMore
  <2> QED BY <1>2, <2>2
<1>5. ASSUME NEW i \in 1..n, NEW j \in 1..n, i # j PROVE Place(addrs, i) # Place(addrs, j)
  <2>1. t(i) < t(j) \/ t(j) < t(i)
    BY <1>1, <1>5
  <2>2. Place(addrs, i) \in Nat /\ Place(addrs, j) \in Nat
    BY <1>3
  <2> QED BY <1>4, <2>1, <2>2
<1>6. ASSUME NEW p \in 1..n PROVE \E i \in 1..n : Place(addrs, i) = p
  <2> DEFINE f == [i \in 1..n |-> Place(addrs, i)]
             S == 1..n
             T == S \ {p}
  <2>1. SUFFICES ASSUME \A i \in 1..n : Place(addrs, i) # p PROVE FALSE
    OBVIOUS
  <2>2. IsFiniteSet(S) /\ Cardinality(S) = n
    BY FS_Interval
  <2>3. IsFiniteSet(T) /\ Cardinality(T) = n - 1
    <3> HIDE DEF S
    <3>1. p \in S
      BY DEF S
    <3> QED BY <2>2, <3>1, FS_RemoveElement
  <2>4. f \in [S -> T]
    BY <1>3, <2>1
  <2> HIDE DEF f, S, T
  <2>5. Cardinality(T) < Cardinality(S)
    BY <2>2, <2>3
  <2>6. PICK x \in S, y \in S : x # y /\ f[x] = f[y]
    BY <2>2, <2>3, <2>4, <2>5, FS_PigeonHole
  <2> QED BY <1>5, <2>6 DEF f, S
<1> QED BY <1>3, <1>5, <1>6

\* interleave_addrs keeps every address and repeats none.
LEMMA Interleaved ==
  ASSUME NEW addrs, Len(addrs) \in Nat, \A i \in 1..Len(addrs) : addrs[i][1] \in Families
  PROVE  /\ \A p \in 1..Len(addrs) : \E i \in 1..Len(addrs) :
               interleave_addrs(addrs)[p] = addrs[i] /\ Place(addrs, i) = p
         /\ \A i \in 1..Len(addrs) : \E p \in 1..Len(addrs) : interleave_addrs(addrs)[p] = addrs[i]
<1> DEFINE n == Len(addrs)
           w(p) == CHOOSE i \in 1..n : Place(addrs, i) = p
           order == interleave_addrs(addrs)
<1>1. /\ \A i \in 1..n : Place(addrs, i) \in 1..n
      /\ \A i, j \in 1..n : Place(addrs, i) = Place(addrs, j) => i = j
      /\ \A p \in 1..n : \E i \in 1..n : Place(addrs, i) = p
  BY PlacesDiffer
<1>2. \A p \in 1..n : w(p) \in 1..n /\ Place(addrs, w(p)) = p
  BY <1>1
<1>3. \A p \in 1..n : order[p] = addrs[w(p)]
  BY DEF interleave_addrs
<1> HIDE DEF w, order
<1>4. ASSUME NEW p \in 1..n PROVE \E i \in 1..n : order[p] = addrs[i] /\ Place(addrs, i) = p
  BY <1>2, <1>3
<1>5. ASSUME NEW i \in 1..n PROVE \E p \in 1..n : order[p] = addrs[i]
  <2> DEFINE p == Place(addrs, i)
  <2>1. p \in 1..n /\ w(p) = i
    BY <1>1, <1>2
  <2> HIDE DEF p
  <2> QED BY <1>3, <2>1
<1> QED BY <1>4, <1>5 DEF order

\* An address that was started is being tried or has refused.
Settled(x) == x \in ToSet(attempts) \/ fate[x] = "refuses"

\* While the race runs something is being tried, and as long as an address is left
\* the delay is not the one that never ends.
RaceGoesOn ==
    race = "running" => attempts # <<>> /\ (delay = "pending" <=> Exhausted)

\* The race fails only when every address the resolver returned has refused, and
\* connects only to one that accepts.
RaceTrue ==
    /\ race = "failed" => \A x \in ToSet(resolved) : fate[x] = "refuses"
    /\ race = "connected" => \E x \in ToSet(resolved) : fate[x] = "connects"

RaceTypeOK ==
    /\ resolved \in Seq(Address)
    /\ next_idx \in 0..Len(resolved)
    /\ attempts \in Seq(ToSet(resolved))
    /\ race \in {"running", "connected", "failed"}

RaceInv ==
    /\ RaceTypeOK
    /\ RaceGoesOn
    /\ race # "connected" => \A k \in 1..next_idx : Settled(interleave_addrs(resolved)[k])
    /\ race = "failed" => next_idx = Len(resolved) /\ attempts = <<>>
    /\ race = "connected" => \E x \in ToSet(resolved) : fate[x] = "connects"

\* The addresses of an answer, and that its interleaving holds them.
LEMMA AnswerAddresses ==
  ASSUME resolved \in Seq(Address)
  PROVE  /\ Len(resolved) \in Nat
         /\ ToSet(resolved) = {resolved[i] : i \in 1..Len(resolved)}
         /\ \A p \in 1..Len(resolved) : interleave_addrs(resolved)[p] \in ToSet(resolved)
         /\ \A x \in ToSet(resolved) :
               \E p \in 1..Len(resolved) : interleave_addrs(resolved)[p] = x
<1>1. Len(resolved) \in Nat /\ DOMAIN resolved = 1..Len(resolved)
  BY LenProperties
<1>2. ToSet(resolved) = {resolved[i] : i \in 1..Len(resolved)}
  BY <1>1 DEF ToSet
<1>3. \A i \in 1..Len(resolved) : resolved[i][1] \in Families
  <2>1. \A i \in 1..Len(resolved) : resolved[i] \in Address
    BY <1>1, ElementOfSeq
  <2> QED BY <2>1 DEF Address, Families
<1>4. /\ \A p \in 1..Len(resolved) : \E i \in 1..Len(resolved) :
            interleave_addrs(resolved)[p] = resolved[i]
      /\ \A i \in 1..Len(resolved) : \E p \in 1..Len(resolved) :
            interleave_addrs(resolved)[p] = resolved[i]
  BY <1>1, <1>3, Interleaved
<1>5. \A p \in 1..Len(resolved) : interleave_addrs(resolved)[p] \in ToSet(resolved)
  <2> SUFFICES ASSUME NEW p \in 1..Len(resolved)
               PROVE  interleave_addrs(resolved)[p] \in ToSet(resolved)
    OBVIOUS
  <2>1. PICK i \in 1..Len(resolved) : interleave_addrs(resolved)[p] = resolved[i]
    BY <1>4
  <2> QED BY <1>2, <2>1, Zenon
<1>6. \A x \in ToSet(resolved) :
          \E p \in 1..Len(resolved) : interleave_addrs(resolved)[p] = x
  <2> SUFFICES ASSUME NEW x \in ToSet(resolved)
               PROVE  \E p \in 1..Len(resolved) : interleave_addrs(resolved)[p] = x
    OBVIOUS
  <2>1. PICK i \in 1..Len(resolved) : x = resolved[i]
    BY <1>2, Zenon
  <2> QED BY <1>4, <2>1, Zenon
<1> QED BY <1>1, <1>2, <1>5, <1>6

\* The elements of a sequence.
LEMMA ElementsOf ==
  ASSUME NEW S, NEW s \in Seq(S)
  PROVE  /\ Len(s) \in Nat /\ DOMAIN s = 1..Len(s)
         /\ ToSet(s) = {s[i] : i \in 1..Len(s)}
         /\ ToSet(s) \subseteq S
         /\ s = <<>> <=> Len(s) = 0
<1>1. Len(s) \in Nat /\ DOMAIN s = 1..Len(s)
  BY LenProperties
<1>2. \A i \in 1..Len(s) : s[i] \in S
  BY ElementOfSeq
<1>3. s = <<>> <=> Len(s) = 0
  BY EmptySeq
<1> QED BY <1>1, <1>2, <1>3 DEF ToSet

\* An attempt that joins keeps the others.
LEMMA Joins ==
  ASSUME NEW S, NEW s \in Seq(S), NEW x \in S
  PROVE  /\ Append(s, x) \in Seq(S)
         /\ ToSet(Append(s, x)) = ToSet(s) \cup {x}
         /\ Append(s, x) # <<>>
<1> DEFINE t == Append(s, x)
<1>1. /\ Len(s) \in Nat /\ ToSet(s) = {s[i] : i \in 1..Len(s)}
  BY ElementsOf
<1>2. /\ t \in Seq(S) /\ Len(t) = Len(s) + 1 /\ \A i \in 1..Len(s) : t[i] = s[i]
      /\ t[Len(s) + 1] = x
  BY AppendProperties
<1> HIDE DEF t
<1>3. ToSet(t) = {t[i] : i \in 1..Len(t)} /\ (t = <<>> <=> Len(t) = 0)
  BY <1>2, ElementsOf
<1>4. 1..Len(t) = 1..Len(s) \cup {Len(s) + 1}
  BY <1>1, <1>2
<1>5. ToSet(t) = ToSet(s) \cup {x}
  BY <1>1, <1>2, <1>3, <1>4
<1>6. t # <<>>
  BY <1>1, <1>2, <1>3
<1> QED BY <1>2, <1>5, <1>6 DEF t

\* swap_remove takes out one attempt and keeps the others.
LEMMA SwapRemoves ==
  ASSUME NEW S, NEW s \in Seq(S), NEW i \in 1..Len(s)
  PROVE  /\ swap_remove(s, i) \in Seq(S)
         /\ ToSet(s) \subseteq ToSet(swap_remove(s, i)) \cup {s[i]}
<1> DEFINE t == swap_remove(s, i)
           m == Len(s) - 1
<1>1. /\ Len(s) \in Nat /\ ToSet(s) = {s[k] : k \in 1..Len(s)}
      /\ \A k \in 1..Len(s) : s[k] \in S
  BY ElementsOf, ElementOfSeq
<1>2. m \in Nat /\ Len(s) \in 1..Len(s)
  BY <1>1
<1>3. t = [j \in 1..m |-> IF j = i THEN s[Len(s)] ELSE s[j]]
  BY DEF swap_remove
<1>4. t \in [1..m -> S]
  <2>1. ASSUME NEW j \in 1..m PROVE (IF j = i THEN s[Len(s)] ELSE s[j]) \in S
    BY <1>1, <1>2
  <2> HIDE DEF m
  <2> QED BY <1>3, <2>1
<1> HIDE DEF t
<1>5. t \in Seq(S) /\ Len(t) = m
  BY <1>2, <1>4
<1>6. ToSet(t) = {t[k] : k \in 1..m}
  BY <1>5, ElementsOf
<1>7. ASSUME NEW k \in 1..Len(s), k # i PROVE s[k] \in ToSet(t)
  <2>1. CASE k = Len(s)
    <3>1. i \in 1..m /\ t[i] = s[k]
      BY <1>1, <1>3, <1>7, <2>1
    <3> QED BY <1>6, <3>1
  <2>2. CASE k # Len(s)
    <3>1. k \in 1..m /\ t[k] = s[k]
      BY <1>1, <1>3, <1>7, <2>2
    <3> QED BY <1>6, <3>1
  <2> QED BY <2>1, <2>2
<1>8. ToSet(s) \subseteq ToSet(t) \cup {s[i]}
  BY <1>1, <1>7
<1> QED BY <1>5, <1>8 DEF t

\* At first one address is being tried, if there is one.
LEMMA RaceInitInv == RaceInit => RaceInv
<1> SUFFICES ASSUME RaceInit PROVE RaceInv
  OBVIOUS
<1> DEFINE order == interleave_addrs(resolved)
<1>1. resolved \in Seq(Address)
  <2>1. PICK n \in 0..MaxAddrs, families \in [1..MaxAddrs -> {"v4", "v6"}] :
           resolved = [i \in 1..n |-> <<families[i], i>>]
    BY DEF RaceInit, Answers
  <2>2. n \in Nat /\ MaxAddrs \in Nat /\ 1..n \subseteq 1..MaxAddrs
    BY HappyEyeballsAssumption
  <2>3. \A i \in 1..n : <<families[i], i>> \in Address
    BY <2>2 DEF Address
  <2>4. resolved \in [1..n -> Address]
    BY <2>1, <2>3
  <2> QED BY <2>2, <2>4
<1>2. /\ Len(resolved) \in Nat /\ (resolved = <<>> <=> Len(resolved) = 0)
      /\ \A p \in 1..Len(resolved) : order[p] \in ToSet(resolved)
  BY <1>1, AnswerAddresses, ElementsOf
<1>3. /\ attempts = (IF resolved = <<>> THEN <<>> ELSE <<order[1]>>)
      /\ next_idx = Len(attempts)
      /\ delay = (IF Len(resolved) > 1 THEN "armed" ELSE "pending")
      /\ race = (IF resolved = <<>> THEN "failed" ELSE "running")
  BY DEF RaceInit
<1> HIDE DEF order
<1>4. CASE resolved = <<>>
  <2>1. attempts = <<>> /\ next_idx = 0 /\ race = "failed" /\ Len(resolved) = 0
    BY <1>2, <1>3, <1>4
  <2>2. attempts \in Seq(ToSet(resolved))
    BY <2>1
  <2> QED BY <1>1, <2>1, <2>2 DEF RaceInv, RaceTypeOK, RaceGoesOn
<1>5. CASE resolved # <<>>
  <2>1. attempts = <<order[1]>> /\ Len(attempts) = 1 /\ next_idx = 1 /\ race = "running"
    BY <1>3, <1>5
  <2>2. 1 \in 1..Len(resolved) /\ order[1] \in ToSet(resolved)
    BY <1>2, <1>5
  <2>3. attempts \in Seq(ToSet(resolved)) /\ attempts[1] = order[1]
    BY <2>1, <2>2
  <2>4. /\ ToSet(attempts) = {attempts[i] : i \in 1..Len(attempts)}
        /\ attempts = <<>> <=> Len(attempts) = 0
    BY <2>3, ElementsOf
  <2>5. order[1] \in ToSet(attempts) /\ attempts # <<>>
    BY <2>1, <2>3, <2>4
  <2>6. RaceGoesOn
    BY <1>2, <1>3, <2>1, <2>2, <2>5 DEF RaceGoesOn, Exhausted
  <2>7. \A k \in 1..next_idx : Settled(order[k])
    BY <2>1, <2>5 DEF Settled
  <2>8. RaceTypeOK
    BY <1>1, <2>1, <2>2, <2>3 DEF RaceTypeOK
  <2> QED BY <2>1, <2>6, <2>7, <2>8 DEF RaceInv, order
<1> QED BY <1>4, <1>5

\* The next address joins what is left of the running attempts.
LEMMA StartKeeps ==
  ASSUME RaceInv, race = "running", ~Exhausted,
         NEW running \in Seq(ToSet(resolved)), StartNext(running),
         \A k \in 1..next_idx : \/ interleave_addrs(resolved)[k] \in ToSet(running)
                                \/ fate[interleave_addrs(resolved)[k]] = "refuses",
         UNCHANGED <<resolved, fate, race>>
  PROVE  RaceInv'
<1> DEFINE order == interleave_addrs(resolved)
           x == order[next_idx + 1]
<1>1. /\ resolved \in Seq(Address) /\ next_idx \in 0..Len(resolved)
      /\ attempts' = Append(running, x) /\ next_idx' = next_idx + 1
      /\ delay' = (IF next_idx + 1 < Len(resolved) THEN "armed" ELSE "pending")
      /\ resolved' = resolved /\ fate' = fate /\ race' = "running"
  BY DEF RaceInv, RaceTypeOK, StartNext
<1>2. Len(resolved) \in Nat /\ \A p \in 1..Len(resolved) : order[p] \in ToSet(resolved)
  BY <1>1, AnswerAddresses
<1>3. next_idx \in Nat /\ next_idx + 1 \in 1..Len(resolved) /\ next_idx + 1 \in 0..Len(resolved)
  BY <1>1, <1>2 DEF Exhausted
<1>4. x \in ToSet(resolved)
  BY <1>2, <1>3
<1> HIDE DEF x
<1>5. /\ attempts' \in Seq(ToSet(resolved)) /\ ToSet(attempts') = ToSet(running) \cup {x}
      /\ attempts' # <<>>
  BY <1>1, <1>4, Joins
<1>6. RaceTypeOK'
  BY <1>1, <1>3, <1>5 DEF RaceTypeOK
<1>7. RaceGoesOn'
  BY <1>1, <1>2, <1>3, <1>5 DEF RaceGoesOn, Exhausted
<1>8. ASSUME NEW k \in 1..next_idx' PROVE Settled(interleave_addrs(resolved)[k])'
  <2>1. interleave_addrs(resolved)' = order
    BY <1>1
  <2>2. CASE k = next_idx + 1
    <3>1. order[k] \in ToSet(attempts')
      BY <1>5, <2>2 DEF x
    <3> QED BY <2>1, <3>1 DEF Settled
  <2>3. CASE k # next_idx + 1
    <3>1. k \in 1..next_idx
      BY <1>1, <1>3, <2>3
    <3>2. order[k] \in ToSet(running) \/ fate[order[k]] = "refuses"
      BY <3>1
    <3> HIDE DEF order
    <3> QED BY <1>1, <1>5, <2>1, <3>2 DEF Settled
  <2> QED BY <2>2, <2>3
<1> QED BY <1>1, <1>6, <1>7, <1>8 DEF RaceInv

\* What the poll of an attempt that has ended makes of the race.
LEMMA AttemptKeeps ==
  ASSUME RaceInv, NEW i \in 1..MaxAddrs, RaceAttempt(i)
  PROVE  RaceInv'
<1> DEFINE order == interleave_addrs(resolved)
           left == swap_remove(attempts, i)
           y == attempts[i]
<1>1. /\ race = "running" /\ i \in DOMAIN attempts
      /\ resolved' = resolved /\ fate' = fate
  BY DEF RaceAttempt
<1>2. /\ resolved \in Seq(Address) /\ next_idx \in 0..Len(resolved)
      /\ attempts \in Seq(ToSet(resolved))
      /\ \A k \in 1..next_idx : order[k] \in ToSet(attempts) \/ fate[order[k]] = "refuses"
  BY <1>1 DEF RaceInv, RaceTypeOK, Settled
<1>3. Len(resolved) \in Nat
  BY <1>2, AnswerAddresses
<1>4. /\ i \in 1..Len(attempts) /\ y \in ToSet(attempts) /\ ToSet(attempts) \subseteq ToSet(resolved)
  BY <1>1, <1>2, ElementsOf
<1>5. left \in Seq(ToSet(resolved)) /\ ToSet(attempts) \subseteq ToSet(left) \cup {y}
  BY <1>2, <1>4, SwapRemoves
<1> HIDE DEF left, y, order
<1>6. fate[y] = "refuses" =>
        \A k \in 1..next_idx : order[k] \in ToSet(left) \/ fate[order[k]] = "refuses"
  BY <1>2, <1>5
<1>7. CASE /\ fate[y] = "connects" /\ race' = "connected" /\ attempts' = <<>>
           /\ next_idx' = next_idx
  <2>1. y \in ToSet(resolved') /\ fate'[y] = "connects"
    BY <1>1, <1>4, <1>7
  <2>2. attempts' \in Seq(ToSet(resolved'))
    BY <1>7
  <2> QED BY <1>1, <1>2, <1>7, <2>1, <2>2 DEF RaceInv, RaceTypeOK, RaceGoesOn
<1>8. CASE /\ fate[y] = "refuses" /\ left # <<>> /\ attempts' = left
           /\ next_idx' = next_idx /\ delay' = delay /\ race' = race
  <2>1. RaceTypeOK'
    BY <1>1, <1>2, <1>5, <1>8 DEF RaceTypeOK
  <2>2. RaceGoesOn'
    BY <1>1, <1>8 DEF RaceGoesOn, Exhausted, RaceInv
  <2>3. (\A k \in 1..next_idx : Settled(interleave_addrs(resolved)[k]))'
    BY <1>1, <1>6, <1>8 DEF Settled, order
  <2> QED BY <1>1, <1>8, <2>1, <2>2, <2>3 DEF RaceInv
<1>9. CASE fate[y] = "refuses" /\ ~Exhausted /\ StartNext(left) /\ race' = race
  <2>1. UNCHANGED <<resolved, fate, race>>
    BY <1>1, <1>9
  <2>2. \A k \in 1..next_idx : \/ interleave_addrs(resolved)[k] \in ToSet(left)
                                \/ fate[interleave_addrs(resolved)[k]] = "refuses"
    BY <1>6, <1>9 DEF order
  <2> QED BY <1>1, <1>5, <1>9, <2>1, <2>2, StartKeeps
<1>10. CASE /\ fate[y] = "refuses" /\ left = <<>> /\ Exhausted /\ race' = "failed"
            /\ attempts' = <<>> /\ next_idx' = next_idx
  <2>1. next_idx = Len(resolved)
    BY <1>2, <1>3, <1>10 DEF Exhausted
  <2>2. attempts' \in Seq(ToSet(resolved'))
    BY <1>10
  <2>3. RaceTypeOK'
    BY <1>1, <1>2, <1>10, <2>2 DEF RaceTypeOK
  <2>4. (\A k \in 1..next_idx : Settled(interleave_addrs(resolved)[k]))'
    <3>1. attempts' = left
      BY <1>10
    <3> QED BY <1>1, <1>6, <1>10, <3>1 DEF Settled, order
  <2> QED BY <1>1, <1>10, <2>1, <2>3, <2>4 DEF RaceInv, RaceGoesOn
<1> QED BY <1>7, <1>8, <1>9, <1>10 DEF RaceAttempt, left, y

\* Every step of the race keeps the invariant.
LEMMA RaceNextInv == RaceInv /\ [RaceNext]_raceVars => RaceInv'
<1> SUFFICES ASSUME RaceInv, [RaceNext]_raceVars PROVE RaceInv'
  OBVIOUS
<1>1. ASSUME UNCHANGED <<resolved, fate, next_idx, attempts, race>>,
             delay' = "pending" <=> delay = "pending"
      PROVE  RaceInv'
  <2>1. interleave_addrs(resolved)' = interleave_addrs(resolved)
    BY <1>1
  <2>2. (\A k \in 1..next_idx : Settled(interleave_addrs(resolved)[k]))' <=>
           \A k \in 1..next_idx : Settled(interleave_addrs(resolved)[k])
    BY <1>1, <2>1 DEF Settled
  <2>3. RaceTypeOK' /\ RaceGoesOn'
    BY <1>1 DEF RaceInv, RaceTypeOK, RaceGoesOn, Exhausted
  <2> QED BY <1>1, <2>2, <2>3 DEF RaceInv
<1>2. CASE \E x \in Address : ConnectAnswers(x)
  BY <1>1, <1>2 DEF ConnectAnswers
<1>3. CASE DelayElapses
  BY <1>1, <1>3 DEF DelayElapses
<1>4. CASE \E i \in 1..MaxAddrs : RaceAttempt(i)
  BY <1>4, AttemptKeeps
<1>5. CASE RaceDelay
  <2>1. race = "running" /\ ~Exhausted /\ StartNext(attempts) /\ UNCHANGED <<resolved, fate, race>>
    BY <1>5 DEF RaceDelay
  <2>2. attempts \in Seq(ToSet(resolved))
    BY DEF RaceInv, RaceTypeOK
  <2>3. \A k \in 1..next_idx : \/ interleave_addrs(resolved)[k] \in ToSet(attempts)
                                \/ fate[interleave_addrs(resolved)[k]] = "refuses"
    BY <2>1 DEF RaceInv, Settled
  <2> QED BY <2>1, <2>2, <2>3, StartKeeps
<1>6. CASE UNCHANGED raceVars
  BY <1>1, <1>6 DEF raceVars
<1> QED BY <1>2, <1>3, <1>4, <1>5, <1>6 DEF RaceNext

\* race_connect of happy_eyeballs.rs reports a failure only when every address of
\* the resolver's answer was tried and has refused, and a connection only to one
\* that accepted, for any number of addresses; until then an attempt is running and
\* the delay that starts the next one is set while an address is left.
THEOREM RaceTriesAll == RaceSpec => [](RaceTrue /\ RaceGoesOn)
<1>1. RaceInit => RaceInv
  BY RaceInitInv
<1>2. RaceInv /\ [RaceNext]_raceVars => RaceInv'
  BY RaceNextInv
<1>3. RaceInv => RaceTrue /\ RaceGoesOn
  <2> SUFFICES ASSUME RaceInv PROVE RaceTrue /\ RaceGoesOn
    OBVIOUS
  <2>1. ASSUME race = "failed", NEW x \in ToSet(resolved) PROVE fate[x] = "refuses"
    <3>1. resolved \in Seq(Address) /\ next_idx = Len(resolved) /\ attempts = <<>>
      BY <2>1 DEF RaceInv, RaceTypeOK
    <3>2. PICK p \in 1..Len(resolved) : interleave_addrs(resolved)[p] = x
      BY <3>1, AnswerAddresses
    <3>3. Settled(x)
      BY <2>1, <3>1, <3>2 DEF RaceInv
    <3>4. ToSet(attempts) = {}
      BY <3>1 DEF ToSet
    <3> QED BY <3>3, <3>4 DEF Settled
  <2> QED BY <2>1 DEF RaceInv, RaceTrue
<1> QED BY <1>1, <1>2, <1>3, PTL DEF RaceSpec
-----------------------------------------------------------------------------
(***************************************************************************)
(* The bandwidth limiter.                                                  *)
(***************************************************************************)
BodyStates ==
    [frames : Seq(Nat), pending : Nat, sleep : {"none", "set", "armed", "over", "missed"},
     timer : Nat, at : {"rest", "check", "recheck", "consume", "sleep"}, woken : BOOLEAN]

BandwidthTypeOK ==
    /\ bytes \in 0..BytesPerSec
    /\ lag \in 0..TicksPerSec
    /\ reader \in [Bodies -> BodyStates]

\* A body that answered Pending with a frame to hand out has a timer that will wake
\* its task, or its timer had run out when it was polled first.
Wakes(r) ==
    r.at = "rest" /\ ~r.woken =>
        \/ r.sleep = "armed"
        \/ r.sleep = "missed" /\ r.timer = 0
        \/ r.pending = 0 /\ r.frames = <<>>

SleepersWake == \A b \in Bodies : Wakes(reader[b])

\* A poll in progress is that of a woken task.  Until it makes a sleep it has none,
\* and a frame.
Polled(r) ==
    r.at # "rest" =>
        /\ r.woken
        /\ r.at = "sleep" => r.sleep = "set"
        /\ r.at # "sleep" => r.sleep = "none" /\ (r.pending = 0 => r.frames # <<>>)

\* Only a timer that had run out is missed, and it stays so.
MissedLate(r) == r.sleep = "missed" => r.timer = 0

BodyOK(r) == Wakes(r) /\ Polled(r) /\ MissedLate(r)

BandwidthInv == BandwidthTypeOK /\ \A b \in Bodies : BodyOK(reader[b])

\* Division rounds down.
LEMMA Quotient ==
  ASSUME NEW x \in Nat, NEW m \in Nat \ {0}
  PROVE  x \div m \in Nat /\ (x \div m) * m <= x
OBVIOUS

\* refill fills the bucket up to its capacity and keeps the time of the bytes it has
\* not added yet.
LEMMA RefillKeeps ==
  ASSUME BandwidthTypeOK
  PROVE  /\ Refilled \in 0..BytesPerSec /\ LagLeft \in 0..TicksPerSec
         /\ \A n \in Nat : wait_duration(n) \in Nat
<1> DEFINE B == BytesPerSec
           T == TicksPerSec
           nb == new_bytes
           back == (nb * T) \div B
<1>1. B \in Nat \ {0} /\ T \in Nat \ {0} /\ lag \in Nat /\ lag <= T /\ bytes \in Nat
  BY BandwidthAssumption DEF BandwidthTypeOK
<1>2. lag * B \in Nat
  BY <1>1
<1>3. nb \in Nat /\ nb * T <= lag * B
  BY <1>1, <1>2, Quotient DEF new_bytes
<1>4. nb * T \in Nat
  BY <1>1, <1>3
<1>5. back \in Nat /\ back * B <= nb * T
  BY <1>1, <1>4, Quotient
<1>6. LagLeft = lag - back
  BY DEF LagLeft
<1> HIDE DEF nb, back
<1>7. back <= lag
  <2>1. SUFFICES ASSUME back >= lag + 1 PROVE FALSE
    BY <1>1, <1>5
  <2>2. back * B >= (lag + 1) * B
    BY <1>1, <1>5, <2>1
  <2>3. (lag + 1) * B = lag * B + B
    BY <1>1
  <2>4. back * B \in Nat
    BY <1>1, <1>5
  <2> QED BY <1>1, <1>2, <1>3, <1>4, <1>5, <2>2, <2>3, <2>4
<1>8. Refilled \in 0..B
  <2>1. Refilled = IF bytes + nb < B THEN bytes + nb ELSE B
    BY DEF Refilled, Capped, nb
  <2> QED BY <1>1, <1>3, <2>1
<1>9. LagLeft \in 0..T
  BY <1>1, <1>5, <1>6, <1>7
<1>10. ASSUME NEW n \in Nat PROVE wait_duration(n) \in Nat
  <2>1. CASE Refilled >= n
    BY <2>1 DEF wait_duration
  <2>2. CASE ~(Refilled >= n)
    <3> DEFINE x == (n - Refilled) * T
    <3>1. n - Refilled \in Nat
      BY <1>1, <1>8, <2>2
    <3>2. x \in Nat
      <4> DEFINE y == n - Refilled
      <4>1. y \in Nat
        BY <3>1
      <4> HIDE DEF y
      <4>2. y * T \in Nat
        BY <1>1, <4>1
      <4> QED BY <4>2 DEF y
    <3>3. wait_duration(n) = x \div B
      BY <2>2 DEF wait_duration
    <3> HIDE DEF x
    <3> QED BY <1>1, <3>2, <3>3, Quotient
  <2> QED BY <2>1, <2>2
<1> QED BY <1>8, <1>9, <1>10

\* A step of the task of one body.
LEMMA OneBody ==
  ASSUME BandwidthInv, NEW b \in Bodies, NEW r \in BodyStates, BodyOK(r),
         reader' = [reader EXCEPT ![b] = r],
         bytes' \in 0..BytesPerSec, lag' \in 0..TicksPerSec
  PROVE  BandwidthInv'
<1>1. /\ reader \in [Bodies -> BodyStates] /\ reader' \in [Bodies -> BodyStates]
      /\ \A c \in Bodies : reader'[c] = IF c = b THEN r ELSE reader[c]
  BY DEF BandwidthInv, BandwidthTypeOK
<1>2. BandwidthTypeOK'
  BY <1>1 DEF BandwidthTypeOK
<1>3. ASSUME NEW c \in Bodies PROVE BodyOK(reader'[c])
  BY <1>1 DEF BandwidthInv
<1> QED BY <1>2, <1>3 DEF BandwidthInv

\* The frame a poll in progress is about, and what is left of the inner body.
LEMMA FrameOf ==
  ASSUME BandwidthInv, NEW b \in Bodies, reader[b].at \in {"check", "recheck", "consume"}
  PROVE  /\ Frame(b) \in Nat
         /\ FramesLeft(b) \in Seq(Nat)
<1>1. /\ reader[b].pending \in Nat /\ reader[b].frames \in Seq(Nat)
      /\ reader[b].pending = 0 => reader[b].frames # <<>>
  BY DEF BandwidthInv, BandwidthTypeOK, BodyStates, BodyOK, Polled
<1>2. CASE reader[b].pending > 0
  BY <1>1, <1>2 DEF Frame, FramesLeft
<1>3. CASE ~(reader[b].pending > 0)
  <2>1. reader[b].frames # <<>>
    BY <1>1, <1>3
  <2>2. Head(reader[b].frames) \in Nat /\ Tail(reader[b].frames) \in Seq(Nat)
    BY <1>1, <2>1, HeadTailProperties
  <2> QED BY <1>3, <2>2 DEF Frame, FramesLeft
<1> QED BY <1>2, <1>3

\* The frame is kept and a sleep is made, in the middle of a poll.
LEMMA SleepKeeps ==
  ASSUME BandwidthInv, NEW b \in Bodies, reader[b].at \in {"check", "recheck", "consume"},
         NEW wait \in Nat, SleepFor(b, wait), CallRefill
  PROVE  BandwidthInv'
<1> DEFINE f == Frame(b)
           left == FramesLeft(b)
           r == [reader[b] EXCEPT !.pending = f, !.frames = left, !.sleep = "set",
                                  !.timer = wait, !.at = "sleep"]
<1>1. reader' = [reader EXCEPT ![b] = r]
  BY DEF SleepFor
<1>2. /\ f \in Nat /\ left \in Seq(Nat) /\ reader[b] \in BodyStates /\ reader[b].woken
  BY FrameOf DEF BandwidthInv, BandwidthTypeOK, BodyOK, Polled
<1>3. bytes' \in 0..BytesPerSec /\ lag' \in 0..TicksPerSec
  BY RefillKeeps DEF CallRefill, BandwidthInv
<1> HIDE DEF f, left
<1>4. r \in BodyStates /\ r.at = "sleep" /\ r.sleep = "set" /\ r.woken = reader[b].woken
  BY <1>2 DEF BodyStates
<1> HIDE DEF r
<1>5. BodyOK(r)
  BY <1>2, <1>4 DEF BodyOK, Wakes, Polled, MissedLate
<1> QED BY <1>1, <1>3, <1>4, <1>5, OneBody

\* The first poll of a sleep leaves a waker, or misses a timer that has run out.
LEMMA PollSleepKeeps ==
  ASSUME BandwidthInv, NEW b \in Bodies, PollSleep(b)
  PROVE  BandwidthInv'
<1>1. PICK left \in {"armed"} \cup (IF reader[b].timer = 0 THEN {"missed"} ELSE {}) :
        reader' = [reader EXCEPT ![b] =
            [reader[b] EXCEPT !.sleep = left, !.at = "rest", !.woken = FALSE]]
  BY DEF PollSleep
<1>2. left \in {"armed", "missed"} /\ (left = "missed" => reader[b].timer = 0)
  BY <1>1
<1> DEFINE r == [reader[b] EXCEPT !.sleep = left, !.at = "rest", !.woken = FALSE]
<1>3. reader' = [reader EXCEPT ![b] = r]
  BY <1>1
<1>4. reader[b] \in BodyStates
  BY DEF BandwidthInv, BandwidthTypeOK
<1>5. r \in BodyStates /\ r.at = "rest" /\ r.sleep = left /\ r.timer = reader[b].timer
  BY <1>2, <1>4 DEF BodyStates
<1>6. bytes' \in 0..BytesPerSec /\ lag' \in 0..TicksPerSec
  BY DEF PollSleep, BandwidthInv, BandwidthTypeOK
<1> HIDE DEF r
<1>7. BodyOK(r)
  BY <1>2, <1>5 DEF BodyOK, Wakes, Polled, MissedLate
<1> QED BY <1>3, <1>5, <1>6, <1>7, OneBody

\* A task polled for a reason of its own is only woken.
LEMMA OtherwiseKeeps ==
  ASSUME BandwidthInv, NEW b \in Bodies, PolledOtherwise(b)
  PROVE  BandwidthInv'
<1> DEFINE r == [reader[b] EXCEPT !.woken = TRUE]
<1>1. reader' = [reader EXCEPT ![b] = r] /\ reader[b].sleep \in {"armed", "missed"}
  BY DEF PolledOtherwise
<1>2. reader[b] \in BodyStates /\ BodyOK(reader[b])
  BY DEF BandwidthInv, BandwidthTypeOK
<1>3. reader[b].at = "rest"
  BY <1>1, <1>2 DEF BodyOK, Polled
<1>4. /\ r \in BodyStates /\ r.at = reader[b].at /\ r.sleep = reader[b].sleep
      /\ r.timer = reader[b].timer /\ r.woken
  BY <1>2 DEF BodyStates
<1>5. bytes' \in 0..BytesPerSec /\ lag' \in 0..TicksPerSec
  BY DEF PolledOtherwise, BandwidthInv, BandwidthTypeOK
<1> HIDE DEF r
<1>6. BodyOK(r)
  BY <1>2, <1>3, <1>4 DEF BodyOK, Wakes, Polled, MissedLate
<1> QED BY <1>1, <1>4, <1>5, <1>6, OneBody

\* A body that is read is polled, and no other has anything to hand out.
LEMMA BandwidthInitInv == BandwidthInit => BandwidthInv
<1> SUFFICES ASSUME BandwidthInit PROVE BandwidthInv
  OBVIOUS
<1>1. PICK read \in SUBSET Bodies :
        reader = [b \in Bodies |->
                    [frames |-> IF b \in read THEN FramesOf[b] ELSE <<>>, pending |-> 0,
                     sleep |-> "none", timer |-> 0, at |-> "rest", woken |-> b \in read]]
  BY DEF BandwidthInit
<1>2. ASSUME NEW b \in Bodies
      PROVE  /\ reader[b] \in BodyStates /\ reader[b].at = "rest" /\ reader[b].pending = 0
             /\ reader[b].sleep = "none" /\ (~reader[b].woken => reader[b].frames = <<>>)
  <2> DEFINE fs == IF b \in read THEN FramesOf[b] ELSE <<>>
             wk == b \in read
  <2>1. fs \in Seq(Nat) /\ (~wk => fs = <<>>)
    BY BandwidthAssumption
  <2>2. wk \in BOOLEAN
    OBVIOUS
  <2>3. reader[b] = [frames |-> fs, pending |-> 0, sleep |-> "none", timer |-> 0,
                     at |-> "rest", woken |-> wk]
    BY <1>1
  <2> HIDE DEF fs, wk
  <2> QED BY <2>1, <2>2, <2>3 DEF BodyStates
<1>3. reader \in [Bodies -> BodyStates]
  BY <1>1, <1>2
<1>4. bytes \in 0..BytesPerSec /\ lag \in 0..TicksPerSec
  BY BandwidthAssumption DEF BandwidthInit
<1>5. ASSUME NEW b \in Bodies PROVE BodyOK(reader[b])
  BY <1>2 DEF BodyOK, Wakes, Polled, MissedLate
<1> QED BY <1>3, <1>4, <1>5 DEF BandwidthInv, BandwidthTypeOK

\* A poll that begins finds its timer pending, a frame, or the end of the body.
LEMMA PollStartKeeps ==
  ASSUME BandwidthInv, NEW b \in Bodies, PollStart(b)
  PROVE  BandwidthInv'
<1>1. /\ reader[b] \in BodyStates /\ reader \in [Bodies -> BodyStates] /\ BodyOK(reader[b])
  BY DEF BandwidthInv, BandwidthTypeOK
<1>2. bytes' \in 0..BytesPerSec /\ lag' \in 0..TicksPerSec
  BY DEF PollStart, BandwidthInv, BandwidthTypeOK
<1>3. reader[b].woken /\ reader[b].at = "rest"
  BY DEF PollStart
<1>4. CASE /\ reader[b].sleep \in {"armed", "missed"}
           /\ reader' = [reader EXCEPT ![b].woken = FALSE]
  <2> DEFINE r == [reader[b] EXCEPT !.woken = FALSE]
  <2>1. reader' = [reader EXCEPT ![b] = r]
    BY <1>1, <1>4
  <2>2. /\ r \in BodyStates /\ r.at = reader[b].at /\ r.sleep = reader[b].sleep
        /\ r.timer = reader[b].timer
    BY <1>1 DEF BodyStates
  <2> HIDE DEF r
  <2>3. BodyOK(r)
    BY <1>1, <1>3, <1>4, <2>2 DEF BodyOK, Wakes, Polled, MissedLate
  <2> QED BY <1>2, <2>1, <2>2, <2>3, OneBody
<1>5. CASE /\ reader[b].pending > 0 \/ reader[b].frames # <<>>
           /\ reader' = [reader EXCEPT ![b].sleep = "none", ![b].at = "check"]
  <2> DEFINE r == [reader[b] EXCEPT !.sleep = "none", !.at = "check"]
  <2>1. reader' = [reader EXCEPT ![b] = r]
    BY <1>1, <1>5
  <2>2. r \in BodyStates /\ r.at = "check" /\ r.sleep = "none" /\ r.woken = reader[b].woken
        /\ r.pending = reader[b].pending /\ r.frames = reader[b].frames
    BY <1>1 DEF BodyStates
  <2>3. r.woken /\ (r.pending = 0 => r.frames # <<>>)
    BY <1>3, <1>5, <2>2
  <2> HIDE DEF r
  <2>4. BodyOK(r)
    BY <2>2, <2>3 DEF BodyOK, Wakes, Polled, MissedLate
  <2> QED BY <1>2, <2>1, <2>2, <2>4, OneBody
<1>6. CASE /\ reader[b].pending = 0 /\ reader[b].frames = <<>>
           /\ reader' = [reader EXCEPT ![b].sleep = "none", ![b].woken = FALSE]
  <2> DEFINE r == [reader[b] EXCEPT !.sleep = "none", !.woken = FALSE]
  <2>1. reader' = [reader EXCEPT ![b] = r]
    BY <1>1, <1>6
  <2>2. r \in BodyStates /\ r.at = "rest" /\ r.pending = 0 /\ r.frames = <<>> /\ r.sleep = "none"
    BY <1>1, <1>3, <1>6 DEF BodyStates
  <2> HIDE DEF r
  <2>3. BodyOK(r)
    BY <2>2 DEF BodyOK, Wakes, Polled, MissedLate
  <2> QED BY <1>2, <2>1, <2>2, <2>3, OneBody
<1> QED BY <1>4, <1>5, <1>6 DEF PollStart

\* The rest of a poll: the frame is let through or the body sleeps.
LEMMA PollKeeps ==
  ASSUME BandwidthInv, NEW b \in Bodies,
         Check(b) \/ Recheck(b) \/ try_consume(b)
  PROVE  BandwidthInv'
<1>1. /\ reader[b] \in BodyStates /\ reader \in [Bodies -> BodyStates]
      /\ bytes \in 0..BytesPerSec /\ BandwidthTypeOK
  BY DEF BandwidthInv, BandwidthTypeOK
<1>2. reader[b].at \in {"check", "recheck", "consume"}
  BY DEF Check, Recheck, try_consume
<1>3. /\ reader[b].woken /\ reader[b].sleep = "none"
      /\ reader[b].pending = 0 => reader[b].frames # <<>>
  BY <1>2 DEF BandwidthInv, BodyOK, Polled
<1>4. /\ Refilled \in 0..BytesPerSec /\ LagLeft \in 0..TicksPerSec
      /\ Frame(b) \in Nat /\ wait_duration(Frame(b)) \in Nat
  BY <1>1, <1>2, RefillKeeps, FrameOf
<1>5. ASSUME NEW to \in {"consume", "recheck"}, CallRefill,
             reader' = [reader EXCEPT ![b].at = to]
      PROVE  BandwidthInv'
  <2> DEFINE r == [reader[b] EXCEPT !.at = to]
  <2>1. reader' = [reader EXCEPT ![b] = r]
    BY <1>1, <1>5
  <2>2. r \in BodyStates /\ r.at = to /\ r.sleep = reader[b].sleep
        /\ r.woken = reader[b].woken /\ r.pending = reader[b].pending
        /\ r.frames = reader[b].frames
    BY <1>1 DEF BodyStates
  <2>3. bytes' \in 0..BytesPerSec /\ lag' \in 0..TicksPerSec
    BY <1>4, <1>5 DEF CallRefill
  <2>4. r.woken /\ r.sleep = "none" /\ (r.pending = 0 => r.frames # <<>>)
    BY <1>3, <2>2
  <2> HIDE DEF r
  <2>5. BodyOK(r)
    BY <2>2, <2>4 DEF BodyOK, Wakes, Polled, MissedLate
  <2> QED BY <2>1, <2>2, <2>3, <2>5, OneBody
<1>6. CASE Check(b)
  <2>1. CASE reader' = [reader EXCEPT ![b].at = "consume"]
    BY <1>5, <1>6, <2>1 DEF Check
  <2>2. CASE reader' = [reader EXCEPT ![b].at = "recheck"]
    BY <1>5, <1>6, <2>2 DEF Check
  <2>3. CASE SleepFor(b, wait_duration(Frame(b)))
    <3>1. CallRefill
      BY <1>6 DEF Check
    <3> QED BY <1>2, <1>4, <2>3, <3>1, SleepKeeps
  <2> QED BY <1>6, <2>1, <2>2, <2>3 DEF Check
<1>7. CASE Recheck(b)
  <2>1. CallRefill /\ SleepFor(b, wait_duration(Frame(b)))
    BY <1>7 DEF Recheck
  <2> QED BY <1>2, <1>4, <2>1, SleepKeeps
<1>8. CASE try_consume(b)
  <2> DEFINE left == FramesLeft(b)
             r == [reader[b] EXCEPT !.frames = left, !.pending = 0, !.at = "rest"]
  <2>1. reader' = [reader EXCEPT ![b] = r]
    BY <1>8 DEF try_consume
  <2>2. left \in Seq(Nat)
    BY <1>2, FrameOf
  <2>3. bytes' \in 0..BytesPerSec /\ lag' \in 0..TicksPerSec
    <3>1. bytes' = Refilled - Capped(Refilled, Frame(b)) /\ lag' = LagLeft
      BY <1>8 DEF try_consume
    <3> HIDE DEF left, r
    <3>2. Capped(Refilled, Frame(b)) \in 0..Refilled
      BY <1>4 DEF Capped
    <3> QED BY <1>4, <3>1, <3>2, BandwidthAssumption
  <2> HIDE DEF left
  <2>4. /\ r \in BodyStates /\ r.at = "rest" /\ r.woken = reader[b].woken
        /\ r.sleep = reader[b].sleep
    BY <1>1, <2>2 DEF BodyStates
  <2>5. r.woken /\ r.sleep = "none"
    BY <1>3, <2>4
  <2> HIDE DEF r
  <2>6. BodyOK(r)
    BY <2>4, <2>5 DEF BodyOK, Wakes, Polled, MissedLate
  <2> QED BY <2>1, <2>3, <2>4, <2>6, OneBody
<1> QED BY <1>6, <1>7, <1>8

\* A tick leaves a body as sound as it was: its timer runs on, or it is over and its
\* task is woken.
LEMMA AgedKeeps ==
  ASSUME NEW r \in BodyStates, BodyOK(r)
  PROVE  Aged(r) \in BodyStates /\ BodyOK(Aged(r))
<1>1. r.timer \in Nat
  BY DEF BodyStates
<1>2. CASE r.sleep = "armed" /\ r.timer <= 1
  <2> DEFINE u == [r EXCEPT !.timer = 0, !.sleep = "over", !.woken = TRUE]
  <2>1. Aged(r) = u
    BY <1>2 DEF Aged
  <2>2. u \in BodyStates /\ u.at = r.at /\ u.sleep = "over" /\ u.woken
    BY DEF BodyStates
  <2>3. r.at = "rest"
    BY <1>2 DEF BodyOK, Polled
  <2> HIDE DEF u
  <2> QED BY <2>1, <2>2, <2>3 DEF BodyOK, Wakes, Polled, MissedLate
<1>3. CASE ~(r.sleep = "armed" /\ r.timer <= 1) /\ r.sleep \in {"set", "armed"} /\ r.timer > 0
  <2> DEFINE t == r.timer - 1
             u == [r EXCEPT !.timer = t]
  <2>1. t \in Nat /\ Aged(r) = u
    BY <1>1, <1>3 DEF Aged
  <2> HIDE DEF t
  <2>2. /\ u \in BodyStates /\ u.at = r.at /\ u.sleep = r.sleep /\ u.woken = r.woken
        /\ u.pending = r.pending /\ u.frames = r.frames
    BY <2>1 DEF BodyStates
  <2> HIDE DEF u
  <2> QED BY <1>3, <2>1, <2>2 DEF BodyOK, Wakes, Polled, MissedLate
<1>4. CASE /\ ~(r.sleep = "armed" /\ r.timer <= 1)
           /\ ~(r.sleep \in {"set", "armed"} /\ r.timer > 0)
  <2>1. Aged(r) = r
    BY <1>4 DEF Aged
  <2> QED BY <2>1
<1> QED BY <1>2, <1>3, <1>4

\* So does time for all of them.
LEMMA TimeKeeps ==
  ASSUME BandwidthInv, TimePasses
  PROVE  BandwidthInv'
<1>1. reader' = [b \in Bodies |-> Aged(reader[b])]
  BY DEF TimePasses
<1>2. ASSUME NEW b \in Bodies PROVE reader'[b] \in BodyStates /\ BodyOK(reader'[b])
  BY <1>1, AgedKeeps DEF BandwidthInv, BandwidthTypeOK
<1>3. reader' \in [Bodies -> BodyStates]
  <2>1. reader' = [b \in Bodies |-> reader'[b]]
    BY <1>1
  <2> QED BY <1>2, <2>1
<1>4. bytes' \in 0..BytesPerSec /\ lag' \in 0..TicksPerSec
  <2>1. bytes \in 0..BytesPerSec /\ lag \in 0..TicksPerSec /\ TicksPerSec \in Nat
    BY BandwidthAssumption DEF BandwidthInv, BandwidthTypeOK
  <2>2. bytes' = bytes /\ lag' = IF lag + 1 < TicksPerSec THEN lag + 1 ELSE TicksPerSec
    BY DEF TimePasses, Capped
  <2> QED BY <2>1, <2>2
<1> QED BY <1>2, <1>3, <1>4 DEF BandwidthInv, BandwidthTypeOK

\* poll_frame (bandwidth/body.rs) loses a reader in one way only: a body that has a
\* frame to hand out and is not being polled is woken, or has a timer that will wake
\* it, or its timer had run out before it was polled first, whatever the other
\* bodies take from the bucket, whatever the size of its frames and however often
\* its task is polled besides.
THEOREM BodiesAreWoken == BandwidthSpec => []SleepersWake
<1>1. BandwidthInit => BandwidthInv
  BY BandwidthInitInv
<1>2. BandwidthInv /\ [BandwidthNext]_bandwidthVars => BandwidthInv'
  <2> SUFFICES ASSUME BandwidthInv, [BandwidthNext]_bandwidthVars PROVE BandwidthInv'
    OBVIOUS
  <2>1. CASE TimePasses
    BY <2>1, TimeKeeps
  <2>2. ASSUME NEW b \in Bodies, PollStart(b) PROVE BandwidthInv'
    BY <2>2, PollStartKeeps
  <2>3. ASSUME NEW b \in Bodies, Check(b) \/ Recheck(b) \/ try_consume(b) PROVE BandwidthInv'
    BY <2>3, PollKeeps
  <2>4. ASSUME NEW b \in Bodies, PollSleep(b) \/ PolledOtherwise(b) PROVE BandwidthInv'
    BY <2>4, PollSleepKeeps, OtherwiseKeeps
  <2>5. CASE UNCHANGED bandwidthVars
    BY <2>5 DEF bandwidthVars, BandwidthInv, BandwidthTypeOK
  <2> QED BY <2>1, <2>2, <2>3, <2>4, <2>5 DEF BandwidthNext, PollFrame
<1>3. BandwidthInv => SleepersWake
  BY DEF BandwidthInv, BodyOK, SleepersWake
<1> QED BY <1>1, <1>2, <1>3, PTL DEF BandwidthSpec
=============================================================================
