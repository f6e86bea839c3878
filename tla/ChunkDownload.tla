--------------------------- MODULE ChunkDownload ---------------------------
(***************************************************************************)
(* ChunkDownloadSend::download: a HEAD request, then either one plain GET  *)
(* or one task per chunk asking for a range, whose results come back over  *)
(* an unbounded channel in any order and are put together by index.  A     *)
(* task may be lost with the runtime it runs on; the channel closes when   *)
(* every sender is gone.  A 206 answer carries the range asked for.        *)
(***************************************************************************)
EXTENDS Naturals, Sequences, FiniteSets

CONSTANTS
    MaxSize,      \* bound: bytes of the file
    MaxChunks     \* bound: parallel chunks asked for

ASSUME ChunkDownloadAssumption == MaxSize \in Nat /\ MaxChunks \in Nat \ {0}

VARIABLES
    total_size,   \* content-length of the HEAD response
    chunks,       \* the chunks the caller asked for, at least 1
    ranged,       \* whether the server accepts ranges
    tasks,        \* tasks[i]: "running", "sent" or "lost"
    channel,      \* the messages in it: an index and its result
    results,      \* results[i]: "none", or the outcome received for chunk i
    transfer,     \* "head", "collecting", "whole" or "failed"
    file          \* the bytes returned, each named by its offset

chunkVars == <<total_size, chunks, ranged, tasks, channel, results, transfer, file>>

\* The bytes from offset first to offset last.
Bytes(first, last) == [k \in 1..(last + 1 - first) |-> first + k - 1]

ChunkInit ==
    /\ total_size \in 0..MaxSize
    /\ chunks \in 1..MaxChunks
    /\ ranged \in BOOLEAN
    /\ tasks = <<>> /\ channel = <<>> /\ results = <<>>
    /\ transfer = "head"
    /\ file = <<>>
-----------------------------------------------------------------------------
num_chunks == IF chunks < total_size THEN chunks ELSE total_size
chunk_size == total_size \div num_chunks

RangeStart(i) == (i - 1) * chunk_size

\* The last range ending where every other one does.
RangeEndEven(i) == i * chunk_size - 1

\* The last range takes what the division leaves over.
RangeEnd(i) == IF i = num_chunks THEN total_size - 1 ELSE i * chunk_size - 1

HeadFails ==
    /\ transfer = "head"
    /\ transfer' = "failed"
    /\ UNCHANGED <<total_size, chunks, ranged, tasks, channel, results, file>>

\* The body of an error response: bytes at no offset of the file.
ErrorPage == <<MaxSize>>

\* Without ranges or without a length: one GET, which may fail.  Its status is not
\* looked at: a 404 or 500 page is returned as the download.
PlainGetBody ==
    /\ transfer = "head"
    /\ ~ranged \/ total_size = 0
    /\ \/ transfer' = "whole" /\ file' \in {Bytes(0, total_size - 1), ErrorPage}
       \/ transfer' = "failed" /\ UNCHANGED file
    /\ UNCHANGED <<total_size, chunks, ranged, tasks, channel, results>>

SpawnChunks ==
    /\ transfer = "head"
    /\ ranged /\ total_size > 0
    /\ tasks' = [i \in 1..num_chunks |-> "running"]
    /\ results' = [i \in 1..num_chunks |-> [is |-> "none", data |-> <<>>]]
    /\ transfer' = "collecting"
    /\ UNCHANGED <<total_size, chunks, ranged, channel, file>>

\* A task sends what its request came to; when download has returned, to nobody.
ChunkAnswers(i) ==
    /\ i \in DOMAIN tasks
    /\ tasks[i] = "running"
    /\ tasks' = [tasks EXCEPT ![i] = "sent"]
    /\ \E r \in {[is |-> "bytes", data |-> Bytes(RangeStart(i), RangeEnd(i))],
                 [is |-> "error", data |-> <<>>]} :
        channel' = IF transfer = "collecting" THEN Append(channel, <<i, r>>) ELSE channel
    /\ UNCHANGED <<total_size, chunks, ranged, results, transfer, file>>

ChunkLost(i) ==
    /\ i \in DOMAIN tasks
    /\ tasks[i] = "running"
    /\ tasks' = [tasks EXCEPT ![i] = "lost"]
    /\ UNCHANGED <<total_size, chunks, ranged, channel, results, transfer, file>>

\* How many results were received so far.
received == Cardinality({i \in DOMAIN results : results[i].is # "none"})

Collect ==
    /\ transfer = "collecting"
    /\ channel # <<>>
    /\ received < Len(results)
    /\ results' = [results EXCEPT ![Head(channel)[1]] = Head(channel)[2]]
    /\ channel' = Tail(channel)
    /\ UNCHANGED <<total_size, chunks, ranged, tasks, transfer, file>>

\* The receiver's end when download kept a sender of its own.
ClosedNever == FALSE

\* The channel is empty and every sender is gone: poll_next returns None.
ChannelClosed == channel = <<>> /\ \A i \in DOMAIN tasks : tasks[i] # "running"

CollectClosed ==
    /\ transfer = "collecting"
    /\ received < Len(results)
    /\ ChannelClosed
    /\ transfer' = "failed"
    /\ UNCHANGED <<total_size, chunks, ranged, tasks, channel, results, file>>

\* The pieces one after the other, in the order of their index.
Pieces[i \in 0..Len(results)] ==
    IF i = 0 THEN <<>> ELSE Pieces[i - 1] \o results[i].data

Assemble ==
    /\ transfer = "collecting"
    /\ received = Len(results)
    /\ \/ /\ \A i \in DOMAIN results : results[i].is = "bytes"
          /\ file' = Pieces[Len(results)]
          /\ transfer' = "whole"
       \/ /\ \E i \in DOMAIN results : results[i].is = "error"
          /\ transfer' = "failed"
          /\ UNCHANGED file
    /\ UNCHANGED <<total_size, chunks, ranged, tasks, channel, results>>

ChunkNext ==
    \/ HeadFails \/ PlainGetBody \/ SpawnChunks
    \/ \E i \in 1..MaxChunks : ChunkAnswers(i) \/ ChunkLost(i)
    \/ Collect \/ CollectClosed \/ Assemble

\* Requests end one way or the other and the executor polls what is woken.
ChunkFairness ==
    /\ WF_chunkVars(HeadFails \/ PlainGetBody \/ SpawnChunks)
    /\ \A i \in 1..MaxChunks : WF_chunkVars(ChunkAnswers(i) \/ ChunkLost(i))
    /\ WF_chunkVars(Collect \/ CollectClosed \/ Assemble)

ChunkSpec == ChunkInit /\ [][ChunkNext]_chunkVars /\ ChunkFairness
-----------------------------------------------------------------------------
\* A download put together from ranges (lines 93-161 of chunk_download_send.rs)
\* returns every byte of the file once and in order, for every size and number
\* of chunks and whatever order the answers come in; a chunk that failed or was
\* lost never leaves a hole.  Of a plain GET, whose status download ignores, it
\* says nothing: ErrorPage is such a download.
AssembledWhole ==
    transfer = "whole" /\ ranged /\ total_size > 0 => file = Bytes(0, total_size - 1)

\* A download ends, also when tasks die without sending their result.
ChunkDownloadEnds == <>(transfer \in {"whole", "failed"})
=============================================================================
