----------------------------- MODULE MCExchange -----------------------------
(***************************************************************************)
(* What happens to one request outside the pool and the dispatcher: the    *)
(* race for a connection, the upload under a first-byte timeout, the read  *)
(* of a limited body, the loop of redirects and retries, the download of a *)
(* file in chunks.  They share no state; each initial state gives one of   *)
(* them something to do and the others nothing.                            *)
(***************************************************************************)
EXTENDS Upload, HappyEyeballs, Bandwidth, Execute, ChunkDownload

CONSTANTS a, b, o1, o2, c1, c2, b1, b2

MCOriginOf == [u \in Uris |-> IF u = a THEN o1 ELSE o2]
MCFramesOf == [x \in Bodies |-> IF x = b1 THEN <<1, 3>> ELSE <<2, 1>>]

\* A first GET of a budgeted call: two of them share the budget.
PlainGet == Fresh([uri |-> a, method |-> "GET", body |-> "empty", secrets |-> {}], TRUE)
Unmade == [PlainGet EXCEPT !.pc = "done"]

NoDownload ==
    /\ total_size = 0 /\ chunks = 1 /\ ranged = FALSE
    /\ tasks = <<>> /\ channel = <<>> /\ results = <<>> /\ file = <<>>
    /\ transfer = "failed"

MCInit ==
    \E part \in {"upload", "race", "bandwidth", "execute", "chunks"} :
        /\ UploadInit
        /\ part # "upload" => outcome = "dropped" /\ driver = "h3" /\ frames = 0 /\ complete
        /\ RaceInit
        /\ part # "race" => resolved = <<>>
        /\ BandwidthInit
        /\ part # "bandwidth" => lag = TicksPerSec /\ \A x \in Bodies : ~reader[x].woken
        /\ ExecuteInit
        /\ IF part = "execute"
           THEN call[c2] = Unmade \/ \A c \in Calls : call[c] = PlainGet
           ELSE \A c \in Calls : call[c] = Unmade
        /\ IF part = "chunks" THEN ChunkInit ELSE NoDownload

MCNext ==
    \/ UploadNext /\ UNCHANGED <<raceVars, bandwidthVars, executeVars, chunkVars>>
    \/ RaceNext /\ UNCHANGED <<uploadVars, bandwidthVars, executeVars, chunkVars>>
    \/ BandwidthNext /\ UNCHANGED <<uploadVars, raceVars, executeVars, chunkVars>>
    \/ ExecuteNext /\ UNCHANGED <<uploadVars, raceVars, bandwidthVars, chunkVars>>
    \/ ChunkNext /\ UNCHANGED <<uploadVars, raceVars, bandwidthVars, executeVars>>

MCSpec ==
    /\ MCInit /\ [][MCNext]_<<uploadVars, raceVars, bandwidthVars, executeVars, chunkVars>>
    /\ UploadFairness /\ RaceFairness /\ BandwidthFairness /\ ExecuteFairness /\ ChunkFairness
=============================================================================
