---------------------------- MODULE MCDownloader ----------------------------
(***************************************************************************)
(* Small instances of the downloader for TLC.                              *)
(***************************************************************************)
EXTENDS Downloader, TLC

CONSTANTS w1, w2

\* The first file has three pieces, the last one short; the others have one.
MCSizeOf == [f \in Files |-> IF f = 1 THEN 5 ELSE 1]
MCPieceLengthOf == [f \in Files |-> IF f = 1 THEN 2 ELSE 1]

\* Workers are interchangeable.
WorkerSymmetry == Permutations(Workers)

\* What a worker's phase still reads: the tries while it fetches, the bytes until
\* they are written, its piece until it is complete or the worker is dead.
InUse(x) ==
  <<x.pc, x.file,
    IF x.pc \in {"fetch", "write", "complete", "died"} THEN x.piece ELSE 0,
    IF x.pc = "fetch" THEN x.retries ELSE 0,
    IF x.pc = "write" THEN x.data ELSE Hole>>

\* Between two runs nothing is left in memory.
DownloaderView ==
  <<server, disk, ctl, phase,
    IF phase = "off" THEN <<>> ELSE <<task, [w \in Workers |-> InUse(worker[w])], cancelled>>>>
=============================================================================
