----------------------------- MODULE Downloader -----------------------------
(***************************************************************************)
(* The parallel downloader of the command line, `aioduct download`:        *)
(* crates/aioduct-cli/src/download (mod.rs, engine.rs, scheduler.rs,       *)
(* segment_man.rs, piece/, worker.rs, control_file.rs, disk_writer.rs).    *)
(*                                                                         *)
(* One run of the command probes its URLs, opens or resumes the output     *)
(* files, and lets a pool of workers fetch pieces of all of them.  The     *)
(* scheduler and every file's storage are mutexes, so each of their        *)
(* methods is one step; between the steps of a worker the other workers,   *)
(* the checkpoint task and the user run.  The process may be killed at any *)
(* time and the command run again: output files and control files survive. *)
(* The server may replace a file by another version of the same size.      *)
(*                                                                         *)
(* Not in the model: the TUI, the checksum option, the WebDAV expansion,   *)
(* and download_segmented, which no command calls.                         *)
(***************************************************************************)
EXTENDS Integers, FiniteSets

CONSTANTS
  FileCount,        \* the tasks of the command, in the order of its arguments
  RangeFiles,       \* those whose server accepts range requests
  Validated,        \* those the probe learnt a strong ETag or a date of
  SizeOf, PieceLengthOf,  \* of each file, in units
  SmallFile,        \* SMALL_FILE_THRESHOLD, in units
  Workers,          \* the workers of the pool: min(split, max_connection_per_server) of them
  Split,            \* --split, the threshold of the end game
  MaxTries,         \* --max-tries
  MaxVersion,       \* the server replaces a file so many times
  WriteErrors,      \* whether a write to disk may fail
  Kills             \* whether the process may be killed

Files == 1..FileCount
PoolWorkers == Cardinality(Workers)
Versions == 1..MaxVersion

ASSUME DownloaderAssumption ==
  /\ FileCount \in Nat \ {0} /\ IsFiniteSet(Workers) /\ Workers # {} /\ MaxVersion \in Nat \ {0}
  /\ RangeFiles \subseteq Files /\ Validated \subseteq Files
  /\ SizeOf \in [Files -> Nat \ {0}] /\ PieceLengthOf \in [Files -> Nat \ {0}]
  /\ SmallFile \in Nat /\ MaxTries \in Nat
  /\ Split \in Nat \ {0} /\ PoolWorkers <= Split
  /\ WriteErrors \in BOOLEAN /\ Kills \in BOOLEAN

VARIABLES
  server,     \* server[f]: the version the server has; its strong ETag names it
  disk,       \* disk[f]: the output file: whether it exists, and the version of each piece
  ctl,        \* ctl[f]: the control file beside it
  phase,      \* what the command is doing
  task,       \* task[f]: DownloadTask, FileEntry with its PieceStorage, and FileStatus
  worker,     \* worker[w]: the locals of pool_worker_loop, and worker_file[w]
  cancelled   \* the CancellationToken of the run

downloadVars == <<server, disk, ctl, phase, task, worker, cancelled>>

\* BitfieldMan: the pieces of a file, the last one possibly shorter.
Pieces(f) == 0..((SizeOf[f] + PieceLengthOf[f] - 1) \div PieceLengthOf[f] - 1)

Hole == 0       \* a piece of the output file that was never written
NoControl == [saved |-> FALSE, done |-> {}, version |-> 0]

\* A FileStatus, or what became of a task that is not in the scheduler: not
\* probed yet, out of reach, probed, skipped as already complete, found complete when resumed,
\* not opened; or, on one connection, requested, streaming, fetched or given up.
InPool == {"Active", "Complete", "Failed"}
OneConnection == {"requested", "streaming"}
Statuses ==
  InPool \cup OneConnection \cup {"none", "unreachable", "probed", "skipped", "resumed", "refused", "fetched", "lost"}
NoTask == [status |-> "none", version |-> 0, done |-> {}, flight |-> {}]

\* What pool_worker_loop is about to do.
WorkerPhases ==
  {"next", "none", "park", "parked", "fetch", "write", "complete", "mark", "exited", "died"}
FreshWorker == [pc |-> "next", file |-> 0, piece |-> 0, retries |-> 0, data |-> Hole]

DownloaderInit ==
  /\ server = [f \in Files |-> 1]
  /\ disk = [f \in Files |-> [exists |-> FALSE, data |-> [i \in Pieces(f) |-> Hole]]]
  /\ ctl = [f \in Files |-> NoControl]
  /\ phase = "off"
  /\ task = [f \in Files |-> NoTask]
  /\ worker = [w \in Workers |-> FreshWorker]
  /\ cancelled = FALSE

Remaining(f) == Cardinality(Pieces(f) \ task[f].done)

(***************************************************************************)
(* The start of a run.                                                     *)
(***************************************************************************)
StartCommand ==
  /\ phase = "off"
  /\ phase' = "probe"
  /\ task' = [f \in Files |-> NoTask]
  /\ worker' = [w \in Workers |-> FreshWorker]
  /\ cancelled' = FALSE
  /\ UNCHANGED <<server, disk, ctl>>

\* probe and the loop of download_multi_mode: an output file without a control
\* file counts as complete.
Probe(f) ==
  /\ phase = "probe" /\ task[f].status = "none"
  /\ task' = [task EXCEPT ![f] =
                [NoTask EXCEPT !.status = IF disk[f].exists /\ ~ctl[f].saved THEN "skipped" ELSE "probed",
                               !.version = server[f]]]
  /\ UNCHANGED <<server, disk, ctl, phase, worker, cancelled>>

\* The HEAD request fails: the file is left out of this run.
ProbeFailed(f) ==
  /\ phase = "probe" /\ task[f].status = "none"
  /\ task' = [task EXCEPT ![f].status = "unreachable"]
  /\ UNCHANGED <<server, disk, ctl, phase, worker, cancelled>>

\* Mutant: the control file is trusted when the lengths agree.
ResumedAnyVersion(f) == IF ctl[f].saved THEN ctl[f].done ELSE {}

\* resume_or_new_storage: the bitfield of a control file whose validator is the
\* one just probed, and otherwise (no validator at all included) an empty one.
Resumed(f) ==
  IF ctl[f].saved /\ f \in Validated /\ ctl[f].version = task[f].version THEN ctl[f].done ELSE {}

AllProbed == \A f \in Files : task[f].status # "none"

\* One file of download_multi: complete already (its control file goes), or
\* opened at its full length and given to the scheduler.  What an output file
\* held before stays where it was.
Open(f) ==
  /\ phase = "probe" /\ AllProbed
  /\ task[f].status = "probed" /\ f \in RangeFiles
  /\ IF Resumed(f) = Pieces(f)
       THEN /\ task' = [task EXCEPT ![f].status = "resumed", ![f].done = Resumed(f)]
            /\ ctl' = [ctl EXCEPT ![f] = NoControl]
            /\ UNCHANGED disk
       ELSE /\ task' = [task EXCEPT ![f].status = "Active", ![f].done = Resumed(f)]
            /\ disk' = [disk EXCEPT ![f].exists = TRUE]
            /\ UNCHANGED ctl
  /\ UNCHANGED <<server, phase, worker, cancelled>>

\* The output file, or its directory, cannot be opened.
OpenRefused(f) ==
  /\ phase = "probe" /\ AllProbed
  /\ task[f].status = "probed" /\ f \in RangeFiles /\ Resumed(f) # Pieces(f)
  /\ task' = [task EXCEPT ![f].status = "refused"]
  /\ UNCHANGED <<server, disk, ctl, phase, worker, cancelled>>

\* A file whose server has no ranges gets a task of its own, outside the pool:
\* it sends the request, creates (and truncates) the output, and streams into it.
OpenSingle(f) ==
  /\ phase = "probe" /\ AllProbed
  /\ task[f].status = "probed" /\ f \notin RangeFiles
  /\ task' = [task EXCEPT ![f].status = "requested"]
  /\ UNCHANGED <<server, disk, ctl, phase, worker, cancelled>>

SingleCreated(f) ==
  /\ task[f].status = "requested"
  /\ task' = [task EXCEPT ![f].status = "streaming", ![f].version = server[f]]
  /\ disk' = [disk EXCEPT ![f] = [exists |-> TRUE, data |-> [i \in Pieces(f) |-> Hole]]]
  /\ UNCHANGED <<server, ctl, phase, worker, cancelled>>

SingleFetched(f) ==
  /\ task[f].status = "streaming"
  /\ task' = [task EXCEPT ![f].status = "fetched"]
  /\ disk' = [disk EXCEPT ![f].data = [i \in Pieces(f) |-> task[f].version]]
  /\ UNCHANGED <<server, ctl, phase, worker, cancelled>>

SingleLost(f) ==
  /\ task[f].status \in OneConnection
  /\ task' = [task EXCEPT ![f].status = "lost"]
  /\ UNCHANGED <<server, disk, ctl, phase, worker, cancelled>>

PoolFiles == {f \in Files : task[f].status \in InPool}

\* The workers and the checkpoint task are spawned, unless the pool has no file.
Spawn ==
  /\ phase = "probe"
  /\ \A f \in Files : task[f].status \notin {"none", "probed"}
  /\ phase' = IF PoolFiles = {} THEN "joining" ELSE "running"
  /\ UNCHANGED <<server, disk, ctl, task, worker, cancelled>>

(***************************************************************************)
(* The scheduler.                                                          *)
(***************************************************************************)
\* file_worker_count: the workers whose last assignment was of f.
WorkersOn(f, w) == {v \in Workers \ {w} : worker[v].file = f}

\* A FileId is the position of the task in the list given to download_multi,
\* counted from 1 here.
Listed == {f \in Files : task[f].status \notin {"none", "skipped", "unreachable"}}
IdOf(f) == Cardinality({g \in Listed : g <= f})

\* SchedulerInner::all_done looks at the first files.len() entries of
\* file_status, which is indexed by FileId: entries of tasks that are not in the
\* pool stay Pending.
AllDone ==
  \A f \in Listed : IdOf(f) <= Cardinality(PoolFiles) => task[f].status \in {"Complete", "Failed"}

\* The cap on the workers of a file.
MaxWorkers(f) ==
  LET most == IF SizeOf[f] < SmallFile THEN 2 ELSE PoolWorkers
  IN  IF Remaining(f) < most THEN Remaining(f) ELSE most

\* The files next_work may give worker w a piece of, w having released its own.
Candidates(w) ==
  {f \in Files : /\ task[f].status = "Active"
                 /\ Remaining(f) > 0
                 /\ Cardinality(WorkersOn(f, w)) < MaxWorkers(f)}

\* score(f) > score(g): files without a worker first, the smallest of them first;
\* then by remaining bytes per worker, with a bonus of a fifth for the file the
\* worker comes from.
ScoresHigher(f, g, w) ==
  LET count(h) == Cardinality(WorkersOn(h, w))
      bytes(h) == Remaining(h) * PieceLengthOf[h] * (IF worker[w].file = h THEN 6 ELSE 5)
  IN  CASE count(f) = 0 /\ count(g) = 0 -> SizeOf[f] < SizeOf[g]
        [] count(f) = 0 /\ count(g) > 0 -> TRUE
        [] count(f) > 0 /\ count(g) = 0 -> FALSE
        [] OTHER -> bytes(f) * (count(g) + 1) > bytes(g) * (count(f) + 1)

\* The file next_work settles on: the first with the highest score.
Chosen(f, w) ==
  /\ f \in Candidates(w)
  /\ \A g \in Candidates(w) \ {f} :
       ~ScoresHigher(g, f, w) /\ (g < f => ScoresHigher(f, g, w))

\* select_piece: the middle of the first of the longest runs of available pieces.
RunAt(i, n, available) == i..(i + n - 1) \subseteq available
SelectPiece(available) ==
  LET n == CHOOSE m \in 1..Cardinality(available) :
             /\ \E i \in available : RunAt(i, m, available)
             /\ \A i \in available : ~RunAt(i, m + 1, available)
      start == CHOOSE i \in available :
             /\ RunAt(i, n, available)
             /\ \A j \in available : RunAt(j, n, available) => i <= j
  IN  start + n \div 2

Available(f) == (Pieces(f) \ task[f].done) \ task[f].flight

\* SegmentMan::next_piece: an available piece or, in the end game, the first that
\* is not complete, though somebody is fetching it; -1 for None.
NextPiece(f) ==
  CASE Available(f) # {} -> SelectPiece(Available(f))
    [] Available(f) = {} /\ Remaining(f) \in 1..Split ->
         CHOOSE i \in Pieces(f) \ task[f].done : \A j \in Pieces(f) \ task[f].done : i <= j
    [] OTHER -> -1

\* notify_waiters wakes those that wait now, and nobody else.
Woken(ws) == [w \in Workers |-> IF ws[w].pc = "parked" THEN [ws[w] EXCEPT !.pc = "next"] ELSE ws[w]]

(***************************************************************************)
(* pool_worker_loop.                                                       *)
(***************************************************************************)
At(w, pc) == phase = "running" /\ worker[w].pc = pc

\* next_work: the previous assignment is released, and a piece assigned.
NextWork(w, f) ==
  /\ At(w, "next") /\ ~cancelled /\ ~AllDone
  /\ Chosen(f, w) /\ NextPiece(f) # -1
  /\ worker' = [worker EXCEPT ![w] =
                  [FreshWorker EXCEPT !.pc = "fetch", !.file = f, !.piece = NextPiece(f)]]
  /\ task' = [task EXCEPT ![f].flight = IF Available(f) # {} THEN @ \cup {NextPiece(f)} ELSE @]
  /\ UNCHANGED <<server, disk, ctl, phase, cancelled>>

\* next_work finds nothing.
NoWork(w) ==
  /\ At(w, "next") /\ ~cancelled
  /\ AllDone \/ \A f \in Files : Chosen(f, w) => NextPiece(f) = -1
  /\ worker' = [worker EXCEPT ![w] = [FreshWorker EXCEPT !.pc = "none"]]
  /\ UNCHANGED <<server, disk, ctl, phase, task, cancelled>>

\* ... then all_complete is asked, under a lock of its own ...
LastLook(w) ==
  /\ At(w, "none")
  /\ worker' = [worker EXCEPT ![w].pc = IF AllDone THEN "exited" ELSE "park"]
  /\ UNCHANGED <<server, disk, ctl, phase, task, cancelled>>

\* ... and only then is the wait registered.
Park(w) ==
  /\ At(w, "park")
  /\ worker' = [worker EXCEPT ![w].pc = "parked"]
  /\ UNCHANGED <<server, disk, ctl, phase, task, cancelled>>

\* The token ends a worker that is between two pieces or waits for work.
Leave(w) ==
  /\ cancelled /\ (At(w, "next") \/ At(w, "parked"))
  /\ worker' = [worker EXCEPT ![w].pc = "exited"]
  /\ UNCHANGED <<server, disk, ctl, phase, task, cancelled>>

\* Mutant: no If-Range header is sent.
ServesAny(f) == TRUE

\* If-Range carries the probed validator, if there is one: the server answers 206
\* only while it still has that version, and everything else is an error.
Serves(f) == f \in Validated => server[f] = task[f].version

\* download_piece succeeds: a 206 with the whole range.
Fetched(w) ==
  /\ At(w, "fetch")
  /\ Serves(worker[w].file)
  /\ worker' = [worker EXCEPT ![w].pc = "write", ![w].data = server[worker[w].file]]
  /\ UNCHANGED <<server, disk, ctl, phase, task, cancelled>>

\* Mutant: a piece that is given up is not released.
FetchFailedHolding(w) ==
  LET f == worker[w].file
      last == worker[w].retries + 1 >= MaxTries
  IN  /\ At(w, "fetch") /\ ~cancelled
      /\ task' = [task EXCEPT ![f].status = IF last THEN "Failed" ELSE @]
      /\ worker' = IF last THEN Woken([worker EXCEPT ![w].pc = "next"])
                           ELSE [worker EXCEPT ![w].retries = @ + 1]
      /\ UNCHANGED <<server, disk, ctl, phase, cancelled>>

\* download_piece fails (status, Content-Range, timeout, stall, early end): the
\* piece is tried again, or given up and its file marked Failed.
FetchFailed(w) ==
  LET f == worker[w].file
      last == worker[w].retries + 1 >= MaxTries
  IN  /\ At(w, "fetch") /\ ~cancelled
      /\ IF last
           THEN /\ task' = [task EXCEPT ![f].status = "Failed", ![f].flight = @ \ {worker[w].piece}]
                /\ worker' = Woken([worker EXCEPT ![w].pc = "next"])
           ELSE /\ worker' = [worker EXCEPT ![w].retries = @ + 1]
                /\ UNCHANGED task
      /\ UNCHANGED <<server, disk, ctl, phase, cancelled>>

\* ... or it is cancelled: fail_piece, and the worker ends.
FetchCancelled(w) ==
  /\ At(w, "fetch") /\ cancelled
  /\ task' = [task EXCEPT ![worker[w].file].flight = @ \ {worker[w].piece}]
  /\ worker' = Woken([worker EXCEPT ![w].pc = "exited"])
  /\ UNCHANGED <<server, disk, ctl, phase, cancelled>>

Write(w) ==
  /\ At(w, "write")
  /\ disk' = [disk EXCEPT ![worker[w].file].data[worker[w].piece] = worker[w].data]
  /\ worker' = [worker EXCEPT ![w].pc = "complete"]
  /\ UNCHANGED <<server, ctl, phase, task, cancelled>>

\* A write error ends the worker at once: its piece stays in flight, its file
\* keeps counting it, and nobody is notified.
WriteFailed(w) ==
  /\ WriteErrors /\ At(w, "write")
  /\ worker' = [worker EXCEPT ![w].pc = "died"]
  /\ UNCHANGED <<server, disk, ctl, phase, task, cancelled>>

\* Mutant: nobody looks whether the file is complete now.
CompletePieceOnly(w) ==
  LET f == worker[w].file
  IN  /\ At(w, "complete")
      /\ task' = [task EXCEPT ![f].done = @ \cup {worker[w].piece}, ![f].flight = @ \ {worker[w].piece}]
      /\ worker' = [worker EXCEPT ![w].pc = "next"]
      /\ UNCHANGED <<server, disk, ctl, phase, cancelled>>

\* GlobalScheduler::complete_piece.
CompletePiece(w) ==
  LET f == worker[w].file
      done == task[f].done \cup {worker[w].piece}
  IN  /\ At(w, "complete")
      /\ task' = [task EXCEPT ![f].done = done, ![f].flight = @ \ {worker[w].piece}]
      /\ worker' = [worker EXCEPT ![w].pc = IF done = Pieces(f) THEN "mark" ELSE "next"]
      /\ UNCHANGED <<server, disk, ctl, phase, cancelled>>

\* mark_file_complete, under the lock again.
MarkFileComplete(w) ==
  /\ At(w, "mark")
  /\ task' = [task EXCEPT ![worker[w].file].status = "Complete"]
  /\ worker' = Woken([worker EXCEPT ![w].pc = "next"])
  /\ UNCHANGED <<server, disk, ctl, phase, cancelled>>

(***************************************************************************)
(* Around the workers.                                                     *)
(***************************************************************************)
\* Mutant: the checkpoint also records what is in flight.
SavedInFlight(f) ==
  [saved |-> TRUE, done |-> task[f].done \cup task[f].flight, version |-> task[f].version]

\* ControlFile::from_storage and its atomic save.
Saved(f) == [saved |-> TRUE, done |-> task[f].done, version |-> task[f].version]

\* A tick of the checkpoint task, for one of the files still Active.
Checkpoint(f) ==
  /\ phase = "running" /\ ~cancelled
  /\ task[f].status = "Active"
  /\ ctl' = [ctl EXCEPT ![f] = Saved(f)]
  /\ UNCHANGED <<server, disk, phase, task, worker, cancelled>>

\* The user quits the TUI.
Quit ==
  /\ phase = "running" /\ ~cancelled
  /\ cancelled' = TRUE
  /\ UNCHANGED <<server, disk, ctl, phase, task, worker>>

\* Mutant: every control file is removed at the end.
KeptNone(f) == NoControl

\* The control file of a file that is complete is removed.
Kept(f) == IF task[f].status \in InPool /\ Remaining(f) = 0 THEN NoControl ELSE ctl[f]

\* Every worker has been joined: the checkpoint task is stopped and the control
\* files are cleaned up.
Finish ==
  /\ phase = "running"
  /\ \A w \in Workers : worker[w].pc \in {"exited", "died"}
  /\ phase' = "joining"
  /\ ctl' = [f \in Files |-> Kept(f)]
  /\ cancelled' = TRUE
  /\ UNCHANGED <<server, disk, task, worker>>

\* The downloads outside the pool have ended too: the results are printed.
Report ==
  /\ phase = "joining"
  /\ \A f \in Files : task[f].status \notin OneConnection
  /\ phase' = "off"
  /\ UNCHANGED <<server, disk, ctl, task, worker, cancelled>>

\* The process is killed; the next state of the program is a new run's.
Kill ==
  /\ Kills /\ phase # "off"
  /\ phase' = "off"
  /\ task' = [f \in Files |-> NoTask]
  /\ worker' = [w \in Workers |-> FreshWorker]
  /\ cancelled' = FALSE
  /\ UNCHANGED <<server, disk, ctl>>

\* The server replaces file f.
Replace(f) ==
  /\ server[f] < MaxVersion
  /\ server' = [server EXCEPT ![f] = @ + 1]
  /\ UNCHANGED <<disk, ctl, phase, task, worker, cancelled>>

WorkerStep(w) ==
  \/ \E f \in Files : NextWork(w, f)
  \/ NoWork(w) \/ LastLook(w) \/ Park(w) \/ Leave(w)
  \/ Fetched(w) \/ FetchFailed(w) \/ FetchCancelled(w)
  \/ Write(w) \/ WriteFailed(w) \/ CompletePiece(w) \/ MarkFileComplete(w)

DownloaderNext ==
  \/ StartCommand \/ Spawn \/ Quit \/ Finish \/ Report \/ Kill
  \/ \E f \in Files :
       \/ Probe(f) \/ ProbeFailed(f) \/ Open(f) \/ OpenRefused(f) \/ Checkpoint(f) \/ Replace(f)
       \/ OpenSingle(f) \/ SingleCreated(f) \/ SingleFetched(f) \/ SingleLost(f)
  \/ \E w \in Workers : WorkerStep(w)

DownloaderSpec == DownloaderInit /\ [][DownloaderNext]_downloadVars

(***************************************************************************)
(* Properties.                                                             *)
(***************************************************************************)
\* The type invariant of the command's files and of its run.
DownloaderTypeOK ==
  /\ server \in [Files -> Versions]
  /\ \A f \in Files :
       /\ disk[f].exists \in BOOLEAN /\ disk[f].data \in [Pieces(f) -> Versions \cup {Hole}]
       /\ ctl[f].saved \in BOOLEAN /\ ctl[f].done \subseteq Pieces(f)
       /\ ctl[f].version \in Versions \cup {0}
       /\ task[f].status \in Statuses /\ task[f].version \in Versions \cup {0}
       /\ task[f].done \subseteq Pieces(f) /\ task[f].flight \subseteq Pieces(f)
  /\ phase \in {"off", "probe", "running", "joining"} /\ cancelled \in BOOLEAN
  /\ \A w \in Workers :
       /\ worker[w].pc \in WorkerPhases /\ worker[w].file \in Files \cup {0}
       /\ worker[w].retries \in 0..MaxTries - 1 \cup {0} /\ worker[w].data \in Versions \cup {Hole}

\* What a control file says is complete is on disk, in the version the control
\* file names, as long as that is a version a run could resume: through kills,
\* checkpoints in the middle of anything, end-game duplicates and replaced files.
ClaimsOnDisk ==
  \A f \in Validated : ctl[f].saved /\ ctl[f].version = server[f] =>
    \A i \in ctl[f].done : disk[f].data[i] = ctl[f].version

\* A file the command reports as downloaded (no remaining piece) consists of one
\* version, the one that was probed, however many runs and workers it took.
NoMixedVersions ==
  \A f \in Validated :
    task[f].status \in InPool \cup {"resumed"} /\ Remaining(f) = 0 =>
      \A i \in Pieces(f) : disk[f].data[i] = task[f].version

\* A control file is only removed when the file beside it is whole: without one
\* the next run takes the output for complete.
ControlKept ==
  [][\A f \in Files : ctl[f].saved /\ ~ctl'[f].saved =>
       \A i \in Pieces(f) : disk[f].data[i] # Hole]_downloadVars

\* A piece in flight belongs to a worker that is at it, or that a write error has
\* ended: no failure, cancellation or end-game duplicate leaves one behind that
\* nobody may take any more.
FlightOwned ==
  \A f \in Files : \A i \in task[f].flight :
    \E w \in Workers : /\ worker[w].file = f /\ worker[w].piece = i
                       /\ worker[w].pc \in {"fetch", "write", "complete", "died"}

\* While files are unfinished and no worker died, a waiting worker is never the
\* last: somebody is busy whose end of file will wake it.
WaitersHaveWorker ==
  phase = "running" /\ ~cancelled /\ (\E f \in PoolFiles : task[f].status = "Active")
    /\ (\A w \in Workers : worker[w].pc # "died")
    => \E w \in Workers : worker[w].pc \notin {"parked", "exited"}

\* Completion is detected: once every file of the pool is Complete, no worker is
\* left waiting, with nobody to notify it, for all_done to turn true. With one
\* worker, which completes every piece itself and then looks, no notification can
\* be lost, and all_done alone decides.
WorkersLeave ==
  phase = "running" /\ ~cancelled /\ (\A f \in PoolFiles : task[f].status = "Complete")
    /\ (\A w \in Workers : worker[w].pc \in {"parked", "exited"})
    => \A w \in Workers : worker[w].pc # "parked"

\* An output file that is skipped as "already complete" is complete, so that
\* running the command again resumes what was interrupted.
SkippedIsWhole ==
  \A f \in Files : task[f].status = "skipped" =>
    \A i \in Pieces(f) : disk[f].data[i] # Hole
=============================================================================
