-------------------------- MODULE DownloaderProofs --------------------------
(***************************************************************************)
(* Proofs about the downloader: ClaimsOnDisk, NoMixedVersions, FlightOwned,*)
(* WaitersHaveWorker and ControlKept, for any files, workers and versions, *)
(* through any number of runs, kills and replacements.                     *)
(***************************************************************************)
EXTENDS Downloader, FiniteSetTheorems, WellFoundedInduction, TLAPS

Cells == Versions \cup {Hole}

SomeData == UNION {[Pieces(f) -> Cells] : f \in Files}

DiskState == [exists : BOOLEAN, data : SomeData]

CtlState == [saved : BOOLEAN, done : SUBSET Nat, version : Cells]

TaskState == [status : Statuses, version : Cells, done : SUBSET Nat, flight : SUBSET Nat]

Retries == 0..MaxTries - 1 \cup {0}

WorkerState ==
  [pc : WorkerPhases, file : Files \cup {0}, piece : Nat, retries : Retries, data : Cells]

\* The files whose bitfield counts.
Pooled == InPool \cup {"resumed"}

\* Bytes that may stand in a file: of the probed version, where a validator says so.
Good(f, t, v) == v \in Versions /\ (f \in Validated => v = t.version)

FileTypes(f, s, d, c, t) ==
  /\ s \in Versions /\ d \in DiskState /\ c \in CtlState /\ t \in TaskState
  /\ d.data \in [Pieces(f) -> Cells]
  /\ c.done \subseteq Pieces(f) /\ t.done \subseteq Pieces(f) /\ t.flight \subseteq Pieces(f)

\* Versions only grow: the control file is not newer than the probe, and the
\* probe not newer than the server.
VersionsOrdered(s, c, t) ==
  /\ c.version <= s /\ t.version <= s
  /\ t.version # Hole => c.version <= t.version
  /\ t.status \notin {"none", "unreachable"} => t.version # Hole

\* Only files with ranges have a bitfield or a control file.
PoolHasRanges(f, c, t) ==
  /\ t.status \notin Pooled => t.done = {} /\ t.flight = {}
  /\ t.status \in Pooled => f \in RangeFiles
  /\ t.status \in OneConnection => f \notin RangeFiles
  /\ c.saved => f \in RangeFiles

\* ClaimsOnDisk, of the version the run probed as well, though the server may
\* have replaced that since.
ClaimsHold(f, s, d, c, t) ==
  f \in Validated /\ c.saved /\ (c.version = s \/ (t.version # Hole /\ c.version = t.version))
    => \A i \in c.done : d.data[i] = c.version

\* What the bitfield says is complete is on disk.
DoneOnDisk(f, d, t) ==
  t.status \in Pooled => \A i \in t.done : Good(f, t, d.data[i])

FileOK(f, s, d, c, t) ==
  /\ FileTypes(f, s, d, c, t) /\ VersionsOrdered(s, c, t) /\ PoolHasRanges(f, c, t)
  /\ ClaimsHold(f, s, d, c, t) /\ DoneOnDisk(f, d, t)

Busy == {"fetch", "write", "complete", "mark"}

\* A worker's piece is one of its file's, and what it has fetched or written is
\* of the version probed.
WorkerOK(x) ==
  /\ x.pc \in Busy =>
       /\ phase = "running" /\ x.file \in Files
       /\ task[x.file].status \in InPool /\ x.piece \in Pieces(x.file)
  /\ x.pc = "write" => Good(x.file, task[x.file], x.data)
  /\ x.pc = "complete" => Good(x.file, task[x.file], disk[x.file].data[x.piece])
  /\ x.pc = "mark" => task[x.file].done = Pieces(x.file)
  /\ x.pc \in {"none", "park", "parked"} => x.file = 0
  /\ x.pc = "exited" => x.file = 0 \/ cancelled

\* The files and the workers, each as they should be.
FilesOK ==
  /\ server \in [Files -> Versions] /\ disk \in [Files -> DiskState]
  /\ ctl \in [Files -> CtlState] /\ task \in [Files -> TaskState]
  /\ \A f \in Files : FileOK(f, server[f], disk[f], ctl[f], task[f])

WorkersOK ==
  /\ worker \in [Workers -> WorkerState]
  /\ phase \in {"off", "probe", "running", "joining"} /\ cancelled \in BOOLEAN
  /\ \A w \in Workers : WorkerOK(worker[w])
  /\ phase = "probe" => \A w \in Workers : worker[w].pc = "next"

\* A file that has just become whole is about to be marked so.
WholeIsMarked ==
  /\ phase = "probe" => \A f \in Files : task[f].status = "Active" => task[f].done # Pieces(f)
  /\ phase = "running" => \A f \in Files : task[f].status = "Active" /\ task[f].done = Pieces(f) =>
       \E w \in Workers : worker[w].pc = "mark" /\ worker[w].file = f

\* While a file is unfinished and no worker died, somebody is at a piece or about
\* to look for one.
SomebodyLooks ==
  phase = "running" /\ ~cancelled /\ (\E f \in Files : task[f].status = "Active")
    /\ (\A w \in Workers : worker[w].pc # "died")
    => \E w \in Workers : worker[w].pc \in Busy \cup {"next"}

DownloaderInv == FilesOK /\ WorkersOK /\ FlightOwned /\ WholeIsMarked /\ SomebodyLooks
-----------------------------------------------------------------------------
(***************************************************************************)
(* The choice of a file and of a piece.                                    *)
(***************************************************************************)
\* Every set of natural numbers has a least one.
LEMMA LeastOf ==
  ASSUME NEW T, T \subseteq Nat, T # {}
  PROVE  \E x \in T : \A y \in T : x <= y
<1>1. PICK x \in T : \A y \in T : ~(<<y, x>> \in OpToRel(<, Nat))
  BY NatLessThanWellFounded, WFMin, Zenon
<1>2. ASSUME NEW y \in T, y < x PROVE FALSE
  <2>1. <<y, x>> \in OpToRel(<, Nat)
    BY <1>2 DEF OpToRel
  <2> QED BY <1>1, <2>1
<1> QED BY <1>2

\* A file has finitely many pieces.
LEMMA PiecesFinite ==
  ASSUME NEW f \in Files
  PROVE  Pieces(f) \subseteq Nat /\ IsFiniteSet(Pieces(f))
<1> DEFINE n == (SizeOf[f] + PieceLengthOf[f] - 1) \div PieceLengthOf[f] - 1
<1>1. SizeOf[f] \in Nat /\ PieceLengthOf[f] \in Nat /\ PieceLengthOf[f] > 0
  BY DownloaderAssumption
<1>2. n \in Int
  BY <1>1
<1> HIDE DEF n
<1>3. IsFiniteSet(0..n)
  BY <1>2, FS_Interval
<1>4. Pieces(f) = 0..n
  BY DEF Pieces, n
<1> QED BY <1>2, <1>3, <1>4

\* How many pieces are missing, and when none is.
LEMMA RemainingCounts ==
  ASSUME NEW f \in Files
  PROVE  /\ Remaining(f) \in Nat
         /\ Remaining(f) = 0 <=> Pieces(f) \subseteq task[f].done
<1>1. IsFiniteSet(Pieces(f) \ task[f].done)
  BY PiecesFinite, FS_Difference
<1>2. Cardinality(Pieces(f) \ task[f].done) = 0 <=> Pieces(f) \ task[f].done = {}
  BY <1>1, FS_EmptySet
<1>3. Cardinality(Pieces(f) \ task[f].done) \in Nat
  BY <1>1, FS_CardinalityType
<1> QED BY <1>2, <1>3 DEF Remaining

\* select_piece returns a piece of the ones it was given, whatever gaps they have.
LEMMA SelectPieceAvailable ==
  ASSUME NEW A \in SUBSET Nat, IsFiniteSet(A), A # {}
  PROVE  SelectPiece(A) \in A
<1> DEFINE Runs(m) == \E i \in A : RunAt(i, m, A)
           k == Cardinality(A)
           T == {m \in Nat : m >= 1 /\ ~Runs(m + 1)}
<1>1. k \in Nat /\ k >= 1
  <2>1. Cardinality(A) \in Nat
    BY FS_CardinalityType
  <2>2. Cardinality(A) # 0
    BY FS_EmptySet
  <2> QED BY <2>1, <2>2
<1>2. Runs(1)
  <2>1. PICK i \in A : TRUE
    OBVIOUS
  <2>2. i..(i + 1 - 1) = {i}
    OBVIOUS
  <2> QED BY <2>1, <2>2 DEF RunAt
<1>3. ~Runs(k + 1)
  <2>1. SUFFICES ASSUME NEW i \in A, i..(i + (k + 1) - 1) \subseteq A PROVE FALSE
    BY DEF RunAt
  <2> DEFINE I == i..(i + (k + 1) - 1)
  <2>2. i \in Int /\ i + (k + 1) - 1 \in Int /\ i + (k + 1) - 1 >= i
    BY <1>1
  <2>3. Cardinality(I) = (i + (k + 1) - 1) - i + 1
    BY <2>2, FS_Interval
  <2>4. Cardinality(I) = k + 1
    BY <1>1, <2>2, <2>3
  <2>5. Cardinality(I) <= Cardinality(A)
    <3> HIDE DEF I
    <3> QED BY <2>1, FS_Subset DEF I
  <2> QED BY <1>1, <2>4, <2>5
<1>4. k \in T
  BY <1>1, <1>3
<1> HIDE DEF k
<1>5. PICK n \in T : \A m \in T : n <= m
  <2>1. T \subseteq Nat /\ T # {}
    BY <1>4
  <2> HIDE DEF T
  <2> QED BY <2>1, LeastOf
<1>6. n \in Nat /\ n >= 1 /\ n <= k
  BY <1>4, <1>5
<1>7. Runs(n) /\ ~Runs(n + 1)
  <2>1. ~Runs(n + 1)
    BY <1>5
  <2>2. CASE n = 1
    BY <1>2, <2>1, <2>2
  <2>3. CASE n # 1
    <3>1. n - 1 \in Nat /\ n - 1 >= 1 /\ n - 1 + 1 = n /\ n - 1 < n
      BY <1>6, <2>3
    <3>2. n - 1 \notin T
      BY <1>5, <1>6, <3>1
    <3>3. Runs(n - 1 + 1)
      BY <3>1, <3>2
    <3> HIDE DEF Runs
    <3> QED BY <2>1, <3>1, <3>3
  <2> QED BY <2>2, <2>3
<1> DEFINE P(m) == /\ \E i \in A : RunAt(i, m, A)
                   /\ \A i \in A : ~RunAt(i, m + 1, A)
           b == CHOOSE m \in 1..k : P(m)
<1>8. n \in 1..k /\ P(n)
  BY <1>1, <1>6, <1>7
<1>9. b \in 1..k /\ P(b)
  <2> HIDE DEF P
  <2> QED BY <1>8, Zenon
<1> HIDE DEF b
<1> DEFINE Q(i) == RunAt(i, b, A) /\ \A j \in A : RunAt(j, b, A) => i <= j
           a == CHOOSE i \in A : Q(i)
<1>10. a \in A /\ Q(a)
  <2> DEFINE S == {i \in A : RunAt(i, b, A)}
  <2>1. S \subseteq Nat /\ S # {}
    BY <1>9
  <2>2. PICK i \in S : \A j \in S : i <= j
    <3> HIDE DEF S
    <3> QED BY <2>1, LeastOf
  <2>3. i \in A /\ Q(i)
    BY <2>2
  <2> HIDE DEF Q
  <2> QED BY <2>3, Zenon
<1> HIDE DEF a
<1>11. SelectPiece(A) = a + b \div 2
  BY DEF SelectPiece, a, b, k
<1>12. a + b \div 2 \in a..(a + b - 1)
  <2>1. a \in Nat /\ b \in Nat /\ b >= 1
    BY <1>1, <1>9, <1>10
  <2>2. b \div 2 \in Nat /\ b \div 2 <= b - 1
    BY <2>1
  <2> QED BY <2>1, <2>2
<1> QED BY <1>10, <1>11, <1>12 DEF RunAt

\* next_piece returns a piece of the file that is not complete, or None.
LEMMA NextPieceMissing ==
  ASSUME NEW f \in Files, NextPiece(f) # -1
  PROVE  NextPiece(f) \in Pieces(f) \ task[f].done
<1>1. CASE Available(f) # {}
  <2>1. Available(f) \in SUBSET Pieces(f) /\ Available(f) \subseteq Pieces(f) \ task[f].done
    BY DEF Available
  <2>2. Available(f) \in SUBSET Nat /\ IsFiniteSet(Available(f))
    BY <2>1, PiecesFinite, FS_Subset
  <2>3. SelectPiece(Available(f)) \in Available(f)
    BY <1>1, <2>2, SelectPieceAvailable
  <2>4. NextPiece(f) = SelectPiece(Available(f))
    BY <1>1 DEF NextPiece
  <2> QED BY <2>1, <2>3, <2>4
<1>2. CASE Available(f) = {}
  <2> DEFINE M == Pieces(f) \ task[f].done
             P(i) == \A j \in M : i <= j
  <2>1. Remaining(f) \in 1..Split /\ NextPiece(f) = CHOOSE i \in M : P(i)
    BY <1>2 DEF NextPiece
  <2>2. M \subseteq Nat /\ M # {}
    BY <2>1, PiecesFinite, RemainingCounts
  <2>3. \E i \in M : P(i)
    <3> HIDE DEF M
    <3> QED BY <2>2, LeastOf
  <2> HIDE DEF M, P
  <2>4. NextPiece(f) \in M
    BY <2>1, <2>3, Zenon
  <2> QED BY <2>4 DEF M
<1> QED BY <1>1, <1>2
-----------------------------------------------------------------------------
(***************************************************************************)
(* What may happen to one file.                                            *)
(***************************************************************************)
\* Versions are numbers.
LEMMA VersionNumbers ==
  /\ MaxVersion \in Nat /\ MaxVersion >= 1 /\ Versions \subseteq Nat /\ Cells \subseteq Nat
  /\ Versions = Cells \ {Hole} /\ Hole = 0 /\ 1 \in Versions
BY DownloaderAssumption DEF Versions, Cells, Hole

\* A file of the pool goes on: pieces are taken, given up, completed, and the
\* file is marked.
LEMMA PoolFileKept ==
  ASSUME NEW f \in Files, NEW s, NEW d, NEW c, NEW t, FileOK(f, s, d, c, t),
         t.status \in InPool, NEW t1 \in TaskState, t1.status \in InPool,
         t1.version = t.version, t1.flight \subseteq Pieces(f), t1.done \subseteq Pieces(f),
         \A i \in t1.done : i \in t.done \/ Good(f, t, d.data[i])
  PROVE  FileOK(f, s, d, c, t1)
<1>1. t.status \in Pooled /\ t1.status \in Pooled
  BY DEF Pooled
<1>2. t1.status \notin {"none", "unreachable"} \cup OneConnection
      /\ t.status \notin {"none", "unreachable"}
  BY DEF InPool, OneConnection
<1>3. FileTypes(f, s, d, c, t1) /\ VersionsOrdered(s, c, t1) /\ PoolHasRanges(f, c, t1)
  BY <1>1, <1>2 DEF FileOK, FileTypes, VersionsOrdered, PoolHasRanges
<1>4. ClaimsHold(f, s, d, c, t1) /\ DoneOnDisk(f, d, t1)
  BY <1>1 DEF FileOK, ClaimsHold, DoneOnDisk, Good
<1> QED BY <1>3, <1>4 DEF FileOK

\* A file outside the pool, or one that a new run forgets.
LEMMA OutsideFileKept ==
  ASSUME NEW f \in Files, NEW s, NEW d, NEW c, NEW t, FileOK(f, s, d, c, t),
         NEW t1 \in TaskState, t1.status \notin Pooled, t1.done = {}, t1.flight = {},
         t1.version \in {Hole, t.version, s},
         t1.status \notin {"none", "unreachable"} => t1.version # Hole,
         t1.status \in OneConnection => f \notin RangeFiles,
         NEW d1 \in DiskState, d1.data \in [Pieces(f) -> Cells],
         d1.data = d.data \/ f \notin RangeFiles
  PROVE  FileOK(f, s, d1, c, t1)
<1>1. s \in Nat /\ c.version \in Nat /\ t.version \in Nat /\ t1.version \in Nat
  BY VersionNumbers DEF FileOK, FileTypes, CtlState, TaskState
<1>2. FileTypes(f, s, d1, c, t1) /\ PoolHasRanges(f, c, t1) /\ DoneOnDisk(f, d1, t1)
  BY DEF FileOK, FileTypes, PoolHasRanges, DoneOnDisk
<1>3. VersionsOrdered(s, c, t1)
  BY <1>1, VersionNumbers DEF FileOK, VersionsOrdered
<1>4. ClaimsHold(f, s, d1, c, t1)
  BY <1>1 DEF FileOK, VersionsOrdered, PoolHasRanges, ClaimsHold
<1> QED BY <1>2, <1>3, <1>4 DEF FileOK

\* A file is resumed: the control file's claims become the bitfield's, of the
\* version probed; the control file may go when they are all.
LEMMA ResumedFileKept ==
  ASSUME NEW f \in RangeFiles, f \in Files, NEW s, NEW d, NEW c, NEW t,
         FileOK(f, s, d, c, t), t.status = "probed", NEW done,
         done = (IF c.saved /\ f \in Validated /\ c.version = t.version THEN c.done ELSE {}),
         NEW t1 \in TaskState, t1.status \in Pooled, t1.version = t.version, t1.done = done,
         t1.flight = {}, NEW c1 \in CtlState, c1 = c \/ c1 = NoControl,
         NEW d1 \in DiskState, d1.data = d.data
  PROVE  FileOK(f, s, d1, c1, t1)
<1>1. s \in Nat /\ c.version \in Nat /\ t.version \in Nat /\ t.version # Hole
      /\ t.version \in Versions /\ Hole = 0
  BY VersionNumbers DEF FileOK, FileTypes, VersionsOrdered, CtlState, TaskState
<1>2. NoControl.saved = FALSE /\ NoControl.done = {} /\ NoControl.version = 0
  BY DEF NoControl
<1>3. t1.status \notin {"none", "unreachable"} \cup OneConnection
  BY DEF Pooled, InPool, OneConnection
<1>4. c.done \subseteq Pieces(f) /\ d.data \in [Pieces(f) -> Cells]
  BY DEF FileOK, FileTypes
<1>5. c1.done \subseteq Pieces(f)
  BY <1>2, <1>4
<1>6. FileTypes(f, s, d1, c1, t1)
  BY <1>4, <1>5 DEF FileOK, FileTypes
<1>7. VersionsOrdered(s, c1, t1)
  BY <1>1, <1>2 DEF FileOK, VersionsOrdered
<1>8. PoolHasRanges(f, c1, t1)
  BY <1>3 DEF PoolHasRanges
<1>9. ClaimsHold(f, s, d1, c1, t1)
  BY <1>2 DEF FileOK, ClaimsHold
<1>10. DoneOnDisk(f, d1, t1)
  BY <1>1 DEF FileOK, ClaimsHold, DoneOnDisk, Good
<1> QED BY <1>6, <1>7, <1>8, <1>9, <1>10 DEF FileOK

\* A piece is written, in the version probed: nothing that is claimed of that or
\* of the server's version becomes false.
LEMMA WrittenFileKept ==
  ASSUME NEW f \in Files, NEW s, NEW d, NEW c, NEW t, FileOK(f, s, d, c, t),
         t.status \in InPool, NEW v, Good(f, t, v), NEW p \in Pieces(f), NEW d1,
         d1 = [d EXCEPT !.data[p] = v]
  PROVE  FileOK(f, s, d1, c, t) /\ Good(f, t, d1.data[p])
<1> DEFINE new == [d.data EXCEPT ![p] = v]
<1>1. d.data \in [Pieces(f) -> Cells] /\ v \in Cells /\ d \in DiskState
  BY VersionNumbers DEF FileOK, FileTypes, Good
<1>2. new \in [Pieces(f) -> Cells]
  BY <1>1
<1>3. new \in SomeData
  BY <1>2 DEF SomeData
<1>4. \A i \in Pieces(f) : new[i] = IF i = p THEN v ELSE d.data[i]
  BY <1>1
<1>5. d1 = [d EXCEPT !.data = new]
  BY <1>1 DEF DiskState
<1> HIDE DEF new
<1>6. d1 \in DiskState /\ d1.data = new
  BY <1>1, <1>3, <1>5 DEF DiskState
<1>7. s \in Nat /\ c.version \in Nat /\ t.version \in Nat /\ t.version # Hole
      /\ c.done \subseteq Pieces(f) /\ t.done \subseteq Pieces(f)
  BY VersionNumbers DEF FileOK, FileTypes, VersionsOrdered, CtlState, TaskState, InPool
<1>8. ClaimsHold(f, s, d1, c, t)
  <2>1. SUFFICES ASSUME f \in Validated, c.saved, c.version = s \/ c.version = t.version,
                        NEW i \in c.done
                 PROVE  new[i] = c.version
    BY <1>6 DEF ClaimsHold
  <2>2. c.version = t.version
    BY <1>7, <2>1 DEF FileOK, VersionsOrdered
  <2>3. d.data[i] = c.version
    BY <1>7, <2>1, <2>2 DEF FileOK, ClaimsHold
  <2>4. v = t.version
    BY <2>1 DEF Good
  <2> QED BY <1>4, <1>7, <2>1, <2>2, <2>3, <2>4
<1>9. DoneOnDisk(f, d1, t)
  BY <1>4, <1>6, <1>7 DEF FileOK, DoneOnDisk, Good
<1>10. FileTypes(f, s, d1, c, t)
  BY <1>2, <1>6 DEF FileOK, FileTypes
<1> QED BY <1>4, <1>6, <1>8, <1>9, <1>10 DEF FileOK

\* A checkpoint claims what the bitfield does.
LEMMA SavedFileKept ==
  ASSUME NEW f \in Files, NEW s, NEW d, NEW c, NEW t, FileOK(f, s, d, c, t),
         t.status \in InPool, NEW c1,
         c1 = [saved |-> TRUE, done |-> t.done, version |-> t.version]
  PROVE  FileOK(f, s, d, c1, t) /\ c1 \in CtlState
<1>1. t.done \in SUBSET Nat /\ t.version \in Cells /\ t.status \in Pooled /\ s \in Nat
      /\ t.version \in Nat /\ t.done \subseteq Pieces(f)
  BY VersionNumbers DEF FileOK, FileTypes, TaskState, Pooled
<1>2. c1 \in CtlState /\ c1.saved = TRUE /\ c1.done = t.done /\ c1.version = t.version
  BY <1>1 DEF CtlState
<1>3. FileTypes(f, s, d, c1, t) /\ VersionsOrdered(s, c1, t)
  BY <1>1, <1>2 DEF FileOK, FileTypes, VersionsOrdered
<1>4. PoolHasRanges(f, c1, t)
  BY <1>1 DEF FileOK, PoolHasRanges
<1>5. ClaimsHold(f, s, d, c1, t)
  BY <1>1, <1>2 DEF FileOK, ClaimsHold, DoneOnDisk, Good
<1> QED BY <1>2, <1>3, <1>4, <1>5 DEF FileOK

\* A control file is removed.
LEMMA CleanedFileKept ==
  ASSUME NEW f \in Files, NEW s, NEW d, NEW c, NEW t, FileOK(f, s, d, c, t)
  PROVE  FileOK(f, s, d, NoControl, t) /\ NoControl \in CtlState
<1>1. NoControl.saved = FALSE /\ NoControl.done = {} /\ NoControl.version = 0
      /\ NoControl \in CtlState
  BY VersionNumbers DEF NoControl, CtlState, Cells
<1>2. s \in Nat /\ t.version \in Nat
  BY VersionNumbers DEF FileOK, FileTypes, TaskState
<1> QED BY <1>1, <1>2 DEF FileOK, FileTypes, VersionsOrdered, PoolHasRanges, ClaimsHold

\* The server replaces the file.
LEMMA ReplacedFileKept ==
  ASSUME NEW f \in Files, NEW s, NEW d, NEW c, NEW t, FileOK(f, s, d, c, t),
         s < MaxVersion
  PROVE  FileOK(f, s + 1, d, c, t) /\ s + 1 \in Versions
<1>1. s \in Nat /\ s >= 1 /\ c.version \in Nat /\ t.version \in Nat /\ MaxVersion \in Nat
  BY VersionNumbers DEF FileOK, FileTypes, TaskState, CtlState, Versions
<1>2. s + 1 \in Versions
  BY <1>1 DEF Versions
<1>3. FileTypes(f, s + 1, d, c, t)
  BY <1>2 DEF FileOK, FileTypes
<1>4. VersionsOrdered(s + 1, c, t) /\ c.version # s + 1
  BY <1>1 DEF FileOK, VersionsOrdered
<1>5. ClaimsHold(f, s + 1, d, c, t)
  BY <1>4 DEF FileOK, ClaimsHold
<1> QED BY <1>2, <1>3, <1>4, <1>5 DEF FileOK
-----------------------------------------------------------------------------
(***************************************************************************)
(* A step of the command beside the workers, about one file.               *)
(***************************************************************************)
\* What such a step may do to its file: prepare it before the workers are
\* spawned, move it outside the pool, or leave its bitfield and its bytes alone.
Aside(f) ==
  \/ /\ phase = "probe" /\ task'[f].flight = {}
     /\ task'[f].status = "Active" => task'[f].done # Pieces(f)
  \/ task[f].status \notin Pooled /\ task'[f].status \notin Pooled
  \/ task'[f] = task[f] /\ disk'[f] = disk[f]

\* Then the invariant holds when the file is in order.
LEMMA AsideKeeps ==
  ASSUME DownloaderInv, NEW f \in Files, Aside(f),
         UNCHANGED <<worker, phase, cancelled>>,
         server' \in [Files -> Versions], disk' \in [Files -> DiskState],
         ctl' \in [Files -> CtlState], task' \in [Files -> TaskState],
         \A g \in Files \ {f} : /\ server'[g] = server[g] /\ disk'[g] = disk[g]
                                /\ ctl'[g] = ctl[g] /\ task'[g] = task[g],
         FileOK(f, server'[f], disk'[f], ctl'[f], task'[f])
  PROVE  DownloaderInv'
<1>1. FilesOK'
  <2>1. \A g \in Files : FileOK(g, server'[g], disk'[g], ctl'[g], task'[g])
    <3> SUFFICES ASSUME NEW g \in Files \ {f}
                 PROVE  FileOK(g, server'[g], disk'[g], ctl'[g], task'[g])
      OBVIOUS
    <3>1. FileOK(g, server[g], disk[g], ctl[g], task[g])
      BY DEF DownloaderInv, FilesOK
    <3> QED BY <3>1
  <2> QED BY <2>1 DEF FilesOK
<1>2. \A w \in Workers : worker[w].pc \in Busy =>
        /\ worker[w].file \in Files /\ phase = "running"
        /\ task[worker[w].file].status \in InPool
        /\ task'[worker[w].file] = task[worker[w].file]
        /\ disk'[worker[w].file] = disk[worker[w].file]
  <2> SUFFICES ASSUME NEW w \in Workers, worker[w].pc \in Busy
               PROVE  /\ worker[w].file \in Files /\ phase = "running"
                      /\ task[worker[w].file].status \in InPool
                      /\ task'[worker[w].file] = task[worker[w].file]
                      /\ disk'[worker[w].file] = disk[worker[w].file]
    OBVIOUS
  <2>1. worker[w].file \in Files /\ phase = "running" /\ task[worker[w].file].status \in InPool
    BY DEF DownloaderInv, WorkersOK, WorkerOK
  <2> QED BY <2>1 DEF Aside, Pooled
<1>3. ASSUME NEW w \in Workers PROVE WorkerOK(worker[w])'
  <2>1. WorkerOK(worker[w])
    BY DEF DownloaderInv, WorkersOK
  <2> QED BY <1>2, <2>1 DEF WorkerOK, Busy
<1>4. WorkersOK'
  BY <1>3 DEF DownloaderInv, WorkersOK
<1>5. FlightOwned'
  <2> SUFFICES ASSUME NEW g \in Files, NEW i \in task'[g].flight
               PROVE  \E w \in Workers : /\ worker[w].file = g /\ worker[w].piece = i
                                         /\ worker[w].pc \in {"fetch", "write", "complete", "died"}
    BY DEF FlightOwned
  <2>1. i \in task[g].flight
    <3>1. task'[g].status \notin Pooled => task'[g].flight = {}
      BY <1>1 DEF FilesOK, FileOK, PoolHasRanges
    <3> QED BY <3>1 DEF Aside
  <2> QED BY <2>1 DEF DownloaderInv, FlightOwned
<1>6. WholeIsMarked'
  <2>1. \A g \in Files : task'[g].status = "Active" =>
           \/ phase = "probe" /\ task'[g].done # Pieces(g)
           \/ task'[g] = task[g]
    BY DEF Aside, Pooled, InPool
  <2> QED BY <2>1 DEF DownloaderInv, WholeIsMarked
<1>7. SomebodyLooks'
  <2>1. phase = "running" => \A g \in Files : task'[g].status = "Active" => task[g].status = "Active"
    BY DEF Aside, Pooled, InPool
  <2> QED BY <2>1 DEF DownloaderInv, SomebodyLooks
<1> QED BY <1>1, <1>4, <1>5, <1>6, <1>7 DEF DownloaderInv

\* What is known of a file.
LEMMA FileAt ==
  ASSUME DownloaderInv, NEW f \in Files
  PROVE  /\ FileOK(f, server[f], disk[f], ctl[f], task[f])
         /\ server[f] \in Versions /\ disk[f] \in DiskState /\ ctl[f] \in CtlState
         /\ task[f] \in TaskState /\ disk[f].data \in [Pieces(f) -> Cells]
         /\ server \in [Files -> Versions] /\ disk \in [Files -> DiskState]
         /\ ctl \in [Files -> CtlState] /\ task \in [Files -> TaskState]
BY DEF DownloaderInv, FilesOK, FileOK, FileTypes

\* NoTask is a task.
LEMMA NoTaskType ==
  /\ NoTask \in TaskState /\ NoTask.status = "none" /\ NoTask.version = Hole
  /\ NoTask.done = {} /\ NoTask.flight = {}
<1>1. Hole \in Cells /\ "none" \in Statuses /\ {} \in SUBSET Nat /\ Hole = 0
  BY DEF Cells, Statuses, Hole
<1> QED BY <1>1 DEF NoTask, TaskState

\* Steps that move a file outside the pool and touch nothing else.
LEMMA OutsideSteps ==
  ASSUME DownloaderInv, NEW f \in Files, NEW t1 \in TaskState,
         task' = [task EXCEPT ![f] = t1], UNCHANGED <<server, ctl, phase, worker, cancelled>>,
         task[f].status \notin Pooled, t1.status \notin Pooled, t1.done = {}, t1.flight = {},
         t1.version \in {Hole, task[f].version, server[f]},
         t1.status \notin {"none", "unreachable"} => t1.version # Hole,
         t1.status \in OneConnection => f \notin RangeFiles,
         NEW d1 \in DiskState, disk' = [disk EXCEPT ![f] = d1], d1.data \in [Pieces(f) -> Cells],
         d1.data = disk[f].data \/ f \notin RangeFiles
  PROVE  DownloaderInv'
<1>1. /\ FileOK(f, server[f], disk[f], ctl[f], task[f])
      /\ server \in [Files -> Versions] /\ disk \in [Files -> DiskState]
      /\ ctl \in [Files -> CtlState] /\ task \in [Files -> TaskState]
  BY FileAt
<1>2. FileOK(f, server[f], d1, ctl[f], t1)
  BY <1>1, OutsideFileKept
<1>3. /\ task' \in [Files -> TaskState] /\ disk' \in [Files -> DiskState]
      /\ task'[f] = t1 /\ disk'[f] = d1
      /\ \A g \in Files \ {f} : task'[g] = task[g] /\ disk'[g] = disk[g]
  BY <1>1
<1>4. FileOK(f, server'[f], disk'[f], ctl'[f], task'[f])
  BY <1>2, <1>3
<1>5. Aside(f)
  BY <1>3 DEF Aside
<1> QED BY <1>1, <1>3, <1>4, <1>5, AsideKeeps

\* The steps of a probe, of a download on one connection, and the refusals.
LEMMA OutsideStepsKeep ==
  ASSUME DownloaderInv, NEW f \in Files,
         \/ Probe(f) \/ ProbeFailed(f) \/ OpenRefused(f) \/ OpenSingle(f)
         \/ SingleCreated(f) \/ SingleFetched(f) \/ SingleLost(f)
  PROVE  DownloaderInv'
<1> DEFINE t == task[f]
<1>1. /\ FileOK(f, server[f], disk[f], ctl[f], t) /\ server[f] \in Versions
      /\ disk[f] \in DiskState /\ t \in TaskState /\ disk[f].data \in [Pieces(f) -> Cells]
      /\ disk \in [Files -> DiskState] /\ task \in [Files -> TaskState]
  BY FileAt
<1>2. /\ t.status \notin Pooled => t.done = {} /\ t.flight = {}
      /\ t.status \notin {"none", "unreachable"} => t.version # Hole
      /\ t.status \in OneConnection => f \notin RangeFiles
  BY <1>1 DEF FileOK, PoolHasRanges, VersionsOrdered
<1>3. disk' = disk => disk' = [disk EXCEPT ![f] = disk[f]]
  BY <1>1
<1>4. ASSUME NEW st \in Statuses, t.status \notin Pooled, st \notin Pooled,
             task' = [task EXCEPT ![f].status = st],
             UNCHANGED <<server, disk, ctl, phase, worker, cancelled>>,
             st = "unreachable" \/ t.status \notin {"none", "unreachable"},
             st \in OneConnection => f \notin RangeFiles
      PROVE  DownloaderInv'
  <2> DEFINE t1 == [t EXCEPT !.status = st]
  <2>1. /\ t1 \in TaskState /\ t1.status = st /\ t1.version = t.version
        /\ t1.done = {} /\ t1.flight = {}
    BY <1>1, <1>2, <1>4 DEF TaskState
  <2>2. task' = [task EXCEPT ![f] = t1]
    BY <1>1, <1>4
  <2> HIDE DEF t1
  <2> QED BY <1>1, <1>2, <1>3, <1>4, <2>1, <2>2, OutsideSteps
<1>5. CASE Probe(f)
  <2> DEFINE st == IF disk[f].exists /\ ~ctl[f].saved THEN "skipped" ELSE "probed"
             t1 == [NoTask EXCEPT !.status = st, !.version = server[f]]
  <2>1. task' = [task EXCEPT ![f] = t1] /\ t.status = "none"
        /\ UNCHANGED <<server, disk, ctl, phase, worker, cancelled>>
    BY <1>5 DEF Probe
  <2>2. st \in Statuses /\ st \notin Pooled \cup OneConnection /\ t.status \notin Pooled
        /\ server[f] # Hole /\ server[f] \in Cells
    BY <1>1, <2>1, VersionNumbers DEF Statuses, Pooled, InPool, OneConnection
  <2> HIDE DEF st
  <2>3. /\ t1 \in TaskState /\ t1.status = st /\ t1.version = server[f]
        /\ t1.done = {} /\ t1.flight = {}
    BY <2>2, NoTaskType DEF TaskState
  <2> HIDE DEF t1
  <2> QED BY <1>1, <1>3, <2>1, <2>2, <2>3, OutsideSteps
<1>6. CASE ProbeFailed(f)
  <2>1. /\ t.status = "none" /\ task' = [task EXCEPT ![f].status = "unreachable"]
        /\ UNCHANGED <<server, disk, ctl, phase, worker, cancelled>>
    BY <1>6 DEF ProbeFailed
  <2> QED BY <1>4, <2>1 DEF Statuses, Pooled, InPool, OneConnection
<1>7. CASE OpenRefused(f)
  <2>1. /\ t.status = "probed" /\ task' = [task EXCEPT ![f].status = "refused"]
        /\ UNCHANGED <<server, disk, ctl, phase, worker, cancelled>>
    BY <1>7 DEF OpenRefused
  <2> QED BY <1>4, <2>1 DEF Statuses, Pooled, InPool, OneConnection
<1>8. CASE OpenSingle(f)
  <2>1. /\ t.status = "probed" /\ task' = [task EXCEPT ![f].status = "requested"]
        /\ f \notin RangeFiles
        /\ UNCHANGED <<server, disk, ctl, phase, worker, cancelled>>
    BY <1>8 DEF OpenSingle
  <2> QED BY <1>4, <2>1 DEF Statuses, Pooled, InPool, OneConnection
<1>9. CASE SingleLost(f)
  <2>1. /\ t.status \in OneConnection /\ task' = [task EXCEPT ![f].status = "lost"]
        /\ UNCHANGED <<server, disk, ctl, phase, worker, cancelled>>
    BY <1>9 DEF SingleLost
  <2> QED BY <1>4, <2>1 DEF Statuses, Pooled, InPool, OneConnection
<1>10. CASE SingleCreated(f)
  <2> DEFINE t1 == [t EXCEPT !.status = "streaming", !.version = server[f]]
             empty == [i \in Pieces(f) |-> Hole]
             d1 == [exists |-> TRUE, data |-> empty]
  <2>1. /\ t.status = "requested" /\ disk' = [disk EXCEPT ![f] = d1]
        /\ UNCHANGED <<server, ctl, phase, worker, cancelled>>
    BY <1>10 DEF SingleCreated
  <2>2. task' = [task EXCEPT ![f] = t1]
    BY <1>1, <1>10 DEF SingleCreated
  <2>3. /\ "streaming" \in Statuses /\ "streaming" \notin Pooled /\ t.status \notin Pooled
        /\ server[f] # Hole /\ server[f] \in Cells /\ Hole \in Cells /\ f \notin RangeFiles
    BY <1>1, <1>2, <2>1, VersionNumbers DEF Statuses, Pooled, InPool, OneConnection, Cells
  <2>4. /\ t1 \in TaskState /\ t1.status = "streaming" /\ t1.version = server[f]
        /\ t1.done = {} /\ t1.flight = {}
    BY <1>1, <1>2, <2>3 DEF TaskState
  <2>5. empty \in [Pieces(f) -> Cells] /\ empty \in SomeData
    BY <2>3 DEF SomeData
  <2> HIDE DEF empty, t1
  <2>6. d1 \in DiskState /\ d1.data \in [Pieces(f) -> Cells]
    BY <2>5 DEF DiskState
  <2> HIDE DEF d1
  <2> QED BY <1>1, <2>1, <2>2, <2>3, <2>4, <2>6, OutsideSteps
<1>11. CASE SingleFetched(f)
  <2> DEFINE t1 == [t EXCEPT !.status = "fetched"]
             all == [i \in Pieces(f) |-> t.version]
             d1 == [disk[f] EXCEPT !.data = all]
  <2>1. /\ t.status = "streaming" /\ UNCHANGED <<server, ctl, phase, worker, cancelled>>
    BY <1>11 DEF SingleFetched
  <2>2. task' = [task EXCEPT ![f] = t1] /\ disk' = [disk EXCEPT ![f] = d1]
    BY <1>1, <1>11 DEF SingleFetched
  <2>3. /\ "fetched" \in Statuses /\ "fetched" \notin Pooled \cup OneConnection
        /\ t.status \notin Pooled /\ t.version # Hole /\ t.version \in Cells
        /\ f \notin RangeFiles
    BY <1>1, <1>2, <2>1 DEF Statuses, Pooled, InPool, OneConnection, TaskState
  <2>4. /\ t1 \in TaskState /\ t1.status = "fetched" /\ t1.version = t.version
        /\ t1.done = {} /\ t1.flight = {}
    BY <1>1, <1>2, <2>3 DEF TaskState
  <2>5. all \in [Pieces(f) -> Cells] /\ all \in SomeData
    BY <2>3 DEF SomeData
  <2> HIDE DEF all, t1
  <2>6. d1 \in DiskState /\ d1.data \in [Pieces(f) -> Cells]
    BY <1>1, <2>5 DEF DiskState
  <2> HIDE DEF d1
  <2> QED BY <1>1, <2>1, <2>2, <2>3, <2>4, <2>6, OutsideSteps
<1> QED BY <1>5, <1>6, <1>7, <1>8, <1>9, <1>10, <1>11

\* A file is opened, with what its control file still vouches for.
LEMMA OpenKeeps ==
  ASSUME DownloaderInv, NEW f \in Files, Open(f)
  PROVE  DownloaderInv'
<1> DEFINE t == task[f]
<1>1. /\ FileOK(f, server[f], disk[f], ctl[f], t) /\ ctl[f] \in CtlState
      /\ disk[f] \in DiskState /\ t \in TaskState
      /\ server \in [Files -> Versions] /\ disk \in [Files -> DiskState]
      /\ ctl \in [Files -> CtlState] /\ task \in [Files -> TaskState]
  BY FileAt
<1>2. /\ phase = "probe" /\ t.status = "probed" /\ f \in RangeFiles
      /\ UNCHANGED <<server, phase, worker, cancelled>>
  BY DEF Open
<1>3. t.flight = {} /\ t.done = {}
  BY <1>1, <1>2 DEF FileOK, PoolHasRanges, Pooled, InPool
<1> DEFINE done == Resumed(f)
<1>4. done = (IF ctl[f].saved /\ f \in Validated /\ ctl[f].version = t.version
              THEN ctl[f].done ELSE {})
  BY DEF Resumed
<1>5. done \in SUBSET Nat
  BY <1>1, <1>4 DEF CtlState
<1> HIDE DEF done
<1>6. CASE Resumed(f) = Pieces(f)
  <2> DEFINE t1 == [t EXCEPT !.status = "resumed", !.done = done]
  <2>1. /\ task' = [task EXCEPT ![f] = t1] /\ ctl' = [ctl EXCEPT ![f] = NoControl]
        /\ UNCHANGED disk
    BY <1>1, <1>6 DEF Open, done
  <2>2. /\ t1 \in TaskState /\ t1.status = "resumed" /\ t1.version = t.version
        /\ t1.done = done /\ t1.flight = {}
    BY <1>1, <1>3, <1>5 DEF TaskState, Statuses
  <2> HIDE DEF t1
  <2>3. NoControl \in CtlState /\ "resumed" \in Pooled
    BY <1>1, CleanedFileKept DEF Pooled
  <2>4. FileOK(f, server[f], disk[f], NoControl, t1)
    BY <1>1, <1>2, <1>4, <2>2, <2>3, ResumedFileKept
  <2>5. /\ task' \in [Files -> TaskState] /\ ctl' \in [Files -> CtlState]
        /\ task'[f] = t1 /\ ctl'[f] = NoControl
        /\ \A g \in Files \ {f} : task'[g] = task[g] /\ ctl'[g] = ctl[g]
    BY <1>1, <2>1, <2>2, <2>3
  <2>6. FileOK(f, server'[f], disk'[f], ctl'[f], task'[f])
    BY <1>2, <2>1, <2>4, <2>5
  <2>7. Aside(f)
    BY <1>2, <2>2, <2>5 DEF Aside
  <2> QED BY <1>1, <1>2, <2>1, <2>5, <2>6, <2>7, AsideKeeps
<1>7. CASE Resumed(f) # Pieces(f)
  <2> DEFINE t1 == [t EXCEPT !.status = "Active", !.done = done]
             d1 == [disk[f] EXCEPT !.exists = TRUE]
  <2>1. /\ task' = [task EXCEPT ![f] = t1] /\ disk' = [disk EXCEPT ![f] = d1]
        /\ UNCHANGED ctl /\ done # Pieces(f)
    BY <1>1, <1>7 DEF Open, done
  <2>2. /\ t1 \in TaskState /\ t1.status = "Active" /\ t1.version = t.version
        /\ t1.done = done /\ t1.flight = {}
    BY <1>1, <1>3, <1>5 DEF TaskState, Statuses, InPool
  <2>3. d1 \in DiskState /\ d1.data = disk[f].data
    BY <1>1 DEF DiskState
  <2> HIDE DEF t1, d1
  <2>4. "Active" \in Pooled
    BY DEF Pooled, InPool
  <2>5. FileOK(f, server[f], d1, ctl[f], t1)
    BY <1>1, <1>2, <1>4, <2>2, <2>3, <2>4, ResumedFileKept
  <2>6. /\ task' \in [Files -> TaskState] /\ disk' \in [Files -> DiskState]
        /\ task'[f] = t1 /\ disk'[f] = d1
        /\ \A g \in Files \ {f} : task'[g] = task[g] /\ disk'[g] = disk[g]
    BY <1>1, <2>1, <2>2, <2>3
  <2>7. FileOK(f, server'[f], disk'[f], ctl'[f], task'[f])
    BY <1>2, <2>1, <2>5, <2>6
  <2>8. Aside(f)
    BY <1>2, <2>1, <2>2, <2>6 DEF Aside
  <2> QED BY <1>1, <1>2, <2>1, <2>6, <2>7, <2>8, AsideKeeps
<1> QED BY <1>6, <1>7

\* A checkpoint, and a new version on the server.
LEMMA CheckpointReplaceKeep ==
  ASSUME DownloaderInv, NEW f \in Files, Checkpoint(f) \/ Replace(f)
  PROVE  DownloaderInv'
<1>1. /\ FileOK(f, server[f], disk[f], ctl[f], task[f]) /\ task[f] \in TaskState
      /\ server \in [Files -> Versions] /\ disk \in [Files -> DiskState]
      /\ ctl \in [Files -> CtlState] /\ task \in [Files -> TaskState]
  BY FileAt
<1>2. CASE Checkpoint(f)
  <2> DEFINE c1 == Saved(f)
  <2>1. /\ ctl' = [ctl EXCEPT ![f] = c1] /\ task[f].status \in InPool
        /\ UNCHANGED <<server, disk, phase, task, worker, cancelled>>
    BY <1>2 DEF Checkpoint, InPool
  <2>2. FileOK(f, server[f], disk[f], c1, task[f]) /\ c1 \in CtlState
    BY <1>1, <2>1, SavedFileKept DEF Saved
  <2> HIDE DEF c1
  <2>3. ctl' \in [Files -> CtlState] /\ ctl'[f] = c1 /\ \A g \in Files \ {f} : ctl'[g] = ctl[g]
    BY <1>1, <2>1, <2>2
  <2>4. FileOK(f, server'[f], disk'[f], ctl'[f], task'[f]) /\ Aside(f)
    BY <2>1, <2>2, <2>3 DEF Aside
  <2> QED BY <1>1, <2>1, <2>3, <2>4, AsideKeeps
<1>3. CASE Replace(f)
  <2>1. /\ server' = [server EXCEPT ![f] = server[f] + 1] /\ server[f] < MaxVersion
        /\ UNCHANGED <<disk, ctl, phase, task, worker, cancelled>>
    BY <1>3 DEF Replace
  <2>2. FileOK(f, server[f] + 1, disk[f], ctl[f], task[f]) /\ server[f] + 1 \in Versions
    BY <1>1, <2>1, ReplacedFileKept
  <2>3. /\ server' \in [Files -> Versions] /\ server'[f] = server[f] + 1
        /\ \A g \in Files \ {f} : server'[g] = server[g]
    BY <1>1, <2>1, <2>2
  <2>4. FileOK(f, server'[f], disk'[f], ctl'[f], task'[f]) /\ Aside(f)
    BY <2>1, <2>2, <2>3 DEF Aside
  <2> QED BY <1>1, <2>1, <2>3, <2>4, AsideKeeps
<1> QED BY <1>2, <1>3

\* A fresh worker.
LEMMA FreshWorkerType ==
  /\ FreshWorker \in WorkerState /\ FreshWorker.pc = "next" /\ FreshWorker.file = 0
<1>1. "next" \in WorkerPhases /\ 0 \in Retries /\ Hole \in Cells /\ 0 \in Nat
  BY DEF WorkerPhases, Retries, Cells
<1> QED BY <1>1 DEF FreshWorker, WorkerState

\* A new run, and a killed one, start with nothing in memory.
LEMMA ResetKeeps ==
  ASSUME DownloaderInv, StartCommand \/ Kill
  PROVE  DownloaderInv'
<1>1. /\ phase' \in {"probe", "off"} /\ task' = [f \in Files |-> NoTask]
      /\ worker' = [w \in Workers |-> FreshWorker] /\ cancelled' = FALSE
      /\ UNCHANGED <<server, disk, ctl>>
  BY DEF StartCommand, Kill
<1>2. FilesOK'
  <2>1. ASSUME NEW f \in Files
        PROVE  FileOK(f, server'[f], disk'[f], ctl'[f], task'[f])
    <3>1. /\ FileOK(f, server[f], disk[f], ctl[f], task[f])
          /\ disk[f] \in DiskState /\ disk[f].data \in [Pieces(f) -> Cells]
      BY FileAt
    <3>2. NoTask.status \notin Pooled \cup OneConnection
      BY NoTaskType DEF Pooled, InPool, OneConnection
    <3>3. FileOK(f, server[f], disk[f], ctl[f], NoTask)
      BY <3>1, <3>2, NoTaskType, OutsideFileKept
    <3> QED BY <1>1, <3>3
  <2>2. task' \in [Files -> TaskState]
    BY <1>1, NoTaskType
  <2>3. server' \in [Files -> Versions] /\ disk' \in [Files -> DiskState]
        /\ ctl' \in [Files -> CtlState]
    BY <1>1 DEF DownloaderInv, FilesOK
  <2> QED BY <2>1, <2>2, <2>3 DEF FilesOK
<1>3. \A w \in Workers : worker'[w] = FreshWorker
  BY <1>1
<1>4. WorkersOK'
  <2>1. ASSUME NEW w \in Workers PROVE WorkerOK(worker[w])'
    BY <1>3, FreshWorkerType DEF WorkerOK, Busy
  <2>2. worker' \in [Workers -> WorkerState]
    BY <1>1, FreshWorkerType
  <2> QED BY <1>1, <1>3, <2>1, <2>2, FreshWorkerType DEF WorkersOK
<1>5. \A f \in Files : task'[f].status = "none" /\ task'[f].flight = {}
  BY <1>1, NoTaskType
<1>6. FlightOwned' /\ WholeIsMarked' /\ SomebodyLooks'
  BY <1>1, <1>5 DEF FlightOwned, WholeIsMarked, SomebodyLooks
<1> QED BY <1>2, <1>4, <1>6 DEF DownloaderInv

\* The workers are spawned and the user quits; the results are printed.
LEMMA SpawnQuitReportKeep ==
  ASSUME DownloaderInv, Spawn \/ Quit \/ Report
  PROVE  DownloaderInv'
<1>1. UNCHANGED <<server, disk, ctl, task, worker>>
  BY DEF Spawn, Quit, Report
<1>2. FilesOK' /\ FlightOwned'
  BY <1>1 DEF DownloaderInv, FilesOK, FlightOwned
<1>3. /\ phase' \in {"off", "running", "joining"} /\ cancelled' \in BOOLEAN
      /\ cancelled => cancelled'
      /\ phase = "running" => phase' = "running"
      /\ phase' = "running" => phase = "running" \/ (phase = "probe" /\ UNCHANGED cancelled)
      /\ phase = "running" => cancelled'
  BY DEF Spawn, Quit, Report, DownloaderInv, WorkersOK
<1>4. ASSUME NEW w \in Workers PROVE WorkerOK(worker[w])'
  <2>1. WorkerOK(worker[w])
    BY DEF DownloaderInv, WorkersOK
  <2> QED BY <1>1, <1>3, <2>1 DEF WorkerOK
<1>5. WorkersOK'
  BY <1>1, <1>3, <1>4 DEF DownloaderInv, WorkersOK
<1>6. WholeIsMarked'
  BY <1>1, <1>3 DEF DownloaderInv, WholeIsMarked
<1>7. SomebodyLooks'
  <2>1. Workers # {}
    BY DownloaderAssumption
  <2>2. phase = "probe" => \A w \in Workers : worker[w].pc = "next"
    BY DEF DownloaderInv, WorkersOK
  <2> QED BY <1>1, <1>3, <2>1, <2>2 DEF SomebodyLooks
<1> QED BY <1>2, <1>5, <1>6, <1>7 DEF DownloaderInv

\* The control files of complete files are removed.
LEMMA FinishKeeps ==
  ASSUME DownloaderInv, Finish
  PROVE  DownloaderInv'
<1>1. /\ phase' = "joining" /\ cancelled' = TRUE /\ ctl' = [f \in Files |-> Kept(f)]
      /\ UNCHANGED <<server, disk, task, worker>>
      /\ \A w \in Workers : worker[w].pc \in {"exited", "died"}
  BY DEF Finish
<1>2. FilesOK'
  <2>1. ASSUME NEW f \in Files
        PROVE  /\ FileOK(f, server'[f], disk'[f], ctl'[f], task'[f])
               /\ ctl'[f] \in CtlState
    <3>1. /\ FileOK(f, server[f], disk[f], ctl[f], task[f]) /\ ctl[f] \in CtlState
      BY FileAt
    <3>2. FileOK(f, server[f], disk[f], NoControl, task[f]) /\ NoControl \in CtlState
      BY <3>1, CleanedFileKept
    <3>3. ctl'[f] = NoControl \/ ctl'[f] = ctl[f]
      BY <1>1 DEF Kept
    <3> QED BY <1>1, <3>1, <3>2, <3>3
  <2>2. ctl' \in [Files -> CtlState]
    BY <1>1, <2>1
  <2>3. server' \in [Files -> Versions] /\ disk' \in [Files -> DiskState]
        /\ task' \in [Files -> TaskState]
    BY <1>1 DEF DownloaderInv, FilesOK
  <2> QED BY <2>1, <2>2, <2>3 DEF FilesOK
<1>3. ASSUME NEW w \in Workers PROVE WorkerOK(worker[w])'
  <2>1. WorkerOK(worker[w])
    BY DEF DownloaderInv, WorkersOK
  <2> QED BY <1>1, <2>1 DEF WorkerOK, Busy
<1>4. WorkersOK'
  BY <1>1, <1>3 DEF DownloaderInv, WorkersOK
<1>5. FlightOwned' /\ WholeIsMarked' /\ SomebodyLooks'
  BY <1>1 DEF DownloaderInv, FlightOwned, WholeIsMarked, SomebodyLooks
<1> QED BY <1>2, <1>4, <1>5 DEF DownloaderInv
-----------------------------------------------------------------------------
(***************************************************************************)
(* The steps of a worker.                                                  *)
(***************************************************************************)
Owning == {"fetch", "write", "complete", "died"}

\* The files of the pool stay in it, in their version, and no byte that may
\* stand is overwritten by one that may not.
Progress ==
  \A g \in Files : task[g].status \in InPool =>
    /\ task'[g].status \in InPool /\ task'[g].version = task[g].version
    /\ task[g].done = Pieces(g) => task'[g].done = Pieces(g)
    /\ \A i \in Pieces(g) : Good(g, task[g], disk[g].data[i]) => Good(g, task'[g], disk'[g].data[i])

\* The other workers stay where they are, or are woken.
OthersStay(w) ==
  \A v \in Workers \ {w} :
    \/ worker'[v] = worker[v]
    \/ worker[v].pc = "parked" /\ worker'[v] = [worker[v] EXCEPT !.pc = "next"]

\* A piece in flight is w's now, or was in flight and not w's.
FlightMoves(w) ==
  \A f \in Files : \A i \in task'[f].flight :
    \/ worker'[w].file = f /\ worker'[w].piece = i /\ worker'[w].pc \in Owning
    \/ /\ i \in task[f].flight
       /\ ~(worker[w].file = f /\ worker[w].piece = i /\ worker[w].pc \in Owning)

\* A file that is whole and not marked is w's to mark, or was another's.
MarkMoves(w) ==
  \A f \in Files : task'[f].status = "Active" =>
    /\ task[f].status = "Active"
    /\ task'[f].done = Pieces(f) =>
         \/ worker'[w].pc = "mark" /\ worker'[w].file = f
         \/ /\ task[f].done = Pieces(f)
            /\ ~(worker[w].pc = "mark" /\ worker[w].file = f)

\* A worker that did not move is in order when the files go on.
LEMMA WorkerCarries ==
  ASSUME DownloaderInv, Progress, UNCHANGED <<phase, cancelled>>, NEW w \in Workers,
         worker'[w] = worker[w]
  PROVE  WorkerOK(worker[w])'
<1> DEFINE x == worker[w]
<1>1. WorkerOK(worker[w])
  BY DEF DownloaderInv, WorkersOK
<1>2. x.pc \in Busy =>
        /\ phase = "running" /\ x.file \in Files /\ task[x.file].status \in InPool
        /\ task'[x.file].status \in InPool /\ x.piece \in Pieces(x.file)
        /\ task'[x.file].version = task[x.file].version
  BY <1>1 DEF WorkerOK, Progress
<1>3. x.pc = "write" => Good(x.file, task'[x.file], x.data)
  BY <1>1, <1>2 DEF WorkerOK, Good, Busy
<1>4. x.pc = "complete" => Good(x.file, task'[x.file], disk'[x.file].data[x.piece])
  BY <1>1, <1>2 DEF WorkerOK, Progress, Busy
<1>5. x.pc = "mark" => task'[x.file].done = Pieces(x.file)
  BY <1>1, <1>2 DEF WorkerOK, Progress, Busy
<1> QED BY <1>1, <1>2, <1>3, <1>4, <1>5 DEF WorkerOK

\* The invariant after a step of a worker, from what the step does to its own
\* piece and to the files.
LEMMA WorkerStepKeeps ==
  ASSUME DownloaderInv, NEW w \in Workers, phase = "running", UNCHANGED <<phase, cancelled>>,
         FilesOK', Progress, OthersStay(w), FlightMoves(w), MarkMoves(w),
         DOMAIN worker' = Workers, worker' = [v \in Workers |-> worker'[v]],
         worker'[w] \in WorkerState, WorkerOK(worker[w])',
         \/ worker'[w].pc \in Busy \cup {"next", "died"} \/ cancelled
         \/ worker[w].pc \notin Busy \cup {"next", "died"}
         \/ ~\E f \in Files : task[f].status = "Active"
         \/ \E v \in Workers \ {w} : worker[v].pc \in Busy \cup {"next", "died"}
  PROVE  DownloaderInv'
<1>1. worker \in [Workers -> WorkerState] /\ cancelled \in BOOLEAN
  BY DEF DownloaderInv, WorkersOK
<1>2. ASSUME NEW v \in Workers \ {w}
      PROVE  /\ worker'[v] \in WorkerState /\ WorkerOK(worker[v])'
             /\ worker'[v].file = worker[v].file /\ worker'[v].piece = worker[v].piece
             /\ worker'[v].pc = worker[v].pc \/ (worker[v].pc = "parked" /\ worker'[v].pc = "next")
  <2>1. CASE worker'[v] = worker[v]
    <3>1. WorkerOK(worker[v])'
      BY <2>1, WorkerCarries
    <3> QED BY <1>1, <2>1, <3>1
  <2>2. CASE worker[v].pc = "parked" /\ worker'[v] = [worker[v] EXCEPT !.pc = "next"]
    <3>1. worker[v] \in WorkerState /\ "next" \in WorkerPhases
      BY <1>1 DEF WorkerPhases
    <3>2. /\ worker'[v] \in WorkerState /\ worker'[v].pc = "next"
          /\ worker'[v].file = worker[v].file /\ worker'[v].piece = worker[v].piece
      BY <2>2, <3>1 DEF WorkerState
    <3>3. WorkerOK(worker[v])'
      BY <3>2 DEF WorkerOK, Busy
    <3> QED BY <2>2, <3>2, <3>3
  <2> QED BY <2>1, <2>2 DEF OthersStay
<1>3. WorkersOK'
  <2>1. worker' \in [Workers -> WorkerState]
    BY <1>2
  <2> QED BY <1>1, <1>2, <2>1 DEF WorkersOK
<1>4. FlightOwned'
  <2> SUFFICES ASSUME NEW f \in Files, NEW i \in task'[f].flight
               PROVE  \E v \in Workers : /\ worker'[v].file = f /\ worker'[v].piece = i
                                         /\ worker'[v].pc \in Owning
    BY DEF FlightOwned, Owning
  <2>1. CASE worker'[w].file = f /\ worker'[w].piece = i /\ worker'[w].pc \in Owning
    BY <2>1
  <2>2. CASE /\ i \in task[f].flight
             /\ ~(worker[w].file = f /\ worker[w].piece = i /\ worker[w].pc \in Owning)
    <3>1. PICK v \in Workers : /\ worker[v].file = f /\ worker[v].piece = i
                               /\ worker[v].pc \in Owning
      BY <2>2 DEF DownloaderInv, FlightOwned, Owning
    <3>2. v # w
      BY <2>2, <3>1
    <3> QED BY <1>2, <3>1, <3>2 DEF Owning
  <2> QED BY <2>1, <2>2 DEF FlightMoves
<1>5. WholeIsMarked'
  <2> SUFFICES ASSUME NEW f \in Files, task'[f].status = "Active", task'[f].done = Pieces(f)
               PROVE  \E v \in Workers : worker'[v].pc = "mark" /\ worker'[v].file = f
    BY DEF WholeIsMarked
  <2>1. CASE worker'[w].pc = "mark" /\ worker'[w].file = f
    BY <2>1
  <2>2. CASE ~(worker'[w].pc = "mark" /\ worker'[w].file = f)
    <3>1. /\ task[f].status = "Active" /\ task[f].done = Pieces(f)
          /\ ~(worker[w].pc = "mark" /\ worker[w].file = f)
      BY <2>2 DEF MarkMoves
    <3>2. PICK v \in Workers : worker[v].pc = "mark" /\ worker[v].file = f
      BY <3>1 DEF DownloaderInv, WholeIsMarked
    <3> QED BY <1>2, <3>1, <3>2
  <2> QED BY <2>1, <2>2
<1>6. SomebodyLooks'
  <2> SUFFICES ASSUME ~cancelled, NEW f \in Files, task'[f].status = "Active",
                      \A v \in Workers : worker'[v].pc # "died"
               PROVE  \E v \in Workers : worker'[v].pc \in Busy \cup {"next"}
    BY DEF SomebodyLooks
  <2>1. task[f].status = "Active"
    BY DEF MarkMoves
  <2>2. \A v \in Workers \ {w} : worker[v].pc # "died"
    BY <1>2
  <2>3. CASE worker'[w].pc \in Busy \cup {"next"}
    BY <2>3
  <2>4. CASE \E v \in Workers \ {w} : worker[v].pc \in Busy \cup {"next", "died"}
    BY <1>2, <2>2, <2>4
  <2>5. CASE worker[w].pc \notin Busy \cup {"next", "died"}
    <3>1. PICK v \in Workers : worker[v].pc \in Busy \cup {"next"}
      BY <2>1, <2>2, <2>5 DEF DownloaderInv, SomebodyLooks
    <3> QED BY <1>2, <2>5, <3>1
  <2> QED BY <2>1, <2>3, <2>4, <2>5
<1> QED BY <1>3, <1>4, <1>5, <1>6 DEF DownloaderInv

\* A worker's step on one record, the others waking or not.
LEMMA WorkerMoves ==
  ASSUME DownloaderInv, NEW w \in Workers, NEW x,
         worker' = [worker EXCEPT ![w] = x] \/ worker' = Woken([worker EXCEPT ![w] = x]),
         x.pc # "parked" \/ worker' = [worker EXCEPT ![w] = x]
  PROVE  /\ OthersStay(w) /\ worker'[w] = x
         /\ DOMAIN worker' = Workers /\ worker' = [v \in Workers |-> worker'[v]]
<1>1. worker \in [Workers -> WorkerState]
  BY DEF DownloaderInv, WorkersOK
<1>2. CASE worker' = [worker EXCEPT ![w] = x]
  BY <1>1, <1>2 DEF OthersStay
<1>3. CASE worker' = Woken([worker EXCEPT ![w] = x]) /\ x.pc # "parked"
  <2> DEFINE ws == [worker EXCEPT ![w] = x]
  <2>1. \A v \in Workers : ws[v] = IF v = w THEN x ELSE worker[v]
    BY <1>1
  <2>2. worker' = [v \in Workers |-> IF ws[v].pc = "parked" THEN [ws[v] EXCEPT !.pc = "next"]
                                                           ELSE ws[v]]
    BY <1>3 DEF Woken
  <2> HIDE DEF ws
  <2>3. worker'[w] = x
    BY <1>3, <2>1, <2>2
  <2>4. DOMAIN worker' = Workers /\ worker' = [v \in Workers |-> worker'[v]]
    BY <2>2
  <2>5. OthersStay(w)
    BY <2>1, <2>2 DEF OthersStay
  <2> QED BY <2>3, <2>4, <2>5
<1> QED BY <1>2, <1>3

\* What is known of a worker.
LEMMA WorkerAt ==
  ASSUME DownloaderInv, NEW w \in Workers
  PROVE  /\ WorkerOK(worker[w]) /\ worker[w] \in WorkerState
         /\ worker \in [Workers -> WorkerState]
         /\ server \in [Files -> Versions] /\ disk \in [Files -> DiskState]
         /\ ctl \in [Files -> CtlState] /\ task \in [Files -> TaskState]
BY DEF DownloaderInv, WorkersOK, FilesOK

\* A step that leaves the files alone.
LEMMA LocalStepKeeps ==
  ASSUME DownloaderInv, NEW w \in Workers, phase = "running",
         UNCHANGED <<server, disk, ctl, phase, task, cancelled>>, NEW x \in WorkerState,
         worker' = [worker EXCEPT ![w] = x], WorkerOK(x),
         worker[w].pc \in Owning =>
           x.pc \in Owning /\ x.file = worker[w].file /\ x.piece = worker[w].piece,
         worker[w].pc # "mark",
         \/ x.pc \in Busy \cup {"next", "died"} \/ cancelled
         \/ worker[w].pc \notin Busy \cup {"next", "died"}
         \/ ~\E f \in Files : task[f].status = "Active"
         \/ \E v \in Workers \ {w} : worker[v].pc \in Busy \cup {"next", "died"}
  PROVE  DownloaderInv'
<1>1. /\ OthersStay(w) /\ worker'[w] = x
      /\ DOMAIN worker' = Workers /\ worker' = [v \in Workers |-> worker'[v]]
  BY WorkerMoves
<1>2. FilesOK' /\ Progress
  BY DEF DownloaderInv, FilesOK, Progress
<1>3. FlightMoves(w) /\ MarkMoves(w)
  BY <1>1 DEF FlightMoves, MarkMoves
<1>4. WorkerOK(worker[w])'
  BY <1>1 DEF WorkerOK
<1> QED BY <1>1, <1>2, <1>3, <1>4, WorkerStepKeeps

\* A step that moves the worker's file within the pool.
LEMMA PoolStepKeeps ==
  ASSUME DownloaderInv, NEW w \in Workers, phase = "running",
         UNCHANGED <<server, disk, ctl, phase, cancelled>>, NEW x \in WorkerState,
         OthersStay(w), worker'[w] = x,
         DOMAIN worker' = Workers, worker' = [v \in Workers |-> worker'[v]],
         NEW f \in Files, NEW t1 \in TaskState, task' = [task EXCEPT ![f] = t1],
         task[f].status \in InPool, t1.status \in InPool, t1.version = task[f].version,
         t1.flight \subseteq Pieces(f), t1.done \subseteq Pieces(f), task[f].done \subseteq t1.done,
         \A i \in t1.done : i \in task[f].done \/ Good(f, task[f], disk[f].data[i]),
         FlightMoves(w), MarkMoves(w), WorkerOK(worker[w])',
         \/ x.pc \in Busy \cup {"next", "died"} \/ cancelled
  PROVE  DownloaderInv'
<1>1. /\ FileOK(f, server[f], disk[f], ctl[f], task[f]) /\ task \in [Files -> TaskState]
      /\ task[f].done \subseteq Pieces(f)
  BY FileAt DEF FileOK, FileTypes
<1>2. FileOK(f, server[f], disk[f], ctl[f], t1)
  BY <1>1, PoolFileKept
<1>3. /\ task' \in [Files -> TaskState] /\ task'[f] = t1
      /\ \A g \in Files \ {f} : task'[g] = task[g]
  BY <1>1
<1>4. FilesOK'
  <2>1. ASSUME NEW g \in Files
        PROVE  FileOK(g, server'[g], disk'[g], ctl'[g], task'[g])
    <3>1. FileOK(g, server[g], disk[g], ctl[g], task[g])
      BY FileAt
    <3>2. CASE g = f
      BY <1>2, <1>3, <3>2
    <3>3. CASE g # f
      BY <1>3, <3>1, <3>3
    <3> QED BY <3>2, <3>3
  <2> QED BY <1>3, <2>1 DEF DownloaderInv, FilesOK
<1>5. Progress
  <2> SUFFICES ASSUME NEW g \in Files, task[g].status \in InPool
               PROVE  /\ task'[g].status \in InPool /\ task'[g].version = task[g].version
                      /\ task[g].done = Pieces(g) => task'[g].done = Pieces(g)
                      /\ \A i \in Pieces(g) : Good(g, task[g], disk[g].data[i])
                           => Good(g, task'[g], disk'[g].data[i])
    BY DEF Progress
  <2>1. CASE g = f
    <3>1. /\ task'[f].status \in InPool /\ task'[f].version = task[f].version
          /\ task[f].done = Pieces(f) => task'[f].done = Pieces(f)
      <4>1. task[f].done = Pieces(f) => t1.done = Pieces(f)
        OBVIOUS
      <4>2. task'[f] = t1
        BY <1>3
      <4> QED BY <4>1, <4>2
    <3>2. disk' = disk
      OBVIOUS
    <3>3. ASSUME NEW v, Good(f, task[f], v) PROVE Good(f, task'[f], v)
      BY <3>1, <3>3 DEF Good
    <3> QED BY <2>1, <3>1, <3>2, <3>3
  <2>2. CASE g # f
    BY <1>3, <2>2
  <2> QED BY <2>1, <2>2
<1> QED BY <1>4, <1>5, WorkerStepKeeps
-----------------------------------------------------------------------------
(***************************************************************************)
(* Nobody goes to wait while there is work for the last who looks.         *)
(***************************************************************************)
\* all_complete counts only as many entries as the pool has files, but answers
\* true only when the pool has none that is unfinished.
LEMMA AllDoneMeansDone ==
  ASSUME AllDone, NEW g \in Files, task[g].status = "Active"
  PROVE  FALSE
<1>1. FileCount \in Nat /\ Files \subseteq Nat /\ IsFiniteSet(Files)
  <2>1. FileCount \in Int /\ 1 \in Int
    BY DownloaderAssumption
  <2>2. IsFiniteSet(1..FileCount)
    BY <2>1, FS_Interval
  <2> QED BY <2>2, DownloaderAssumption DEF Files
<1>2. PoolFiles \in SUBSET Files /\ Listed \in SUBSET Files /\ g \in PoolFiles /\ g \in Listed
  BY DEF PoolFiles, Listed, InPool
<1>3. IsFiniteSet(PoolFiles) /\ Cardinality(PoolFiles) \in Nat
  <2>1. IsFiniteSet(PoolFiles)
    BY <1>1, <1>2, FS_Subset
  <2> QED BY <2>1, FS_CardinalityType
<1>4. ASSUME NEW h \in Files
      PROVE  /\ IsFiniteSet({x \in Listed : x <= h}) /\ IdOf(h) \in Nat
             /\ IdOf(h) = Cardinality({x \in Listed : x <= h})
  <2>1. {x \in Listed : x <= h} \in SUBSET Files
    BY <1>2
  <2>2. IsFiniteSet({x \in Listed : x <= h})
    BY <1>1, <2>1, FS_Subset
  <2>3. Cardinality({x \in Listed : x <= h}) \in Nat
    BY <2>2, FS_CardinalityType
  <2> QED BY <2>2, <2>3 DEF IdOf
<1>5. ~(IdOf(g) <= Cardinality(PoolFiles))
  BY <1>2 DEF AllDone
<1> DEFINE B == {x \in Listed : x <= g}
           N == {x \in B : x \notin PoolFiles}
<1>6. N \subseteq Nat /\ N # {}
  <2>1. SUFFICES ASSUME B \in SUBSET PoolFiles PROVE FALSE
    BY <1>1, <1>2
  <2>2. Cardinality(B) <= Cardinality(PoolFiles)
    BY <1>3, <2>1, FS_Subset
  <2>3. IdOf(g) = Cardinality(B)
    BY <1>4
  <2> QED BY <1>5, <2>2, <2>3
<1>7. PICK h \in N : \A x \in N : h <= x
  <2> HIDE DEF N
  <2> QED BY <1>6, LeastOf
<1>8. h \in Listed /\ h \in Files /\ h \notin PoolFiles /\ h <= g /\ h # g
  BY <1>2, <1>7
<1> DEFINE C == {x \in Listed : x <= h}
           D == (PoolFiles \ {g}) \cup {h}
<1>9. C \in SUBSET D
  <2> SUFFICES ASSUME NEW x \in Listed, x <= h, x # h PROVE x \in PoolFiles /\ x # g
    OBVIOUS
  <2>1. x \in Nat /\ h \in Nat /\ g \in Nat
    BY <1>1, <1>2, <1>8
  <2>2. x <= g /\ x # g /\ ~(h <= x)
    BY <1>8, <2>1
  <2>3. x \notin N
    BY <1>7, <2>2
  <2> QED BY <2>2, <2>3
<1>10. IsFiniteSet(D) /\ Cardinality(D) = Cardinality(PoolFiles)
  <2>1. /\ IsFiniteSet(PoolFiles \ {g})
        /\ Cardinality(PoolFiles \ {g}) = Cardinality(PoolFiles) - 1
    BY <1>2, <1>3, FS_RemoveElement
  <2>2. h \notin PoolFiles \ {g}
    BY <1>8
  <2>3. IsFiniteSet(D) /\ Cardinality(D) = Cardinality(PoolFiles \ {g}) + 1
    BY <2>1, <2>2, FS_AddElement
  <2> QED BY <1>3, <2>1, <2>3
<1>11. Cardinality(C) <= Cardinality(D)
  <2> HIDE DEF C, D
  <2> QED BY <1>9, <1>10, FS_Subset
<1>12. IdOf(h) = Cardinality(C)
  BY <1>4, <1>8
<1>13. IdOf(h) <= Cardinality(PoolFiles)
  BY <1>10, <1>11, <1>12
<1>14. task[h].status \in {"Complete", "Failed"}
  BY <1>8, <1>13 DEF AllDone
<1> QED BY <1>8, <1>14 DEF PoolFiles, InPool

\* When no other worker is on a file, next_work settles on one of its candidates.
LEMMA ChosenExists ==
  ASSUME NEW w \in Workers, \A v \in Workers \ {w} : worker[v].file = 0,
         Candidates(w) # {}
  PROVE  \E f \in Candidates(w) : Chosen(f, w)
<1>1. Files \subseteq Nat /\ 0 \notin Files /\ Candidates(w) \subseteq Files
  BY DownloaderAssumption DEF Files, Candidates
<1>2. ASSUME NEW f \in Files PROVE Cardinality(WorkersOn(f, w)) = 0
  <2>1. WorkersOn(f, w) = {}
    BY <1>1 DEF WorkersOn
  <2> QED BY <2>1, FS_EmptySet
<1>3. \A f, g \in Files : ScoresHigher(f, g, w) <=> SizeOf[f] < SizeOf[g]
  BY <1>2 DEF ScoresHigher
<1>4. \A f \in Files : SizeOf[f] \in Nat
  BY DownloaderAssumption
<1> DEFINE Sizes == {SizeOf[f] : f \in Candidates(w)}
<1>5. PICK m \in Sizes : \A n \in Sizes : m <= n
  <2>1. Sizes \subseteq Nat /\ Sizes # {}
    BY <1>1, <1>4
  <2> HIDE DEF Sizes
  <2> QED BY <2>1, LeastOf
<1> DEFINE Least == {f \in Candidates(w) : SizeOf[f] = m}
<1>6. PICK f \in Least : \A g \in Least : f <= g
  <2>1. Least \subseteq Nat /\ Least # {}
    BY <1>1, <1>5
  <2> HIDE DEF Least
  <2> QED BY <2>1, LeastOf
<1>7. ASSUME NEW g \in Candidates(w) \ {f}
      PROVE  ~(SizeOf[g] < SizeOf[f]) /\ (g < f => SizeOf[f] < SizeOf[g])
  <2>1. SizeOf[g] \in Nat /\ m \in Nat /\ SizeOf[f] = m /\ m <= SizeOf[g]
    BY <1>1, <1>4, <1>5, <1>6
  <2>2. g < f => SizeOf[g] # m
    <3>1. f \in Nat /\ g \in Nat
      BY <1>1, <1>6
    <3>2. SizeOf[g] = m => g \in Least
      OBVIOUS
    <3>3. g \in Least => f <= g
      BY <1>6
    <3> QED BY <3>1, <3>2, <3>3
  <2> QED BY <2>1, <2>2
<1>8. f \in Candidates(w) /\ f \in Files
  BY <1>1, <1>6
<1>9. Chosen(f, w)
  BY <1>1, <1>3, <1>7, <1>8 DEF Chosen
<1> QED BY <1>8, <1>9

\* next_work does not come back empty while a file is unfinished and every other
\* worker waits: what they were at has been released.
LEMMA LastFindsWork ==
  ASSUME DownloaderInv, NEW w \in Workers, NoWork(w),
         NEW a \in Files, task[a].status = "Active"
  PROVE  \E v \in Workers \ {w} : worker[v].pc \in Busy \cup {"next", "died"}
<1> SUFFICES ASSUME \A v \in Workers \ {w} : worker[v].pc \notin Busy \cup {"next", "died"}
             PROVE  FALSE
  OBVIOUS
<1>1. /\ worker[w].pc = "next" /\ phase = "running" /\ ~cancelled
      /\ AllDone \/ \A f \in Files : Chosen(f, w) => NextPiece(f) = -1
  BY DEF NoWork, At
<1>2. \A v \in Workers \ {w} : worker[v].file = 0
  <2> SUFFICES ASSUME NEW v \in Workers \ {w} PROVE worker[v].file = 0
    OBVIOUS
  <2>1. WorkerOK(worker[v]) /\ worker[v].pc \in WorkerPhases
    BY WorkerAt DEF WorkerState
  <2>2. worker[v].pc \in {"none", "park", "parked", "exited"}
    BY <2>1 DEF WorkerPhases, Busy
  <2> QED BY <1>1, <2>1, <2>2 DEF WorkerOK
<1>3. \A v \in Workers : worker[v].pc \notin Owning \cup {"mark"}
  BY <1>1 DEF Owning, Busy
<1>4. \A f \in Files : task[f].flight = {}
  BY <1>3 DEF DownloaderInv, FlightOwned, Owning
<1>5. task[a].done # Pieces(a)
  BY <1>1, <1>3 DEF DownloaderInv, WholeIsMarked
<1>6. Remaining(a) > 0 /\ Remaining(a) \in Nat
  <2>1. task[a].done \subseteq Pieces(a)
    BY FileAt DEF FileOK, FileTypes
  <2>2. ~(Pieces(a) \subseteq task[a].done)
    BY <1>5, <2>1
  <2> QED BY <2>2, RemainingCounts
<1>7. a \in Candidates(w)
  <2>1. WorkersOn(a, w) = {}
    BY <1>2 DEF WorkersOn, Files
  <2>2. Cardinality(WorkersOn(a, w)) = 0
    BY <2>1, FS_EmptySet
  <2>3. PoolWorkers \in Nat /\ PoolWorkers # 0
    <3>1. IsFiniteSet(Workers) /\ Workers # {}
      BY DownloaderAssumption
    <3>2. Cardinality(Workers) \in Nat /\ Cardinality(Workers) # 0
      BY <3>1, FS_CardinalityType, FS_EmptySet
    <3> QED BY <3>2 DEF PoolWorkers
  <2>4. 0 < MaxWorkers(a)
    BY <1>6, <2>3 DEF MaxWorkers
  <2> QED BY <1>6, <2>2, <2>4 DEF Candidates
<1>8. PICK f \in Candidates(w) : Chosen(f, w)
  BY <1>2, <1>7, ChosenExists
<1>9. f \in Files /\ Remaining(f) > 0
  BY <1>8 DEF Candidates
<1>10. Available(f) # {} /\ Available(f) \in SUBSET Pieces(f)
  <2>1. ~(Pieces(f) \subseteq task[f].done)
    BY <1>9, RemainingCounts
  <2> QED BY <1>4, <1>9, <2>1 DEF Available
<1>11. NextPiece(f) # -1
  <2>1. Available(f) \in SUBSET Nat /\ IsFiniteSet(Available(f))
    BY <1>9, <1>10, PiecesFinite, FS_Subset
  <2>2. SelectPiece(Available(f)) \in Nat
    BY <1>10, <2>1, SelectPieceAvailable
  <2>3. NextPiece(f) = SelectPiece(Available(f))
    BY <1>10 DEF NextPiece
  <2> QED BY <2>2, <2>3
<1>12. ~AllDone
  BY AllDoneMeansDone
<1> QED BY <1>1, <1>8, <1>9, <1>11, <1>12
-----------------------------------------------------------------------------
(***************************************************************************)
(* The actions of a worker, one by one.                                    *)
(***************************************************************************)
\* The fields of a worker whose record is replaced or edited.
LEMMA WorkerEdits ==
  ASSUME NEW x \in WorkerState, NEW pc \in WorkerPhases
  PROVE  LET y == [x EXCEPT !.pc = pc]
         IN  /\ y \in WorkerState /\ y.pc = pc /\ y.file = x.file /\ y.piece = x.piece
             /\ y.data = x.data
BY DEF WorkerState

\* next_work gives a piece.
LEMMA NextWorkKeeps ==
  ASSUME DownloaderInv, NEW w \in Workers, NEW f \in Files, NextWork(w, f)
  PROVE  DownloaderInv'
<1> DEFINE p == NextPiece(f)
           x == [FreshWorker EXCEPT !.pc = "fetch", !.file = f, !.piece = p]
           fl == IF Available(f) # {} THEN task[f].flight \cup {p} ELSE task[f].flight
           t1 == [task[f] EXCEPT !.flight = fl]
<1>1. /\ worker \in [Workers -> WorkerState] /\ task \in [Files -> TaskState]
      /\ task[f] \in TaskState /\ FileOK(f, server[f], disk[f], ctl[f], task[f])
  BY WorkerAt, FileAt
<1>2. /\ phase = "running" /\ worker[w].pc = "next" /\ p # -1
      /\ task[f].status = "Active" /\ worker' = [worker EXCEPT ![w] = x]
      /\ UNCHANGED <<server, disk, ctl, phase, cancelled>>
  BY DEF NextWork, At, Chosen, Candidates
<1>3. task' = [task EXCEPT ![f] = t1]
  BY <1>1 DEF NextWork
<1>4. p \in Pieces(f) /\ p \in Nat
  BY <1>2, NextPieceMissing, PiecesFinite
<1>5. task[f].done \subseteq Pieces(f) /\ task[f].flight \subseteq Pieces(f)
  BY <1>1 DEF FileOK, FileTypes
<1>6. fl \in SUBSET Pieces(f) /\ fl \in SUBSET Nat /\ fl \subseteq task[f].flight \cup {p}
  BY <1>4, <1>5, PiecesFinite
<1> HIDE DEF p, fl
<1>7. /\ x \in WorkerState /\ x.pc = "fetch" /\ x.file = f /\ x.piece = p
  BY <1>4, FreshWorkerType DEF WorkerState, WorkerPhases
<1>8. /\ t1 \in TaskState /\ t1.status = "Active" /\ t1.version = task[f].version
      /\ t1.done = task[f].done /\ t1.flight = fl
  BY <1>1, <1>2, <1>6 DEF TaskState
<1> HIDE DEF x, t1
<1>9. /\ OthersStay(w) /\ worker'[w] = x
      /\ DOMAIN worker' = Workers /\ worker' = [v \in Workers |-> worker'[v]]
  BY <1>2, WorkerMoves
<1>10. task'[f] = t1 /\ \A g \in Files \ {f} : task'[g] = task[g]
  BY <1>1, <1>3
<1>11. FlightMoves(w)
  BY <1>2, <1>6, <1>7, <1>8, <1>9, <1>10 DEF FlightMoves, Owning
<1>12. MarkMoves(w)
  BY <1>2, <1>8, <1>10 DEF MarkMoves
<1>13. "Active" \in InPool /\ "fetch" \in Busy
  BY DEF InPool, Busy
<1>14. WorkerOK(worker[w])'
  BY <1>2, <1>4, <1>7, <1>8, <1>9, <1>10, <1>13 DEF WorkerOK
<1>15. /\ t1.flight \subseteq Pieces(f) /\ t1.done \subseteq Pieces(f)
       /\ task[f].done \subseteq t1.done
       /\ \A i \in t1.done : i \in task[f].done \/ Good(f, task[f], disk[f].data[i])
  BY <1>5, <1>6, <1>8
<1>16. task[f].status \in InPool /\ t1.status \in InPool /\ x.pc \in Busy
  BY <1>2, <1>7, <1>8, <1>13
<1> QED BY <1>2, <1>3, <1>7, <1>8, <1>9, <1>11, <1>12, <1>14, <1>15, <1>16, PoolStepKeeps

\* next_work gives nothing, and the worker goes to wait or leaves.
LEMMA WaitingStepsKeep ==
  ASSUME DownloaderInv, NEW w \in Workers,
         NoWork(w) \/ LastLook(w) \/ Park(w) \/ Leave(w)
  PROVE  DownloaderInv'
<1>1. /\ worker[w] \in WorkerState /\ WorkerOK(worker[w])
      /\ worker \in [Workers -> WorkerState]
  BY WorkerAt
<1>2. CASE NoWork(w)
  <2> DEFINE x == [FreshWorker EXCEPT !.pc = "none"]
  <2>1. /\ phase = "running" /\ worker[w].pc = "next" /\ worker' = [worker EXCEPT ![w] = x]
        /\ UNCHANGED <<server, disk, ctl, phase, task, cancelled>>
    BY <1>2 DEF NoWork, At
  <2>2. x \in WorkerState /\ x.pc = "none" /\ x.file = 0
    BY FreshWorkerType, WorkerEdits DEF WorkerPhases
  <2> HIDE DEF x
  <2>3. WorkerOK(x)
    BY <2>2 DEF WorkerOK, Busy
  <2>4. \/ ~\E f \in Files : task[f].status = "Active"
        \/ \E v \in Workers \ {w} : worker[v].pc \in Busy \cup {"next", "died"}
    BY <1>2, LastFindsWork
  <2>5. worker[w].pc \notin Owning
    BY <2>1 DEF Owning
  <2> QED BY <2>1, <2>2, <2>3, <2>4, <2>5, LocalStepKeeps
<1>3. CASE LastLook(w)
  <2> DEFINE pc == IF AllDone THEN "exited" ELSE "park"
             x == [worker[w] EXCEPT !.pc = pc]
  <2>1. /\ phase = "running" /\ worker[w].pc = "none"
        /\ UNCHANGED <<server, disk, ctl, phase, task, cancelled>>
    BY <1>3 DEF LastLook, At
  <2>2. worker' = [worker EXCEPT ![w] = x]
    BY <1>1, <1>3 DEF LastLook
  <2>3. pc \in {"exited", "park"} /\ pc \in WorkerPhases
    BY DEF WorkerPhases
  <2> HIDE DEF pc
  <2>4. x \in WorkerState /\ x.pc = pc /\ x.file = worker[w].file
    BY <1>1, <2>3, WorkerEdits
  <2>5. worker[w].file = 0
    BY <1>1, <2>1 DEF WorkerOK
  <2> HIDE DEF x
  <2>6. WorkerOK(x)
    BY <2>3, <2>4, <2>5 DEF WorkerOK, Busy
  <2>7. worker[w].pc \notin Owning \cup Busy \cup {"next", "died", "mark"}
    BY <2>1 DEF Owning, Busy
  <2> QED BY <2>1, <2>2, <2>4, <2>6, <2>7, LocalStepKeeps
<1>4. CASE Park(w)
  <2> DEFINE x == [worker[w] EXCEPT !.pc = "parked"]
  <2>1. /\ phase = "running" /\ worker[w].pc = "park"
        /\ UNCHANGED <<server, disk, ctl, phase, task, cancelled>>
    BY <1>4 DEF Park, At
  <2>2. worker' = [worker EXCEPT ![w] = x]
    BY <1>1, <1>4 DEF Park
  <2>3. x \in WorkerState /\ x.pc = "parked" /\ x.file = worker[w].file
    BY <1>1, WorkerEdits DEF WorkerPhases
  <2>4. worker[w].file = 0
    BY <1>1, <2>1 DEF WorkerOK
  <2> HIDE DEF x
  <2>5. WorkerOK(x)
    BY <2>3, <2>4 DEF WorkerOK, Busy
  <2>6. worker[w].pc \notin Owning \cup Busy \cup {"next", "died", "mark"}
    BY <2>1 DEF Owning, Busy
  <2> QED BY <2>1, <2>2, <2>3, <2>5, <2>6, LocalStepKeeps
<1>5. CASE Leave(w)
  <2> DEFINE x == [worker[w] EXCEPT !.pc = "exited"]
  <2>1. /\ phase = "running" /\ worker[w].pc \in {"next", "parked"} /\ cancelled
        /\ UNCHANGED <<server, disk, ctl, phase, task, cancelled>>
    BY <1>5 DEF Leave, At
  <2>2. worker' = [worker EXCEPT ![w] = x]
    BY <1>1, <1>5 DEF Leave
  <2>3. x \in WorkerState /\ x.pc = "exited"
    BY <1>1, WorkerEdits DEF WorkerPhases
  <2> HIDE DEF x
  <2>4. WorkerOK(x)
    BY <2>1, <2>3 DEF WorkerOK, Busy
  <2>5. worker[w].pc \notin Owning \cup {"mark"}
    BY <2>1 DEF Owning
  <2> QED BY <2>1, <2>2, <2>3, <2>4, <2>5, LocalStepKeeps
<1> QED BY <1>2, <1>3, <1>4, <1>5

\* A piece arrives, in the version probed where If-Range was sent; a write fails.
LEMMA FetchedWriteFailedKeep ==
  ASSUME DownloaderInv, NEW w \in Workers, Fetched(w) \/ WriteFailed(w)
  PROVE  DownloaderInv'
<1>1. /\ worker[w] \in WorkerState /\ WorkerOK(worker[w])
      /\ worker \in [Workers -> WorkerState]
  BY WorkerAt
<1>2. CASE Fetched(w)
  <2> DEFINE f == worker[w].file
             v == server[f]
             x == [worker[w] EXCEPT !.pc = "write", !.data = v]
  <2>1. /\ phase = "running" /\ worker[w].pc = "fetch" /\ Serves(f)
        /\ UNCHANGED <<server, disk, ctl, phase, task, cancelled>>
    BY <1>2 DEF Fetched, At
  <2>2. worker' = [worker EXCEPT ![w] = x]
    BY <1>1, <1>2 DEF Fetched
  <2>3. f \in Files /\ task[f].status \in InPool /\ worker[w].piece \in Pieces(f)
    BY <1>1, <2>1 DEF WorkerOK, Busy
  <2>4. v \in Versions /\ v \in Cells
    BY <2>3, FileAt, VersionNumbers
  <2>5. Good(f, task[f], v)
    BY <2>1, <2>3, <2>4 DEF Serves, Good
  <2> HIDE DEF v
  <2>6. /\ x \in WorkerState /\ x.pc = "write" /\ x.file = f /\ x.data = v
        /\ x.piece = worker[w].piece
    BY <1>1, <2>4 DEF WorkerState, WorkerPhases
  <2> HIDE DEF x
  <2>7. WorkerOK(x)
    BY <2>1, <2>3, <2>5, <2>6 DEF WorkerOK
  <2>8. "write" \in Owning /\ "write" \in Busy
    BY DEF Owning, Busy
  <2> QED BY <2>1, <2>2, <2>6, <2>7, <2>8, LocalStepKeeps
<1>3. CASE WriteFailed(w)
  <2> DEFINE x == [worker[w] EXCEPT !.pc = "died"]
  <2>1. /\ phase = "running" /\ worker[w].pc = "write"
        /\ UNCHANGED <<server, disk, ctl, phase, task, cancelled>>
    BY <1>3 DEF WriteFailed, At
  <2>2. worker' = [worker EXCEPT ![w] = x]
    BY <1>1, <1>3 DEF WriteFailed
  <2>3. /\ x \in WorkerState /\ x.pc = "died" /\ x.file = worker[w].file
        /\ x.piece = worker[w].piece
    BY <1>1, WorkerEdits DEF WorkerPhases
  <2> HIDE DEF x
  <2>4. WorkerOK(x) /\ "died" \in Owning
    BY <2>3 DEF WorkerOK, Busy, Owning
  <2> QED BY <2>1, <2>2, <2>3, <2>4, LocalStepKeeps
<1> QED BY <1>2, <1>3

\* The worker of a piece, and its file.
LEMMA BusyAt ==
  ASSUME DownloaderInv, NEW w \in Workers, worker[w].pc \in Busy, NEW f, f = worker[w].file
  PROVE  /\ phase = "running" /\ f \in Files /\ worker[w].piece \in Pieces(f)
         /\ worker[w].piece \in Nat /\ task[f].status \in InPool /\ task[f] \in TaskState
         /\ task \in [Files -> TaskState] /\ worker \in [Workers -> WorkerState]
         /\ worker[w] \in WorkerState /\ FileOK(f, server[f], disk[f], ctl[f], task[f])
         /\ task[f].done \subseteq Pieces(f) /\ task[f].flight \subseteq Pieces(f)
<1>1. /\ WorkerOK(worker[w]) /\ worker[w] \in WorkerState
      /\ worker \in [Workers -> WorkerState]
  BY WorkerAt
<1>2. /\ phase = "running" /\ f \in Files /\ worker[w].piece \in Pieces(f)
      /\ task[f].status \in InPool
  BY <1>1 DEF WorkerOK
<1>3. /\ FileOK(f, server[f], disk[f], ctl[f], task[f]) /\ task[f] \in TaskState
      /\ task \in [Files -> TaskState]
  BY <1>2, FileAt
<1> QED BY <1>1, <1>2, <1>3, PiecesFinite DEF FileOK, FileTypes

\* A piece is given up, and with it the file or the worker.
LEMMA GiveUpKeeps ==
  ASSUME DownloaderInv, NEW w \in Workers, worker[w].pc = "fetch", NEW f, f = worker[w].file,
         NEW pc \in {"next", "exited"}, pc = "exited" => cancelled,
         NEW t1 \in TaskState, task' = [task EXCEPT ![f] = t1],
         t1.status \in InPool, t1.status = "Active" => task[f].status = "Active",
         t1.version = task[f].version, t1.done = task[f].done,
         t1.flight = task[f].flight \ {worker[w].piece},
         worker' = Woken([worker EXCEPT ![w] = [worker[w] EXCEPT !.pc = pc]]),
         UNCHANGED <<server, disk, ctl, phase, cancelled>>
  PROVE  DownloaderInv'
<1> DEFINE x == [worker[w] EXCEPT !.pc = pc]
           fl == task[f].flight \ {worker[w].piece}
<1>1. worker[w].pc \in Busy
  BY DEF Busy
<1>2. /\ phase = "running" /\ f \in Files /\ worker[w].piece \in Pieces(f)
      /\ task[f].status \in InPool /\ task[f] \in TaskState
      /\ task \in [Files -> TaskState] /\ worker[w] \in WorkerState
      /\ task[f].done \subseteq Pieces(f) /\ task[f].flight \subseteq Pieces(f)
  BY <1>1, BusyAt
<1>3. fl \subseteq Pieces(f)
  BY <1>2
<1>4. t1.flight = fl
  OBVIOUS
<1>5. /\ x \in WorkerState /\ x.pc = pc /\ x.file = worker[w].file
      /\ x.piece = worker[w].piece
  <2>1. pc \in WorkerPhases
    BY DEF WorkerPhases
  <2> QED BY <1>2, <2>1, WorkerEdits
<1> HIDE DEF x
<1>6. worker' = Woken([worker EXCEPT ![w] = x]) /\ x.pc # "parked"
  BY <1>5 DEF x
<1>7. /\ OthersStay(w) /\ worker'[w] = x
      /\ DOMAIN worker' = Workers /\ worker' = [v \in Workers |-> worker'[v]]
  BY <1>6, WorkerMoves
<1>8. task'[f] = t1 /\ \A g \in Files \ {f} : task'[g] = task[g]
  BY <1>2
<1>9. FlightMoves(w)
  BY <1>4, <1>8 DEF FlightMoves
<1>10. MarkMoves(w)
  BY <1>4, <1>8 DEF MarkMoves
<1>11. WorkerOK(worker[w])'
  BY <1>5, <1>7 DEF WorkerOK, Busy
<1>12. /\ t1.flight \subseteq Pieces(f) /\ t1.done \subseteq Pieces(f)
       /\ task[f].done \subseteq t1.done
       /\ \A i \in t1.done : i \in task[f].done \/ Good(f, task[f], disk[f].data[i])
  BY <1>2, <1>3, <1>4
<1>13. x.pc \in Busy \cup {"next", "died"} \/ cancelled
  BY <1>5
<1> QED BY <1>2, <1>4, <1>5, <1>7, <1>9, <1>10, <1>11, <1>12, <1>13, PoolStepKeeps

\* download_piece fails, or is cancelled.
LEMMA FetchEndsKeep ==
  ASSUME DownloaderInv, NEW w \in Workers, FetchFailed(w) \/ FetchCancelled(w)
  PROVE  DownloaderInv'
<1> DEFINE f == worker[w].file
           last == worker[w].retries + 1 >= MaxTries
<1>1. worker[w].pc = "fetch" /\ worker[w].pc \in Busy
  BY DEF FetchFailed, FetchCancelled, At, Busy
<1>2. /\ phase = "running" /\ f \in Files /\ task[f].status \in InPool
      /\ task[f] \in TaskState /\ task \in [Files -> TaskState]
      /\ worker \in [Workers -> WorkerState] /\ worker[w] \in WorkerState
      /\ worker[w].piece \in Pieces(f)
  BY <1>1, BusyAt
<1>3. "next" \in {"next", "exited"} /\ "exited" \in {"next", "exited"} /\ "Failed" \in InPool
  BY DEF InPool
<1>4. CASE FetchFailed(w) /\ last
  <2> DEFINE t1 == [task[f] EXCEPT !.status = "Failed",
                                   !.flight = task[f].flight \ {worker[w].piece}]
  <2>1. task' = [task EXCEPT ![f] = t1] /\ UNCHANGED <<server, disk, ctl, phase, cancelled>>
    BY <1>2, <1>4 DEF FetchFailed
  <2>2. worker' = Woken([worker EXCEPT ![w] = [worker[w] EXCEPT !.pc = "next"]])
    BY <1>2, <1>4 DEF FetchFailed
  <2>3. /\ t1 \in TaskState /\ t1.status = "Failed" /\ t1.version = task[f].version
        /\ t1.done = task[f].done /\ t1.flight = task[f].flight \ {worker[w].piece}
    BY <1>2, <1>3 DEF TaskState, Statuses
  <2> HIDE DEF t1
  <2> QED BY <1>1, <1>3, <2>1, <2>2, <2>3, GiveUpKeeps, ZenonT(60)
<1>5. CASE FetchFailed(w) /\ ~last
  <2> DEFINE n == worker[w].retries + 1
             x == [worker[w] EXCEPT !.retries = n]
  <2>1. UNCHANGED <<server, disk, ctl, phase, task, cancelled>>
    BY <1>5 DEF FetchFailed
  <2>2. worker' = [worker EXCEPT ![w] = x]
    BY <1>2, <1>5 DEF FetchFailed
  <2>3. n \in Retries
    <3>1. worker[w].retries \in Retries
      BY <1>2 DEF WorkerState
    <3> QED BY <1>5, <3>1, DownloaderAssumption DEF Retries
  <2> HIDE DEF n
  <2>4. /\ x \in WorkerState /\ x.pc = "fetch" /\ x.file = f /\ x.piece = worker[w].piece
    BY <1>1, <1>2, <2>3 DEF WorkerState
  <2> HIDE DEF x
  <2>5. WorkerOK(x)
    BY <1>2, <2>4 DEF WorkerOK
  <2>6. "fetch" \in Owning /\ "fetch" \in Busy
    BY DEF Owning, Busy
  <2> QED BY <1>1, <1>2, <2>1, <2>2, <2>4, <2>5, <2>6, LocalStepKeeps
<1>6. CASE FetchCancelled(w)
  <2> DEFINE t1 == [task[f] EXCEPT !.flight = task[f].flight \ {worker[w].piece}]
  <2>1. cancelled /\ UNCHANGED <<server, disk, ctl, phase, cancelled>>
    BY <1>6 DEF FetchCancelled
  <2>2. task' = [task EXCEPT ![f] = t1]
    BY <1>2, <1>6 DEF FetchCancelled
  <2>3. worker' = Woken([worker EXCEPT ![w] = [worker[w] EXCEPT !.pc = "exited"]])
    BY <1>2, <1>6 DEF FetchCancelled
  <2>4. /\ t1 \in TaskState /\ t1.status = task[f].status /\ t1.version = task[f].version
        /\ t1.done = task[f].done /\ t1.flight = task[f].flight \ {worker[w].piece}
    BY <1>2 DEF TaskState
  <2> HIDE DEF t1
  <2>5. t1.status \in InPool /\ (t1.status = "Active" => task[f].status = "Active")
    BY <1>2, <2>4
  <2> QED BY <1>1, <1>3, <2>1, <2>2, <2>3, <2>4, <2>5, GiveUpKeeps
<1> QED BY <1>4, <1>5, <1>6

\* The bytes of a piece are written.
LEMMA WriteKeeps ==
  ASSUME DownloaderInv, NEW w \in Workers, Write(w)
  PROVE  DownloaderInv'
<1> DEFINE f == worker[w].file
           p == worker[w].piece
           v == worker[w].data
           x == [worker[w] EXCEPT !.pc = "complete"]
           d1 == [disk[f] EXCEPT !.data[p] = v]
<1>1. worker[w].pc = "write" /\ worker[w].pc \in Busy
      /\ UNCHANGED <<server, ctl, phase, task, cancelled>>
  BY DEF Write, At, Busy
<1>2. /\ phase = "running" /\ f \in Files /\ p \in Pieces(f)
      /\ task[f].status \in InPool /\ worker \in [Workers -> WorkerState]
      /\ worker[w] \in WorkerState /\ FileOK(f, server[f], disk[f], ctl[f], task[f])
  BY <1>1, BusyAt
<1>3. Good(f, task[f], v) /\ disk \in [Files -> DiskState]
  BY <1>1, WorkerAt DEF WorkerOK
<1>4. FileOK(f, server[f], d1, ctl[f], task[f]) /\ Good(f, task[f], d1.data[p])
  BY <1>2, <1>3, WrittenFileKept
<1>5. disk' = [disk EXCEPT ![f] = d1] /\ worker' = [worker EXCEPT ![w] = x]
  BY <1>2, <1>3 DEF Write
<1>6. \A i \in Pieces(f) : d1.data[i] = IF i = p THEN v ELSE disk[f].data[i]
  <2>1. disk[f] \in DiskState /\ disk[f].data \in [Pieces(f) -> Cells]
    BY <1>2 DEF FileOK, FileTypes
  <2> QED BY <1>2, <2>1 DEF DiskState
<1> HIDE DEF d1
<1>7. d1 \in DiskState
  BY <1>4 DEF FileOK, FileTypes
<1>8. disk'[f] = d1 /\ disk' \in [Files -> DiskState] /\ \A g \in Files \ {f} : disk'[g] = disk[g]
  BY <1>2, <1>3, <1>5, <1>7
<1>9. FilesOK'
  <2>1. ASSUME NEW g \in Files
        PROVE  FileOK(g, server'[g], disk'[g], ctl'[g], task'[g])
    <3>1. FileOK(g, server[g], disk[g], ctl[g], task[g])
      BY FileAt
    <3>2. CASE g = f
      BY <1>1, <1>4, <1>8, <3>2
    <3>3. CASE g # f
      BY <1>1, <1>8, <3>1, <3>3
    <3> QED BY <3>2, <3>3
  <2> QED BY <1>1, <1>8, <2>1 DEF DownloaderInv, FilesOK
<1>10. Progress
  <2> SUFFICES ASSUME NEW g \in Files, task[g].status \in InPool, NEW i \in Pieces(g),
                      Good(g, task[g], disk[g].data[i])
               PROVE  Good(g, task[g], disk'[g].data[i])
    BY <1>1 DEF Progress
  <2>1. CASE g = f
    BY <1>3, <1>6, <1>8, <2>1
  <2>2. CASE g # f
    BY <1>8, <2>2
  <2> QED BY <2>1, <2>2
<1>11. x \in WorkerState /\ x.pc = "complete" /\ x.file = f /\ x.piece = p
  BY <1>2, WorkerEdits DEF WorkerPhases
<1> HIDE DEF x
<1>12. /\ OthersStay(w) /\ worker'[w] = x
       /\ DOMAIN worker' = Workers /\ worker' = [u \in Workers |-> worker'[u]]
  BY <1>5, <1>11, WorkerMoves
<1>13. "complete" \in Owning /\ "complete" \in Busy
  BY DEF Owning, Busy
<1>14. FlightMoves(w) /\ MarkMoves(w)
  BY <1>1, <1>11, <1>12, <1>13 DEF FlightMoves, MarkMoves
<1>15. WorkerOK(worker[w])'
  BY <1>1, <1>2, <1>4, <1>8, <1>11, <1>12 DEF WorkerOK
<1>16. worker'[w].pc \in Busy
  BY <1>11, <1>12, <1>13
<1> QED BY <1>1, <1>2, <1>9, <1>10, <1>11, <1>12, <1>14, <1>15, <1>16, WorkerStepKeeps

\* complete_piece, and mark_file_complete once nothing is missing.
LEMMA CompleteMarkKeep ==
  ASSUME DownloaderInv, NEW w \in Workers, CompletePiece(w) \/ MarkFileComplete(w)
  PROVE  DownloaderInv'
<1> DEFINE f == worker[w].file
           p == worker[w].piece
<1>1. worker[w].pc \in Busy /\ UNCHANGED <<server, disk, ctl, phase, cancelled>>
  BY DEF CompletePiece, MarkFileComplete, At, Busy
<1>2. /\ phase = "running" /\ f \in Files /\ p \in Pieces(f) /\ p \in Nat
      /\ task[f].status \in InPool /\ task[f] \in TaskState
      /\ task \in [Files -> TaskState] /\ worker \in [Workers -> WorkerState]
      /\ worker[w] \in WorkerState
      /\ task[f].done \subseteq Pieces(f) /\ task[f].flight \subseteq Pieces(f)
  BY <1>1, BusyAt
<1>3. task[f].done \in SUBSET Nat /\ task[f].flight \in SUBSET Nat /\ task[f].status \in Statuses
  BY <1>2 DEF TaskState
<1>4. CASE CompletePiece(w)
  <2> DEFINE done == task[f].done \cup {p}
             fl == task[f].flight \ {p}
             pc == IF done = Pieces(f) THEN "mark" ELSE "next"
             x == [worker[w] EXCEPT !.pc = pc]
             t1 == [task[f] EXCEPT !.done = done, !.flight = fl]
  <2>1. worker[w].pc = "complete"
    BY <1>4 DEF CompletePiece, At
  <2>2. task' = [task EXCEPT ![f] = t1] /\ worker' = [worker EXCEPT ![w] = x]
    BY <1>2, <1>4 DEF CompletePiece
  <2>3. Good(f, task[f], disk[f].data[p])
    BY <2>1, WorkerAt DEF WorkerOK
  <2>4. /\ done \in SUBSET Nat /\ done \subseteq Pieces(f) /\ task[f].done \subseteq done
        /\ fl \in SUBSET Nat /\ fl \subseteq Pieces(f)
        /\ pc \in {"mark", "next"} /\ (pc = "mark" <=> done = Pieces(f))
        /\ \A i \in done : i \in task[f].done \/ i = p
        /\ fl = task[f].flight \ {p}
    BY <1>2, <1>3
  <2> HIDE DEF done, fl, pc
  <2>5. /\ t1 \in TaskState /\ t1.status = task[f].status /\ t1.version = task[f].version
        /\ t1.done = done /\ t1.flight = fl
    BY <1>2, <2>4 DEF TaskState
  <2>6. pc \in WorkerPhases /\ pc \in Busy \cup {"next"}
    BY <2>4 DEF WorkerPhases, Busy
  <2>7. x \in WorkerState /\ x.pc = pc /\ x.file = f /\ x.piece = p
    BY <1>2, <2>6, WorkerEdits
  <2> HIDE DEF x, t1
  <2>8. /\ OthersStay(w) /\ worker'[w] = x
        /\ DOMAIN worker' = Workers /\ worker' = [v \in Workers |-> worker'[v]]
    BY <2>2, WorkerMoves
  <2>9. task'[f] = t1 /\ \A g \in Files \ {f} : task'[g] = task[g]
    BY <1>2, <2>2
  <2>10. FlightMoves(w)
    BY <2>4, <2>5, <2>9 DEF FlightMoves
  <2>11. MarkMoves(w)
    BY <2>1, <2>4, <2>5, <2>7, <2>8, <2>9 DEF MarkMoves
  <2>12. WorkerOK(worker[w])'
    <3>1. worker'[w].pc \in {"mark", "next"} /\ worker'[w].file = f /\ worker'[w].piece = p
      BY <2>4, <2>7, <2>8
    <3>2. worker'[w].pc = "mark" => task'[f].done = Pieces(f)
      BY <2>4, <2>5, <2>7, <2>8, <2>9
    <3>3. task'[f].status \in InPool /\ phase' = "running"
      BY <1>1, <1>2, <2>5, <2>9
    <3> QED BY <1>2, <3>1, <3>2, <3>3 DEF WorkerOK, Busy
  <2>13. /\ t1.flight \subseteq Pieces(f) /\ t1.done \subseteq Pieces(f)
         /\ task[f].done \subseteq t1.done
         /\ \A i \in t1.done : i \in task[f].done \/ Good(f, task[f], disk[f].data[i])
    BY <2>3, <2>4, <2>5
  <2>14. t1.status \in InPool /\ x.pc \in Busy \cup {"next", "died"}
    BY <1>2, <2>5, <2>6, <2>7
  <2> QED BY <1>1, <1>2, <2>2, <2>5, <2>7, <2>8, <2>10, <2>11, <2>12, <2>13, <2>14, PoolStepKeeps
<1>5. CASE MarkFileComplete(w)
  <2> DEFINE x == [worker[w] EXCEPT !.pc = "next"]
             t1 == [task[f] EXCEPT !.status = "Complete"]
  <2>1. worker[w].pc = "mark"
    BY <1>5 DEF MarkFileComplete, At
  <2>2. task' = [task EXCEPT ![f] = t1] /\ worker' = Woken([worker EXCEPT ![w] = x])
    BY <1>2, <1>5 DEF MarkFileComplete
  <2>3. /\ t1 \in TaskState /\ t1.status = "Complete" /\ t1.version = task[f].version
        /\ t1.done = task[f].done /\ t1.flight = task[f].flight
    BY <1>2, <1>3 DEF TaskState, Statuses, InPool
  <2>4. x \in WorkerState /\ x.pc = "next" /\ x.file = f /\ x.piece = p
    BY <1>2, WorkerEdits DEF WorkerPhases
  <2> HIDE DEF x, t1
  <2>5. /\ OthersStay(w) /\ worker'[w] = x
        /\ DOMAIN worker' = Workers /\ worker' = [v \in Workers |-> worker'[v]]
    BY <2>2, <2>4, WorkerMoves
  <2>6. task'[f] = t1 /\ \A g \in Files \ {f} : task'[g] = task[g]
    BY <1>2, <2>2
  <2>7. FlightMoves(w)
    BY <2>1, <2>3, <2>6 DEF FlightMoves, Owning
  <2>8. MarkMoves(w)
    BY <2>3, <2>6 DEF MarkMoves
  <2>9. WorkerOK(worker[w])'
    BY <2>4, <2>5 DEF WorkerOK, Busy
  <2>10. /\ t1.flight \subseteq Pieces(f) /\ t1.done \subseteq Pieces(f)
         /\ task[f].done \subseteq t1.done
         /\ \A i \in t1.done : i \in task[f].done \/ Good(f, task[f], disk[f].data[i])
    BY <1>2, <2>3
  <2>11. t1.status \in InPool /\ x.pc \in Busy \cup {"next", "died"}
    BY <2>3, <2>4 DEF InPool
  <2> QED BY <1>1, <1>2, <2>2, <2>3, <2>4, <2>5, <2>7, <2>8, <2>9, <2>10, <2>11, PoolStepKeeps
<1> QED BY <1>4, <1>5
-----------------------------------------------------------------------------
(***************************************************************************)
(* The theorems.                                                           *)
(***************************************************************************)
\* Nothing is downloaded yet.
LEMMA DownloaderStarts == DownloaderInit => DownloaderInv
<1> SUFFICES ASSUME DownloaderInit PROVE DownloaderInv
  OBVIOUS
<1>1. Hole = 0 /\ Hole \in Cells /\ 1 \in Versions /\ NoControl \in CtlState
      /\ NoControl.saved = FALSE /\ NoControl.done = {} /\ NoControl.version = 0
  BY VersionNumbers DEF NoControl, CtlState, Cells
<1>2. ASSUME NEW f \in Files
      PROVE  /\ FileOK(f, server[f], disk[f], ctl[f], task[f]) /\ disk[f] \in DiskState
  <2> DEFINE empty == [i \in Pieces(f) |-> Hole]
  <2>1. empty \in [Pieces(f) -> Cells] /\ empty \in SomeData
    BY <1>1 DEF SomeData
  <2>2. disk[f] = [exists |-> FALSE, data |-> empty]
    BY DEF DownloaderInit
  <2> HIDE DEF empty
  <2>3. disk[f] \in DiskState /\ disk[f].data \in [Pieces(f) -> Cells]
    BY <2>1, <2>2 DEF DiskState
  <2>4. server[f] = 1 /\ ctl[f] = NoControl /\ task[f] = NoTask
    BY DEF DownloaderInit
  <2>5. FileTypes(f, server[f], disk[f], ctl[f], task[f])
    BY <1>1, <2>3, <2>4, NoTaskType DEF FileTypes
  <2>6. VersionsOrdered(server[f], ctl[f], task[f])
    BY <1>1, <2>4, NoTaskType DEF VersionsOrdered
  <2>7. PoolHasRanges(f, ctl[f], task[f]) /\ ClaimsHold(f, server[f], disk[f], ctl[f], task[f])
        /\ DoneOnDisk(f, disk[f], task[f])
    BY <1>1, <2>4, NoTaskType DEF PoolHasRanges, ClaimsHold, DoneOnDisk, Pooled, InPool, OneConnection
  <2> QED BY <2>3, <2>5, <2>6, <2>7 DEF FileOK
<1>3. FilesOK
  <2>1. server \in [Files -> Versions] /\ ctl \in [Files -> CtlState] /\ task \in [Files -> TaskState]
    BY <1>1, NoTaskType DEF DownloaderInit
  <2>2. disk \in [Files -> DiskState]
    BY <1>2 DEF DownloaderInit
  <2> QED BY <1>2, <2>1, <2>2 DEF FilesOK
<1>4. \A w \in Workers : worker[w] = FreshWorker
  BY DEF DownloaderInit
<1>5. WorkersOK
  <2>1. ASSUME NEW w \in Workers PROVE WorkerOK(worker[w])
    BY <1>4, FreshWorkerType DEF WorkerOK, Busy
  <2>2. worker \in [Workers -> WorkerState]
    BY FreshWorkerType DEF DownloaderInit
  <2> QED BY <2>1, <2>2 DEF WorkersOK, DownloaderInit
<1>6. FlightOwned /\ WholeIsMarked /\ SomebodyLooks
  BY NoTaskType DEF DownloaderInit, FlightOwned, WholeIsMarked, SomebodyLooks
<1> QED BY <1>3, <1>5, <1>6 DEF DownloaderInv

\* Every step of the command, its workers, its user and its server.
LEMMA DownloaderSteps == DownloaderInv /\ [DownloaderNext]_downloadVars => DownloaderInv'
<1>1. ASSUME DownloaderInv, DownloaderNext PROVE DownloaderInv'
  <2>1. CASE StartCommand \/ Kill
    BY <1>1, <2>1, ResetKeeps
  <2>2. CASE Spawn \/ Quit \/ Report
    BY <1>1, <2>2, SpawnQuitReportKeep
  <2>3. CASE Finish
    BY <1>1, <2>3, FinishKeeps
  <2>4. ASSUME NEW f \in Files,
               \/ Probe(f) \/ ProbeFailed(f) \/ Open(f) \/ OpenRefused(f) \/ Checkpoint(f) \/ Replace(f)
               \/ OpenSingle(f) \/ SingleCreated(f) \/ SingleFetched(f) \/ SingleLost(f)
        PROVE  DownloaderInv'
    BY <1>1, <2>4, OutsideStepsKeep, OpenKeeps, CheckpointReplaceKeep
  <2>5. ASSUME NEW w \in Workers, WorkerStep(w) PROVE DownloaderInv'
    <3>1. ASSUME NEW f \in Files, NextWork(w, f) PROVE DownloaderInv'
      BY <1>1, <3>1, NextWorkKeeps
    <3>2. CASE NoWork(w) \/ LastLook(w) \/ Park(w) \/ Leave(w)
      BY <1>1, <3>2, WaitingStepsKeep
    <3>3. CASE Fetched(w) \/ WriteFailed(w)
      BY <1>1, <3>3, FetchedWriteFailedKeep
    <3>4. CASE FetchFailed(w) \/ FetchCancelled(w)
      BY <1>1, <3>4, FetchEndsKeep
    <3>5. CASE Write(w)
      BY <1>1, <3>5, WriteKeeps
    <3>6. CASE CompletePiece(w) \/ MarkFileComplete(w)
      BY <1>1, <3>6, CompleteMarkKeep
    <3> QED BY <2>5, <3>1, <3>2, <3>3, <3>4, <3>5, <3>6 DEF WorkerStep
  <2> QED BY <1>1, <2>1, <2>2, <2>3, <2>4, <2>5, Zenon DEF DownloaderNext
<1>2. ASSUME DownloaderInv, UNCHANGED downloadVars PROVE DownloaderInv'
  <2>1. /\ server' = server /\ disk' = disk /\ ctl' = ctl /\ phase' = phase /\ task' = task
        /\ worker' = worker /\ cancelled' = cancelled
    BY <1>2 DEF downloadVars
  <2>2. FilesOK'
    BY <1>2, <2>1 DEF DownloaderInv, FilesOK
  <2>3. WorkersOK'
    <3>1. ASSUME NEW w \in Workers PROVE WorkerOK(worker[w])'
      BY <1>2, <2>1 DEF DownloaderInv, WorkersOK, WorkerOK
    <3> QED BY <1>2, <2>1, <3>1 DEF DownloaderInv, WorkersOK
  <2>4. FlightOwned' /\ WholeIsMarked' /\ SomebodyLooks'
    BY <1>2, <2>1 DEF DownloaderInv, FlightOwned, WholeIsMarked, SomebodyLooks
  <2> QED BY <2>2, <2>3, <2>4 DEF DownloaderInv
<1> QED BY <1>1, <1>2

\* DownloaderInv holds of every reachable state.
LEMMA DownloaderInvariant == DownloaderSpec => []DownloaderInv
BY DownloaderStarts, DownloaderSteps, PTL DEF DownloaderSpec

\* Files, control files, tasks and workers keep their types.
THEOREM DownloaderTypes == DownloaderSpec => []DownloaderTypeOK
<1>1. DownloaderInv => DownloaderTypeOK
  <2> SUFFICES ASSUME DownloaderInv PROVE DownloaderTypeOK
    OBVIOUS
  <2>1. ASSUME NEW f \in Files
        PROVE  /\ disk[f].exists \in BOOLEAN /\ disk[f].data \in [Pieces(f) -> Cells]
               /\ ctl[f].saved \in BOOLEAN /\ ctl[f].done \subseteq Pieces(f)
               /\ ctl[f].version \in Cells /\ task[f].status \in Statuses
               /\ task[f].version \in Cells /\ task[f].done \subseteq Pieces(f)
               /\ task[f].flight \subseteq Pieces(f)
    BY FileAt DEF FileOK, FileTypes, DiskState, CtlState, TaskState
  <2>2. ASSUME NEW w \in Workers
        PROVE  /\ worker[w].pc \in WorkerPhases /\ worker[w].file \in Files \cup {0}
               /\ worker[w].retries \in Retries /\ worker[w].data \in Cells
    BY WorkerAt DEF WorkerState
  <2>3. /\ server \in [Files -> Versions] /\ phase \in {"off", "probe", "running", "joining"}
        /\ cancelled \in BOOLEAN
    BY DEF DownloaderInv, FilesOK, WorkersOK
  <2> QED BY <2>1, <2>2, <2>3 DEF DownloaderTypeOK, Cells, Retries, Hole
<1> QED BY <1>1, DownloaderInvariant, PTL

\* Whatever a control file says of the server's current version is on disk in
\* that version, after any kills, checkpoints, end games and replacements.
THEOREM DownloaderClaimsOnDisk == DownloaderSpec => []ClaimsOnDisk
<1>1. DownloaderInv => ClaimsOnDisk
  <2> SUFFICES ASSUME DownloaderInv, NEW f \in Validated, ctl[f].saved,
                      ctl[f].version = server[f], NEW i \in ctl[f].done
               PROVE  disk[f].data[i] = ctl[f].version
    BY DEF ClaimsOnDisk
  <2>1. f \in Files
    BY DownloaderAssumption
  <2>2. ClaimsHold(f, server[f], disk[f], ctl[f], task[f])
    BY <2>1, FileAt DEF FileOK
  <2> QED BY <2>2 DEF ClaimsHold
<1> QED BY <1>1, DownloaderInvariant, PTL

\* A file reported as downloaded is of one version, the one that was probed.
THEOREM DownloaderNoMixedVersions == DownloaderSpec => []NoMixedVersions
<1>1. DownloaderInv => NoMixedVersions
  <2> SUFFICES ASSUME DownloaderInv, NEW f \in Validated, task[f].status \in Pooled,
                      Remaining(f) = 0, NEW i \in Pieces(f)
               PROVE  disk[f].data[i] = task[f].version
    BY DEF NoMixedVersions, Pooled
  <2>1. f \in Files
    BY DownloaderAssumption
  <2>2. i \in task[f].done
    BY <2>1, RemainingCounts
  <2>3. DoneOnDisk(f, disk[f], task[f])
    BY <2>1, FileAt DEF FileOK
  <2> QED BY <2>2, <2>3 DEF DoneOnDisk, Good
<1> QED BY <1>1, DownloaderInvariant, PTL

\* No piece stays in flight that no worker is at, but for one ended by a write error.
THEOREM DownloaderFlightOwned == DownloaderSpec => []FlightOwned
<1>1. DownloaderInv => FlightOwned
  BY DEF DownloaderInv
<1> QED BY <1>1, DownloaderInvariant, PTL

\* While files are unfinished and no worker died, not every worker waits,
\* although notify_waiters reaches only those that wait already.
THEOREM DownloaderWaitersHaveWorker == DownloaderSpec => []WaitersHaveWorker
<1>1. DownloaderInv => WaitersHaveWorker
  <2> SUFFICES ASSUME DownloaderInv, phase = "running", ~cancelled,
                      NEW f \in PoolFiles, task[f].status = "Active",
                      \A w \in Workers : worker[w].pc # "died"
               PROVE  \E w \in Workers : worker[w].pc \notin {"parked", "exited"}
    BY DEF WaitersHaveWorker
  <2>1. PICK w \in Workers : worker[w].pc \in Busy \cup {"next"}
    BY DEF DownloaderInv, SomebodyLooks, PoolFiles
  <2> QED BY <2>1 DEF Busy
<1> QED BY <1>1, DownloaderInvariant, PTL

\* A control file is removed only beside a file without a hole: in Open, when it
\* vouches for every piece, and in Finish, when the bitfield does.
THEOREM DownloaderControlKept == DownloaderSpec => ControlKept
<1>1. DownloaderInv /\ [DownloaderNext]_downloadVars =>
        [\A f \in Files : ctl[f].saved /\ ~ctl'[f].saved =>
            \A i \in Pieces(f) : disk[f].data[i] # Hole]_downloadVars
  <2> SUFFICES ASSUME DownloaderInv, DownloaderNext, NEW f \in Files,
                      ctl[f].saved, ~ctl'[f].saved, NEW i \in Pieces(f)
               PROVE  disk[f].data[i] # Hole
    OBVIOUS
  <2>1. /\ FileOK(f, server[f], disk[f], ctl[f], task[f]) /\ ctl \in [Files -> CtlState]
    BY FileAt
  <2>2. ctl'[f] # ctl[f]
    OBVIOUS
  <2>3. \/ Finish \/ \E g \in Files : Open(g) \/ Checkpoint(g)
    BY <2>2 DEF DownloaderNext, StartCommand, Spawn, Quit, Report, Kill, Probe, ProbeFailed,
         OpenRefused, Replace, OpenSingle, SingleCreated, SingleFetched, SingleLost,
         WorkerStep, NextWork, NoWork, LastLook, Park, Leave, Fetched, FetchFailed,
         FetchCancelled, Write, WriteFailed, CompletePiece, MarkFileComplete
  <2>4. CASE Finish
    <3>1. ctl'[f] = Kept(f)
      BY <2>4 DEF Finish
    <3>2. task[f].status \in InPool /\ Remaining(f) = 0
      BY <2>2, <3>1 DEF Kept
    <3>3. i \in task[f].done /\ task[f].status \in Pooled
      BY <3>2, RemainingCounts DEF Pooled
    <3> QED BY <2>1, <3>3, VersionNumbers DEF FileOK, DoneOnDisk, Good
  <2>5. ASSUME NEW g \in Files, Open(g) PROVE disk[f].data[i] # Hole
    <3>1. g = f /\ Resumed(f) = Pieces(f) /\ task[f].status = "probed"
      BY <2>1, <2>2, <2>5 DEF Open
    <3>2. /\ f \in Validated /\ ctl[f].version = task[f].version /\ i \in ctl[f].done
      BY <3>1 DEF Resumed
    <3>3. task[f].version # Hole
      BY <2>1, <3>1 DEF FileOK, VersionsOrdered
    <3> QED BY <2>1, <3>2, <3>3 DEF FileOK, ClaimsHold
  <2>6. ASSUME NEW g \in Files, Checkpoint(g) PROVE FALSE
    <3>1. ctl' = [ctl EXCEPT ![g] = Saved(g)]
      BY <2>6 DEF Checkpoint
    <3>2. Saved(g).saved = TRUE
      BY DEF Saved
    <3> QED BY <2>1, <2>2, <3>1, <3>2
  <2> QED BY <2>3, <2>4, <2>5, <2>6
<1> QED BY <1>1, DownloaderInvariant, PTL DEF DownloaderSpec, ControlKept
=============================================================================
