----------------------------- MODULE Bandwidth -----------------------------
(***************************************************************************)
(* Response bodies sharing one BandwidthLimiter: bandwidth/mod.rs and the  *)
(* poll_frame of bandwidth/body.rs.  A frame is let through when the       *)
(* bucket holds as many bytes as it has, else it is kept and the body      *)
(* sleeps for the time the missing bytes take.  A body is polled again     *)
(* when a waker it left behind fires, or because whoever reads it has      *)
(* something else to do.  refill is one step here (its compare-and-swap is *)
(* that of RateLimiter); wait_duration, try_consume, the making of a sleep *)
(* and its first poll are separate: other bodies run and time passes in    *)
(* between.                                                                *)
(***************************************************************************)
EXTENDS Naturals, Sequences, FiniteSets

CONSTANTS
    Bodies,           \* response bodies being read
    FramesOf,         \* FramesOf[b]: the sizes of the data frames of body b
    BytesPerSec,      \* bytes_per_sec, also the capacity of the bucket
    TicksPerSec       \* the clock's resolution, 10^9 in the code

ASSUME BandwidthAssumption ==
    /\ IsFiniteSet(Bodies)
    /\ FramesOf \in [Bodies -> Seq(Nat)]
    /\ BytesPerSec \in Nat \ {0} /\ TicksPerSec \in Nat \ {0}

VARIABLES
    bytes,     \* tokens
    lag,       \* now - last_refill_ns; a full second fills any bucket
    reader     \* reader[b]: the BandwidthBody and the task that reads it

bandwidthVars == <<bytes, lag, reader>>

\* A body may have no reader, and the limiter may have been made before the first
\* one.  frames: what the inner body has left; pending: the frame kept, 0 for none;
\* sleep: "set" made and not polled, "armed" with a waker, "over", or "missed", over
\* at its first poll; timer: its ticks; woken: whether the task will poll again.
BandwidthInit ==
    /\ bytes = BytesPerSec
    /\ lag \in {0, TicksPerSec}
    /\ \E read \in SUBSET Bodies :
        reader = [b \in Bodies |->
                    [frames |-> IF b \in read THEN FramesOf[b] ELSE <<>>, pending |-> 0,
                     sleep |-> "none", timer |-> 0, at |-> "rest", woken |-> b \in read]]

Capped(a, b) == IF a < b THEN a ELSE b
-----------------------------------------------------------------------------
new_bytes == (lag * BytesPerSec) \div TicksPerSec

\* refill, then the load: both as they are after the call.
Refilled == Capped(bytes + new_bytes, BytesPerSec)
LagLeft == lag - (new_bytes * TicksPerSec) \div BytesPerSec

wait_duration(n) ==
    IF Refilled >= n THEN 0 ELSE ((n - Refilled) * TicksPerSec) \div BytesPerSec

CallRefill == bytes' = Refilled /\ lag' = LagLeft

\* The data frame a poll is about: the one kept, or the next of the inner body.
Frame(b) == IF reader[b].pending > 0 THEN reader[b].pending ELSE Head(reader[b].frames)

\* What the inner body has left once that frame is taken.
FramesLeft(b) == IF reader[b].pending > 0 THEN reader[b].frames ELSE Tail(reader[b].frames)

\* The frame is kept and a sleep is made, whose time runs from then on.
SleepFor(b, wait) ==
    reader' = [reader EXCEPT ![b] =
        [reader[b] EXCEPT !.pending = Frame(b), !.frames = FramesLeft(b),
                          !.sleep = "set", !.timer = wait, !.at = "sleep"]]

\* poll_frame answering Pending without the poll of the sleep it has made.
PollSleepSkipped(b) ==
    /\ reader[b].at = "sleep"
    /\ reader' = [reader EXCEPT ![b] =
        [reader[b] EXCEPT !.sleep = "over", !.at = "rest", !.woken = FALSE]]
    /\ UNCHANGED <<bytes, lag>>

\* The sleep is polled once to leave a waker, the answer is not looked at, and
\* poll_frame answers Pending.  A sleep whose time has come may be over at that
\* poll: async_io's Timer (smol_rt.rs:31, compio_rt.rs:28) then leaves no waker and
\* is Pending ever after; tokio's rounds up to its next tick and is not over yet.
PollSleep(b) ==
    /\ reader[b].at = "sleep"
    /\ \E left \in {"armed"} \cup (IF reader[b].timer = 0 THEN {"missed"} ELSE {}) :
        reader' = [reader EXCEPT ![b] =
            [reader[b] EXCEPT !.sleep = left, !.at = "rest", !.woken = FALSE]]
    /\ UNCHANGED <<bytes, lag>>

\* The task that reads the body is polled for a reason of its own.
PolledOtherwise(b) ==
    /\ reader[b].sleep \in {"armed", "missed"}
    /\ ~reader[b].woken
    /\ reader' = [reader EXCEPT ![b] = [reader[b] EXCEPT !.woken = TRUE]]
    /\ UNCHANGED <<bytes, lag>>

\* poll_frame up to its first wait_duration: a sleep that answers Pending, or the
\* end of the body, ends the poll.
PollStart(b) ==
    /\ reader[b].woken
    /\ reader[b].at = "rest"
    /\ UNCHANGED <<bytes, lag>>
    /\ \/ /\ reader[b].sleep \in {"armed", "missed"}
          /\ reader' = [reader EXCEPT ![b].woken = FALSE]
       \/ /\ reader[b].sleep \in {"none", "over"}
          /\ reader[b].pending > 0 \/ reader[b].frames # <<>>
          /\ reader' = [reader EXCEPT ![b].sleep = "none", ![b].at = "check"]
       \/ /\ reader[b].sleep \in {"none", "over"}
          /\ reader[b].pending = 0 /\ reader[b].frames = <<>>
          /\ reader' = [reader EXCEPT ![b].sleep = "none", ![b].woken = FALSE]

\* The first wait_duration.  A new frame that must wait asks a second time.
Check(b) ==
    LET wait == wait_duration(Frame(b))
    IN  /\ reader[b].at = "check"
        /\ CallRefill
        /\ \/ /\ wait = 0
              /\ reader' = [reader EXCEPT ![b].at = "consume"]
           \/ /\ wait > 0
              /\ reader[b].pending = 0
              /\ reader' = [reader EXCEPT ![b].at = "recheck"]
           \/ /\ wait > 0
              /\ reader[b].pending > 0
              /\ SleepFor(b, wait)

Recheck(b) ==
    /\ reader[b].at = "recheck"
    /\ CallRefill
    /\ SleepFor(b, wait_duration(Frame(b)))

\* try_consume takes what there is; the frame goes out whatever it granted, and
\* the reader polls for the next one.
try_consume(b) ==
    /\ reader[b].at = "consume"
    /\ bytes' = Refilled - Capped(Refilled, Frame(b))
    /\ lag' = LagLeft
    /\ reader' = [reader EXCEPT ![b] =
            [reader[b] EXCEPT !.frames = FramesLeft(b), !.pending = 0, !.at = "rest"]]

\* A tick in the life of a body's sleep; one that is over wakes its task.
Aged(r) ==
    IF r.sleep = "armed" /\ r.timer <= 1
    THEN [r EXCEPT !.timer = 0, !.sleep = "over", !.woken = TRUE]
    ELSE IF r.sleep \in {"set", "armed"} /\ r.timer > 0
    THEN [r EXCEPT !.timer = @ - 1]
    ELSE r

TimePasses ==
    /\ bytes' = bytes
    /\ lag' = Capped(lag + 1, TicksPerSec)
    /\ reader' = [b \in Bodies |-> Aged(reader[b])]

\* What the task that reads a body does when it is polled.
PollFrame(b) == PollStart(b) \/ Check(b) \/ Recheck(b) \/ try_consume(b) \/ PollSleep(b)

BandwidthNext ==
    \/ TimePasses
    \/ \E b \in Bodies : PollFrame(b) \/ PolledOtherwise(b)

\* Time goes on and the executor polls what is woken.
BandwidthFairness ==
    /\ WF_bandwidthVars(TimePasses)
    /\ \A b \in Bodies : WF_bandwidthVars(PollFrame(b))

BandwidthSpec == BandwidthInit /\ [][BandwidthNext]_bandwidthVars /\ BandwidthFairness
-----------------------------------------------------------------------------
\* Every frame of every body is handed to its reader in the end, whatever the
\* other bodies take from the bucket meanwhile (bandwidth/body.rs, poll_frame),
\* unless its sleep was over at its first poll: that answer is thrown away, and
\* the body is then lost for good.
FramesDelivered ==
    \A b \in Bodies :
        <>(reader[b].sleep = "missed" \/ (reader[b].pending = 0 /\ reader[b].frames = <<>>))
=============================================================================
