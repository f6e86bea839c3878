---------------------------- MODULE RateLimiter ----------------------------
(***************************************************************************)
(* The request rate limiter of throttle.rs, shared by every request of a   *)
(* client, and the loop of dispatch_send.rs that waits for a token.  There *)
(* is no lock: refill reads the clock, reads last_refill_ns, moves it by   *)
(* compare-and-swap and only the winner adds the tokens, each an atomic    *)
(* step of its own between which other requests run.                       *)
(***************************************************************************)
EXTENDS Naturals, FiniteSets

CONSTANTS
    Callers,         \* requests sharing the limiter
    MaxTokens,       \* max_tokens
    RefillInterval,  \* refill_interval, in ticks of the clock
    MaxClock         \* bound: ticks of the clock

ASSUME RateLimiterAssumption ==
    /\ IsFiniteSet(Callers)
    /\ MaxTokens \in Nat /\ RefillInterval \in Nat \ {0} /\ MaxClock \in Nat

VARIABLES
    clock,           \* monotonic_nanos
    bucket,          \* tokens
    last_refill_ns,
    caller,          \* caller[r]: where request r is, and its locals
    granted          \* tokens handed to requests so far

rateVars == <<clock, bucket, last_refill_ns, caller, granted>>

\* at: "out" (nothing asked yet); the steps of refill "read_last", "swap", "add";
\* then "take" (try_acquire) or "look" (wait_duration); "asleep"; "through".
\* for: which of the two refill is called by.
Outside ==
    [at |-> "out", for |-> "take", now |-> 0, last |-> 0, new_tokens |-> 0, wake |-> 0]

RateInit ==
    /\ clock = 0
    /\ bucket = MaxTokens
    /\ last_refill_ns = 0
    /\ caller = [r \in Callers |-> Outside]
    /\ granted = 0

Lesser(a, b) == IF a < b THEN a ELSE b
-----------------------------------------------------------------------------
Tick ==
    /\ clock < MaxClock
    /\ clock' = clock + 1
    /\ UNCHANGED <<bucket, last_refill_ns, caller, granted>>

\* refill begins: now_ns is read.
ReadClock(r, why) ==
    caller' = [caller EXCEPT ![r].at = "read_last", ![r].for = why, ![r].now = clock]

\* The loop calls try_acquire: at first, and again when its sleep is over.
TryAcquire(r) ==
    /\ \/ caller[r].at = "out"
       \/ caller[r].at = "asleep" /\ clock >= caller[r].wake
    /\ ReadClock(r, "take")
    /\ UNCHANGED <<clock, bucket, last_refill_ns, granted>>

\* last_refill_ns is loaded; elapsed_ns saturates, another request may be ahead.
ReadLast(r) ==
    LET c == caller[r]
        elapsed_ns == IF c.now > last_refill_ns THEN c.now - last_refill_ns ELSE 0
        new_tokens == elapsed_ns \div RefillInterval
    IN  /\ c.at = "read_last"
        /\ caller' = [caller EXCEPT
                        ![r].last = last_refill_ns,
                        ![r].new_tokens = new_tokens,
                        ![r].at = IF new_tokens > 0 THEN "swap" ELSE c.for]
        /\ UNCHANGED <<clock, bucket, last_refill_ns, granted>>

\* A plain store in place of the compare-and-swap.
StoreLast(r) ==
    LET c == caller[r]
    IN  /\ c.at = "swap"
        /\ last_refill_ns' = c.last + c.new_tokens * RefillInterval
        /\ caller' = [caller EXCEPT ![r].at = "add"]
        /\ UNCHANGED <<clock, bucket, granted>>

\* The compare-and-swap: of the requests that read the same value one wins.
SwapLast(r) ==
    LET c == caller[r]
    IN  /\ c.at = "swap"
        /\ \/ /\ last_refill_ns = c.last
              /\ last_refill_ns' = c.last + c.new_tokens * RefillInterval
              /\ caller' = [caller EXCEPT ![r].at = "add"]
           \/ /\ last_refill_ns # c.last
              /\ caller' = [caller EXCEPT ![r].at = c.for]
              /\ UNCHANGED last_refill_ns
        /\ UNCHANGED <<clock, bucket, granted>>

AddTokens(r) ==
    LET c == caller[r]
    IN  /\ c.at = "add"
        /\ bucket' = Lesser(bucket + c.new_tokens, MaxTokens)
        /\ caller' = [caller EXCEPT ![r].at = c.for]
        /\ UNCHANGED <<clock, last_refill_ns, granted>>

\* try_acquire's update: a token, or on to wait_duration, which refills first.
TakeToken(r) ==
    /\ caller[r].at = "take"
    /\ \/ /\ bucket > 0
          /\ bucket' = bucket - 1
          /\ granted' = granted + 1
          /\ caller' = [caller EXCEPT ![r] = [Outside EXCEPT !.at = "through"]]
       \/ /\ bucket = 0
          /\ ReadClock(r, "look")
          /\ UNCHANGED <<bucket, granted>>
    /\ UNCHANGED <<clock, last_refill_ns>>

\* wait_duration: no wait when a token is there, else one interval.
LookAndSleep(r) ==
    /\ caller[r].at = "look"
    /\ caller' = [caller EXCEPT
                    ![r] = [Outside EXCEPT
                              !.at = "asleep",
                              !.wake = clock + (IF bucket > 0 THEN 0 ELSE RefillInterval)]]
    /\ UNCHANGED <<clock, bucket, last_refill_ns, granted>>

\* The request went on its way; another one uses the limiter.
NextRequest(r) ==
    /\ caller[r].at = "through"
    /\ caller' = [caller EXCEPT ![r] = Outside]
    /\ UNCHANGED <<clock, bucket, last_refill_ns, granted>>

RateNext ==
    \/ Tick
    \/ \E r \in Callers :
        \/ TryAcquire(r) \/ ReadLast(r) \/ SwapLast(r) \/ AddTokens(r)
        \/ TakeToken(r) \/ LookAndSleep(r) \/ NextRequest(r)

RateSpec == RateInit /\ [][RateNext]_rateVars
-----------------------------------------------------------------------------
\* However the requests interleave, no more of them pass than the full bucket
\* and one for every interval since the limiter was made.
RateKept == granted <= MaxTokens + clock \div RefillInterval
=============================================================================
