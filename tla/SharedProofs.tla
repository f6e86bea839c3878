---------------------------- MODULE SharedProofs ----------------------------
(***************************************************************************)
(* Proofs about what the requests of a client share outside the pool: the  *)
(* Alt-Svc cache (FailureRemembered) and the rate limiter (RateKept), for  *)
(* any number of requests, any bucket and any refill interval; and about   *)
(* the observation of a request (FinishTold), for any number of decoding   *)
(* errors.                                                                 *)
(***************************************************************************)
EXTENDS AltSvc, RateLimiter, Observation, FiniteSetTheorems, TLAPS

-----------------------------------------------------------------------------
(***************************************************************************)
(* The Alt-Svc cache.  FailureRemembered speaks of a request that is about *)
(* to use HTTP/3; it is inductive with what the two maps promise while     *)
(* an operation is between their locks.                                    *)
(***************************************************************************)
Ages == {"none", "new", "old"}

Places == {"idle", "entries", "h3", "tcp", "retain", "remove"}

Lookups == [at : Places, barred : BOOLEAN, overlapped : BOOLEAN, using : Ages]

AltSvcTypeOK ==
    /\ entry \in Ages
    /\ suppressed \in {"no", "until", "elapsed"}
    /\ failing \in BOOLEAN
    /\ sender \in [Senders -> Lookups]

\* The backoff in the map is the backoff that runs.
BackoffRecorded == failing <=> suppressed = "until"

\* A lookup that got past the first map began without a backoff.
LookupUnbarred == \A r \in Senders : sender[r].at \in {"entries", "h3"} => ~sender[r].barred

\* An entry older than a failure is in the map only until that failure's
\* suppress_h3 takes the second lock.
OldOnlyWhileSuppressing == entry = "old" => \E q \in Senders : sender[q].at = "retain"

\* Between its locks a lookup that can find such an entry is beside that suppression.
OldSeenBeside ==
    \A r \in Senders : entry = "old" /\ sender[r].at = "entries" => sender[r].overlapped

AltSvcInv ==
    /\ AltSvcTypeOK
    /\ BackoffRecorded
    /\ LookupUnbarred
    /\ OldOnlyWhileSuppressing
    /\ OldSeenBeside
    /\ FailureRemembered

\* In the initial state the cache is empty and no request is on its way.
LEMMA AltSvcInitInv == AltSvcInit => AltSvcInv
<1> SUFFICES ASSUME AltSvcInit PROVE AltSvcInv
  OBVIOUS
<1>1. AltSvcTypeOK
  BY DEF AltSvcInit, AltSvcTypeOK, Ages, Places, Lookups
<1>2. \A r \in Senders : sender[r].at = "idle"
  BY DEF AltSvcInit
<1>3. BackoffRecorded /\ OldOnlyWhileSuppressing /\ OldSeenBeside
  BY DEF AltSvcInit, BackoffRecorded, OldOnlyWhileSuppressing, OldSeenBeside
<1>4. LookupUnbarred /\ FailureRemembered
  BY <1>2 DEF LookupUnbarred, FailureRemembered
<1> QED
  BY <1>1, <1>3, <1>4 DEF AltSvcInv

\* Every operation of the cache, between any two of its locks, keeps AltSvcInv.
LEMMA AltSvcNextInv == AltSvcInv /\ [AltSvcNext]_altSvcVars => AltSvcInv'
<1> SUFFICES ASSUME AltSvcInv, [AltSvcNext]_altSvcVars
             PROVE  AltSvcInv'
  OBVIOUS
<1> USE DEF AltSvcInv, AltSvcTypeOK, Ages, Places, Lookups, BackoffRecorded,
            LookupUnbarred, OldOnlyWhileSuppressing, OldSeenBeside, FailureRemembered
<1>1. ASSUME NEW r \in Senders, LookupSuppressed(r)
      PROVE  AltSvcInv'
  BY <1>1 DEF LookupSuppressed
<1>2. ASSUME NEW r \in Senders, LookupEntries(r)
      PROVE  AltSvcInv'
  <2>1. /\ sender' \in [Senders -> Lookups]
        /\ sender'[r].at = (IF entry = "none" THEN "tcp" ELSE "h3")
        /\ sender'[r].using = entry
        /\ sender'[r].barred = sender[r].barred
        /\ sender'[r].overlapped = sender[r].overlapped
        /\ \A q \in Senders \ {r} : sender'[q] = sender[q]
    BY <1>2 DEF LookupEntries
  <2> QED
    BY <1>2, <2>1 DEF LookupEntries
<1>3. ASSUME NEW r \in Senders, suppress_h3(r)
      PROVE  AltSvcInv'
  <2>0. sender' \in [Senders -> Lookups]
    <3>1. \A q \in Senders : /\ [sender[q] EXCEPT !.at = "retain"] \in Lookups
                            /\ \A b \in BOOLEAN : [sender[q] EXCEPT !.overlapped = b] \in Lookups
      OBVIOUS
    <3>2. \A q \in Senders : (sender[q].overlapped \/ sender[q].at = "entries") \in BOOLEAN
      OBVIOUS
    <3> QED BY <1>3, <3>1, <3>2 DEF suppress_h3
  <2>1. /\ sender' \in [Senders -> Lookups]
        /\ \A q \in Senders :
            /\ sender'[q].at = (IF q = r THEN "retain" ELSE sender[q].at)
            /\ sender'[q].using = sender[q].using
            /\ sender'[q].barred = sender[q].barred
            /\ sender'[q].overlapped =
                    (IF q = r THEN sender[q].overlapped
                     ELSE sender[q].overlapped \/ sender[q].at = "entries")
    BY <1>3, <2>0 DEF suppress_h3
  <2>2. AltSvcTypeOK'
    BY <1>3, <2>1 DEF suppress_h3
  <2>3. (BackoffRecorded /\ LookupUnbarred /\ OldOnlyWhileSuppressing)'
    BY <1>3, <2>1 DEF suppress_h3
  <2>4. OldSeenBeside'
    <3> SUFFICES ASSUME NEW q \in Senders, sender'[q].at = "entries"
                 PROVE  sender'[q].overlapped
      OBVIOUS
    <3>1. q # r /\ sender[q].at = "entries"
      BY <2>1
    <3> QED
      BY <2>1, <3>1
  <2>5. FailureRemembered'
    BY <1>3, <2>1 DEF suppress_h3
  <2> QED
    BY <2>2, <2>3, <2>4, <2>5
<1>4. ASSUME NEW r \in Senders, SuppressRetain(r)
      PROVE  AltSvcInv'
  BY <1>4 DEF SuppressRetain, At
<1>5. ASSUME NEW r \in Senders, Respond(r)
      PROVE  AltSvcInv'
  BY <1>5 DEF Respond, At
<1>6. ASSUME NEW r \in Senders, RespondClear(r)
      PROVE  AltSvcInv'
  <2>1. /\ sender' \in [Senders -> Lookups] /\ sender'[r].at = "remove"
        /\ \A q \in Senders \ {r} : sender'[q] = sender[q]
        /\ entry' = entry /\ suppressed' = "no" /\ failing' = FALSE
        /\ sender[r].at \in {"h3", "tcp"}
    BY <1>6 DEF RespondClear, At
  <2>2. AltSvcTypeOK' /\ BackoffRecorded'
    BY <2>1
  <2>3. ASSUME NEW q \in Senders PROVE sender'[q] = sender[q] \/ sender'[q].at = "remove"
    BY <2>1
  <2>4. LookupUnbarred'
    BY <2>3
  <2>5. OldOnlyWhileSuppressing'
    <3> SUFFICES ASSUME entry = "old" PROVE \E q \in Senders : sender'[q].at = "retain"
      BY <2>1
    <3>1. PICK q \in Senders : sender[q].at = "retain"
      OBVIOUS
    <3>2. q # r
      BY <2>1, <3>1
    <3> QED BY <2>1, <3>1, <3>2
  <2>6. OldSeenBeside'
    BY <2>1, <2>3
  <2>7. FailureRemembered'
    BY <2>1, <2>3
  <2> QED BY <2>2, <2>4, <2>5, <2>6, <2>7 DEF AltSvcInv
<1>7. ASSUME NEW r \in Senders, ClearRemove(r)
      PROVE  AltSvcInv'
  <2>1. /\ sender' \in [Senders -> Lookups] /\ sender'[r].at = "idle"
        /\ \A q \in Senders \ {r} : sender'[q] = sender[q]
        /\ entry' = "none" /\ suppressed' = suppressed /\ failing' = failing
    BY <1>7 DEF ClearRemove, At
  <2> QED BY <2>1
<1>8. CASE BackoffElapses
  BY <1>8 DEF BackoffElapses
<1>9. CASE EntryExpires
  BY <1>9 DEF EntryExpires
<1>10. CASE UNCHANGED altSvcVars
  BY <1>10 DEF altSvcVars
<1> QED
  BY <1>1, <1>2, <1>3, <1>4, <1>5, <1>6, <1>7, <1>8, <1>9, <1>10 DEF AltSvcNext

\* A request uses HTTP/3 only when no backoff ran as its lookup began, and on an
\* old advertisement only when the suppression that makes it old ran beside it.
THEOREM AltSvcFailureRemembered == AltSvcSpec => []FailureRemembered
<1>1. AltSvcInv => FailureRemembered
  BY DEF AltSvcInv
<1> QED
  BY <1>1, AltSvcInitInv, AltSvcNextInv, PTL DEF AltSvcSpec

-----------------------------------------------------------------------------
(***************************************************************************)
(* The rate limiter.  Every token handed out, in the bucket or won by a    *)
(* compare-and-swap and not added yet is one of the full bucket or one of  *)
(* an interval last_refill_ns has been moved by.                           *)
(***************************************************************************)
Callings ==
    [at : {"out", "read_last", "swap", "add", "take", "look", "asleep", "through"},
     for : {"take", "look"}, now : Nat, last : Nat, new_tokens : Nat, wake : Nat]

RateTypeOK ==
    /\ clock \in Nat /\ bucket \in Nat /\ last_refill_ns \in Nat /\ granted \in Nat
    /\ caller \in [Callers -> Callings]

\* The clock a refill read is in the past, and so are the intervals it claims.
ClaimsElapsed ==
    /\ last_refill_ns <= clock
    /\ \A r \in Callers :
        /\ caller[r].now <= clock
        /\ caller[r].at = "swap" =>
            caller[r].last + caller[r].new_tokens * RefillInterval <= caller[r].now

\* Tokens a request has won and not added yet.
Pending ==
    {p \in Callers \X Nat : caller[p[1]].at = "add" /\ p[2] \in 1..caller[p[1]].new_tokens}

TokensAccounted ==
    /\ IsFiniteSet(Pending)
    /\ \E k \in Nat :
        /\ last_refill_ns = k * RefillInterval
        /\ granted + bucket + Cardinality(Pending) <= MaxTokens + k

RateInv == RateTypeOK /\ ClaimsElapsed /\ TokensAccounted

\* What one request has won is as many tokens as it counted.
LEMMA PendingOfOne ==
  ASSUME NEW r, NEW n \in Nat
  PROVE  IsFiniteSet({r} \X (1..n)) /\ Cardinality({r} \X (1..n)) = n
<1> DEFINE f == [i \in 1..n |-> <<r, i>>]
<1>1. f \in Bijection(1..n, {r} \X (1..n))
  <2>1. f \in [1..n -> {r} \X (1..n)]
    OBVIOUS
  <2>2. \A i, j \in 1..n : f[i] = f[j] => i = j
    OBVIOUS
  <2>3. \A p \in {r} \X (1..n) : \E i \in 1..n : f[i] = p
    OBVIOUS
  <2> QED
    BY <2>1, <2>2, <2>3 DEF Bijection, Injection, Surjection, IsInjective
<1>2. ExistsBijection(1..n, {r} \X (1..n))
  BY <1>1, Zenon DEF ExistsBijection
<1>3. IsFiniteSet(1..n) /\ Cardinality(1..n) = n
  BY FS_Interval
<1> QED
  BY <1>2, <1>3, FS_Bijection

\* A set that gains n elements outside it counts n more.
LEMMA GainedTokens ==
  ASSUME NEW S, NEW T, NEW n \in Nat, IsFiniteSet(S), IsFiniteSet(T),
         Cardinality(T) = n, S \cap T = {}
  PROVE  IsFiniteSet(S \cup T) /\ Cardinality(S \cup T) = Cardinality(S) + n
<1>1. Cardinality(S \cap T) = 0
  BY FS_EmptySet
<1>2. Cardinality(S) \in Nat
  BY FS_CardinalityType
<1>3. /\ IsFiniteSet(S \cup T)
      /\ Cardinality(S \cup T) = Cardinality(S) + Cardinality(T) - Cardinality(S \cap T)
  BY FS_Union
<1> QED
  BY <1>1, <1>2, <1>3

\* Whole intervals of an elapsed time fit into it, and no more do.
LEMMA IntervalsElapsed ==
  ASSUME NEW c \in Nat
  PROVE  /\ c \div RefillInterval \in Nat
         /\ (c \div RefillInterval) * RefillInterval <= c
         /\ \A k \in Nat : k * RefillInterval <= c => k <= c \div RefillInterval
<1>1. RefillInterval \in Nat /\ RefillInterval > 0
  BY RateLimiterAssumption
<1> DEFINE d == c \div RefillInterval
<1>2. d \in Nat /\ d * RefillInterval <= c /\ c < (d + 1) * RefillInterval
  BY <1>1
<1> HIDE DEF d
<1>3. ASSUME NEW k \in Nat, k * RefillInterval <= c, ~(k <= d) PROVE FALSE
  <2>1. k >= d + 1
    BY <1>2, <1>3
  <2>2. k * RefillInterval >= (d + 1) * RefillInterval
    BY <2>1, <1>1, <1>2
  <2> QED BY <2>2, <1>2, <1>3, <1>1
<1> QED BY <1>2, <1>3 DEF d

\* A step that moves one request, neither into nor out of the addition of the
\* tokens it won, leaves the pending tokens alone.
LEMMA PendingSame ==
  ASSUME RateTypeOK, RateTypeOK', NEW r \in Callers,
         \A q \in Callers \ {r} : caller'[q] = caller[q],
         caller[r].at # "add", caller'[r].at # "add"
  PROVE  Pending' = Pending
BY DEF Pending

\* Nothing is pending at first and the bucket is full.
LEMMA RateInitInv == RateInit => RateInv
<1> SUFFICES ASSUME RateInit PROVE RateInv
  OBVIOUS
<1>1. RateTypeOK /\ ClaimsElapsed
  BY RateLimiterAssumption DEF RateInit, RateTypeOK, ClaimsElapsed, Callings, Outside
<1>2. Pending = {}
  BY DEF RateInit, Pending, Outside
<1>3. IsFiniteSet(Pending) /\ Cardinality(Pending) = 0
  BY <1>2, FS_EmptySet
<1>4. last_refill_ns = 0 * RefillInterval /\ granted + bucket + 0 <= MaxTokens + 0
  BY RateLimiterAssumption DEF RateInit
<1> QED
  BY <1>1, <1>3, <1>4 DEF RateInv, TokensAccounted

\* Every atomic step of refill, try_acquire and wait_duration keeps RateInv.
LEMMA RateNextInv == RateInv /\ [RateNext]_rateVars => RateInv'
<1> SUFFICES ASSUME RateInv, [RateNext]_rateVars PROVE RateInv'
  OBVIOUS
<1> USE RateLimiterAssumption
<1>0. Cardinality(Pending) \in Nat
  BY FS_CardinalityType DEF RateInv, TokensAccounted
<1>1. CASE Tick
  <2>1. RateTypeOK' /\ ClaimsElapsed'
    BY <1>1 DEF Tick, RateInv, RateTypeOK, ClaimsElapsed, Callings
  <2>2. Pending' = Pending
    BY <1>1 DEF Tick, Pending
  <2> QED
    BY <1>1, <2>1, <2>2 DEF Tick, RateInv, TokensAccounted
<1>2. ASSUME NEW r \in Callers, TryAcquire(r) PROVE RateInv'
  <2>a. RateTypeOK'
    <3> DEFINE moved == [caller[r] EXCEPT !.at = "read_last", !.for = "take", !.now = clock]
    <3>1. caller \in [Callers -> Callings] /\ clock \in Nat
      BY DEF RateInv, RateTypeOK
    <3>2. moved \in Callings
      BY <3>1 DEF Callings
    <3>3. caller' = [caller EXCEPT ![r] = moved]
      BY <1>2 DEF TryAcquire, ReadClock
    <3> HIDE DEF moved
    <3>4. caller' \in [Callers -> Callings]
      BY <3>1, <3>2, <3>3
    <3> QED
      BY <1>2, <3>4 DEF TryAcquire, RateInv, RateTypeOK
  <2>b. /\ \A q \in Callers \ {r} : caller'[q] = caller[q]
        /\ caller'[r].at = "read_last" /\ caller'[r].now = clock
        /\ UNCHANGED <<clock, last_refill_ns>>
    BY <1>2 DEF TryAcquire, ReadClock, RateInv, RateTypeOK, Callings
  <2>1. RateTypeOK' /\ ClaimsElapsed'
    BY <2>a, <2>b DEF RateInv, RateTypeOK, ClaimsElapsed
  <2>2. Pending' = Pending
    BY <1>2, <2>1, PendingSame DEF TryAcquire, ReadClock, RateInv, RateTypeOK, Callings
  <2> QED
    BY <1>2, <2>1, <2>2 DEF TryAcquire, RateInv, TokensAccounted
<1>3. ASSUME NEW r \in Callers, ReadLast(r) PROVE RateInv'
  <2> DEFINE elapsed == IF caller[r].now > last_refill_ns
                        THEN caller[r].now - last_refill_ns ELSE 0
             n == elapsed \div RefillInterval
  <2>1. elapsed \in Nat
    BY DEF RateInv, RateTypeOK, Callings
  <2>2. n \in Nat /\ n * RefillInterval <= elapsed
    BY <2>1, IntervalsElapsed
  <2>3. /\ caller[r].at = "read_last"
        /\ caller' = [caller EXCEPT ![r].last = last_refill_ns, ![r].new_tokens = n,
                                    ![r].at = IF n > 0 THEN "swap" ELSE caller[r].for]
        /\ UNCHANGED <<clock, bucket, last_refill_ns, granted>>
    BY <1>3 DEF ReadLast
  <2> HIDE DEF n
  <2>4. RateTypeOK'
    BY <2>2, <2>3 DEF RateInv, RateTypeOK, Callings
  <2>5. /\ \A q \in Callers \ {r} : caller'[q] = caller[q]
        /\ caller'[r].at = (IF n > 0 THEN "swap" ELSE caller[r].for)
        /\ caller'[r].new_tokens = n /\ caller'[r].last = last_refill_ns
        /\ caller'[r].now = caller[r].now
    BY <2>3 DEF RateInv, RateTypeOK, Callings
  <2>6. n > 0 => last_refill_ns + n * RefillInterval <= caller[r].now
    <3>1. n > 0 => n * RefillInterval > 0
      BY <2>2
    <3> QED BY <3>1, <2>1, <2>2 DEF RateInv, RateTypeOK, Callings
  <2>7. caller[r].for \in {"take", "look"}
    BY DEF RateInv, RateTypeOK, Callings
  <2>8. ClaimsElapsed'
    <3>1. n \in Nat /\ last_refill_ns' = last_refill_ns /\ clock' = clock
      BY <2>2, <2>3
    <3>2. caller'[r].at = "swap" => n > 0
      BY <2>5, <2>7, <3>1
    <3>3. \A q \in Callers : caller'[q].now = caller[q].now
      BY <2>5
    <3> QED
      BY <2>5, <2>6, <3>1, <3>2, <3>3 DEF RateInv, ClaimsElapsed
  <2>9. Pending' = Pending
    <3>1. caller[r].at # "add" /\ caller'[r].at # "add"
      BY <2>3, <2>5, <2>7
    <3> QED
      BY <2>4, <2>5, <3>1, PendingSame DEF RateInv
  <2> QED
    BY <2>3, <2>4, <2>8, <2>9 DEF RateInv, TokensAccounted
<1>4. ASSUME NEW r \in Callers, SwapLast(r) PROVE RateInv'
  <2> DEFINE c == caller[r]
             n == c.new_tokens
  <2>1. /\ c.at = "swap" /\ c.for \in {"take", "look"} /\ n \in Nat /\ c.last \in Nat
        /\ c.now \in Nat /\ c.last + n * RefillInterval <= c.now /\ c.now <= clock
        /\ n * RefillInterval \in Nat
    BY <1>4 DEF SwapLast, RateInv, RateTypeOK, Callings, ClaimsElapsed
  <2>2. CASE last_refill_ns # c.last
    <3>1. /\ caller' = [caller EXCEPT ![r].at = caller[r].for]
          /\ UNCHANGED <<clock, bucket, last_refill_ns, granted>>
      BY <1>4, <2>2 DEF SwapLast
    <3>2. RateTypeOK' /\ ClaimsElapsed'
      BY <3>1, <2>1 DEF RateInv, RateTypeOK, Callings, ClaimsElapsed
    <3>3. Pending' = Pending
      BY <3>1, <3>2, <2>1, PendingSame DEF RateInv, RateTypeOK, Callings
    <3> QED
      BY <3>1, <3>2, <3>3 DEF RateInv, TokensAccounted
  <2>3. CASE last_refill_ns = c.last
    <3>1. /\ caller' = [caller EXCEPT ![r].at = "add"]
          /\ last_refill_ns' = last_refill_ns + n * RefillInterval
          /\ UNCHANGED <<clock, bucket, granted>>
      BY <1>4, <2>3 DEF SwapLast
    <3>2. RateTypeOK' /\ ClaimsElapsed'
      BY <3>1, <2>1, <2>3 DEF RateInv, RateTypeOK, Callings, ClaimsElapsed
    <3>3. Pending' = Pending \cup ({r} \X (1..n)) /\ Pending \cap ({r} \X (1..n)) = {}
      BY <3>1, <2>1 DEF Pending, RateInv, RateTypeOK, Callings
    <3>4. IsFiniteSet(Pending') /\ Cardinality(Pending') = Cardinality(Pending) + n
      <4>1. IsFiniteSet({r} \X (1..n)) /\ Cardinality({r} \X (1..n)) = n
        BY <2>1, PendingOfOne
      <4>2. IsFiniteSet(Pending)
        BY DEF RateInv, TokensAccounted
      <4> QED
        BY <3>3, <2>1, <4>1, <4>2, GainedTokens
    <3>5. PICK k \in Nat : /\ last_refill_ns = k * RefillInterval
                           /\ granted + bucket + Cardinality(Pending) <= MaxTokens + k
      BY DEF RateInv, TokensAccounted
    <3>6. k + n \in Nat /\ last_refill_ns' = (k + n) * RefillInterval
      BY <3>1, <3>5, <2>1
    <3>7. granted + bucket + Cardinality(Pending') <= MaxTokens + (k + n)
      BY <3>4, <3>5, <2>1, <1>0 DEF RateInv, RateTypeOK
    <3> QED
      BY <3>1, <3>2, <3>4, <3>6, <3>7 DEF RateInv, TokensAccounted
  <2> QED BY <2>2, <2>3
<1>5. ASSUME NEW r \in Callers, AddTokens(r) PROVE RateInv'
  <2> DEFINE n == caller[r].new_tokens
  <2>1. /\ caller[r].at = "add" /\ caller[r].for \in {"take", "look"} /\ n \in Nat
        /\ caller' = [caller EXCEPT ![r].at = caller[r].for]
        /\ bucket' = Lesser(bucket + n, MaxTokens)
        /\ UNCHANGED <<clock, last_refill_ns, granted>>
    BY <1>5 DEF AddTokens, RateInv, RateTypeOK, Callings
  <2>2. bucket' \in Nat /\ bucket' <= bucket + n
    BY <2>1 DEF Lesser, RateInv, RateTypeOK
  <2>3. RateTypeOK' /\ ClaimsElapsed'
    BY <2>1, <2>2 DEF RateInv, RateTypeOK, Callings, ClaimsElapsed
  <2>4. Pending = Pending' \cup ({r} \X (1..n)) /\ Pending' \cap ({r} \X (1..n)) = {}
    BY <2>1 DEF Pending, RateInv, RateTypeOK, Callings
  <2>5. Pending' \in SUBSET Pending
    BY <2>4
  <2>6. IsFiniteSet(Pending') /\ Cardinality(Pending') \in Nat
    BY <2>5, FS_Subset, FS_CardinalityType DEF RateInv, TokensAccounted
  <2>7. Cardinality(Pending) = Cardinality(Pending') + n
    <3>1. IsFiniteSet({r} \X (1..n)) /\ Cardinality({r} \X (1..n)) = n
      BY <2>1, PendingOfOne
    <3> QED
      BY <2>1, <2>4, <2>6, <3>1, GainedTokens
  <2>8. PICK k \in Nat : /\ last_refill_ns = k * RefillInterval
                         /\ granted + bucket + Cardinality(Pending) <= MaxTokens + k
    BY DEF RateInv, TokensAccounted
  <2>9. granted + bucket' + Cardinality(Pending') <= MaxTokens + k
    BY <2>8, <2>7, <2>6, <2>2, <2>1 DEF RateInv, RateTypeOK
  <2> QED
    BY <2>1, <2>3, <2>6, <2>8, <2>9 DEF RateInv, TokensAccounted
<1>6. ASSUME NEW r \in Callers, TakeToken(r) PROVE RateInv'
  <2>1. RateTypeOK' /\ ClaimsElapsed'
    BY <1>6 DEF TakeToken, ReadClock, Outside, RateInv, RateTypeOK, ClaimsElapsed, Callings
  <2>2. Pending' = Pending
    <3>1. /\ \A q \in Callers \ {r} : caller'[q] = caller[q]
          /\ caller[r].at # "add" /\ caller'[r].at # "add"
      BY <1>6 DEF TakeToken, ReadClock, Outside, RateInv, RateTypeOK, Callings
    <3> QED BY <2>1, <3>1, PendingSame DEF RateInv
  <2>3. granted' + bucket' = granted + bucket
    BY <1>6 DEF TakeToken, RateInv, RateTypeOK
  <2> QED
    BY <1>6, <2>1, <2>2, <2>3 DEF TakeToken, RateInv, TokensAccounted
<1>7. ASSUME NEW r \in Callers, LookAndSleep(r) PROVE RateInv'
  <2>a. RateTypeOK'
    <3> DEFINE wake == clock + (IF bucket > 0 THEN 0 ELSE RefillInterval)
    <3>1. wake \in Nat
      BY DEF RateInv, RateTypeOK
    <3>2. caller' = [caller EXCEPT ![r] = [Outside EXCEPT !.at = "asleep", !.wake = wake]]
      BY <1>7 DEF LookAndSleep
    <3> HIDE DEF wake
    <3>3. caller' \in [Callers -> Callings]
      BY <3>1, <3>2 DEF Outside, RateInv, RateTypeOK, Callings
    <3> QED
      BY <1>7, <3>3 DEF LookAndSleep, RateInv, RateTypeOK
  <2>b. /\ \A q \in Callers \ {r} : caller'[q] = caller[q]
        /\ caller'[r].at = "asleep" /\ caller'[r].now = 0
        /\ UNCHANGED <<clock, last_refill_ns>>
    BY <1>7 DEF LookAndSleep, Outside, RateInv, RateTypeOK
  <2>1. RateTypeOK' /\ ClaimsElapsed'
    BY <2>a, <2>b DEF RateInv, RateTypeOK, ClaimsElapsed
  <2>2. Pending' = Pending
    BY <1>7, <2>1, PendingSame DEF LookAndSleep, Outside, RateInv, RateTypeOK, Callings
  <2> QED
    BY <1>7, <2>1, <2>2 DEF LookAndSleep, RateInv, TokensAccounted
<1>8. ASSUME NEW r \in Callers, NextRequest(r) PROVE RateInv'
  <2>1. RateTypeOK' /\ ClaimsElapsed'
    BY <1>8 DEF NextRequest, Outside, RateInv, RateTypeOK, ClaimsElapsed, Callings
  <2>2. Pending' = Pending
    BY <1>8, <2>1, PendingSame DEF NextRequest, Outside, RateInv, RateTypeOK, Callings
  <2> QED
    BY <1>8, <2>1, <2>2 DEF NextRequest, RateInv, TokensAccounted
<1>9. CASE UNCHANGED rateVars
  <2>1. Pending' = Pending
    BY <1>9 DEF rateVars, Pending
  <2> QED
    BY <1>9, <2>1 DEF rateVars, RateInv, RateTypeOK, ClaimsElapsed, TokensAccounted
<1> QED
  BY <1>1, <1>2, <1>3, <1>4, <1>5, <1>6, <1>7, <1>8, <1>9 DEF RateNext

\* However the requests interleave between the loads, the compare-and-swap and
\* the additions of refill, no more of them pass than the full bucket and one
\* for every interval that has gone by.
THEOREM RateLimiterRateKept == RateSpec => []RateKept
<1>1. RateInv => RateKept
  <2> SUFFICES ASSUME RateInv PROVE RateKept
    OBVIOUS
  <2>1. PICK k \in Nat : /\ last_refill_ns = k * RefillInterval
                         /\ granted + bucket + Cardinality(Pending) <= MaxTokens + k
    BY DEF RateInv, TokensAccounted
  <2>2. Cardinality(Pending) \in Nat
    BY FS_CardinalityType DEF RateInv, TokensAccounted
  <2>3. k <= clock \div RefillInterval /\ clock \div RefillInterval \in Nat
    BY <2>1, IntervalsElapsed DEF RateInv, RateTypeOK, ClaimsElapsed
  <2>4. granted <= MaxTokens + k
    BY <2>1, <2>2, RateLimiterAssumption DEF RateInv, RateTypeOK
  <2> QED
    BY <2>3, <2>4, RateLimiterAssumption DEF RateKept, RateInv, RateTypeOK
<1> QED
  BY <1>1, RateInitInv, RateNextInv, PTL DEF RateSpec

-----------------------------------------------------------------------------
(***************************************************************************)
(* The observation of a request.  FinishTold is inductive with the claim   *)
(* on the finish, what its owner may still do and what the event stream's  *)
(* observer was told.                                                      *)
(***************************************************************************)
Stages == {"executing", "finalizing", "body", "sse", "upgrading", "gone"}

Reasons == {"Ended", "Failed", "ConsumerAbandoned", "ExecutionAbandoned", "HandedOff"}

Events == {"Started", "Error", "Ended", "Abandoned"}

ObservationTypeOK ==
    /\ stage \in Stages
    /\ inner \in [response : BOOLEAN, finished : BOOLEAN,
                  finishes : Seq(Reasons), bodies : Seq(Reasons)]
    /\ owner \in [held : BOOLEAN, terminal : BOOLEAN, awaiting_handoff : BOOLEAN]
    /\ sse_interest \in BOOLEAN
    /\ sse \in [state : {"none", "active", "over"}, told : Seq(Events)]
    /\ wire \in {"open", "ended", "failed"}
    /\ fact \in Reasons \cup {"none"}

\* The claim on the finish, what was told and what happened agree.
FinishClaimed ==
    /\ inner.finished <=> fact # "none"
    /\ inner.finishes = IF fact = "none" THEN <<>> ELSE <<fact>>
    /\ inner.bodies = IF fact # "ExecutionAbandoned" /\ inner.response
                      THEN inner.finishes ELSE <<>>

\* While nothing has ended the request a carrier holds an owner that has not
\* reported, and a response is selected once send() has headers.
OwnerReady ==
    /\ fact = "none" => owner.held /\ ~owner.terminal
    /\ stage = "executing" => ~inner.response
    /\ stage \in {"finalizing", "body", "sse", "upgrading"} => inner.response
    /\ stage \in {"executing", "finalizing"} => fact = "none"
    /\ stage = "gone" => fact # "none"

\* What an SSE stream the observer follows has been told so far.
SseTold ==
    /\ sse.state = "none" => sse.told = <<>>
    /\ stage \notin {"sse", "gone"} => sse.state = "none"
    /\ stage = "gone" => sse.state # "active"
    /\ sse.state = "active" =>
        /\ Len(sse.told) >= 1
        /\ sse.told[1] = "Started"
        /\ \A k \in 2..Len(sse.told) : sse.told[k] = "Error"
    /\ SseClosedOnce

ObservationInv == ObservationTypeOK /\ FinishClaimed /\ OwnerReady /\ SseTold

Inner == [response : BOOLEAN, finished : BOOLEAN, finishes : Seq(Reasons), bodies : Seq(Reasons)]

\* on_body_end tells a reason when none was told, with the body's report.
LEMMA BodyEndTells ==
  ASSUME ObservationTypeOK, FinishClaimed, inner.response,
         NEW reason \in Reasons \ {"ExecutionAbandoned"},
         inner' = on_body_end(inner, reason),
         fact' = IF fact = "none" THEN reason ELSE fact
  PROVE  inner' \in Inner /\ FinishClaimed' /\ inner'.response /\ fact' \in Reasons
<1>1. CASE inner.finished
  BY <1>1 DEF on_body_end, ObservationTypeOK, FinishClaimed, Inner
<1>2. CASE ~inner.finished
  <2>1. fact = "none" /\ inner.finishes = <<>> /\ inner.bodies = <<>>
    BY <1>2 DEF FinishClaimed, ObservationTypeOK
  <2>2. inner' = [inner EXCEPT !.finished = TRUE, !.bodies = Append(@, reason),
                               !.finishes = Append(@, reason)]
    BY <1>2 DEF on_body_end, ObservationTypeOK
  <2>3. Append(<<>>, reason) = <<reason>> /\ <<reason>> \in Seq(Reasons)
    OBVIOUS
  <2>4. inner' = [inner EXCEPT !.finished = TRUE, !.bodies = <<reason>>,
                               !.finishes = <<reason>>]
    BY <2>1, <2>2, <2>3
  <2> DEFINE one == <<reason>>
  <2>5. one \in Seq(Reasons) /\ inner \in Inner
    BY <2>3 DEF ObservationTypeOK, Inner
  <2> HIDE DEF one
  <2>6. inner' = [inner EXCEPT !.finished = TRUE, !.bodies = one, !.finishes = one]
    BY <2>4 DEF one
  <2>7. /\ inner' \in Inner /\ inner'.finished = TRUE /\ inner'.response = inner.response
        /\ inner'.finishes = one /\ inner'.bodies = one
    BY <2>5, <2>6 DEF Inner
  <2> QED
    BY <2>1, <2>7 DEF FinishClaimed, Reasons, one
<1> QED BY <1>1, <1>2 DEF ObservationTypeOK

\* InnerFinish tells a reason when none was told, and nothing of a body.
LEMMA InnerFinishTells ==
  ASSUME ObservationTypeOK, FinishClaimed, fact = "none",
         NEW reason \in Reasons, reason = "ExecutionAbandoned" \/ ~inner.response,
         inner' = InnerFinish(inner, reason), fact' = reason
  PROVE  inner' \in Inner /\ FinishClaimed' /\ inner'.response = inner.response
<1>1. ~inner.finished /\ inner.finishes = <<>> /\ inner.bodies = <<>>
  BY DEF FinishClaimed, ObservationTypeOK
<1>2. inner' = [inner EXCEPT !.finished = TRUE, !.finishes = Append(@, reason)]
  BY <1>1 DEF InnerFinish
<1>3. Append(<<>>, reason) = <<reason>> /\ <<reason>> \in Seq(Reasons)
  OBVIOUS
<1> DEFINE one == <<reason>>
<1>4. one \in Seq(Reasons) /\ inner \in Inner
  BY <1>3 DEF ObservationTypeOK, Inner
<1>5. inner' = [inner EXCEPT !.finished = TRUE, !.finishes = one]
  BY <1>1, <1>2, <1>3
<1> HIDE DEF one
<1>6. /\ inner' \in Inner /\ inner'.finished = TRUE /\ inner'.response = inner.response
      /\ inner'.finishes = one /\ inner'.bodies = inner.bodies
  BY <1>4, <1>5 DEF Inner
<1> QED
  BY <1>1, <1>6 DEF FinishClaimed, Reasons, one

\* What the owner's Drop tells is what happened: the reason it was given, or an
\* abandoned consumer when the end of a body that awaits a handoff is none.
LEMMA DropTells ==
  ASSUME ObservationTypeOK, FinishClaimed, OwnerReady, inner.response,
         NEW reason \in Reasons \ {"ExecutionAbandoned"},
         ReportAndDrop(reason),
         Happens(IF reason = "Ended" /\ owner.awaiting_handoff
                 THEN "ConsumerAbandoned" ELSE reason)
  PROVE  /\ inner' \in Inner /\ FinishClaimed' /\ inner'.response /\ fact' \in Reasons
         /\ owner' \in [held : BOOLEAN, terminal : BOOLEAN, awaiting_handoff : BOOLEAN]
<1>1. owner' \in [held : BOOLEAN, terminal : BOOLEAN, awaiting_handoff : BOOLEAN]
  BY DEF ReportAndDrop, ObservationTypeOK
<1>2. CASE fact # "none"
  <2>1. inner.finished
    BY <1>2 DEF FinishClaimed, ObservationTypeOK
  <2>2. inner' = inner
    BY <2>1 DEF ReportAndDrop, on_body_end
  <2>3. fact' = fact
    BY <1>2 DEF Happens
  <2> QED BY <1>1, <1>2, <2>2, <2>3 DEF FinishClaimed, ObservationTypeOK, Inner
<1>3. CASE fact = "none"
  <2> DEFINE told == IF reason = "Ended" /\ owner.awaiting_handoff
                     THEN "ConsumerAbandoned" ELSE reason
  <2>1. owner.held /\ ~owner.terminal
    BY <1>3 DEF OwnerReady
  <2>2. inner' = on_body_end(inner, told)
    BY <2>1 DEF ReportAndDrop, OwnerFinish
  <2>3. told \in Reasons \ {"ExecutionAbandoned"}
    BY DEF Reasons
  <2>4. fact' = IF fact = "none" THEN told ELSE fact
    BY DEF Happens
  <2> HIDE DEF told
  <2> QED BY <1>1, <2>2, <2>3, <2>4, BodyEndTells
<1> QED BY <1>2, <1>3

\* A step that leaves the SSE observation alone and does not leave "sse" for
\* another stage, or that never had one, keeps what it was told.
LEMMA SseToldKept ==
  ASSUME SseTold, sse' = sse,
         stage' = stage \/ (stage \notin {"sse", "gone"} /\ stage' \in Stages)
  PROVE  SseTold'
BY DEF SseTold, SseClosedOnce

\* A request begins with an owner that has told nothing.
LEMMA ObservationInitInv == ObservationInit => ObservationInv
<1> SUFFICES ASSUME ObservationInit PROVE ObservationInv
  OBVIOUS
<1>1. ObservationTypeOK
  BY DEF ObservationInit, ObservationTypeOK, Stages, Reasons, Events
<1>2. FinishClaimed
  BY DEF ObservationInit, FinishClaimed
<1>3. OwnerReady
  BY DEF ObservationInit, OwnerReady
<1>4. SseTold
  BY DEF ObservationInit, SseTold, SseClosedOnce
<1> QED BY <1>1, <1>2, <1>3, <1>4 DEF ObservationInv

\* The steps of send(): failing, being dropped, and the response it returns.
LEMMA SendStepInv ==
  ASSUME ObservationInv,
         \/ SendFails \/ SendDropped \/ observe_headers \/ ReturnBuffered
         \/ \E awaiting, empty \in BOOLEAN : ReturnResponse(awaiting, empty)
  PROVE  ObservationInv'
<1> USE DEF ObservationInv
<1>1. CASE SendFails
  <2>1. /\ fact = "none" /\ fact' = "Failed" /\ owner.held /\ ~owner.terminal
        /\ stage \in {"executing", "finalizing"} /\ stage' = "gone"
        /\ UNCHANGED <<sse_interest, sse, wire>>
    BY <1>1 DEF SendFails, OwnerReady, Happens
  <2>2. inner' \in Inner /\ FinishClaimed' /\ inner'.response = inner.response
    <3>1. CASE inner.response
      <4>1. inner' = on_body_end(inner, "Failed")
        BY <1>1, <2>1, <3>1 DEF SendFails, finish_failed, ReportAndDrop, OwnerFinish
      <4> QED BY <2>1, <3>1, <4>1, BodyEndTells DEF Reasons, ObservationTypeOK, Inner
    <3>2. CASE ~inner.response
      <4>1. inner' = InnerFinish(inner, "Failed")
        BY <1>1, <3>2 DEF SendFails, finish_failed
      <4> QED BY <2>1, <3>2, <4>1, InnerFinishTells DEF Reasons
    <3> QED BY <3>1, <3>2
  <2>3. ObservationTypeOK'
    BY <1>1, <2>1, <2>2 DEF SendFails, finish_failed, ReportAndDrop, ObservationTypeOK,
          Stages, Reasons, Inner
  <2>4. OwnerReady'
    BY <2>1 DEF OwnerReady
  <2>5. SseTold'
    BY <2>1, SseToldKept DEF Stages
  <2> QED BY <2>2, <2>3, <2>4, <2>5
<1>2. CASE SendDropped
  <2>1. /\ fact = "none" /\ fact' = "ExecutionAbandoned"
        /\ stage \in {"executing", "finalizing"} /\ stage' = "gone"
        /\ inner' = InnerFinish(inner, "ExecutionAbandoned")
        /\ UNCHANGED <<sse_interest, sse, wire>>
    BY <1>2 DEF SendDropped, OwnerReady, Happens
  <2>2. inner' \in Inner /\ FinishClaimed' /\ inner'.response = inner.response
    BY <2>1, InnerFinishTells DEF Reasons
  <2>3. ObservationTypeOK'
    BY <1>2, <2>1, <2>2 DEF SendDropped, ObservationTypeOK, Stages, Reasons, Inner
  <2>4. OwnerReady'
    BY <2>1 DEF OwnerReady
  <2>5. SseTold'
    BY <2>1, SseToldKept DEF Stages
  <2> QED BY <2>2, <2>3, <2>4, <2>5
<1>3. CASE observe_headers
  <2>1. /\ fact = "none" /\ stage = "executing" /\ stage' = "finalizing"
        /\ inner' = [inner EXCEPT !.response = TRUE]
        /\ UNCHANGED <<owner, sse_interest, sse, wire, fact>>
    BY <1>3 DEF observe_headers, OwnerReady
  <2>2. ObservationTypeOK'
    BY <2>1 DEF ObservationTypeOK, Stages
  <2>3. /\ inner'.finished = inner.finished /\ inner'.finishes = inner.finishes
        /\ inner'.bodies = inner.bodies /\ inner'.response
    BY <2>1 DEF ObservationTypeOK
  <2>4. FinishClaimed' /\ OwnerReady'
    BY <2>1, <2>3 DEF FinishClaimed, OwnerReady
  <2>5. SseTold'
    BY <2>1, SseToldKept DEF Stages
  <2> QED BY <2>2, <2>4, <2>5
<1>4. CASE ReturnBuffered
  <2>1. /\ fact = "none" /\ fact' = "Ended" /\ stage = "finalizing" /\ stage' = "body"
        /\ inner.response /\ inner' = on_body_end(inner, "Ended")
        /\ UNCHANGED <<sse_interest, sse, wire>>
    BY <1>4 DEF ReturnBuffered, OwnerReady, Happens
  <2>2. inner' \in Inner /\ FinishClaimed' /\ inner'.response
    BY <2>1, BodyEndTells DEF Reasons
  <2>3. ObservationTypeOK'
    BY <1>4, <2>1, <2>2 DEF ReturnBuffered, ObservationTypeOK, Stages, Reasons, Inner
  <2>4. OwnerReady'
    BY <2>1, <2>2 DEF OwnerReady
  <2>5. SseTold'
    BY <2>1, SseToldKept DEF Stages
  <2> QED BY <2>2, <2>3, <2>4, <2>5
<1>5. ASSUME NEW awaiting \in BOOLEAN, NEW empty \in BOOLEAN, ReturnResponse(awaiting, empty)
      PROVE  ObservationInv'
  <2>1. /\ fact = "none" /\ stage = "finalizing" /\ stage' = "body" /\ inner.response
        /\ owner.held /\ ~owner.terminal
        /\ UNCHANGED <<sse_interest, sse>>
    BY <1>5 DEF ReturnResponse, OwnerReady
  <2>2. CASE empty /\ ~awaiting
    <3>1. fact' = "Ended" /\ inner' = on_body_end(inner, "Ended")
      BY <1>5, <2>1, <2>2 DEF ReturnResponse, Happens
    <3>2. inner' \in Inner /\ FinishClaimed' /\ inner'.response
      BY <2>1, <3>1, BodyEndTells DEF Reasons
    <3>3. ObservationTypeOK'
      BY <1>5, <2>1, <3>1, <3>2 DEF ReturnResponse, ObservationTypeOK, Stages, Reasons, Inner
    <3>4. OwnerReady'
      BY <2>1, <3>1, <3>2 DEF OwnerReady
    <3>5. SseTold'
      BY <2>1, SseToldKept DEF Stages
    <3> QED BY <3>2, <3>3, <3>4, <3>5
  <2>3. CASE ~(empty /\ ~awaiting)
    <3>1. fact' = "none" /\ inner' = inner
      BY <1>5, <2>1, <2>3 DEF ReturnResponse, Happens
    <3>2. /\ owner' = [owner EXCEPT !.awaiting_handoff = awaiting, !.terminal = FALSE]
          /\ wire' \in {"ended", "open"}
      BY <1>5, <2>3 DEF ReturnResponse
    <3>3. ObservationTypeOK'
      BY <2>1, <3>1, <3>2 DEF ObservationTypeOK, Stages
    <3>4. owner'.held = owner.held /\ owner'.terminal = FALSE
      BY <3>2 DEF ObservationTypeOK
    <3>5. FinishClaimed' /\ OwnerReady'
      BY <2>1, <3>1, <3>4 DEF OwnerReady, FinishClaimed
    <3>6. SseTold'
      BY <2>1, SseToldKept DEF Stages
    <3> QED BY <3>3, <3>5, <3>6
  <2> QED BY <2>2, <2>3
<1> QED BY <1>1, <1>2, <1>3, <1>4, <1>5

\* A carrier that drops the owner as it reports, and leaves the stage "body",
\* "sse" or "upgrading" for "gone" or stays in it, keeps all but the SSE part.
LEMMA DropStepInv ==
  ASSUME ObservationInv, stage \in {"body", "sse", "upgrading"},
         NEW reason \in Reasons \ {"ExecutionAbandoned"},
         ReportAndDrop(reason),
         Happens(IF reason = "Ended" /\ owner.awaiting_handoff
                 THEN "ConsumerAbandoned" ELSE reason),
         stage' \in {stage, "gone"}, wire' \in {"open", "ended", "failed"},
         sse_interest' = sse_interest,
         sse' \in [state : {"none", "active", "over"}, told : Seq(Events)]
  PROVE  ObservationTypeOK' /\ FinishClaimed' /\ OwnerReady'
<1>1. inner.response
  BY DEF ObservationInv, OwnerReady
<1>2. /\ inner' \in Inner /\ FinishClaimed' /\ inner'.response /\ fact' \in Reasons
      /\ owner' \in [held : BOOLEAN, terminal : BOOLEAN, awaiting_handoff : BOOLEAN]
  BY <1>1, DropTells DEF ObservationInv
<1>3. ObservationTypeOK'
  BY <1>2 DEF ObservationInv, ObservationTypeOK, Inner, Stages
<1>4. OwnerReady'
  BY <1>2 DEF OwnerReady, Reasons
<1> QED BY <1>2, <1>3, <1>4

\* The steps of the response body and of an upgrade.
LEMMA BodyStepInv ==
  ASSUME ObservationInv,
         \/ BodyComplete \/ BodyFailed \/ BodyDropped \/ StartUpgrade
         \/ \E reason \in {"HandedOff", "Failed", "ConsumerAbandoned"} : UpgradeEnds(reason)
  PROVE  ObservationInv'
<1> USE DEF ObservationInv
<1>1. ASSUME NEW reason \in {"Ended", "Failed"}, stage = "body", Report(reason),
             Happens(IF reason = "Ended" /\ owner.awaiting_handoff THEN "none" ELSE reason),
             wire' \in {"ended", "failed"}, UNCHANGED <<stage, sse_interest, sse>>
      PROVE  ObservationInv'
  <2>1. inner.response
    BY <1>1 DEF OwnerReady
  <2>2. owner' \in [held : BOOLEAN, terminal : BOOLEAN, awaiting_handoff : BOOLEAN]
    BY <1>1 DEF Report, OwnerFinish, ObservationTypeOK
  <2>3. SseTold'
    BY <1>1, SseToldKept
  <2>4. CASE fact # "none"
    <3>1. inner.finished
      BY <2>4 DEF FinishClaimed
    <3>2. inner' = inner /\ fact' = fact
      BY <1>1, <2>4, <3>1 DEF Report, on_body_end, Happens
    <3> QED
      BY <1>1, <2>2, <2>3, <2>4, <3>2 DEF ObservationTypeOK, FinishClaimed, OwnerReady
  <2>5. CASE fact = "none" /\ reason = "Ended" /\ owner.awaiting_handoff
    <3>1. inner' = inner /\ fact' = fact
      BY <1>1, <2>5 DEF Report, OwnerFinish, Happens
    <3>2. owner'.held = owner.held /\ owner'.terminal = owner.terminal
      BY <1>1, <2>5 DEF Report, OwnerFinish, ObservationTypeOK
    <3> QED
      BY <1>1, <2>2, <2>3, <3>1, <3>2 DEF ObservationTypeOK, FinishClaimed, OwnerReady
  <2>6. CASE fact = "none" /\ ~(reason = "Ended" /\ owner.awaiting_handoff)
    <3>1. inner' = on_body_end(inner, reason) /\ fact' = reason
      BY <1>1, <2>6 DEF Report, OwnerFinish, Happens, OwnerReady
    <3>2. inner' \in Inner /\ FinishClaimed' /\ inner'.response /\ fact' \in Reasons
      BY <2>1, <2>6, <3>1, BodyEndTells DEF Reasons
    <3> QED
      BY <1>1, <2>2, <2>3, <3>2 DEF ObservationTypeOK, OwnerReady, Inner, Reasons
  <2> QED BY <2>4, <2>5, <2>6
<1>2. CASE BodyComplete
  BY <1>1, <1>2 DEF BodyComplete
<1>3. CASE BodyFailed
  BY <1>1, <1>3 DEF BodyFailed
<1>4. CASE BodyDropped
  <2>1. /\ stage = "body" /\ stage' = "gone" /\ ReportAndDrop("ConsumerAbandoned")
        /\ Happens("ConsumerAbandoned") /\ UNCHANGED <<sse_interest, sse, wire>>
    BY <1>4 DEF BodyDropped
  <2>2. ObservationTypeOK' /\ FinishClaimed' /\ OwnerReady'
    BY <2>1, DropStepInv DEF Reasons, ObservationTypeOK
  <2>3. SseTold'
    BY <2>1, SseToldKept DEF Stages
  <2> QED BY <2>2, <2>3
<1>5. CASE StartUpgrade
  <2>1. /\ stage = "body" /\ stage' = "upgrading"
        /\ UNCHANGED <<inner, owner, sse_interest, sse, wire, fact>>
    BY <1>5 DEF StartUpgrade
  <2>2. SseTold'
    BY <2>1, SseToldKept DEF Stages
  <2> QED
    BY <2>1, <2>2 DEF ObservationTypeOK, Stages, FinishClaimed, OwnerReady
<1>6. ASSUME NEW reason \in {"HandedOff", "Failed", "ConsumerAbandoned"}, UpgradeEnds(reason)
      PROVE  ObservationInv'
  <2>1. /\ stage = "upgrading" /\ stage' = "gone" /\ ReportAndDrop(reason)
        /\ Happens(reason) /\ UNCHANGED <<sse_interest, sse, wire>>
    BY <1>6 DEF UpgradeEnds
  <2>2. ObservationTypeOK' /\ FinishClaimed' /\ OwnerReady'
    BY <2>1, DropStepInv DEF Reasons, ObservationTypeOK
  <2>3. SseTold'
    BY <2>1, SseToldKept DEF Stages
  <2> QED BY <2>2, <2>3
<1> QED BY <1>2, <1>3, <1>4, <1>5, <1>6

\* One more event at the end of what an active SSE observation was told.
LEMMA ToldOneMore ==
  ASSUME ObservationTypeOK, SseTold, NEW event \in Events
  PROVE  /\ Told(event) \in Seq(Events)
         /\ sse.state # "active" => Told(event) = sse.told
         /\ sse.state = "active" =>
              /\ Len(Told(event)) = Len(sse.told) + 1 /\ Len(sse.told) >= 1
              /\ Told(event)[Len(sse.told) + 1] = event
              /\ Told(event)[1] = "Started"
              /\ \A k \in 2..Len(sse.told) : Told(event)[k] = "Error"
<1> DEFINE t == sse.told
<1>1. t \in Seq(Events)
  BY DEF ObservationTypeOK
<1>2. sse.state = "active" =>
        /\ Len(t) >= 1 /\ t[1] = "Started" /\ \A k \in 2..Len(t) : t[k] = "Error"
  BY DEF SseTold
<1>3. Told(event) = IF sse.state = "active" THEN Append(t, event) ELSE t
  BY DEF Told
<1> HIDE DEF t
<1>4. /\ Append(t, event) \in Seq(Events)
      /\ Len(Append(t, event)) = Len(t) + 1 /\ Len(t) \in Nat
      /\ Append(t, event)[Len(t) + 1] = event
      /\ \A k \in 1..Len(t) : Append(t, event)[k] = t[k]
  BY <1>1
<1>5. sse.state = "active" => 1 \in 1..Len(t) /\ 2..Len(t) \subseteq 1..Len(t)
  BY <1>2, <1>4
<1> QED BY <1>1, <1>2, <1>3, <1>4, <1>5 DEF t

\* An error goes at the end of what an SSE stream was told; its close, and only
\* that, follows what an active one was told, and nothing follows the close.
LEMMA SseToldGrows ==
  ASSUME ObservationTypeOK, SseTold, stage = "sse", stage' \in {"sse", "gone"},
         \/ sse' = [sse EXCEPT !.told = Told("Error")] /\ stage' = "sse"
         \/ \E event \in {"Ended", "Abandoned"} :
              sse' = [state |-> IF sse.state = "active" THEN "over" ELSE sse.state,
                      told |-> Told(event)]
  PROVE  SseTold' /\ sse' \in [state : {"none", "active", "over"}, told : Seq(Events)]
<1>1. CASE sse' = [sse EXCEPT !.told = Told("Error")] /\ stage' = "sse"
  <2>1. sse'.state = sse.state /\ sse'.told = Told("Error")
    BY <1>1 DEF ObservationTypeOK
  <2>2. /\ Told("Error") \in Seq(Events)
        /\ sse.state # "active" => Told("Error") = sse.told
        /\ sse.state = "active" =>
             /\ Len(Told("Error")) = Len(sse.told) + 1 /\ Len(sse.told) >= 1
             /\ Told("Error")[Len(sse.told) + 1] = "Error"
             /\ Told("Error")[1] = "Started"
             /\ \A k \in 2..Len(sse.told) : Told("Error")[k] = "Error"
    BY ToldOneMore DEF Events
  <2>3. sse' \in [state : {"none", "active", "over"}, told : Seq(Events)]
    BY <1>1, <2>2 DEF ObservationTypeOK
  <2>4. CASE sse.state # "active"
    BY <1>1, <2>1, <2>2, <2>3, <2>4 DEF SseTold, SseClosedOnce
  <2>5. CASE sse.state = "active"
    <3>1. Len(sse.told) \in Nat
      BY DEF ObservationTypeOK
    <3>2. \A k \in 2..Len(sse'.told) : k \in 2..Len(sse.told) \/ k = Len(sse.told) + 1
      BY <2>1, <2>2, <2>5, <3>1
    <3>3. Len(sse'.told) >= 1 /\ sse'.told[1] = "Started"
      BY <2>1, <2>2, <2>5, <3>1
    <3>4. \A k \in 2..Len(sse'.told) : sse'.told[k] = "Error"
      BY <2>1, <2>2, <2>5, <3>2
    <3>5. sse'.state = "active" /\ stage' = "sse"
      BY <1>1, <2>1, <2>5
    <3> QED BY <2>3, <3>3, <3>4, <3>5 DEF SseTold, SseClosedOnce
  <2> QED BY <2>4, <2>5
<1>2. ASSUME NEW event \in {"Ended", "Abandoned"},
             sse' = [state |-> IF sse.state = "active" THEN "over" ELSE sse.state,
                     told |-> Told(event)]
      PROVE  SseTold' /\ sse' \in [state : {"none", "active", "over"}, told : Seq(Events)]
  <2>1. /\ sse'.state = (IF sse.state = "active" THEN "over" ELSE sse.state)
        /\ sse'.told = Told(event)
    BY <1>2
  <2>2. /\ Told(event) \in Seq(Events)
        /\ sse.state # "active" => Told(event) = sse.told
        /\ sse.state = "active" =>
             /\ Len(Told(event)) = Len(sse.told) + 1 /\ Len(sse.told) >= 1
             /\ Told(event)[Len(sse.told) + 1] = event
             /\ Told(event)[1] = "Started"
             /\ \A k \in 2..Len(sse.told) : Told(event)[k] = "Error"
    BY ToldOneMore DEF Events
  <2>3. sse' \in [state : {"none", "active", "over"}, told : Seq(Events)]
    BY <1>2, <2>2 DEF ObservationTypeOK
  <2>4. CASE sse.state # "active"
    BY <2>1, <2>2, <2>3, <2>4 DEF SseTold, SseClosedOnce
  <2>5. CASE sse.state = "active"
    <3>1. Len(sse.told) \in Nat
      BY DEF ObservationTypeOK
    <3>2. /\ sse'.state = "over" /\ sse'.told[1] = "Started"
          /\ sse'.told[Len(sse'.told)] \in {"Ended", "Abandoned"}
      BY <2>1, <2>2, <2>5
    <3>3. Len(sse'.told) - 1 = Len(sse.told)
      BY <2>1, <2>2, <2>5, <3>1
    <3>4. \A k \in 2..(Len(sse'.told) - 1) : sse'.told[k] = "Error"
      BY <2>1, <2>2, <2>5, <3>3
    <3> QED BY <2>3, <3>2, <3>4 DEF SseTold, SseClosedOnce
  <2> QED BY <2>4, <2>5
<1> QED BY <1>1, <1>2

\* The steps of an SSE stream.
LEMMA SseStepInv ==
  ASSUME ObservationInv,
         \/ IntoSseStream \/ SseBodyComplete \/ SseBodyFailed \/ SseDecodeError
         \/ SseEnd \/ SseDropped
  PROVE  ObservationInv'
<1> USE DEF ObservationInv
<1>0. sse \in [state : {"none", "active", "over"}, told : Seq(Events)] /\ wire \in {"open", "ended", "failed"}
  BY DEF ObservationTypeOK
<1>1. CASE IntoSseStream
  <2>1. /\ stage = "body" /\ stage' = "sse" /\ sse.state = "none" /\ sse.told = <<>>
        /\ UNCHANGED <<inner, sse_interest, wire, fact>>
    BY <1>1 DEF IntoSseStream, SseTold
  <2>2. /\ owner' \in [held : BOOLEAN, terminal : BOOLEAN, awaiting_handoff : BOOLEAN]
        /\ owner'.terminal = owner.terminal
        /\ ~owner.terminal => owner'.held = owner.held
    BY <1>1 DEF IntoSseStream, ObservationTypeOK
  <2>3. FinishClaimed' /\ OwnerReady'
    BY <2>1, <2>2 DEF FinishClaimed, OwnerReady
  <2>4. sse' = sse \/ sse' = [state |-> "active", told |-> <<"Started">>]
    BY <1>1 DEF IntoSseStream
  <2>5. CASE sse' = sse
    BY <2>1, <2>2, <2>3, <2>5 DEF ObservationTypeOK, Stages, SseTold, SseClosedOnce
  <2>6. CASE sse' = [state |-> "active", told |-> <<"Started">>]
    <3>1. /\ sse'.state = "active" /\ Len(sse'.told) = 1 /\ sse'.told[1] = "Started"
          /\ sse'.told \in Seq(Events)
      BY <2>6 DEF Events
    <3>2. SseTold'
      BY <2>1, <3>1 DEF SseTold, SseClosedOnce
    <3>3. sse' \in [state : {"none", "active", "over"}, told : Seq(Events)]
      BY <2>6, <3>1
    <3>4. ObservationTypeOK'
      BY <2>1, <2>2, <3>3 DEF ObservationTypeOK, Stages
    <3> QED BY <2>3, <3>2, <3>4
  <2> QED BY <2>4, <2>5, <2>6
<1>2. CASE SseBodyComplete
  <2>1. /\ stage = "sse" /\ stage' = "sse" /\ ReportAndDrop("Ended") /\ wire' = "ended"
        /\ Happens(IF owner.awaiting_handoff THEN "ConsumerAbandoned" ELSE "Ended")
        /\ UNCHANGED <<stage, sse_interest, sse>>
    BY <1>2 DEF SseBodyComplete
  <2>2. ObservationTypeOK' /\ FinishClaimed' /\ OwnerReady'
    BY <1>0, <2>1, DropStepInv DEF Reasons
  <2>3. SseTold'
    BY <2>1, SseToldKept
  <2> QED BY <2>2, <2>3
<1>3. CASE SseBodyFailed
  <2>1. /\ stage = "sse" /\ stage' = "sse" /\ ReportAndDrop("Failed") /\ wire' = "failed"
        /\ Happens("Failed") /\ sse_interest' = sse_interest
        /\ sse' = [sse EXCEPT !.told = Told("Error")]
    BY <1>3 DEF SseBodyFailed
  <2>2. SseTold' /\ sse' \in [state : {"none", "active", "over"}, told : Seq(Events)]
    BY <2>1, SseToldGrows
  <2>3. ObservationTypeOK' /\ FinishClaimed' /\ OwnerReady'
    BY <2>1, <2>2, DropStepInv DEF Reasons
  <2> QED BY <2>2, <2>3
<1>4. CASE SseDecodeError \/ SseEnd
  <2>1. /\ stage = "sse" /\ stage' = "sse"
        /\ \/ sse' = [sse EXCEPT !.told = Told("Error")]
           \/ sse' = [state |-> IF sse.state = "active" THEN "over" ELSE sse.state,
                      told |-> Told("Ended")]
        /\ UNCHANGED <<inner, owner, sse_interest, wire, fact>>
    BY <1>4 DEF SseDecodeError, SseEnd
  <2>2. SseTold' /\ sse' \in [state : {"none", "active", "over"}, told : Seq(Events)]
    BY <2>1, SseToldGrows
  <2> QED
    BY <2>1, <2>2 DEF ObservationTypeOK, Stages, FinishClaimed, OwnerReady
<1>5. CASE SseDropped
  <2>1. /\ stage = "sse" /\ stage' = "gone" /\ ReportAndDrop("ConsumerAbandoned")
        /\ Happens("ConsumerAbandoned") /\ UNCHANGED <<sse_interest, wire>>
        /\ sse' = [state |-> IF sse.state = "active" THEN "over" ELSE sse.state,
                   told |-> Told("Abandoned")]
    BY <1>5 DEF SseDropped
  <2>2. SseTold' /\ sse' \in [state : {"none", "active", "over"}, told : Seq(Events)]
    BY <2>1, SseToldGrows
  <2>3. ObservationTypeOK' /\ FinishClaimed' /\ OwnerReady'
    BY <1>0, <2>1, <2>2, DropStepInv DEF Reasons
  <2> QED BY <2>2, <2>3
<1> QED BY <1>1, <1>2, <1>3, <1>4, <1>5

\* An observer is told exactly once how a request ended, what happened first,
\* by the time the caller lets go of it, with the body's report in the same
\* words, and an SSE stream is closed once.
THEOREM ObservationFinishTold == ObservationSpec => []FinishTold
<1>1. ObservationInv /\ [ObservationNext]_observationVars => ObservationInv'
  <2> SUFFICES ASSUME ObservationInv, [ObservationNext]_observationVars PROVE ObservationInv'
    OBVIOUS
  <2>1. CASE UNCHANGED observationVars
    BY <2>1 DEF observationVars, ObservationInv, ObservationTypeOK, FinishClaimed, OwnerReady,
                SseTold, SseClosedOnce
  <2> QED
    BY <2>1, SendStepInv, BodyStepInv, SseStepInv DEF ObservationNext
<1>2. ObservationInv => FinishTold
  BY DEF ObservationInv, FinishClaimed, OwnerReady, SseTold, FinishTold
<1> QED
  BY <1>1, <1>2, ObservationInitInv, PTL DEF ObservationSpec
=============================================================================
