--------------------------- MODULE HappyEyeballs ---------------------------
(***************************************************************************)
(* Connecting to one of several resolved addresses: happy_eyeballs.rs.     *)
(* The addresses are interleaved by family; the first attempt starts at    *)
(* once, the next one each time HAPPY_EYEBALLS_DELAY passes or the last    *)
(* running attempt fails.  The whole race is one future: poll_fn looks at  *)
(* the attempts in the order of a vector and then at the delay.  What each *)
(* address does (fate) is the network's choice, silence included.          *)
(***************************************************************************)
EXTENDS Naturals, Sequences, FiniteSets, SequencesExt

CONSTANT MaxAddrs    \* bound: addresses the resolver returns

ASSUME HappyEyeballsAssumption == MaxAddrs \in Nat \ {0}

VARIABLES
    resolved,     \* the resolver's answer: a sequence of addresses
    fate,         \* fate[a]: what connecting to address a comes to
    answered,     \* addresses whose attempt has ended, unseen or seen
    next_idx,     \* how many of the interleaved addresses were started
    attempts,     \* the vector of running attempts
    delay,        \* "pending": std::future::pending(); "armed" and "fired": a sleep
    race          \* "running", "connected" or "failed"

raceVars == <<resolved, fate, answered, next_idx, attempts, delay, race>>

\* An address is its family and its place in the resolver's answer.
Address == {"v4", "v6"} \X (1..MaxAddrs)

Answers ==
    {[i \in 1..n |-> <<families[i], i>>] :
        n \in 0..MaxAddrs, families \in [1..MaxAddrs -> {"v4", "v6"}]}

\* Each pass of the loop takes the next address of the family of the first address
\* and then the next one of the other family, as long as they last.
Pass(addrs, i) == Cardinality({j \in 1..(i - 1) : addrs[j][1] = addrs[i][1]})
Turn(addrs, i) == 2 * Pass(addrs, i) + (IF addrs[i][1] = addrs[1][1] THEN 0 ELSE 1)

\* The place where address i of the answer ends up.
Place(addrs, i) == Cardinality({j \in 1..Len(addrs) : Turn(addrs, j) <= Turn(addrs, i)})

interleave_addrs(addrs) ==
    [p \in 1..Len(addrs) |-> addrs[CHOOSE i \in 1..Len(addrs) : Place(addrs, i) = p]]

\* Without an address there is nothing to race.
RaceInit ==
    /\ resolved \in Answers
    /\ fate \in [ToSet(resolved) -> {"connects", "refuses", "hangs"}]
    /\ answered = {}
    /\ attempts = IF resolved = <<>> THEN <<>> ELSE <<interleave_addrs(resolved)[1]>>
    /\ next_idx = Len(attempts)
    /\ delay = IF Len(resolved) > 1 THEN "armed" ELSE "pending"
    /\ race = IF resolved = <<>> THEN "failed" ELSE "running"
-----------------------------------------------------------------------------
\* The network answers a running attempt; a hanging address never does.
ConnectAnswers(a) ==
    /\ race = "running"
    /\ a \in ToSet(attempts) \ answered
    /\ fate[a] # "hangs"
    /\ answered' = answered \cup {a}
    /\ UNCHANGED <<resolved, fate, next_idx, attempts, delay, race>>

DelayElapses ==
    /\ race = "running"
    /\ delay = "armed"
    /\ delay' = "fired"
    /\ UNCHANGED <<resolved, fate, answered, next_idx, attempts, race>>

\* Vec::swap_remove: the last attempt takes the removed one's place.
swap_remove(s, i) ==
    LET last == s[Len(s)]
    IN  [j \in 1..(Len(s) - 1) |-> IF j = i THEN last ELSE s[j]]

\* StartNext leaving the spent delay in place.
StartNextSpent(running) ==
    /\ attempts' = Append(running, interleave_addrs(resolved)[next_idx + 1])
    /\ next_idx' = next_idx + 1
    /\ delay' = "pending"

\* The next address joins the running attempts and the delay is set anew.
StartNext(running) ==
    /\ attempts' = Append(running, interleave_addrs(resolved)[next_idx + 1])
    /\ next_idx' = next_idx + 1
    /\ delay' = IF next_idx + 1 < Len(resolved) THEN "armed" ELSE "pending"

\* Whether every address was started.
Exhausted == next_idx >= Len(resolved)

\* poll_fn reports the first attempt of the vector that has ended ...
Ended(i) ==
    /\ attempts[i] \in answered
    /\ \A j \in 1..(i - 1) : attempts[j] \notin answered

RaceAttempt(i) ==
    LET left == swap_remove(attempts, i)
    IN  /\ race = "running"
        /\ i \in DOMAIN attempts
        /\ Ended(i)
        /\ UNCHANGED <<resolved, fate, answered>>
        /\ \/ /\ fate[attempts[i]] = "connects"
              /\ race' = "connected"
              /\ attempts' = <<>>      \* returning drops the other attempts
              /\ UNCHANGED <<next_idx, delay>>
           \/ /\ fate[attempts[i]] = "refuses"
              /\ left # <<>>
              /\ attempts' = left
              /\ UNCHANGED <<next_idx, delay, race>>
           \/ /\ fate[attempts[i]] = "refuses"
              /\ left = <<>>
              /\ ~Exhausted
              /\ StartNext(left)
              /\ UNCHANGED race
           \/ /\ fate[attempts[i]] = "refuses"
              /\ left = <<>>
              /\ Exhausted
              /\ race' = "failed"
              /\ attempts' = <<>>
              /\ UNCHANGED <<next_idx, delay>>

\* ... and only when none has, the delay.
RaceDelay ==
    /\ race = "running"
    /\ ToSet(attempts) \cap answered = {}
    /\ delay = "fired"
    /\ ~Exhausted
    /\ StartNext(attempts)
    /\ UNCHANGED <<resolved, fate, answered, race>>

RaceNext ==
    \/ \E a \in Address : ConnectAnswers(a)
    \/ DelayElapses
    \/ \E i \in 1..MaxAddrs : RaceAttempt(i)
    \/ RaceDelay

\* Timers fire, answers that come are delivered, and the executor polls a future
\* that was woken.  A hanging address promises nothing.
RaceFairness ==
    /\ \A a \in Address : WF_raceVars(ConnectAnswers(a))
    /\ WF_raceVars(DelayElapses)
    /\ \A i \in 1..MaxAddrs : WF_raceVars(RaceAttempt(i))
    /\ WF_raceVars(RaceDelay)

RaceSpec == RaceInit /\ [][RaceNext]_raceVars /\ RaceFairness
-----------------------------------------------------------------------------
\* If any address accepts, the race connects, however many addresses before
\* and beside it hang or refuse and in whatever order they answer.
ReachableWins ==
    (\E a \in ToSet(resolved) : fate[a] = "connects") ~> (race = "connected")
=============================================================================
