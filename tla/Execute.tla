------------------------------ MODULE Execute ------------------------------
(***************************************************************************)
(* send_with_retry of request_send.rs around execute_send: a call tries    *)
(* its request, follows redirects, answers a digest challenge and starts   *)
(* configured retries, all of them charged to the call's own count and to  *)
(* a RetryBudget that the calls of a client share.                         *)
(*                                                                         *)
(* The call is one future.  Every await is a state of its own in which the *)
(* per-attempt timeout may drop execute_send, or the caller the whole      *)
(* call.  What the FinalizedRequestState remembers across attempts (the    *)
(* snapshot of the request last finalised, the queued replay, the attempt  *)
(* count, the eligibility and the reservation of a retry) is in s.fin;     *)
(* what is local to execute_send is in s.cur, s.hops.                      *)
(*                                                                         *)
(* One attempt on the wire, the module Dispatch, is a step here.  What the *)
(* cache and the cookie jar hold is a choice made at the lookup.           *)
(***************************************************************************)
EXTENDS Integers, FiniteSets

CONSTANTS
    Calls,
    Uris,
    OriginOf,       \* the scheme, host and port of a URI
    MaxRetries,     \* RetryConfig.max_retries
    MaxRedirects,   \* RedirectPolicy::max_redirects
    RetryTokens,    \* RetryBudget's max_tokens
    DepositAmount,  \* RetryBudget's deposit_amount
    NoRequest

ASSUME ExecuteAssumption ==
    /\ OriginOf \in [Uris -> {OriginOf[u] : u \in Uris}]
    /\ IsFiniteSet(Calls)
    /\ {MaxRetries, MaxRedirects, RetryTokens, DepositAmount} \subseteq Nat

VARIABLES
    budget,      \* RetryBudget's tokens
    deposited,   \* tokens deposits have added
    call         \* the state of each call

executeVars == <<budget, deposited, call>>

Origins == {OriginOf[u] : u \in Uris}

\* secrets: the origins whose credentials (Authorization) or cookies the headers
\* carry.
Requests ==
    [uri : Uris, method : {"GET", "POST"}, body : {"empty", "buffered", "oneshot"},
     secrets : SUBSET Origins]

\* The awaits of execute_send.
Awaits == {"sign", "wire", "stale_drain", "drain", "digest_sign", "digest_wire",
           "redirect_drain"}

ExecuteTypeOK ==
    /\ budget \in 0..RetryTokens
    /\ deposited \in Nat
    /\ \A c \in Calls :
        /\ call[c].pc \in Awaits \cup {"start", "hop", "decide", "backoff", "done"}
        /\ call[c].cur \in Requests
        /\ call[c].hops \in 0..MaxRedirects
        /\ call[c].wire \in Requests \cup {NoRequest}
        /\ call[c].snapshot \in Requests \cup {NoRequest}
        /\ call[c].pending \in Requests \cup {NoRequest}
        /\ call[c].attempt \in 0..MaxRetries
        /\ call[c].paid \in 0..MaxRetries

\* A call starts with what its builder was given; budgeted is whether its
\* RetryConfig names the budget, paid counts the tokens of retries it went through with.
Fresh(r, b) ==
    [pc |-> "start", cur |-> r, hops |-> MaxRedirects, wire |-> NoRequest,
     method |-> r.method, snapshot |-> NoRequest, pending |-> NoRequest,
     attempt |-> 0, eligible |-> FALSE, reserved |-> FALSE, denied |-> FALSE,
     budgeted |-> b, paid |-> 0, result |-> "none"]

Starts ==
    {Fresh(r, b) : b \in BOOLEAN,
        r \in {q \in Requests : /\ q.secrets \subseteq {OriginOf[q.uri]}
                                /\ q.method = "GET" => q.body = "empty"}}

\* Some of the calls may never be made.
ExecuteInit ==
    /\ budget = RetryTokens
    /\ deposited = 0
    /\ call \in [Calls -> Starts \cup {[s EXCEPT !.pc = "done"] : s \in Starts}]
-----------------------------------------------------------------------------
\* RetryBudget: withdraw, refund and deposit; the last two stop at max_tokens.
Affords(s) == s.budgeted => budget > 0
Withdrawn(s) == IF s.budgeted THEN budget - 1 ELSE budget
Filled(n) == IF budget + n < RetryTokens THEN budget + n ELSE RetryTokens
Refunded(s, n) == IF s.budgeted THEN Filled(n) ELSE budget

\* Tokens a call has spent once its reservation is committed.
Spent(s) == IF s.budgeted THEN s.paid + 1 ELSE s.paid

\* Tokens a call has withdrawn for a retry that is not on its way.
Held(s) == (IF s.eligible THEN 1 ELSE 0) + (IF s.reserved THEN 1 ELSE 0)

\* What try_start_retry and RetryEligibilityPermit::try_new both ask.
CanStart(s) == ~s.eligible /\ ~s.reserved /\ s.attempt < MaxRetries

Idempotent(m) == m # "POST"

\* FinalizedRequestSnapshot::capture
Capture(r) == IF r.body = "oneshot" THEN NoRequest ELSE r

Becomes(c, s) == call' = [call EXCEPT ![c] = s]
-----------------------------------------------------------------------------
\* Prepare that leaves the snapshot of the hop before.
PrepareKeeping(c) ==
    LET s == call[c] o == OriginOf[s.cur.uri] IN
    /\ s.pc \in {"start", "hop"}
    /\ s.pending = NoRequest
    /\ \E secrets \in {s.cur.secrets, s.cur.secrets \cup {o}} :
         Becomes(c, [s EXCEPT !.pc = "sign", !.method = s.cur.method,
                              !.cur.secrets = secrets])
    /\ UNCHANGED <<budget, deposited>>

\* execute_send without a queued replay, or the next hop of its loop: forget the
\* snapshot, add netrc credentials and cookies, look into the cache, and get to
\* the signature.
Prepare(c) ==
    LET s == call[c] o == OriginOf[s.cur.uri] IN
    /\ s.pc \in {"start", "hop"}
    /\ s.pending = NoRequest
    /\ \E secrets \in {s.cur.secrets, s.cur.secrets \cup {o}} :
         Becomes(c, [s EXCEPT !.pc = "sign", !.snapshot = NoRequest, !.method = s.cur.method,
                              !.cur.secrets = secrets])
    /\ UNCHANGED <<budget, deposited>>

\* A fresh cache entry answers instead, or the request cannot be finalised.
PrepareEnds(c, result) ==
    LET s == call[c] IN
    /\ s.pc \in {"start", "hop"}
    /\ s.pending = NoRequest
    /\ IF result = "ok" THEN s.cur.method = "GET" ELSE s.cur.body = "oneshot"
    /\ Becomes(c, [s EXCEPT !.pc = "decide", !.snapshot = NoRequest,
                            !.method = s.cur.method, !.result = result])
    /\ UNCHANGED <<budget, deposited>>

\* execute_send with a queued replay: its reservation is committed, its cookies
\* are taken out and put in again.
Replay(c) ==
    LET s == call[c] o == OriginOf[s.pending.uri] IN
    /\ s.pc = "start"
    /\ s.pending # NoRequest
    /\ \E secrets \in {s.pending.secrets \ {o}, s.pending.secrets \cup {o}} :
         Becomes(c, [s EXCEPT !.pc = "sign", !.hops = MaxRedirects,
                              !.cur = [s.pending EXCEPT !.secrets = secrets],
                              !.pending = NoRequest,
                              !.reserved = FALSE, !.paid = Spent(s)])
    /\ UNCHANGED <<budget, deposited>>

\* The signature is made: the request is captured and goes on the wire.
Sign(c) ==
    LET s == call[c] IN
    /\ s.pc = "sign"
    /\ Becomes(c, [s EXCEPT !.pc = "wire", !.wire = s.cur, !.method = s.cur.method,
                            !.snapshot = Capture(s.cur)])
    /\ UNCHANGED <<budget, deposited>>

\* The attempt fails, in a way that may be retried or not.
WireFails(c, error) ==
    LET s == call[c] IN
    /\ s.pc \in {"wire", "digest_wire"}
    /\ Becomes(c, [s EXCEPT !.pc = "decide", !.result = error])
    /\ UNCHANGED <<budget, deposited>>

\* A cached entry within its stale-if-error window stands in for the failure, or
\* for the server error once that is read off; not when a challenge was answered.
StaleIfError(c) ==
    LET s == call[c] IN
    /\ s.cur.method = "GET"
    /\ \/ s.pc = "wire" /\ Becomes(c, [s EXCEPT !.pc = "decide", !.result = "ok"])
       \/ s.pc = "wire" /\ Becomes(c, [s EXCEPT !.pc = "stale_drain"])
       \/ s.pc = "stale_drain" /\ Becomes(c, [s EXCEPT !.pc = "decide", !.result = "ok"])
    /\ UNCHANGED <<budget, deposited>>

SignFails(c) ==
    LET s == call[c] IN
    /\ s.pc \in {"sign", "digest_sign"}
    /\ Becomes(c, [s EXCEPT !.pc = "decide", !.result = "fatal"])
    /\ UNCHANGED <<budget, deposited>>

\* A response other than a redirect or a challenge that is taken up.
Answered(c, status) ==
    LET s == call[c] IN
    /\ s.pc \in {"wire", "digest_wire"}
    /\ Becomes(c, [s EXCEPT !.pc = "decide", !.result = status])
    /\ UNCHANGED <<budget, deposited>>
-----------------------------------------------------------------------------
\* maybe_retry_digest on a challenge: a permit takes a token while the response
\* is drained.  Without a snapshot or a permit the challenge is the answer.
Challenged(c) ==
    LET s == call[c] starts == s.snapshot # NoRequest /\ CanStart(s) IN
    /\ s.pc = "wire"
    /\ IF starts /\ Affords(s)
       THEN /\ budget' = Withdrawn(s)
            /\ Becomes(c, [s EXCEPT !.pc = "drain", !.eligible = TRUE, !.denied = FALSE])
       ELSE /\ Becomes(c, [s EXCEPT !.pc = "decide", !.result = "ok",
                              !.denied = IF s.snapshot = NoRequest THEN @ ELSE starts])
            /\ UNCHANGED budget
    /\ UNCHANGED deposited

\* The response is drained: the permit becomes a reservation, and the snapshot
\* with its new credentials is to be signed.
Drained(c) ==
    LET s == call[c] IN
    /\ s.pc = "drain"
    /\ Becomes(c, [s EXCEPT !.pc = "digest_sign", !.eligible = FALSE, !.reserved = TRUE,
                            !.attempt = @ + 1, !.cur.secrets = @ \cup {OriginOf[s.cur.uri]}])
    /\ UNCHANGED <<budget, deposited>>

\* It cannot be drained, or the credentials cannot be made: the permit is dropped.
DrainFails(c, error) ==
    LET s == call[c] IN
    /\ s.pc = "drain"
    /\ budget' = Refunded(s, 1)
    /\ Becomes(c, [s EXCEPT !.pc = "decide", !.eligible = FALSE, !.denied = FALSE,
                            !.result = error])
    /\ UNCHANGED deposited

DigestSign(c) ==
    LET s == call[c] IN
    /\ s.pc = "digest_sign"
    /\ Becomes(c, [s EXCEPT !.pc = "digest_wire", !.wire = s.cur, !.snapshot = Capture(s.cur),
                            !.reserved = FALSE, !.paid = Spent(s)])
    /\ UNCHANGED <<budget, deposited>>
-----------------------------------------------------------------------------
\* Redirected that looks only at where the request started.
RedirectedKeeping(r, status, uri) ==
    [r EXCEPT !.uri = uri,
              !.method = IF status = "303" THEN "GET" ELSE @,
              !.body = IF status = "307" /\ @ = "buffered" THEN @ ELSE "empty"]

\* process_redirect: 303 turns into a GET, 307 keeps method and body; another
\* origin is told neither the credentials nor the cookies.
Redirected(r, status, uri) ==
    LET same == OriginOf[r.uri] = OriginOf[uri] IN
    [r EXCEPT !.uri = uri,
              !.method = IF status = "303" THEN "GET" ELSE @,
              !.body = IF status = "307" /\ @ = "buffered" THEN @ ELSE "empty",
              !.secrets = IF same THEN @ ELSE {}]

\* post_execute on a redirect; the response is read off before the next hop.
Redirect(c, status, uri) ==
    LET s == call[c] IN
    /\ s.pc \in {"wire", "digest_wire"}
    /\ IF status = "307" /\ s.cur.method = "POST" /\ s.cur.body # "buffered"
       THEN Becomes(c, [s EXCEPT !.pc = "decide", !.result = "fatal"])
       ELSE Becomes(c, [s EXCEPT !.pc = "redirect_drain",
                                 !.cur = Redirected(s.cur, status, uri)])
    /\ UNCHANGED <<budget, deposited>>

NextHop(c) ==
    LET s == call[c] IN
    /\ s.pc = "redirect_drain"
    /\ Becomes(c, IF s.hops = 0
                  THEN [s EXCEPT !.pc = "decide", !.result = "fatal"]
                  ELSE [s EXCEPT !.pc = "hop", !.hops = @ - 1])
    /\ UNCHANGED <<budget, deposited>>
-----------------------------------------------------------------------------
\* TimesOut without the permit's Drop.
TimesOutLeaking(c) ==
    LET s == call[c] IN
    /\ s.pc \in Awaits
    /\ Becomes(c, [s EXCEPT !.pc = "decide", !.result = "lost", !.eligible = FALSE])
    /\ UNCHANGED <<budget, deposited>>

\* The attempt's timeout drops execute_send, and its permit with it.
TimesOut(c) ==
    LET s == call[c] IN
    /\ s.pc \in Awaits
    /\ budget' = IF s.eligible THEN Refunded(s, 1) ELSE budget
    /\ Becomes(c, [s EXCEPT !.pc = "decide", !.result = "lost", !.eligible = FALSE,
                            !.denied = @ /\ ~s.eligible])
    /\ UNCHANGED deposited

\* A retry that is not counted.
RetryingUncounted(s) ==
    [s EXCEPT !.pc = "backoff", !.reserved = TRUE, !.denied = FALSE,
              !.pending = s.snapshot]

\* The fields a started retry leaves: try_start_retry and the queued snapshot.
Retrying(s) ==
    [s EXCEPT !.pc = "backoff", !.attempt = @ + 1, !.reserved = TRUE, !.denied = FALSE,
              !.pending = s.snapshot]

\* Whether the loop tries to start a retry: the default classification.
WantsRetry(s) ==
    /\ s.result \in {"5xx", "lost"}
    /\ Idempotent(s.method)
    /\ s.snapshot # NoRequest

\* The end of the loop's body: start a retry, or give the result to the caller.
\* A response deposits unless the budget denied; the state's Drop then refunds.
Decide(c) ==
    LET s == call[c]
        denied == IF WantsRetry(s) THEN CanStart(s) /\ ~Affords(s) ELSE s.denied
        gain == IF s.budgeted /\ s.result \in {"ok", "5xx"} /\ ~denied
                THEN Filled(DepositAmount) - budget ELSE 0
    IN
    /\ s.pc = "decide"
    /\ IF WantsRetry(s) /\ CanStart(s) /\ Affords(s)
       THEN /\ budget' = Withdrawn(s)
            /\ Becomes(c, Retrying(s))
            /\ UNCHANGED deposited
       ELSE /\ deposited' = deposited + gain
            /\ budget' = Refunded(s, gain + Held(s))
            /\ Becomes(c, [s EXCEPT !.pc = "done", !.denied = denied, !.reserved = FALSE])

Backoff(c) ==
    /\ call[c].pc = "backoff"
    /\ Becomes(c, [call[c] EXCEPT !.pc = "start"])
    /\ UNCHANGED <<budget, deposited>>

\* The caller drops the call: FinalizedRequestState's Drop.
Cancel(c) ==
    LET s == call[c] IN
    /\ s.pc \in Awaits \cup {"backoff"}
    /\ budget' = Refunded(s, Held(s))
    /\ Becomes(c, [s EXCEPT !.pc = "done", !.result = "cancelled", !.eligible = FALSE,
                            !.reserved = FALSE, !.pending = NoRequest])
    /\ UNCHANGED deposited

ExecuteNext == \E c \in Calls :
    \/ Prepare(c) \/ Replay(c) \/ Sign(c) \/ SignFails(c)
    \/ \E result \in {"ok", "fatal"} : PrepareEnds(c, result)
    \/ \E error \in {"lost", "fatal"} : WireFails(c, error) \/ DrainFails(c, error)
    \/ \E status \in {"ok", "5xx"} : Answered(c, status)
    \/ \E status \in {"303", "307"}, uri \in Uris : Redirect(c, status, uri)
    \/ StaleIfError(c) \/ Challenged(c) \/ Drained(c) \/ DigestSign(c) \/ NextHop(c)
    \/ TimesOut(c) \/ Decide(c) \/ Backoff(c) \/ Cancel(c)

\* A future that can go on is polled, and timers fire: the server owes nothing.
ExecuteFairness == \A c \in Calls :
    /\ WF_executeVars(Prepare(c) \/ Replay(c) \/ Decide(c) \/ Backoff(c))
    /\ WF_executeVars(TimesOut(c))

ExecuteSpec == ExecuteInit /\ [][ExecuteNext]_executeVars /\ ExecuteFairness
-----------------------------------------------------------------------------
\* The tokens each call of the budget has spent on its retries or holds for one.
Out(s) == IF s.budgeted THEN s.paid + Held(s) ELSE 0
TokensOut == UNION {{c} \X (1..Out(call[c])) : c \in Calls}

\* A retry token is spent on a retry or comes back, whatever await the attempt
\* or the call is dropped at: the budget lacks no more than the calls spent and
\* hold, and has gained no more than was deposited.
TokensKept ==
    LET out == Cardinality(TokensOut)
    IN  /\ budget >= RetryTokens - out
        /\ budget <= RetryTokens - out + deposited

\* What the loop queues for a retry is the very request that failed, never one
\* of another hop, and never one that must not be sent twice.
RetriesSafe == \A c \in Calls :
    call[c].pending # NoRequest =>
        /\ call[c].pending = call[c].wire
        /\ Idempotent(call[c].pending.method)

\* Credentials and cookies go on the wire only to the origin they are for,
\* through redirects, challenges and replays.
CredentialsStayHome == \A c \in Calls :
    call[c].wire # NoRequest =>
        call[c].wire.secrets \subseteq {OriginOf[call[c].wire.uri]}

\* Every call comes to an end although no server owes an answer.
CallsEnd == \A c \in Calls : <>(call[c].pc = "done")
=============================================================================
