--------------------------- MODULE ExecuteProofs ---------------------------
(***************************************************************************)
(* Proofs about the loop of redirects, challenges and retries: TokensKept, *)
(* RetriesSafe and CredentialsStayHome, for any number of calls sharing    *)
(* the budget, any URIs, any budget and any limits.                        *)
(***************************************************************************)
EXTENDS Execute, FiniteSetTheorems, TLAPS

MaybeRequest == Requests \cup {NoRequest}

Places == Awaits \cup {"start", "hop", "decide", "backoff", "done"}

Results == {"none", "ok", "5xx", "lost", "fatal", "cancelled"}

Methods == {"GET", "POST"}

CallState ==
    [pc : Places, cur : Requests,
     hops : Nat, wire : MaybeRequest, method : Methods, snapshot : MaybeRequest,
     pending : MaybeRequest, attempt : Nat, eligible : BOOLEAN, reserved : BOOLEAN,
     denied : BOOLEAN, budgeted : BOOLEAN, paid : Nat,
     result : Results]

\* The permit lives while a challenge is drained, and becomes the reservation of
\* the request that is signed then; a queued replay is always paid for.
ReservationHeld(s) ==
    /\ s.pc = "drain" => s.eligible /\ ~s.reserved
    /\ s.eligible => s.pc = "drain"
    /\ s.pc = "digest_sign" => s.reserved
    /\ s.pending # NoRequest => s.reserved /\ s.pc \in {"start", "backoff"}

\* A call goes through with no more retries than it counts, and counts no more
\* than it may start.
RetriesCounted(s) ==
    /\ s.paid + (IF s.reserved THEN 1 ELSE 0) <= s.attempt
    /\ s.attempt + (IF s.eligible THEN 1 ELSE 0) <= MaxRetries
    /\ s.hops <= MaxRedirects

\* The snapshot is what went on the wire last, under the method the loop looks at.
SnapshotSent(s) ==
    /\ s.snapshot # NoRequest => s.snapshot = s.wire /\ s.snapshot.method = s.method
    /\ s.pc \in {"wire", "stale_drain", "drain", "digest_sign", "digest_wire"} =>
            s.cur.method = s.method
    /\ s.pending # NoRequest => s.pending = s.wire /\ Idempotent(s.pending.method)

\* A request carries only the secrets of where it goes.
SecretsHome(s) ==
    /\ s.cur.secrets \subseteq {OriginOf[s.cur.uri]}
    /\ s.wire # NoRequest => s.wire.secrets \subseteq {OriginOf[s.wire.uri]}

CallOK(s) ==
    /\ s \in CallState /\ ReservationHeld(s) /\ RetriesCounted(s)
    /\ SnapshotSent(s) /\ SecretsHome(s)

BudgetOK ==
    /\ budget \in 0..RetryTokens /\ deposited \in Nat
    /\ IsFiniteSet(TokensOut) /\ TokensKept

ExecuteInv ==
    /\ BudgetOK
    /\ call \in [Calls -> CallState]
    /\ \A c \in Calls : CallOK(call[c])
-----------------------------------------------------------------------------
(***************************************************************************)
(* Counting tokens.                                                        *)
(***************************************************************************)
\* One call accounts for as many tokens as Out says.
LEMMA TokensOfOne ==
  ASSUME NEW c, NEW n \in Nat
  PROVE  IsFiniteSet({c} \X (1..n)) /\ Cardinality({c} \X (1..n)) = n
<1> DEFINE f == [i \in 1..n |-> <<c, i>>]
<1>1. /\ f \in [1..n -> {c} \X (1..n)]
      /\ \A i, j \in 1..n : f[i] = f[j] => i = j
  OBVIOUS
<1>2. \A p \in {c} \X (1..n) : \E i \in 1..n : f[i] = p
  OBVIOUS
<1>3. f \in Bijection(1..n, {c} \X (1..n))
  BY <1>1, <1>2 DEF Bijection, Injection, Surjection, IsInjective
<1>4. ExistsBijection(1..n, {c} \X (1..n))
  BY <1>3, Zenon DEF ExistsBijection
<1>5. IsFiniteSet(1..n) /\ Cardinality(1..n) = n
  BY FS_Interval
<1> QED BY <1>4, <1>5, FS_Bijection

\* Two sets with nothing in common count together.
LEMMA DisjointCount ==
  ASSUME NEW S, NEW T, IsFiniteSet(S), IsFiniteSet(T), S \cap T = {}
  PROVE  /\ IsFiniteSet(S \cup T) /\ Cardinality(S) \in Nat /\ Cardinality(T) \in Nat
         /\ Cardinality(S \cup T) = Cardinality(S) + Cardinality(T)
<1>1. Cardinality(S \cap T) = 0
  BY FS_EmptySet
<1>2. Cardinality(S) \in Nat /\ Cardinality(T) \in Nat
  BY FS_CardinalityType
<1>3. /\ IsFiniteSet(S \cup T)
      /\ Cardinality(S \cup T) = Cardinality(S) + Cardinality(T) - Cardinality(S \cap T)
  BY FS_Union
<1> QED BY <1>1, <1>2, <1>3

\* Tokens out change by what one call's share changes.
LEMMA TokensStep ==
  ASSUME NEW c \in Calls, NEW s1, call \in [Calls -> CallState],
         call' = [call EXCEPT ![c] = s1],
         Out(call[c]) \in Nat, Out(s1) \in Nat, IsFiniteSet(TokensOut)
  PROVE  /\ IsFiniteSet(TokensOut') /\ Cardinality(TokensOut) \in Nat
         /\ Cardinality(TokensOut') \in Nat
         /\ Cardinality(TokensOut') + Out(call[c]) = Cardinality(TokensOut) + Out(s1)
<1> DEFINE Mine == {c} \X (1..Out(call[c]))
           Next1 == {c} \X (1..Out(s1))
           Rest == UNION {{d} \X (1..Out(call[d])) : d \in Calls \ {c}}
<1>1. TokensOut = Rest \cup Mine /\ Rest \cap Mine = {}
  BY DEF TokensOut
<1>2. \A d \in Calls : call'[d] = IF d = c THEN s1 ELSE call[d]
  OBVIOUS
<1>3. TokensOut' = UNION {{d} \X (1..Out(call'[d])) : d \in Calls}
  BY DEF TokensOut, Out, Held
<1>4. TokensOut' = Rest \cup Next1 /\ Rest \cap Next1 = {}
  BY <1>2, <1>3
<1>5. Rest \in SUBSET TokensOut
  BY <1>1
<1>6. IsFiniteSet(Rest)
  BY <1>5, FS_Subset
<1>7. /\ IsFiniteSet(Mine) /\ Cardinality(Mine) = Out(call[c])
      /\ IsFiniteSet(Next1) /\ Cardinality(Next1) = Out(s1)
  BY TokensOfOne
<1> HIDE DEF Mine, Next1, Rest
<1>8. Cardinality(TokensOut) = Cardinality(Rest) + Out(call[c]) /\ Cardinality(Rest) \in Nat
  BY <1>1, <1>6, <1>7, DisjointCount
<1>9. IsFiniteSet(TokensOut') /\ Cardinality(TokensOut') = Cardinality(Rest) + Out(s1)
  BY <1>4, <1>6, <1>7, DisjointCount
<1> QED BY <1>8, <1>9

\* A call's share is a natural number.
LEMMA OutType ==
  ASSUME NEW s \in CallState
  PROVE  Held(s) \in Nat /\ Out(s) \in Nat
BY DEF CallState, Held, Out

\* The arithmetic of the next lemma.
LEMMA BudgetMoves ==
  ASSUME NEW r \in Nat, NEW b0 \in Nat, NEW b1 \in Nat, NEW d0 \in Nat, NEW d1 \in Nat,
         NEW n0 \in Nat, NEW n1 \in Nat, NEW o0 \in Nat, NEW o1 \in Nat,
         n1 + o0 = n0 + o1, b1 = r \/ b1 + o1 >= b0 + o0,
         b1 + o1 + d0 <= b0 + o0 + d1,
         b0 >= r - n0, b0 <= r - n0 + d0
  PROVE  b1 >= r - n1 /\ b1 <= r - n1 + d1
OBVIOUS

\* A step of one call keeps the invariant when it leaves the call in order and
\* the budget moves against the call's share, but for a deposit and the limit.
LEMMA StepKeeps ==
  ASSUME ExecuteInv, NEW c \in Calls, NEW s1, Becomes(c, s1), CallOK(s1),
         budget' \in 0..RetryTokens, deposited' \in Nat, deposited' >= deposited,
         budget' = RetryTokens \/ budget' + Out(s1) >= budget + Out(call[c]),
         budget' + Out(s1) + deposited <= budget + Out(call[c]) + deposited'
  PROVE  ExecuteInv'
<1>1. /\ budget \in 0..RetryTokens /\ deposited \in Nat /\ call \in [Calls -> CallState]
      /\ IsFiniteSet(TokensOut) /\ TokensKept /\ RetryTokens \in Nat
  BY ExecuteAssumption DEF ExecuteInv, BudgetOK
<1>2. call' = [call EXCEPT ![c] = s1] /\ s1 \in CallState
  BY DEF Becomes, CallOK
<1>3. Out(call[c]) \in Nat /\ Out(s1) \in Nat
  BY <1>1, <1>2, OutType
<1>4. /\ IsFiniteSet(TokensOut') /\ Cardinality(TokensOut) \in Nat
      /\ Cardinality(TokensOut') \in Nat
      /\ Cardinality(TokensOut') + Out(call[c]) = Cardinality(TokensOut) + Out(s1)
  BY <1>1, <1>2, <1>3, TokensStep
<1> DEFINE n0 == Cardinality(TokensOut)
           n1 == Cardinality(TokensOut')
<1>5. budget >= RetryTokens - n0 /\ budget <= RetryTokens - n0 + deposited
  BY <1>1 DEF TokensKept
<1> HIDE DEF n0, n1
<1>6. n0 \in Nat /\ n1 \in Nat /\ n1 + Out(call[c]) = n0 + Out(s1)
  BY <1>4 DEF n0, n1
<1>7. budget' >= RetryTokens - n1 /\ budget' <= RetryTokens - n1 + deposited'
  <2>1. budget \in Nat /\ budget' \in Nat
    BY <1>1
  <2> QED BY <1>1, <1>3, <1>5, <1>6, <2>1, BudgetMoves, ZenonT(60)
<1>8. TokensKept'
  BY <1>7 DEF TokensKept, n1
<1>9. BudgetOK'
  BY <1>4, <1>8 DEF BudgetOK
<1>10. call' \in [Calls -> CallState] /\ \A d \in Calls : CallOK(call'[d])
  BY <1>1, <1>2 DEF ExecuteInv
<1> QED BY <1>9, <1>10 DEF ExecuteInv

\* A step that touches neither budget nor share.
LEMMA QuietStepKeeps ==
  ASSUME ExecuteInv, NEW c \in Calls, NEW s1, Becomes(c, s1), CallOK(s1),
         Out(s1) = Out(call[c]), UNCHANGED <<budget, deposited>>
  PROVE  ExecuteInv'
<1>1. /\ budget \in 0..RetryTokens /\ deposited \in Nat /\ RetryTokens \in Nat
      /\ Out(call[c]) \in Nat
  BY OutType, ExecuteAssumption DEF ExecuteInv, BudgetOK
<1> QED BY <1>1, StepKeeps
-----------------------------------------------------------------------------
(***************************************************************************)
(* Requests.                                                               *)
(***************************************************************************)
\* Where a request goes and how.
LEMMA RequestParts ==
  ASSUME NEW r \in Requests
  PROVE  r.uri \in Uris /\ r.method \in Methods /\ OriginOf[r.uri] \in Origins
BY DEF Requests, Origins, Methods

\* A request given other secrets of its own origin.
LEMMA RequestSecrets ==
  ASSUME NEW r \in Requests, NEW x \in SUBSET Origins
  PROVE  LET q == [r EXCEPT !.secrets = x]
         IN  q \in Requests /\ q.uri = r.uri /\ q.method = r.method /\ q.secrets = x
BY DEF Requests

\* A redirected request takes no secret to another origin.
LEMMA RedirectedHome ==
  ASSUME NEW r \in Requests, r.secrets \subseteq {OriginOf[r.uri]},
         NEW status \in {"303", "307"}, NEW uri \in Uris
  PROVE  /\ Redirected(r, status, uri) \in Requests
         /\ Redirected(r, status, uri).secrets
              \subseteq {OriginOf[Redirected(r, status, uri).uri]}
<1> DEFINE q == Redirected(r, status, uri)
           m == IF status = "303" THEN "GET" ELSE r.method
           b == IF status = "307" /\ r.body = "buffered" THEN r.body ELSE "empty"
           x == IF OriginOf[r.uri] = OriginOf[uri] THEN r.secrets ELSE {}
<1>1. /\ m \in {"GET", "POST"} /\ b \in {"empty", "buffered", "oneshot"}
      /\ x \in SUBSET Origins /\ x \subseteq {OriginOf[uri]}
  BY DEF Requests
<1>2. q = [r EXCEPT !.uri = uri, !.method = m, !.body = b, !.secrets = x]
  BY DEF Redirected
<1> HIDE DEF m, b, x
<1>3. q \in Requests /\ q.uri = uri /\ q.secrets = x
  BY <1>1, <1>2 DEF Requests
<1> QED BY <1>1, <1>3

-----------------------------------------------------------------------------
(***************************************************************************)
(* Each step of a call leaves it in order.                                 *)
(***************************************************************************)
\* A step that only moves on, with a result, between attempts.
LEMMA MovesOK ==
  ASSUME NEW s, CallOK(s), NEW place \in {"decide", "stale_drain"},
         NEW result \in Results,
         s.pc \in Awaits \ {"drain"}, place = "stale_drain" => s.pc = "wire"
  PROVE  LET t == [s EXCEPT !.pc = place, !.result = result]
         IN  CallOK(t) /\ Out(t) = Out(s)
<1> DEFINE t == [s EXCEPT !.pc = place, !.result = result]
<1>0. place \in Places
  BY DEF Places, Awaits
<1>1. t \in CallState
  BY <1>0 DEF CallOK, CallState
<1>2. /\ t.pc = place /\ t.cur = s.cur /\ t.hops = s.hops /\ t.wire = s.wire
      /\ t.method = s.method /\ t.snapshot = s.snapshot /\ t.pending = s.pending
      /\ t.attempt = s.attempt /\ t.eligible = s.eligible /\ t.reserved = s.reserved
      /\ t.budgeted = s.budgeted /\ t.paid = s.paid
  BY DEF CallOK, CallState
<1> HIDE DEF t
<1>3. s.pending = NoRequest /\ ~s.eligible
  BY DEF CallOK, ReservationHeld, Awaits
<1>4. ReservationHeld(t) /\ RetriesCounted(t) /\ SecretsHome(t)
  BY <1>2, <1>3 DEF CallOK, ReservationHeld, RetriesCounted, SecretsHome
<1>5. SnapshotSent(t)
  BY <1>2, <1>3 DEF CallOK, SnapshotSent
<1>6. Out(t) = Out(s)
  BY <1>2 DEF Out, Held
<1> QED BY <1>1, <1>4, <1>5, <1>6 DEF CallOK, t

\* Other steps between attempts: the response is read off, the loop goes on to
\* the next hop, and a backoff is over.
LEMMA PlaceOK ==
  ASSUME NEW s, CallOK(s), NEW place,
         \/ s.pc = "wire" /\ place = "stale_drain"
         \/ s.pc = "backoff" /\ place = "start"
  PROVE  LET t == [s EXCEPT !.pc = place]
         IN  CallOK(t) /\ Out(t) = Out(s)
<1> DEFINE t == [s EXCEPT !.pc = place]
<1>1. place \in Places
  BY DEF Places, Awaits
<1>2. t \in CallState
  BY <1>1 DEF CallOK, CallState
<1>3. /\ t.pc = place /\ t.cur = s.cur /\ t.hops = s.hops /\ t.wire = s.wire
      /\ t.method = s.method /\ t.snapshot = s.snapshot /\ t.pending = s.pending
      /\ t.attempt = s.attempt /\ t.eligible = s.eligible /\ t.reserved = s.reserved
      /\ t.budgeted = s.budgeted /\ t.paid = s.paid
  BY DEF CallOK, CallState
<1> HIDE DEF t
<1>4. ReservationHeld(t) /\ RetriesCounted(t) /\ SecretsHome(t)
  BY <1>3 DEF CallOK, ReservationHeld, RetriesCounted, SecretsHome
<1>5. SnapshotSent(t)
  BY <1>3 DEF CallOK, SnapshotSent
<1>6. Out(t) = Out(s)
  BY <1>3 DEF Out, Held
<1> QED BY <1>2, <1>4, <1>5, <1>6 DEF CallOK, t

\* NextHop with hops left.
LEMMA HopOK ==
  ASSUME NEW s, CallOK(s), s.pc = "redirect_drain", s.hops # 0
  PROVE  LET t == [s EXCEPT !.pc = "hop", !.hops = s.hops - 1]
         IN  CallOK(t) /\ Out(t) = Out(s)
<1> DEFINE h == s.hops - 1
           t == [s EXCEPT !.pc = "hop", !.hops = h]
<1>1. "hop" \in Places /\ h \in Nat /\ h <= s.hops /\ s.hops \in Nat
  BY DEF Places, CallOK, CallState
<1> HIDE DEF h
<1>2. t \in CallState
  BY <1>1 DEF CallOK, CallState
<1>3. /\ t.pc = "hop" /\ t.cur = s.cur /\ t.hops = h /\ t.wire = s.wire
      /\ t.method = s.method /\ t.snapshot = s.snapshot /\ t.pending = s.pending
      /\ t.attempt = s.attempt /\ t.eligible = s.eligible /\ t.reserved = s.reserved
      /\ t.budgeted = s.budgeted /\ t.paid = s.paid
  BY DEF CallOK, CallState
<1> HIDE DEF t
<1>4. ReservationHeld(t) /\ SecretsHome(t)
  BY <1>3 DEF CallOK, ReservationHeld, SecretsHome
<1>5. RetriesCounted(t)
  BY <1>1, <1>3, ExecuteAssumption DEF CallOK, RetriesCounted
<1>6. SnapshotSent(t)
  BY <1>3 DEF CallOK, SnapshotSent
<1>7. Out(t) = Out(s)
  BY <1>3 DEF Out, Held
<1> QED BY <1>2, <1>4, <1>5, <1>6, <1>7 DEF CallOK, t, h

\* Prepare: the snapshot is forgotten before anything else can happen.
LEMMA PrepareOK ==
  ASSUME NEW s, CallOK(s), s.pc \in {"start", "hop"}, s.pending = NoRequest,
         NEW x \in {s.cur.secrets, s.cur.secrets \cup {OriginOf[s.cur.uri]}}
  PROVE  LET t == [s EXCEPT !.pc = "sign", !.snapshot = NoRequest, !.method = s.cur.method,
                            !.cur.secrets = x]
         IN  CallOK(t) /\ Out(t) = Out(s)
<1> DEFINE m == s.cur.method
           r == [s.cur EXCEPT !.secrets = x]
           t == [s EXCEPT !.pc = "sign", !.snapshot = NoRequest, !.method = m,
                          !.cur.secrets = x]
<1>1. s.cur \in Requests /\ s.cur.secrets \subseteq {OriginOf[s.cur.uri]}
  BY DEF CallOK, CallState, SecretsHome
<1>2. m \in Methods /\ OriginOf[s.cur.uri] \in Origins
  BY <1>1, RequestParts
<1>3. x \in SUBSET Origins /\ x \subseteq {OriginOf[s.cur.uri]}
  BY <1>1, <1>2
<1>4. /\ r \in Requests /\ r.uri = s.cur.uri /\ r.secrets = x
  BY <1>1, <1>3, RequestSecrets
<1>5. t = [s EXCEPT !.pc = "sign", !.snapshot = NoRequest, !.method = m, !.cur = r]
  BY DEF CallOK, CallState
<1>6. "sign" \in Places /\ NoRequest \in MaybeRequest
  BY DEF Places, Awaits, MaybeRequest
<1> HIDE DEF m, r, t
<1>7. t \in CallState
  BY <1>2, <1>4, <1>5, <1>6 DEF CallOK, CallState
<1>8. /\ t.pc = "sign" /\ t.cur = r /\ t.hops = s.hops /\ t.wire = s.wire
      /\ t.method = m /\ t.snapshot = NoRequest /\ t.pending = s.pending
      /\ t.attempt = s.attempt /\ t.eligible = s.eligible /\ t.reserved = s.reserved
      /\ t.budgeted = s.budgeted /\ t.paid = s.paid
  BY <1>5 DEF CallOK, CallState
<1>9. ReservationHeld(t) /\ RetriesCounted(t) /\ SnapshotSent(t)
  BY <1>8 DEF CallOK, ReservationHeld, RetriesCounted, SnapshotSent
<1>10. SecretsHome(t)
  BY <1>3, <1>4, <1>8 DEF CallOK, SecretsHome
<1>11. Out(t) = Out(s)
  BY <1>8 DEF Out, Held
<1> QED BY <1>7, <1>9, <1>10, <1>11 DEF CallOK, t, m

\* PrepareEnds.
LEMMA PrepareEndsOK ==
  ASSUME NEW s, CallOK(s), s.pc \in {"start", "hop"}, s.pending = NoRequest,
         NEW result \in Results
  PROVE  LET t == [s EXCEPT !.pc = "decide", !.snapshot = NoRequest, !.method = s.cur.method,
                            !.result = result]
         IN  CallOK(t) /\ Out(t) = Out(s)
<1> DEFINE m == s.cur.method
           t == [s EXCEPT !.pc = "decide", !.snapshot = NoRequest, !.method = m,
                          !.result = result]
<1>1. s.cur \in Requests
  BY DEF CallOK, CallState
<1>2. m \in Methods /\ "decide" \in Places /\ NoRequest \in MaybeRequest
  BY <1>1, RequestParts DEF Places, MaybeRequest
<1> HIDE DEF m
<1>3. t \in CallState
  BY <1>2 DEF CallOK, CallState
<1>4. /\ t.pc = "decide" /\ t.cur = s.cur /\ t.hops = s.hops /\ t.wire = s.wire
      /\ t.method = m /\ t.snapshot = NoRequest /\ t.pending = s.pending
      /\ t.attempt = s.attempt /\ t.eligible = s.eligible /\ t.reserved = s.reserved
      /\ t.budgeted = s.budgeted /\ t.paid = s.paid
  BY DEF CallOK, CallState
<1> HIDE DEF t
<1>5. ReservationHeld(t) /\ RetriesCounted(t) /\ SnapshotSent(t) /\ SecretsHome(t)
  BY <1>4 DEF CallOK, ReservationHeld, RetriesCounted, SnapshotSent, SecretsHome
<1>6. Out(t) = Out(s)
  BY <1>4 DEF Out, Held
<1> QED BY <1>3, <1>5, <1>6 DEF CallOK, t, m

\* Sign: what goes on the wire is captured, unless its body cannot be sent twice.
LEMMA SignOK ==
  ASSUME NEW s, CallOK(s), s.pc = "sign"
  PROVE  LET t == [s EXCEPT !.pc = "wire", !.wire = s.cur, !.method = s.cur.method,
                            !.snapshot = Capture(s.cur)]
         IN  CallOK(t) /\ Out(t) = Out(s)
<1> DEFINE m == s.cur.method
           snap == Capture(s.cur)
           t == [s EXCEPT !.pc = "wire", !.wire = s.cur, !.method = m, !.snapshot = snap]
<1>1. s.cur \in Requests /\ s.cur \in MaybeRequest
  BY DEF CallOK, CallState, MaybeRequest
<1>2. m \in Methods /\ "wire" \in Places
  BY <1>1, RequestParts DEF Places, Awaits
<1>3. snap \in MaybeRequest /\ (snap = s.cur \/ snap = NoRequest)
  BY <1>1 DEF Capture, MaybeRequest
<1>4. m = s.cur.method
  OBVIOUS
<1> HIDE DEF m, snap
<1>5. t \in CallState
  BY <1>1, <1>2, <1>3 DEF CallOK, CallState
<1>6. /\ t.pc = "wire" /\ t.cur = s.cur /\ t.hops = s.hops /\ t.wire = s.cur
      /\ t.method = m /\ t.snapshot = snap /\ t.pending = s.pending
      /\ t.attempt = s.attempt /\ t.eligible = s.eligible /\ t.reserved = s.reserved
      /\ t.budgeted = s.budgeted /\ t.paid = s.paid
  BY DEF CallOK, CallState
<1> HIDE DEF t
<1>7. s.pending = NoRequest
  BY DEF CallOK, ReservationHeld
<1>8. ReservationHeld(t) /\ RetriesCounted(t) /\ SecretsHome(t)
  BY <1>6 DEF CallOK, ReservationHeld, RetriesCounted, SecretsHome
<1>9. SnapshotSent(t)
  BY <1>3, <1>4, <1>6, <1>7 DEF SnapshotSent
<1>10. Out(t) = Out(s)
  BY <1>6 DEF Out, Held
<1> QED BY <1>5, <1>8, <1>9, <1>10 DEF CallOK, t, m, snap

\* Replay: the reservation is committed, so the call's share stays.
LEMMA ReplayOK ==
  ASSUME NEW s, CallOK(s), s.pc = "start", s.pending # NoRequest,
         NEW x \in {s.pending.secrets \ {OriginOf[s.pending.uri]},
                    s.pending.secrets \cup {OriginOf[s.pending.uri]}}
  PROVE  LET t == [s EXCEPT !.pc = "sign", !.hops = MaxRedirects,
                            !.cur = [s.pending EXCEPT !.secrets = x],
                            !.pending = NoRequest, !.reserved = FALSE, !.paid = Spent(s)]
         IN  CallOK(t) /\ Out(t) = Out(s)
<1> DEFINE r == [s.pending EXCEPT !.secrets = x]
           n == Spent(s)
           t == [s EXCEPT !.pc = "sign", !.hops = MaxRedirects, !.cur = r,
                          !.pending = NoRequest, !.reserved = FALSE, !.paid = n]
<1>1. /\ s.pending \in Requests /\ s.pending = s.wire
      /\ s.pending.secrets \subseteq {OriginOf[s.pending.uri]}
  BY DEF CallOK, CallState, MaybeRequest, SnapshotSent, SecretsHome
<1>2. x \in SUBSET Origins /\ x \subseteq {OriginOf[s.pending.uri]}
  BY <1>1, RequestParts
<1>3. r \in Requests /\ r.uri = s.pending.uri /\ r.secrets = x
  BY <1>1, <1>2, RequestSecrets
<1>4. /\ s.paid \in Nat /\ s.attempt \in Nat /\ s.eligible \in BOOLEAN
      /\ s.reserved /\ ~s.eligible /\ s.budgeted \in BOOLEAN
  BY DEF CallOK, CallState, ReservationHeld
<1>5. n \in Nat /\ n <= s.attempt /\ s.attempt <= MaxRetries
  BY <1>4, ExecuteAssumption DEF Spent, CallOK, RetriesCounted
<1>6. n = IF s.budgeted THEN s.paid + 1 ELSE s.paid
  BY DEF Spent
<1>7. "sign" \in Places /\ NoRequest \in MaybeRequest /\ MaxRedirects \in Nat
  BY ExecuteAssumption DEF Places, Awaits, MaybeRequest
<1> HIDE DEF r, n
<1>8. t \in CallState
  BY <1>3, <1>5, <1>7 DEF CallOK, CallState
<1>9. /\ t.pc = "sign" /\ t.cur = r /\ t.hops = MaxRedirects /\ t.wire = s.wire
      /\ t.method = s.method /\ t.snapshot = s.snapshot /\ t.pending = NoRequest
      /\ t.attempt = s.attempt /\ t.eligible = s.eligible /\ t.reserved = FALSE
      /\ t.budgeted = s.budgeted /\ t.paid = n
  BY DEF CallOK, CallState
<1> HIDE DEF t
<1>10. ReservationHeld(t)
  BY <1>4, <1>9 DEF ReservationHeld
<1>11. RetriesCounted(t)
  BY <1>4, <1>5, <1>7, <1>9 DEF RetriesCounted
<1>12. SnapshotSent(t)
  BY <1>9 DEF CallOK, SnapshotSent
<1>13. SecretsHome(t)
  BY <1>2, <1>3, <1>9 DEF CallOK, SecretsHome
<1>14. Out(t) = Out(s)
  BY <1>4, <1>6, <1>9 DEF Out, Held
<1> QED BY <1>8, <1>10, <1>11, <1>12, <1>13, <1>14 DEF CallOK, t, r, n

\* Challenged, with a permit: one token more is out.
LEMMA ChallengedOK ==
  ASSUME NEW s, CallOK(s), s.pc = "wire", CanStart(s)
  PROVE  LET t == [s EXCEPT !.pc = "drain", !.eligible = TRUE, !.denied = FALSE]
         IN  CallOK(t) /\ Out(t) = (IF s.budgeted THEN Out(s) + 1 ELSE Out(s))
<1> DEFINE t == [s EXCEPT !.pc = "drain", !.eligible = TRUE, !.denied = FALSE]
<1>1. "drain" \in Places
  BY DEF Places, Awaits
<1>2. t \in CallState
  BY <1>1 DEF CallOK, CallState
<1>3. /\ t.pc = "drain" /\ t.cur = s.cur /\ t.hops = s.hops /\ t.wire = s.wire
      /\ t.method = s.method /\ t.snapshot = s.snapshot /\ t.pending = s.pending
      /\ t.attempt = s.attempt /\ t.eligible = TRUE /\ t.reserved = s.reserved
      /\ t.budgeted = s.budgeted /\ t.paid = s.paid
  BY DEF CallOK, CallState
<1> HIDE DEF t
<1>4. /\ ~s.eligible /\ ~s.reserved /\ s.attempt < MaxRetries /\ s.attempt \in Nat
      /\ MaxRetries \in Nat /\ s.paid \in Nat
  BY ExecuteAssumption DEF CanStart, CallOK, CallState
<1>5. ReservationHeld(t) /\ SecretsHome(t)
  BY <1>3, <1>4 DEF CallOK, ReservationHeld, SecretsHome
<1>6. RetriesCounted(t)
  BY <1>3, <1>4 DEF CallOK, RetriesCounted
<1>7. SnapshotSent(t)
  BY <1>3 DEF CallOK, SnapshotSent
<1>8. Out(t) = (IF s.budgeted THEN Out(s) + 1 ELSE Out(s))
  BY <1>3, <1>4 DEF Out, Held
<1> QED BY <1>2, <1>5, <1>6, <1>7, <1>8 DEF CallOK, t

\* Challenged, without one: the challenge is the answer.
LEMMA UnansweredOK ==
  ASSUME NEW s, CallOK(s), s.pc = "wire", NEW d \in BOOLEAN
  PROVE  LET t == [s EXCEPT !.pc = "decide", !.result = "ok", !.denied = d]
         IN  CallOK(t) /\ Out(t) = Out(s)
<1> DEFINE t == [s EXCEPT !.pc = "decide", !.result = "ok", !.denied = d]
<1>1. "decide" \in Places /\ "ok" \in Results
  BY DEF Places, Results
<1>2. t \in CallState
  BY <1>1 DEF CallOK, CallState
<1>3. /\ t.pc = "decide" /\ t.cur = s.cur /\ t.hops = s.hops /\ t.wire = s.wire
      /\ t.method = s.method /\ t.snapshot = s.snapshot /\ t.pending = s.pending
      /\ t.attempt = s.attempt /\ t.eligible = s.eligible /\ t.reserved = s.reserved
      /\ t.budgeted = s.budgeted /\ t.paid = s.paid
  BY DEF CallOK, CallState
<1> HIDE DEF t
<1>4. ReservationHeld(t) /\ RetriesCounted(t) /\ SecretsHome(t)
  BY <1>3 DEF CallOK, ReservationHeld, RetriesCounted, SecretsHome
<1>5. SnapshotSent(t)
  BY <1>3 DEF CallOK, SnapshotSent
<1>6. Out(t) = Out(s)
  BY <1>3 DEF Out, Held
<1> QED BY <1>2, <1>4, <1>5, <1>6 DEF CallOK, t

\* Drained: the permit becomes the reservation.
LEMMA DrainedOK ==
  ASSUME NEW s, CallOK(s), s.pc = "drain"
  PROVE  LET t == [s EXCEPT !.pc = "digest_sign", !.eligible = FALSE, !.reserved = TRUE,
                            !.attempt = s.attempt + 1,
                            !.cur.secrets = s.cur.secrets \cup {OriginOf[s.cur.uri]}]
         IN  CallOK(t) /\ Out(t) = Out(s)
<1> DEFINE x == s.cur.secrets \cup {OriginOf[s.cur.uri]}
           r == [s.cur EXCEPT !.secrets = x]
           n == s.attempt + 1
           t == [s EXCEPT !.pc = "digest_sign", !.eligible = FALSE, !.reserved = TRUE,
                          !.attempt = n, !.cur.secrets = x]
<1>1. s.cur \in Requests /\ s.cur.secrets \subseteq {OriginOf[s.cur.uri]}
  BY DEF CallOK, CallState, SecretsHome
<1>2. x \in SUBSET Origins /\ x \subseteq {OriginOf[s.cur.uri]}
  BY <1>1, RequestParts
<1>3. r \in Requests /\ r.uri = s.cur.uri /\ r.secrets = x /\ r.method = s.cur.method
  BY <1>1, <1>2, RequestSecrets
<1>4. t = [s EXCEPT !.pc = "digest_sign", !.eligible = FALSE, !.reserved = TRUE,
                    !.attempt = n, !.cur = r]
  BY DEF CallOK, CallState
<1>5. /\ s.eligible /\ ~s.reserved /\ s.attempt \in Nat /\ n = s.attempt + 1 /\ n \in Nat
      /\ s.paid \in Nat /\ MaxRetries \in Nat
      /\ s.cur.method = s.method /\ s.pending = NoRequest
  BY ExecuteAssumption DEF CallOK, CallState, ReservationHeld, SnapshotSent
<1>6. "digest_sign" \in Places
  BY DEF Places, Awaits
<1> HIDE DEF x, r, n, t
<1>7. t \in CallState
  BY <1>3, <1>4, <1>5, <1>6 DEF CallOK, CallState
<1>8. /\ t.pc = "digest_sign" /\ t.cur = r /\ t.hops = s.hops /\ t.wire = s.wire
      /\ t.method = s.method /\ t.snapshot = s.snapshot /\ t.pending = s.pending
      /\ t.attempt = n /\ t.eligible = FALSE /\ t.reserved = TRUE
      /\ t.budgeted = s.budgeted /\ t.paid = s.paid
  BY <1>4 DEF CallOK, CallState
<1>9. ReservationHeld(t)
  BY <1>5, <1>8 DEF ReservationHeld
<1>10. RetriesCounted(t)
  BY <1>5, <1>8 DEF CallOK, RetriesCounted
<1>11. SnapshotSent(t)
  BY <1>3, <1>5, <1>8 DEF CallOK, SnapshotSent
<1>12. SecretsHome(t)
  BY <1>2, <1>3, <1>8 DEF CallOK, SecretsHome
<1>13. Out(t) = Out(s)
  BY <1>5, <1>8 DEF Out, Held
<1> QED BY <1>7, <1>9, <1>10, <1>11, <1>12, <1>13 DEF CallOK, t, x, n

\* The permit is dropped: DrainFails, and TimesOut at any await.
LEMMA PermitDroppedOK ==
  ASSUME NEW s, CallOK(s), s.pc \in Awaits, NEW d \in BOOLEAN, NEW result \in Results
  PROVE  LET t == [s EXCEPT !.pc = "decide", !.result = result, !.eligible = FALSE,
                            !.denied = d]
         IN  CallOK(t) /\ Out(t) + (IF s.budgeted /\ s.eligible THEN 1 ELSE 0) = Out(s)
<1> DEFINE t == [s EXCEPT !.pc = "decide", !.result = result, !.eligible = FALSE,
                          !.denied = d]
<1>1. "decide" \in Places
  BY DEF Places
<1>2. t \in CallState
  BY <1>1 DEF CallOK, CallState
<1>3. /\ t.pc = "decide" /\ t.cur = s.cur /\ t.hops = s.hops /\ t.wire = s.wire
      /\ t.method = s.method /\ t.snapshot = s.snapshot /\ t.pending = s.pending
      /\ t.attempt = s.attempt /\ t.eligible = FALSE /\ t.reserved = s.reserved
      /\ t.budgeted = s.budgeted /\ t.paid = s.paid
  BY DEF CallOK, CallState
<1> HIDE DEF t
<1>4. /\ s.pending = NoRequest /\ s.attempt \in Nat /\ s.paid \in Nat /\ MaxRetries \in Nat
      /\ s.reserved \in BOOLEAN /\ s.eligible \in BOOLEAN
  BY ExecuteAssumption DEF CallOK, CallState, ReservationHeld, Awaits
<1>5. ReservationHeld(t) /\ SecretsHome(t)
  BY <1>3, <1>4 DEF CallOK, ReservationHeld, SecretsHome
<1>6. RetriesCounted(t)
  BY <1>3, <1>4 DEF CallOK, RetriesCounted
<1>7. SnapshotSent(t)
  BY <1>3, <1>4 DEF CallOK, SnapshotSent
<1>8. Out(t) + (IF s.budgeted /\ s.eligible THEN 1 ELSE 0) = Out(s)
  BY <1>3, <1>4 DEF Out, Held
<1> QED BY <1>2, <1>5, <1>6, <1>7, <1>8 DEF CallOK, t

\* DigestSign: the signed answer to the challenge is captured and committed.
LEMMA DigestSignOK ==
  ASSUME NEW s, CallOK(s), s.pc = "digest_sign"
  PROVE  LET t == [s EXCEPT !.pc = "digest_wire", !.wire = s.cur,
                            !.snapshot = Capture(s.cur), !.reserved = FALSE,
                            !.paid = Spent(s)]
         IN  CallOK(t) /\ Out(t) = Out(s)
<1> DEFINE snap == Capture(s.cur)
           n == Spent(s)
           t == [s EXCEPT !.pc = "digest_wire", !.wire = s.cur, !.snapshot = snap,
                          !.reserved = FALSE, !.paid = n]
<1>1. s.cur \in Requests /\ s.cur \in MaybeRequest /\ s.cur.method = s.method
  BY DEF CallOK, CallState, MaybeRequest, SnapshotSent
<1>2. snap \in MaybeRequest /\ (snap = s.cur \/ snap = NoRequest)
  BY <1>1 DEF Capture, MaybeRequest
<1>3. /\ s.paid \in Nat /\ s.attempt \in Nat /\ s.reserved /\ ~s.eligible
      /\ s.budgeted \in BOOLEAN /\ s.pending = NoRequest
  BY DEF CallOK, CallState, ReservationHeld
<1>4. n \in Nat /\ n <= s.attempt /\ s.attempt <= MaxRetries
  BY <1>3, ExecuteAssumption DEF Spent, CallOK, RetriesCounted
<1>5. n = IF s.budgeted THEN s.paid + 1 ELSE s.paid
  BY DEF Spent
<1>6. "digest_wire" \in Places /\ MaxRetries \in Nat
  BY ExecuteAssumption DEF Places, Awaits
<1> HIDE DEF snap, n
<1>7. t \in CallState
  BY <1>1, <1>2, <1>4, <1>6 DEF CallOK, CallState
<1>8. /\ t.pc = "digest_wire" /\ t.cur = s.cur /\ t.hops = s.hops /\ t.wire = s.cur
      /\ t.method = s.method /\ t.snapshot = snap /\ t.pending = s.pending
      /\ t.attempt = s.attempt /\ t.eligible = s.eligible /\ t.reserved = FALSE
      /\ t.budgeted = s.budgeted /\ t.paid = n
  BY DEF CallOK, CallState
<1> HIDE DEF t
<1>9. ReservationHeld(t) /\ SecretsHome(t)
  BY <1>3, <1>8 DEF CallOK, ReservationHeld, SecretsHome
<1>10. RetriesCounted(t)
  BY <1>3, <1>4, <1>6, <1>8 DEF CallOK, RetriesCounted
<1>11. SnapshotSent(t)
  BY <1>1, <1>2, <1>3, <1>8 DEF SnapshotSent
<1>12. Out(t) = Out(s)
  BY <1>3, <1>5, <1>8 DEF Out, Held
<1> QED BY <1>7, <1>9, <1>10, <1>11, <1>12 DEF CallOK, t, snap, n

\* A redirect that is followed: the next hop's request carries no secret of another origin.
LEMMA RedirectOK ==
  ASSUME NEW s, CallOK(s), s.pc \in {"wire", "digest_wire"},
         NEW status \in {"303", "307"}, NEW uri \in Uris
  PROVE  LET t == [s EXCEPT !.pc = "redirect_drain", !.cur = Redirected(s.cur, status, uri)]
         IN  CallOK(t) /\ Out(t) = Out(s)
<1> DEFINE r == Redirected(s.cur, status, uri)
           t == [s EXCEPT !.pc = "redirect_drain", !.cur = r]
<1>1. s.cur \in Requests /\ s.cur.secrets \subseteq {OriginOf[s.cur.uri]}
  BY DEF CallOK, CallState, SecretsHome
<1>2. r \in Requests /\ r.secrets \subseteq {OriginOf[r.uri]}
  BY <1>1, RedirectedHome
<1>3. "redirect_drain" \in Places
  BY DEF Places, Awaits
<1> HIDE DEF r
<1>4. t \in CallState
  BY <1>2, <1>3 DEF CallOK, CallState
<1>5. /\ t.pc = "redirect_drain" /\ t.cur = r /\ t.hops = s.hops /\ t.wire = s.wire
      /\ t.method = s.method /\ t.snapshot = s.snapshot /\ t.pending = s.pending
      /\ t.attempt = s.attempt /\ t.eligible = s.eligible /\ t.reserved = s.reserved
      /\ t.budgeted = s.budgeted /\ t.paid = s.paid
  BY DEF CallOK, CallState
<1> HIDE DEF t
<1>6. ReservationHeld(t) /\ RetriesCounted(t) /\ SnapshotSent(t)
  BY <1>5 DEF CallOK, ReservationHeld, RetriesCounted, SnapshotSent
<1>7. SecretsHome(t)
  BY <1>2, <1>5 DEF CallOK, SecretsHome
<1>8. Out(t) = Out(s)
  BY <1>5 DEF Out, Held
<1> QED BY <1>4, <1>6, <1>7, <1>8 DEF CallOK, t, r

\* A retry that is started: it is counted, and what is queued is what was sent.
LEMMA RetryingOK ==
  ASSUME NEW s, CallOK(s), s.pc = "decide", CanStart(s), WantsRetry(s)
  PROVE  CallOK(Retrying(s)) /\ Out(Retrying(s)) = (IF s.budgeted THEN Out(s) + 1 ELSE Out(s))
<1> DEFINE n == s.attempt + 1
           t == [s EXCEPT !.pc = "backoff", !.attempt = n, !.reserved = TRUE,
                          !.denied = FALSE, !.pending = s.snapshot]
<1>1. t = Retrying(s)
  BY DEF Retrying
<1>2. /\ ~s.eligible /\ ~s.reserved /\ s.attempt < MaxRetries /\ s.attempt \in Nat
      /\ MaxRetries \in Nat /\ s.paid \in Nat /\ n \in Nat /\ n = s.attempt + 1
      /\ "backoff" \in Places /\ s.snapshot \in MaybeRequest
  BY ExecuteAssumption DEF CanStart, CallOK, CallState, Places
<1>3. /\ s.snapshot # NoRequest /\ s.snapshot = s.wire /\ Idempotent(s.snapshot.method)
      /\ s.snapshot.method = s.method
  BY DEF WantsRetry, CallOK, SnapshotSent
<1> HIDE DEF n
<1>4. t \in CallState
  BY <1>2 DEF CallOK, CallState
<1>5. /\ t.pc = "backoff" /\ t.cur = s.cur /\ t.hops = s.hops /\ t.wire = s.wire
      /\ t.method = s.method /\ t.snapshot = s.snapshot /\ t.pending = s.snapshot
      /\ t.attempt = n /\ t.eligible = s.eligible /\ t.reserved = TRUE
      /\ t.budgeted = s.budgeted /\ t.paid = s.paid
  BY DEF CallOK, CallState
<1> HIDE DEF t
<1>6. ReservationHeld(t) /\ SecretsHome(t)
  BY <1>2, <1>5 DEF CallOK, ReservationHeld, SecretsHome
<1>7. RetriesCounted(t)
  BY <1>2, <1>5 DEF CallOK, RetriesCounted
<1>8. SnapshotSent(t)
  BY <1>3, <1>5 DEF SnapshotSent
<1>9. Out(t) = (IF s.budgeted THEN Out(s) + 1 ELSE Out(s))
  BY <1>2, <1>5 DEF Out, Held
<1> QED BY <1>1, <1>4, <1>6, <1>7, <1>8, <1>9 DEF CallOK

\* The call ends, its result given to the caller: what it held goes back.
LEMMA EndsOK ==
  ASSUME NEW s, CallOK(s), s.pc = "decide", NEW d \in BOOLEAN
  PROVE  LET t == [s EXCEPT !.pc = "done", !.denied = d, !.reserved = FALSE]
         IN  CallOK(t) /\ Out(t) + (IF s.budgeted THEN Held(s) ELSE 0) = Out(s)
<1> DEFINE t == [s EXCEPT !.pc = "done", !.denied = d, !.reserved = FALSE]
<1>1. "done" \in Places
  BY DEF Places
<1>2. t \in CallState
  BY <1>1 DEF CallOK, CallState
<1>3. /\ t.pc = "done" /\ t.cur = s.cur /\ t.hops = s.hops /\ t.wire = s.wire
      /\ t.method = s.method /\ t.snapshot = s.snapshot /\ t.pending = s.pending
      /\ t.attempt = s.attempt /\ t.eligible = s.eligible /\ t.reserved = FALSE
      /\ t.budgeted = s.budgeted /\ t.paid = s.paid
  BY DEF CallOK, CallState
<1> HIDE DEF t
<1>4. /\ s.pending = NoRequest /\ ~s.eligible /\ s.attempt \in Nat /\ s.paid \in Nat
      /\ MaxRetries \in Nat /\ s.reserved \in BOOLEAN
  BY ExecuteAssumption DEF CallOK, CallState, ReservationHeld
<1>5. ReservationHeld(t) /\ SecretsHome(t)
  BY <1>3, <1>4 DEF CallOK, ReservationHeld, SecretsHome
<1>6. RetriesCounted(t)
  BY <1>3, <1>4 DEF CallOK, RetriesCounted
<1>7. SnapshotSent(t)
  BY <1>3, <1>4 DEF CallOK, SnapshotSent
<1>8. Out(t) + (IF s.budgeted THEN Held(s) ELSE 0) = Out(s)
  BY <1>3, <1>4 DEF Out, Held
<1> QED BY <1>2, <1>5, <1>6, <1>7, <1>8 DEF CallOK, t

\* The caller drops the call: what it held goes back.
LEMMA CancelOK ==
  ASSUME NEW s, CallOK(s)
  PROVE  LET t == [s EXCEPT !.pc = "done", !.result = "cancelled", !.eligible = FALSE,
                            !.reserved = FALSE, !.pending = NoRequest]
         IN  CallOK(t) /\ Out(t) + (IF s.budgeted THEN Held(s) ELSE 0) = Out(s)
<1> DEFINE t == [s EXCEPT !.pc = "done", !.result = "cancelled", !.eligible = FALSE,
                          !.reserved = FALSE, !.pending = NoRequest]
<1>1. "done" \in Places /\ "cancelled" \in Results /\ NoRequest \in MaybeRequest
  BY DEF Places, Results, MaybeRequest
<1>2. t \in CallState
  BY <1>1 DEF CallOK, CallState
<1>3. /\ t.pc = "done" /\ t.cur = s.cur /\ t.hops = s.hops /\ t.wire = s.wire
      /\ t.method = s.method /\ t.snapshot = s.snapshot /\ t.pending = NoRequest
      /\ t.attempt = s.attempt /\ t.eligible = FALSE /\ t.reserved = FALSE
      /\ t.budgeted = s.budgeted /\ t.paid = s.paid
  BY DEF CallOK, CallState
<1> HIDE DEF t
<1>4. /\ s.attempt \in Nat /\ s.paid \in Nat
      /\ MaxRetries \in Nat /\ s.reserved \in BOOLEAN /\ s.eligible \in BOOLEAN
  BY ExecuteAssumption DEF CallOK, CallState
<1>5. ReservationHeld(t) /\ SecretsHome(t)
  BY <1>3, <1>4 DEF CallOK, ReservationHeld, SecretsHome
<1>6. RetriesCounted(t)
  BY <1>3, <1>4 DEF CallOK, RetriesCounted
<1>7. SnapshotSent(t)
  BY <1>3, <1>4 DEF CallOK, SnapshotSent
<1>8. Out(t) + (IF s.budgeted THEN Held(s) ELSE 0) = Out(s)
  BY <1>3, <1>4 DEF Out, Held
<1> QED BY <1>2, <1>5, <1>6, <1>7, <1>8 DEF CallOK, t
-----------------------------------------------------------------------------
(***************************************************************************)
(* The steps against the budget, and the theorems.                         *)
(***************************************************************************)
\* Filling up adds what is given, but for the limit.
LEMMA FilledMoves ==
  ASSUME budget \in 0..RetryTokens, RetryTokens \in Nat, NEW n \in Nat
  PROVE  /\ Filled(n) \in 0..RetryTokens /\ budget <= Filled(n) /\ Filled(n) <= budget + n
         /\ Filled(n) = RetryTokens \/ Filled(n) = budget + n
BY DEF Filled

\* What every step starts from.
LEMMA CallAt ==
  ASSUME ExecuteInv, NEW c \in Calls
  PROVE  /\ CallOK(call[c]) /\ call[c] \in CallState
         /\ budget \in 0..RetryTokens /\ deposited \in Nat /\ RetryTokens \in Nat
         /\ Out(call[c]) \in Nat /\ Held(call[c]) \in Nat
         /\ call[c].budgeted \in BOOLEAN
<1>1. CallOK(call[c]) /\ call[c] \in CallState
  BY DEF ExecuteInv
<1>2. Out(call[c]) \in Nat /\ Held(call[c]) \in Nat /\ call[c].budgeted \in BOOLEAN
  BY <1>1, OutType DEF CallState
<1> QED BY <1>1, <1>2, ExecuteAssumption DEF ExecuteInv, BudgetOK

\* A token more is out: a permit or a reservation is taken.
LEMMA WithdrawKeeps ==
  ASSUME ExecuteInv, NEW c \in Calls, NEW s1, Becomes(c, s1), CallOK(s1),
         Affords(call[c]), budget' = Withdrawn(call[c]), UNCHANGED deposited,
         Out(s1) = (IF call[c].budgeted THEN Out(call[c]) + 1 ELSE Out(call[c]))
  PROVE  ExecuteInv'
<1>1. /\ budget \in 0..RetryTokens /\ deposited \in Nat /\ RetryTokens \in Nat
      /\ Out(call[c]) \in Nat /\ call[c].budgeted \in BOOLEAN
  BY CallAt
<1>2. CASE call[c].budgeted
  <2>1. budget > 0 /\ budget' = budget - 1 /\ Out(s1) = Out(call[c]) + 1
    BY <1>2 DEF Affords, Withdrawn
  <2>2. budget' \in 0..RetryTokens /\ budget' + Out(s1) = budget + Out(call[c])
    BY <1>1, <2>1
  <2> QED BY <1>1, <2>2, StepKeeps
<1>3. CASE ~call[c].budgeted
  <2>1. budget' = budget /\ Out(s1) = Out(call[c])
    BY <1>3 DEF Withdrawn
  <2> QED BY <2>1, QuietStepKeeps
<1> QED BY <1>2, <1>3

\* What a call held comes back, with a deposit perhaps.
LEMMA RefundKeeps ==
  ASSUME ExecuteInv, NEW c \in Calls, NEW s1, Becomes(c, s1), CallOK(s1),
         NEW gain \in Nat, gain # 0 => call[c].budgeted, NEW h \in Nat,
         budget' = Refunded(call[c], gain + h), deposited' = deposited + gain,
         Out(s1) + (IF call[c].budgeted THEN h ELSE 0) = Out(call[c])
  PROVE  ExecuteInv'
<1>1. /\ budget \in 0..RetryTokens /\ deposited \in Nat /\ RetryTokens \in Nat
      /\ Out(call[c]) \in Nat /\ call[c].budgeted \in BOOLEAN
  BY CallAt
<1>2. Out(s1) \in Nat
  BY OutType DEF CallOK
<1>3. /\ budget' \in 0..RetryTokens
      /\ budget' = RetryTokens \/ budget' + Out(s1) >= budget + Out(call[c])
      /\ budget' + Out(s1) + deposited <= budget + Out(call[c]) + (deposited + gain)
  <2>1. CASE call[c].budgeted
    <3> DEFINE f == Filled(gain + h)
    <3>1. gain + h \in Nat /\ budget' = f /\ Out(s1) + h = Out(call[c])
      BY <2>1 DEF Refunded
    <3>2. f \in 0..RetryTokens /\ f <= budget + (gain + h)
      BY <1>1, <3>1, FilledMoves
    <3>3. f = RetryTokens \/ f = budget + (gain + h)
      BY <1>1, <3>1, FilledMoves
    <3> HIDE DEF f
    <3> QED BY <1>1, <1>2, <3>1, <3>2, <3>3
  <2>2. CASE ~call[c].budgeted
    <3>1. budget' = budget /\ gain = 0 /\ Out(s1) = Out(call[c])
      BY <1>2, <2>2 DEF Refunded
    <3> QED BY <1>1, <1>2, <3>1
  <2> QED BY <2>1, <2>2
<1>4. deposited' \in Nat /\ deposited' >= deposited
  BY <1>1
<1> QED BY <1>3, <1>4, StepKeeps

\* The loop starts a retry, or the call ends and its reservation goes back.
LEMMA DecideKeeps ==
  ASSUME ExecuteInv, NEW c \in Calls, Decide(c)
  PROVE  ExecuteInv'
<1> DEFINE s == call[c]
<1> DEFINE denied == IF WantsRetry(s) THEN CanStart(s) /\ ~Affords(s) ELSE s.denied
           gain == IF s.budgeted /\ s.result \in {"ok", "5xx"} /\ ~denied
                   THEN Filled(DepositAmount) - budget ELSE 0
           t == [s EXCEPT !.pc = "done", !.denied = denied, !.reserved = FALSE]
<1>1. /\ CallOK(s) /\ s \in CallState
      /\ budget \in 0..RetryTokens /\ deposited \in Nat /\ RetryTokens \in Nat
      /\ Held(s) \in Nat /\ s.pc = "decide"
  BY CallAt DEF Decide
<1>2. CASE WantsRetry(s) /\ CanStart(s) /\ Affords(s)
  <2>1. budget' = Withdrawn(s) /\ Becomes(c, Retrying(s)) /\ UNCHANGED deposited
    BY <1>2 DEF Decide
  <2>2. /\ CallOK(Retrying(s))
        /\ Out(Retrying(s)) = (IF s.budgeted THEN Out(s) + 1 ELSE Out(s))
    BY <1>1, <1>2, RetryingOK
  <2> QED BY <1>2, <2>1, <2>2, WithdrawKeeps
<1>3. CASE ~(WantsRetry(s) /\ CanStart(s) /\ Affords(s))
  <2>1. /\ deposited' = deposited + gain /\ budget' = Refunded(s, gain + Held(s))
        /\ Becomes(c, t)
    BY <1>3 DEF Decide
  <2>2. denied \in BOOLEAN
    <3>1. s.denied \in BOOLEAN /\ s.eligible \in BOOLEAN /\ s.reserved \in BOOLEAN
      BY <1>1 DEF CallState
    <3>2. (CanStart(s) /\ ~Affords(s)) \in BOOLEAN
      BY Zenon
    <3> HIDE DEF s
    <3>3. CASE WantsRetry(s)
      BY <3>2, <3>3, Zenon
    <3>4. CASE ~WantsRetry(s)
      BY <3>1, <3>4, Zenon
    <3> QED BY <3>3, <3>4
  <2>3. gain \in Nat /\ (gain # 0 => s.budgeted)
    <3>1. DepositAmount \in Nat
      BY ExecuteAssumption
    <3>2. Filled(DepositAmount) \in 0..RetryTokens /\ budget <= Filled(DepositAmount)
      BY <1>1, <3>1, FilledMoves
    <3>3. Filled(DepositAmount) - budget \in Nat
      BY <1>1, <3>2
    <3> HIDE DEF denied, s
    <3> QED BY <3>3
  <2> HIDE DEF denied, gain
  <2>4. CallOK(t) /\ Out(t) + (IF s.budgeted THEN Held(s) ELSE 0) = Out(s)
    BY <1>1, <2>2, EndsOK
  <2> HIDE DEF t
  <2> QED BY <1>1, <2>1, <2>3, <2>4, RefundKeeps
<1> QED BY <1>2, <1>3

\* FinalizedRequestState's Drop gives back whatever is held.
LEMMA CancelKeeps ==
  ASSUME ExecuteInv, NEW c \in Calls, Cancel(c)
  PROVE  ExecuteInv'
<1> DEFINE s == call[c]
           t == [s EXCEPT !.pc = "done", !.result = "cancelled", !.eligible = FALSE,
                          !.reserved = FALSE, !.pending = NoRequest]
<1>1. budget' = Refunded(s, Held(s)) /\ Becomes(c, t) /\ UNCHANGED deposited
  BY DEF Cancel
<1>2. CallOK(s) /\ Held(s) \in Nat /\ deposited \in Nat
  BY CallAt
<1>3. CallOK(t) /\ Out(t) + (IF s.budgeted THEN Held(s) ELSE 0) = Out(s)
  BY <1>2, CancelOK
<1>4. 0 + Held(s) = Held(s) /\ deposited' = deposited + 0
  BY <1>1, <1>2
<1> HIDE DEF t
<1>5. budget' = Refunded(s, 0 + Held(s))
  BY <1>1, <1>4
<1> QED BY <1>1, <1>2, <1>3, <1>4, <1>5, RefundKeeps

\* TimesOut and DrainFails.
LEMMA PermitDroppedKeeps ==
  ASSUME ExecuteInv, NEW c \in Calls, call[c].pc \in Awaits, NEW d \in BOOLEAN,
         NEW result \in Results,
         Becomes(c, [call[c] EXCEPT !.pc = "decide", !.result = result, !.eligible = FALSE,
                                    !.denied = d]),
         budget' = (IF call[c].eligible THEN Refunded(call[c], 1) ELSE budget),
         UNCHANGED deposited
  PROVE  ExecuteInv'
<1> DEFINE s == call[c]
           t == [s EXCEPT !.pc = "decide", !.result = result, !.eligible = FALSE,
                          !.denied = d]
<1>1. CallOK(s) /\ deposited \in Nat /\ s.budgeted \in BOOLEAN /\ s.eligible \in BOOLEAN
  BY CallAt DEF CallState
<1>2. CallOK(t) /\ Out(t) + (IF s.budgeted /\ s.eligible THEN 1 ELSE 0) = Out(s)
  BY <1>1, PermitDroppedOK
<1>3. Becomes(c, t)
  OBVIOUS
<1>4. Out(t) \in Nat /\ Out(s) \in Nat
  BY <1>1, <1>2, OutType DEF CallOK
<1> HIDE DEF t
<1>5. CASE s.eligible
  <2>1. Out(t) + (IF s.budgeted THEN 1 ELSE 0) = Out(s)
    BY <1>2, <1>5
  <2>2. budget' = Refunded(s, 0 + 1) /\ deposited' = deposited + 0
    BY <1>1, <1>5
  <2> QED BY <1>2, <1>3, <2>1, <2>2, RefundKeeps
<1>6. CASE ~s.eligible
  <2>1. Out(t) = Out(s) /\ budget' = budget
    BY <1>2, <1>4, <1>6
  <2> QED BY <1>2, <1>3, <2>1, QuietStepKeeps
<1> QED BY <1>5, <1>6

\* The steps that leave the budget alone.
LEMMA QuietSteps ==
  ASSUME ExecuteInv, NEW c \in Calls,
         \/ Prepare(c) \/ Replay(c) \/ Sign(c) \/ SignFails(c)
         \/ \E result \in {"ok", "fatal"} : PrepareEnds(c, result)
         \/ \E error \in {"lost", "fatal"} : WireFails(c, error)
         \/ \E status \in {"ok", "5xx"} : Answered(c, status)
         \/ \E status \in {"303", "307"}, uri \in Uris : Redirect(c, status, uri)
         \/ StaleIfError(c) \/ Drained(c) \/ DigestSign(c) \/ NextHop(c) \/ Backoff(c)
  PROVE  ExecuteInv'
<1> DEFINE s == call[c]
<1>1. CallOK(s) /\ s \in CallState
  BY CallAt
<1>2. ASSUME NEW t, Becomes(c, t), CallOK(t) /\ Out(t) = Out(s),
             UNCHANGED <<budget, deposited>>
      PROVE  ExecuteInv'
  BY <1>2, QuietStepKeeps
<1>3. ASSUME NEW result \in Results, s.pc \in Awaits \ {"drain"},
             Becomes(c, [s EXCEPT !.pc = "decide", !.result = result]),
             UNCHANGED <<budget, deposited>>
      PROVE  ExecuteInv'
  <2> DEFINE t == [s EXCEPT !.pc = "decide", !.result = result]
  <2>1. CallOK(t) /\ Out(t) = Out(s)
    BY <1>1, <1>3, MovesOK
  <2>2. Becomes(c, t)
    BY <1>3
  <2> HIDE DEF t
  <2> QED BY <1>2, <1>3, <2>1, <2>2
<1>4. CASE Prepare(c)
  <2>1. PICK x \in {s.cur.secrets, s.cur.secrets \cup {OriginOf[s.cur.uri]}} :
            Becomes(c, [s EXCEPT !.pc = "sign", !.snapshot = NoRequest,
                                 !.method = s.cur.method, !.cur.secrets = x])
    BY <1>4, Zenon DEF Prepare
  <2> DEFINE t == [s EXCEPT !.pc = "sign", !.snapshot = NoRequest,
                            !.method = s.cur.method, !.cur.secrets = x]
  <2>2. /\ s.pc \in {"start", "hop"} /\ s.pending = NoRequest
        /\ UNCHANGED <<budget, deposited>>
    BY <1>4 DEF Prepare
  <2>3. CallOK(t) /\ Out(t) = Out(s)
    BY <1>1, <2>2, PrepareOK
  <2>4. Becomes(c, t)
    BY <2>1
  <2> HIDE DEF t
  <2> QED BY <1>2, <2>2, <2>3, <2>4
<1>5. CASE Replay(c)
  <2>1. PICK x \in {s.pending.secrets \ {OriginOf[s.pending.uri]},
                    s.pending.secrets \cup {OriginOf[s.pending.uri]}} :
            Becomes(c, [s EXCEPT !.pc = "sign", !.hops = MaxRedirects,
                                 !.cur = [s.pending EXCEPT !.secrets = x],
                                 !.pending = NoRequest, !.reserved = FALSE,
                                 !.paid = Spent(s)])
    BY <1>5, Zenon DEF Replay
  <2> DEFINE t == [s EXCEPT !.pc = "sign", !.hops = MaxRedirects,
                            !.cur = [s.pending EXCEPT !.secrets = x],
                            !.pending = NoRequest, !.reserved = FALSE, !.paid = Spent(s)]
  <2>2. s.pc = "start" /\ s.pending # NoRequest /\ UNCHANGED <<budget, deposited>>
    BY <1>5 DEF Replay
  <2>3. CallOK(t) /\ Out(t) = Out(s)
    BY <1>1, <2>2, ReplayOK
  <2>4. Becomes(c, t)
    BY <2>1
  <2> HIDE DEF t
  <2> QED BY <1>2, <2>2, <2>3, <2>4
<1>6. CASE Sign(c)
  <2> DEFINE t == [s EXCEPT !.pc = "wire", !.wire = s.cur, !.method = s.cur.method,
                            !.snapshot = Capture(s.cur)]
  <2>1. s.pc = "sign" /\ Becomes(c, t) /\ UNCHANGED <<budget, deposited>>
    BY <1>6 DEF Sign
  <2>2. CallOK(t) /\ Out(t) = Out(s)
    BY <1>1, <2>1, SignOK
  <2> HIDE DEF t
  <2> QED BY <1>2, <2>1, <2>2
<1>7. CASE SignFails(c) \/ (\E error \in {"lost", "fatal"} : WireFails(c, error))
           \/ (\E status \in {"ok", "5xx"} : Answered(c, status))
  <2>1. PICK result \in {"ok", "5xx", "lost", "fatal"} :
          /\ s.pc \in {"sign", "digest_sign", "wire", "digest_wire"}
          /\ Becomes(c, [s EXCEPT !.pc = "decide", !.result = result])
          /\ UNCHANGED <<budget, deposited>>
    BY <1>7 DEF SignFails, WireFails, Answered
  <2>2. result \in Results /\ s.pc \in Awaits \ {"drain"}
    BY <2>1 DEF Results, Awaits
  <2> QED BY <1>3, <2>1, <2>2
<1>8. CASE \E result \in {"ok", "fatal"} : PrepareEnds(c, result)
  <2>1. PICK result \in {"ok", "fatal"} : PrepareEnds(c, result)
    BY <1>8
  <2> DEFINE t == [s EXCEPT !.pc = "decide", !.snapshot = NoRequest,
                            !.method = s.cur.method, !.result = result]
  <2>2. /\ s.pc \in {"start", "hop"} /\ s.pending = NoRequest /\ Becomes(c, t)
        /\ UNCHANGED <<budget, deposited>> /\ result \in Results
    BY <2>1 DEF PrepareEnds, Results
  <2>3. CallOK(t) /\ Out(t) = Out(s)
    BY <1>1, <2>2, PrepareEndsOK
  <2> HIDE DEF t
  <2> QED BY <1>2, <2>2, <2>3
<1>9. CASE \E status \in {"303", "307"}, uri \in Uris : Redirect(c, status, uri)
  <2>1. PICK status \in {"303", "307"}, uri \in Uris : Redirect(c, status, uri)
    BY <1>9
  <2> DEFINE t == [s EXCEPT !.pc = "redirect_drain", !.cur = Redirected(s.cur, status, uri)]
  <2>2. /\ s.pc \in {"wire", "digest_wire"} /\ UNCHANGED <<budget, deposited>>
        /\ \/ Becomes(c, t)
           \/ Becomes(c, [s EXCEPT !.pc = "decide", !.result = "fatal"])
    BY <2>1 DEF Redirect
  <2>3. CallOK(t) /\ Out(t) = Out(s)
    BY <1>1, <2>2, RedirectOK
  <2>4. "fatal" \in Results /\ s.pc \in Awaits \ {"drain"}
    BY <2>2 DEF Results, Awaits
  <2> HIDE DEF t
  <2> QED BY <1>2, <1>3, <2>2, <2>3, <2>4
<1>10. CASE StaleIfError(c)
  <2> DEFINE t == [s EXCEPT !.pc = "stale_drain"]
  <2>1. /\ UNCHANGED <<budget, deposited>>
        /\ \/ /\ s.pc \in {"wire", "stale_drain"}
              /\ Becomes(c, [s EXCEPT !.pc = "decide", !.result = "ok"])
           \/ s.pc = "wire" /\ Becomes(c, t)
    BY <1>10 DEF StaleIfError
  <2>2. s.pc = "wire" => CallOK(t) /\ Out(t) = Out(s)
    BY <1>1, PlaceOK
  <2>3. "ok" \in Results /\ s.pc \in Awaits \ {"drain"}
    BY <2>1 DEF Results, Awaits
  <2> HIDE DEF t
  <2> QED BY <1>2, <1>3, <2>1, <2>2, <2>3
<1>11. CASE Drained(c)
  <2> DEFINE t == [s EXCEPT !.pc = "digest_sign", !.eligible = FALSE, !.reserved = TRUE,
                            !.attempt = s.attempt + 1,
                            !.cur.secrets = s.cur.secrets \cup {OriginOf[s.cur.uri]}]
  <2>1. s.pc = "drain" /\ Becomes(c, t) /\ UNCHANGED <<budget, deposited>>
    BY <1>11 DEF Drained
  <2>2. CallOK(t) /\ Out(t) = Out(s)
    BY <1>1, <2>1, DrainedOK
  <2> HIDE DEF t
  <2> QED BY <1>2, <2>1, <2>2
<1>12. CASE DigestSign(c)
  <2> DEFINE t == [s EXCEPT !.pc = "digest_wire", !.wire = s.cur,
                            !.snapshot = Capture(s.cur), !.reserved = FALSE,
                            !.paid = Spent(s)]
  <2>1. s.pc = "digest_sign" /\ Becomes(c, t) /\ UNCHANGED <<budget, deposited>>
    BY <1>12 DEF DigestSign
  <2>2. CallOK(t) /\ Out(t) = Out(s)
    BY <1>1, <2>1, DigestSignOK
  <2> HIDE DEF t
  <2> QED BY <1>2, <2>1, <2>2
<1>13. CASE NextHop(c)
  <2> DEFINE t == [s EXCEPT !.pc = "hop", !.hops = s.hops - 1]
  <2>1. /\ s.pc = "redirect_drain" /\ UNCHANGED <<budget, deposited>>
        /\ \/ s.hops # 0 /\ Becomes(c, t)
           \/ Becomes(c, [s EXCEPT !.pc = "decide", !.result = "fatal"])
    BY <1>13 DEF NextHop
  <2>2. s.hops # 0 => CallOK(t) /\ Out(t) = Out(s)
    BY <1>1, <2>1, HopOK
  <2>3. "fatal" \in Results /\ s.pc \in Awaits \ {"drain"}
    BY <2>1 DEF Results, Awaits
  <2> HIDE DEF t
  <2> QED BY <1>2, <1>3, <2>1, <2>2, <2>3
<1>14. CASE Backoff(c)
  <2> DEFINE t == [s EXCEPT !.pc = "start"]
  <2>1. s.pc = "backoff" /\ Becomes(c, t) /\ UNCHANGED <<budget, deposited>>
    BY <1>14 DEF Backoff
  <2>2. CallOK(t) /\ Out(t) = Out(s)
    BY <1>1, <2>1, PlaceOK
  <2> HIDE DEF t
  <2> QED BY <1>2, <2>1, <2>2
<1> QED BY <1>4, <1>5, <1>6, <1>7, <1>8, <1>9, <1>10, <1>11, <1>12, <1>13, <1>14

\* A challenge, with and without a permit.
LEMMA ChallengedKeeps ==
  ASSUME ExecuteInv, NEW c \in Calls, Challenged(c)
  PROVE  ExecuteInv'
<1> DEFINE s == call[c]
           starts == s.snapshot # NoRequest /\ CanStart(s)
           d == IF s.snapshot = NoRequest THEN s.denied ELSE starts
           t == [s EXCEPT !.pc = "drain", !.eligible = TRUE, !.denied = FALSE]
           u == [s EXCEPT !.pc = "decide", !.result = "ok", !.denied = d]
<1>1. CallOK(s) /\ s \in CallState /\ s.pc = "wire" /\ UNCHANGED deposited
  BY CallAt DEF Challenged
<1>2. CASE starts /\ Affords(s)
  <2>1. budget' = Withdrawn(s) /\ Becomes(c, t)
    BY <1>2 DEF Challenged
  <2>2. CallOK(t) /\ Out(t) = (IF s.budgeted THEN Out(s) + 1 ELSE Out(s))
    BY <1>1, <1>2, ChallengedOK
  <2> HIDE DEF t
  <2> QED BY <1>1, <1>2, <2>1, <2>2, WithdrawKeeps
<1>3. CASE ~(starts /\ Affords(s))
  <2>1. UNCHANGED budget /\ Becomes(c, u)
    BY <1>3 DEF Challenged
  <2>2. d \in BOOLEAN
    <3>1. s.denied \in BOOLEAN
      BY <1>1 DEF CallState
    <3>2. starts \in BOOLEAN
      BY Zenon
    <3> HIDE DEF s, starts
    <3>3. CASE s.snapshot = NoRequest
      BY <3>1, <3>3, Zenon
    <3>4. CASE s.snapshot # NoRequest
      BY <3>2, <3>4, Zenon
    <3> QED BY <3>3, <3>4
  <2> HIDE DEF d
  <2>3. CallOK(u) /\ Out(u) = Out(s)
    BY <1>1, <2>2, UnansweredOK
  <2> HIDE DEF u
  <2> QED BY <1>1, <2>1, <2>3, QuietStepKeeps
<1> QED BY <1>2, <1>3

\* The awaits at which a permit may be dropped.
LEMMA DropsKeep ==
  ASSUME ExecuteInv, NEW c \in Calls,
         TimesOut(c) \/ \E error \in {"lost", "fatal"} : DrainFails(c, error)
  PROVE  ExecuteInv'
<1> DEFINE s == call[c]
<1>1. CallOK(s) /\ s.denied \in BOOLEAN
  BY CallAt DEF CallState
<1>2. CASE TimesOut(c)
  <2> DEFINE d == s.denied /\ ~s.eligible
  <2>1. d \in BOOLEAN /\ "lost" \in Results
    BY DEF Results
  <2>2. /\ s.pc \in Awaits /\ UNCHANGED deposited
        /\ budget' = (IF s.eligible THEN Refunded(s, 1) ELSE budget)
        /\ Becomes(c, [s EXCEPT !.pc = "decide", !.result = "lost", !.eligible = FALSE,
                                !.denied = d])
    BY <1>2 DEF TimesOut
  <2> HIDE DEF d
  <2> QED BY <2>1, <2>2, PermitDroppedKeeps
<1>3. CASE \E error \in {"lost", "fatal"} : DrainFails(c, error)
  <2>1. PICK error \in {"lost", "fatal"} : DrainFails(c, error)
    BY <1>3
  <2>2. /\ s.pc = "drain" /\ UNCHANGED deposited /\ budget' = Refunded(s, 1)
        /\ Becomes(c, [s EXCEPT !.pc = "decide", !.eligible = FALSE, !.denied = FALSE,
                                !.result = error])
    BY <2>1 DEF DrainFails
  <2>3. [s EXCEPT !.pc = "decide", !.eligible = FALSE, !.denied = FALSE, !.result = error]
        = [s EXCEPT !.pc = "decide", !.result = error, !.eligible = FALSE, !.denied = FALSE]
    BY <1>1 DEF CallOK, CallState
  <2>4. s.eligible /\ s.pc \in Awaits /\ error \in Results
    BY <1>1, <2>2 DEF CallOK, ReservationHeld, Awaits, Results
  <2>5. budget' = (IF s.eligible THEN Refunded(s, 1) ELSE budget)
    BY <2>2, <2>4
  <2>6. Becomes(c, [s EXCEPT !.pc = "decide", !.result = error, !.eligible = FALSE,
                             !.denied = FALSE])
    BY <2>2, <2>3
  <2> QED BY <2>2, <2>4, <2>5, <2>6, PermitDroppedKeeps
<1> QED BY <1>2, <1>3

\* A call before its first step, made or never to be made.
LEMMA FreshOK ==
  ASSUME NEW r \in Requests, NEW b \in BOOLEAN, r.secrets \subseteq {OriginOf[r.uri]},
         NEW s, s \in {Fresh(r, b), [Fresh(r, b) EXCEPT !.pc = "done"]}
  PROVE  CallOK(s) /\ Out(s) = 0
<1> DEFINE m == r.method
           place == IF s = Fresh(r, b) THEN "start" ELSE "done"
<1>1. /\ place \in {"start", "done"} /\ place \in Places
      /\ NoRequest \in MaybeRequest /\ m \in Methods
      /\ MaxRedirects \in Nat /\ MaxRetries \in Nat /\ "none" \in Results
  BY RequestParts, ExecuteAssumption DEF Places, Results, MaybeRequest
<1>2. s = [pc |-> place, cur |-> r, hops |-> MaxRedirects, wire |-> NoRequest,
           method |-> m, snapshot |-> NoRequest, pending |-> NoRequest,
           attempt |-> 0, eligible |-> FALSE, reserved |-> FALSE, denied |-> FALSE,
           budgeted |-> b, paid |-> 0, result |-> "none"]
  BY DEF Fresh
<1> HIDE DEF m, place
<1>3. s \in CallState
  <2>1. CASE b = TRUE
    BY <1>1, <1>2, <2>1 DEF CallState
  <2>2. CASE b = FALSE
    BY <1>1, <1>2, <2>2 DEF CallState
  <2> QED BY <2>1, <2>2
<1>4. /\ s.pc = place /\ s.cur = r /\ s.hops = MaxRedirects /\ s.wire = NoRequest
      /\ s.snapshot = NoRequest /\ s.pending = NoRequest /\ s.attempt = 0
      /\ s.eligible = FALSE /\ s.reserved = FALSE /\ s.paid = 0
  BY <1>2
<1>5. ReservationHeld(s) /\ RetriesCounted(s) /\ SnapshotSent(s) /\ SecretsHome(s)
  BY <1>1, <1>4 DEF ReservationHeld, RetriesCounted, SnapshotSent, SecretsHome
<1>6. Out(s) = 0
  BY <1>4 DEF Out, Held
<1> QED BY <1>3, <1>5, <1>6 DEF CallOK

\* At first nothing is out.
LEMMA InitHolds == ExecuteInit => ExecuteInv
<1> SUFFICES ASSUME ExecuteInit PROVE ExecuteInv
  OBVIOUS
<1>1. \A s \in Starts : CallOK(s) /\ Out(s) = 0
  <2> SUFFICES ASSUME NEW s \in Starts PROVE CallOK(s) /\ Out(s) = 0
    OBVIOUS
  <2>1. PICK r \in Requests, b \in BOOLEAN :
            s = Fresh(r, b) /\ r.secrets \subseteq {OriginOf[r.uri]}
    BY DEF Starts
  <2> QED BY <2>1, FreshOK
<1>2. \A s \in {[q EXCEPT !.pc = "done"] : q \in Starts} : CallOK(s) /\ Out(s) = 0
  <2> SUFFICES ASSUME NEW q \in Starts
               PROVE  CallOK([q EXCEPT !.pc = "done"]) /\ Out([q EXCEPT !.pc = "done"]) = 0
    OBVIOUS
  <2>1. PICK r \in Requests, b \in BOOLEAN :
            q = Fresh(r, b) /\ r.secrets \subseteq {OriginOf[r.uri]}
    BY DEF Starts
  <2> QED BY <2>1, FreshOK
<1>3. \A c \in Calls : CallOK(call[c]) /\ Out(call[c]) = 0
  BY <1>1, <1>2 DEF ExecuteInit
<1>4. \A c \in Calls : call[c] \in CallState
  BY <1>3 DEF CallOK
<1>5. call \in [Calls -> CallState]
  BY <1>4 DEF ExecuteInit
<1>6. TokensOut = {}
  BY <1>3 DEF TokensOut
<1>7. IsFiniteSet(TokensOut) /\ Cardinality(TokensOut) = 0
  BY <1>6, FS_EmptySet
<1>8. BudgetOK
  BY <1>7, ExecuteAssumption DEF ExecuteInit, BudgetOK, TokensKept
<1> QED BY <1>3, <1>5, <1>8 DEF ExecuteInv

\* Every step of every call keeps the invariant.
LEMMA NextKeeps == ExecuteInv /\ [ExecuteNext]_executeVars => ExecuteInv'
<1>1. ASSUME ExecuteInv, ExecuteNext PROVE ExecuteInv'
  <2>1. PICK c \in Calls :
          \/ Prepare(c) \/ Replay(c) \/ Sign(c) \/ SignFails(c)
          \/ \E result \in {"ok", "fatal"} : PrepareEnds(c, result)
          \/ \E error \in {"lost", "fatal"} : WireFails(c, error) \/ DrainFails(c, error)
          \/ \E status \in {"ok", "5xx"} : Answered(c, status)
          \/ \E status \in {"303", "307"}, uri \in Uris : Redirect(c, status, uri)
          \/ StaleIfError(c) \/ Challenged(c) \/ Drained(c) \/ DigestSign(c) \/ NextHop(c)
          \/ TimesOut(c) \/ Decide(c) \/ Backoff(c) \/ Cancel(c)
    BY <1>1, Zenon DEF ExecuteNext
  <2>2. \/ Prepare(c) \/ Replay(c) \/ Sign(c) \/ SignFails(c)
        \/ \E result \in {"ok", "fatal"} : PrepareEnds(c, result)
        \/ \E error \in {"lost", "fatal"} : WireFails(c, error)
        \/ \E status \in {"ok", "5xx"} : Answered(c, status)
        \/ \E status \in {"303", "307"}, uri \in Uris : Redirect(c, status, uri)
        \/ StaleIfError(c) \/ Drained(c) \/ DigestSign(c) \/ NextHop(c) \/ Backoff(c)
        => ExecuteInv'
    BY <1>1, QuietSteps, Zenon
  <2>3. TimesOut(c) \/ (\E error \in {"lost", "fatal"} : DrainFails(c, error))
        => ExecuteInv'
    BY <1>1, DropsKeep, Zenon
  <2>4. Challenged(c) \/ Decide(c) \/ Cancel(c) => ExecuteInv'
    BY <1>1, ChallengedKeeps, DecideKeeps, CancelKeeps
  <2> QED BY <2>1, <2>2, <2>3, <2>4, Zenon
<1>2. ASSUME ExecuteInv, UNCHANGED executeVars PROVE ExecuteInv'
  <2>1. budget' = budget /\ deposited' = deposited /\ call' = call
    BY <1>2 DEF executeVars
  <2>2. TokensOut' = TokensOut
    BY <2>1 DEF TokensOut
  <2>3. BudgetOK'
    BY <1>2, <2>1, <2>2 DEF ExecuteInv, BudgetOK, TokensKept
  <2> QED BY <1>2, <2>1, <2>3 DEF ExecuteInv
<1> QED BY <1>1, <1>2

\* ExecuteInv holds of every reachable state.
LEMMA ExecuteInvariant == ExecuteSpec => []ExecuteInv
BY InitHolds, NextKeeps, PTL DEF ExecuteSpec

\* The state of the retry budget and of every call keeps its type: the budget
\* stays between zero and max_tokens, a call within its redirects and retries.
THEOREM ExecuteTypes == ExecuteSpec => []ExecuteTypeOK
<1>1. ExecuteInv => ExecuteTypeOK
  <2> SUFFICES ASSUME ExecuteInv PROVE ExecuteTypeOK
    OBVIOUS
  <2>1. \A c \in Calls :
           /\ call[c] \in CallState /\ ReservationHeld(call[c]) /\ RetriesCounted(call[c])
    BY DEF ExecuteInv, CallOK
  <2> SUFFICES ASSUME NEW c \in Calls
               PROVE  /\ call[c].hops \in 0..MaxRedirects /\ call[c].attempt \in 0..MaxRetries
                      /\ call[c].paid \in 0..MaxRetries
    BY <2>1 DEF ExecuteTypeOK, ExecuteInv, BudgetOK, CallState, Places, MaybeRequest
  <2>2. /\ call[c].hops \in Nat /\ call[c].attempt \in Nat /\ call[c].paid \in Nat
        /\ call[c].eligible \in BOOLEAN /\ call[c].reserved \in BOOLEAN
    BY <2>1 DEF CallState
  <2> QED BY <2>1, <2>2, ExecuteAssumption DEF RetriesCounted
<1> QED BY <1>1, ExecuteInvariant, PTL

\* A retry token is spent on a retry or comes back, at whatever await
\* execute_send or the whole call is dropped, for any number of calls sharing
\* the RetryBudget.
THEOREM ExecuteTokensKept == ExecuteSpec => []TokensKept
<1>1. ExecuteInv => TokensKept
  BY DEF ExecuteInv, BudgetOK
<1> QED BY <1>1, ExecuteInvariant, PTL

\* What send_with_retry queues is the request last sent, and one that may be
\* sent twice, through any sequence of redirects, challenges and timeouts.
THEOREM ExecuteRetriesSafe == ExecuteSpec => []RetriesSafe
<1>1. ExecuteInv => RetriesSafe
  BY DEF ExecuteInv, RetriesSafe, CallOK, SnapshotSent
<1> QED BY <1>1, ExecuteInvariant, PTL

\* No request goes on the wire with credentials or cookies of another origin.
THEOREM ExecuteCredentialsStayHome == ExecuteSpec => []CredentialsStayHome
<1>1. ExecuteInv => CredentialsStayHome
  BY DEF ExecuteInv, CredentialsStayHome, CallOK, SecretsHome
<1> QED BY <1>1, ExecuteInvariant, PTL
=============================================================================
