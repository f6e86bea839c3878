--------------------------- MODULE ConnectionPool ---------------------------
(***************************************************************************)
(* The connection pool of aioduct: crates/aioduct/src/pool/mod.rs and      *)
(* pool/connection.rs, with the check-in helpers of                        *)
(* client/connection_lifecycle.rs.                                         *)
(*                                                                         *)
(* The pool is one mutex around its tables (idle queues, active counts,    *)
(* SAN index; the h2 connecting marks are in module Dispatch), and every   *)
(* method holds that mutex for its whole body: one method, one action.     *)
(* What lives outside the mutex is concurrent with it: the handles that    *)
(* requests own (their destructors give slots and stream permits back),    *)
(* the atomics a transport shares with its clones, the background check-in *)
(* tasks, the reaper, and the peer.                                        *)
(* The clients of the pool are as general as its API: any slot may take    *)
(* any of the steps a request may take, in any order and at any time,      *)
(* which is also what cancelling a request at any await point does.        *)
(*                                                                         *)
(* A definition whose comment begins with "Mutant" is not part of the      *)
(* model: it is the form the next definition would have with a plausible   *)
(* bug in the code, and shows that a property can tell the difference.     *)
(***************************************************************************)
EXTENDS Integers, Sequences, FiniteSets

CONSTANTS
  Keys,             \* pool keys (origin, protocol hint, route, forced address, h3 endpoint)
  Conns,            \* transports; one is reused once nothing refers to it
  Slots,            \* owners a pool handle can have: requests, drain tasks, responses
  Hosts,            \* names a certificate may cover
  Multiplexed,      \* the transports that speak HTTP/2 or HTTP/3
  H3Conns,          \* those of them that speak HTTP/3
  H3Keys,           \* the keys whose h3_endpoint is set
  ForcedKeys,       \* the keys whose forced_addr is set
  RouteOf,          \* the proxy route of a key
  AutoOf,           \* the key with the same fields but protocol Auto
  SansOf,           \* the names the certificate of a transport covers
  AddrOf,           \* the remote address of a transport
  MaxIdlePerHost, MaxActivePerHost, MaxActiveStreams,
  IdleTimeout, MaxLifetime,  \* in clock ticks
  Tunnels,          \* whether requests include HTTP/2 CONNECT
  NoKey, NoConn     \* a key or a transport that is None

\* An Option<..> limit that is None.
Unlimited == -1

ASSUME FiniteAssumption ==
  IsFiniteSet(Slots) /\ IsFiniteSet(Conns) /\ IsFiniteSet(Keys)

ASSUME AttributeAssumption ==
  /\ H3Conns \subseteq Multiplexed /\ Multiplexed \subseteq Conns
  /\ H3Keys \subseteq Keys /\ ForcedKeys \subseteq Keys
  /\ AutoOf \in [Keys -> Keys]
  /\ SansOf \in [Conns -> SUBSET Hosts]
  /\ Tunnels \in BOOLEAN
  /\ NoKey \notin Keys /\ NoConn \notin Conns

ASSUME LimitAssumption ==
  /\ MaxIdlePerHost \in Nat
  /\ MaxActivePerHost = Unlimited \/ MaxActivePerHost \in Nat \ {0}
  /\ MaxActiveStreams = Unlimited \/ MaxActiveStreams \in Nat \ {0}
  /\ IdleTimeout \in Nat
  /\ MaxLifetime = Unlimited \/ MaxLifetime \in Nat

VARIABLES
  idle,        \* idle[k]: the queue of idle entries of k, most recent last
  active,      \* active[k]: the count of checked-out handles and fresh dials
  sanIndex,    \* sanIndex[h]: the keys that may hold a transport covering h
  conn,        \* what a transport shares with all its handles
  handle,      \* what each slot owns
  reaper       \* ticks until the reaper wakes, Unlimited while not spawned

vars == <<idle, active, sanIndex, conn, handle, reaper>>

(***************************************************************************)
(* A slot owns nothing, an ActiveReservation, a PooledConnection (original *)
(* or multiplex clone), a background check-in task, or the stream permit   *)
(* of an upgraded response.                                                *)
(***************************************************************************)
Kinds == {"none", "reservation", "original", "clone", "draining", "permit"}
Nothing == [kind |-> "none", key |-> NoKey, conn |-> NoConn]
HolderKinds == {"reservation", "original", "clone", "draining"}
Handle ==
  {r \in [kind : Kinds, key : Keys \cup {NoKey}, conn : Conns \cup {NoConn}] :
     /\ r.kind \in HolderKinds => r.key \in Keys
     /\ r.kind \in {"original", "draining"} => r.conn \in Conns
     /\ r.kind \in {"clone", "permit"} => r.conn \in Multiplexed}

\* An idle entry, and what the handles of a transport share (PooledConnection's
\* atomics, its age, and the state of hyper's sender).
Entry == [conn : Conns, age : Nat]
Transport == [alive : BOOLEAN, busy : BOOLEAN, age : Nat, streams : Nat, retired : BOOLEAN]

Owns(s, kinds) == handle[s].kind \in kinds

\* The slots whose owner gives one unit of active[k] back.
Holders(k) == {s \in Slots : handle[s].kind \in HolderKinds /\ handle[s].key = k}

\* The slots that hold a stream permit of transport c.
PermitHolders(c) ==
  {s \in Slots : handle[s].kind \in {"clone", "permit"} /\ handle[s].conn = c}

\* decrement_active saturates at zero.
Decremented(k) == IF active[k] = 0 THEN 0 ELSE active[k] - 1

\* Mutant: an off-by-one in the comparison with the cap.
UnderCapOffByOne(k) == MaxActivePerHost = Unlimited \/ active[k] <= MaxActivePerHost

\* A handle more fits under max_active_per_host.
UnderCap(k) == MaxActivePerHost = Unlimited \/ active[k] < MaxActivePerHost

(***************************************************************************)
(* Transports.                                                             *)
(***************************************************************************)
FreshConn == [alive |-> TRUE, busy |-> FALSE, age |-> 0, streams |-> 0, retired |-> FALSE]

\* PooledConnection::is_ready: hyper's own readiness, unless retired.
IsReady(c) == conn[c].alive /\ ~conn[c].busy /\ ~conn[c].retired

WithinLifetime(c) == MaxLifetime = Unlimited \/ conn[c].age < MaxLifetime

\* acquire_multiplex_permit succeeds.
PermitAvailable(c) ==
  /\ ~conn[c].retired
  /\ MaxActiveStreams = Unlimited \/ conn[c].streams < MaxActiveStreams

\* Mutant: the handle's Drop releases the permit, and then the permit's own does.
PermitReleasedTwice(s) ==
  IF Owns(s, {"clone"}) THEN [conn EXCEPT ![handle[s].conn].streams = @ - 2] ELSE conn

\* The transports once slot s has dropped its handle: only clones hold a permit.
PermitReleased(s) ==
  IF Owns(s, {"clone"}) THEN [conn EXCEPT ![handle[s].conn].streams = @ - 1] ELSE conn

\* A transport nothing refers to any more: its socket is closed.
Unreferenced(c) ==
  /\ \A s \in Slots : handle[s].conn # c
  /\ \A k \in Keys : \A i \in DOMAIN idle[k] : idle[k][i].conn # c

(***************************************************************************)
(* Queues.  Keep(q, I) is the subsequence of q at the positions I.         *)
(***************************************************************************)
Enumerations(I) ==
  {f \in [1..Cardinality(I) -> I] :
     \A i, j \in 1..Cardinality(I) : i < j => f[i] < f[j]}

Keep(q, I) ==
  LET f == CHOOSE g \in Enumerations(I) : TRUE
  IN  [i \in 1..Cardinality(I) |-> q[f[i]]]

Unexpired(e) == e.age < IdleTimeout /\ WithinLifetime(e.conn)

\* checkout_matching can hand out entry i: directly, or as a multiplex clone.
Usable(q, M, i) ==
  /\ Unexpired(q[i]) /\ q[i].conn \in M /\ IsReady(q[i].conn)
  /\ q[i].conn \in Multiplexed => PermitAvailable(q[i].conn)

\* A ready multiplexed entry with no stream permit left.
Saturated(q, M, i) ==
  /\ Unexpired(q[i]) /\ q[i].conn \in M /\ IsReady(q[i].conn)
  /\ q[i].conn \in Multiplexed /\ ~PermitAvailable(q[i].conn)

\* checkout_matching passes entry i over without discarding it.
PassedOver(q, M, i) ==
  \/ Unexpired(q[i]) /\ q[i].conn \notin M
  \/ Saturated(q, M, i)

\* The position checkout_matching stops at: the most recent usable entry, or 0.
Hit(q, M) ==
  CHOOSE h \in 0..Len(q) :
    /\ h > 0 => Usable(q, M, h)
    /\ \A i \in (h + 1)..Len(q) : ~Usable(q, M, i)

\* The queue the scan leaves: what it did not reach, then what it passed over
\* (a saturated entry counts as used now), without the entry it stopped at.
Scanned(q, M) ==
  LET h == Hit(q, M)
  IN  Keep([i \in 1..Len(q) |->
              IF i > h /\ Saturated(q, M, i) THEN [q[i] EXCEPT !.age = 0] ELSE q[i]],
           {i \in 1..Len(q) : i < h \/ (i > h /\ PassedOver(q, M, i))})

(***************************************************************************)
(* Initial state: an empty pool.                                           *)
(***************************************************************************)
Init ==
  /\ idle = [k \in Keys |-> <<>>]
  /\ active = [k \in Keys |-> 0]
  /\ sanIndex = [h \in Hosts |-> {}]
  /\ conn = [c \in Conns |-> FreshConn]
  /\ handle = [s \in Slots |-> Nothing]
  /\ reaper = Unlimited

ReaperInterval ==
  IF MaxLifetime \notin {Unlimited, 0} /\ MaxLifetime < IdleTimeout THEN MaxLifetime ELSE IdleTimeout

\* ensure_reaper: the first caller spawns the task, which sleeps one interval.
ReaperEnsured == IF reaper = Unlimited THEN ReaperInterval ELSE reaper

(***************************************************************************)
(* Reservations for fresh dials.                                           *)
(***************************************************************************)
\* try_reserve_active: the check and the increment are one critical section.
TryReserveActive(s, k) ==
  /\ Owns(s, {"none"})
  /\ UnderCap(k)
  /\ active' = [active EXCEPT ![k] = @ + 1]
  /\ handle' = [handle EXCEPT ![s] = [kind |-> "reservation", key |-> k, conn |-> NoConn]]
  /\ UNCHANGED <<idle, sanIndex, conn, reaper>>

\* The dial fails, times out or is cancelled: the reservation is dropped.
DropReservation(s) ==
  /\ Owns(s, {"reservation"})
  /\ active' = [active EXCEPT ![handle[s].key] = Decremented(handle[s].key)]
  /\ handle' = [handle EXCEPT ![s] = Nothing]
  /\ UNCHANGED <<idle, sanIndex, conn, reaper>>

\* The dial succeeds: attach_active_reservation disarms the reservation and
\* makes the new transport the owner of the slot.
AttachActiveReservation(s, c) ==
  /\ Owns(s, {"reservation"})
  /\ Unreferenced(c)
  /\ conn' = [conn EXCEPT ![c] = FreshConn]
  /\ handle' = [handle EXCEPT ![s].kind = "original", ![s].conn = c]
  /\ UNCHANGED <<idle, active, sanIndex, reaper>>

\* rekey_active, when an adaptive h2c dial came back with HTTP/1.1: the unit of
\* the H2c key moves to the Auto key, with no look at the Auto key's cap.
RekeyActive(s) ==
  LET old == handle[s].key
      new == AutoOf[old]
      dec == [active EXCEPT ![old] = Decremented(old)]
  IN  /\ Owns(s, {"original"}) /\ handle[s].conn \notin Multiplexed
      /\ active' = [dec EXCEPT ![new] = @ + 1]
      /\ handle' = [handle EXCEPT ![s] = [kind |-> "original", key |-> new, conn |-> handle[s].conn]]
      /\ UNCHANGED <<idle, sanIndex, conn, reaper>>

(***************************************************************************)
(* Checkout.                                                               *)
(***************************************************************************)
\* Mutant: an HTTP/1.1 entry also stays in the queue while it is checked out.
CheckoutQueueKeepsEntry(q, M) ==
  Append(Scanned(q, M), [conn |-> q[Hit(q, M)].conn, age |-> 0])

\* The idle entry at the hit of a multiplexed transport stays, as the newest.
CheckoutQueue(q, M) ==
  LET c == q[Hit(q, M)].conn
  IN  IF c \in Multiplexed
        THEN Append(Scanned(q, M), [conn |-> c, age |-> 0])
        ELSE Scanned(q, M)

\* Mutant: a clone is handed out without counting its stream.
PermitTakenUncounted(c) == conn

\* What handing out transport c does to its stream count.
PermitTaken(c) ==
  IF c \in Multiplexed THEN [conn EXCEPT ![c].streams = @ + 1] ELSE conn

\* What a hit on transport c under key k leaves in the slot.
CheckedOut(c, k) ==
  [kind |-> IF c \in Multiplexed THEN "clone" ELSE "original", key |-> k, conn |-> c]

\* checkout and checkout_h3, when they find a connection.
CheckoutMatching(s, k, M) ==
  /\ Owns(s, {"none"})
  /\ UnderCap(k)
  /\ Hit(idle[k], M) > 0
  /\ LET c == idle[k][Hit(idle[k], M)].conn
     IN  /\ idle' = [idle EXCEPT ![k] = CheckoutQueue(@, M)]
         /\ active' = [active EXCEPT ![k] = @ + 1]
         /\ conn' = PermitTaken(c)
         /\ handle' = [handle EXCEPT ![s] = CheckedOut(c, k)]
  /\ UNCHANGED <<sanIndex, reaper>>

\* checkout and checkout_h3, when they find none: the scan still discards.
CheckoutMatchingMiss(k, M) ==
  /\ UnderCap(k)
  /\ Hit(idle[k], M) = 0
  /\ idle' = [idle EXCEPT ![k] = Scanned(@, M)]
  /\ UNCHANGED <<active, sanIndex, conn, handle, reaper>>

\* Entry i of candidate key k can serve host h, resolved to address a.
CoalesceUsable(k, i, h, a) ==
  LET c == idle[k][i].conn
  IN  /\ Unexpired(idle[k][i]) /\ c \in Multiplexed
      /\ k \in H3Keys => c \in H3Conns
      /\ h \in SansOf[c] /\ AddrOf[c] = a
      /\ IsReady(c) /\ PermitAvailable(c)

CoalesceCandidate(k, h, route) ==
  /\ k \in sanIndex[h]
  /\ RouteOf[k] = route /\ k \notin ForcedKeys /\ UnderCap(k)

\* Mutant: the clean-up also drops the keys the search skipped at their cap.
SanIndexPrunedAtCap(h) ==
  [sanIndex EXCEPT ![h] = {k \in @ : idle[k] # <<>> /\ UnderCap(k)}]

\* The clean-up at the end of checkout_coalesced.
SanIndexPruned(h) ==
  [sanIndex EXCEPT ![h] = {k \in @ : idle[k] # <<>>}]

\* checkout_coalesced: candidate keys come in hash order, so any may win; of
\* its queue the most recent usable entry is cloned in place.
CheckoutCoalesced(s, h, a, route) ==
  /\ Owns(s, {"none"})
  /\ \E k \in Keys :
       /\ CoalesceCandidate(k, h, route)
       /\ \E i \in DOMAIN idle[k] :
            LET c == idle[k][i].conn
            IN  /\ CoalesceUsable(k, i, h, a)
                /\ \A j \in DOMAIN idle[k] : j > i => ~CoalesceUsable(k, j, h, a)
                /\ idle' = [idle EXCEPT ![k][i].age = 0]
                /\ active' = [active EXCEPT ![k] = @ + 1]
                /\ conn' = PermitTaken(c)
                /\ handle' = [handle EXCEPT ![s] = CheckedOut(c, k)]
  /\ sanIndex' = SanIndexPruned(h)
  /\ UNCHANGED <<reaper>>

CheckoutCoalescedMiss(h, a, route) ==
  /\ \A k \in Keys : CoalesceCandidate(k, h, route) =>
       \A i \in DOMAIN idle[k] : ~CoalesceUsable(k, i, h, a)
  /\ sanIndex' = SanIndexPruned(h)
  /\ UNCHANGED <<idle, active, conn, handle, reaper>>

(***************************************************************************)
(* Check-in.                                                               *)
(***************************************************************************)
\* The queue with c as its newest entry; a full one loses its oldest.
Pushed(q, c) ==
  Append(IF Len(q) >= MaxIdlePerHost THEN Tail(q) ELSE q, [conn |-> c, age |-> 0])

\* checkin(k, c), apart from the active count: refused when nothing may idle or
\* the transport is too old, else registered under its SANs and pushed, evicting
\* the oldest entry of a full queue.
CheckinEntry(k, c) ==
  IF MaxIdlePerHost > 0 /\ WithinLifetime(c)
    THEN /\ idle' = [idle EXCEPT ![k] = Pushed(@, c)]
         /\ sanIndex' = [h \in Hosts |->
                           IF h \in SansOf[c] THEN sanIndex[h] \cup {k} ELSE sanIndex[h]]
    ELSE UNCHANGED <<idle, sanIndex>>

\* Mutant: the original is checked in with its key, which gives the slot back.
ShareFreshReleasing(s) ==
  LET k == handle[s].key
      c == handle[s].conn
  IN  /\ Owns(s, {"original"})
      /\ c \in Multiplexed /\ PermitAvailable(c)
      /\ conn' = PermitTaken(c)
      /\ handle' = [handle EXCEPT ![s].kind = "clone"]
      /\ CheckinEntry(k, c)
      /\ reaper' = ReaperEnsured
      /\ active' = [active EXCEPT ![k] = Decremented(k)]

\* A fresh h2/h3 transport: this request goes on with a clone, which inherits
\* the slot, and the original (its key cleared first) is checked in.
ShareFresh(s) ==
  LET k == handle[s].key
      c == handle[s].conn
  IN  /\ Owns(s, {"original"})
      /\ c \in Multiplexed /\ PermitAvailable(c)
      /\ conn' = PermitTaken(c)
      /\ handle' = [handle EXCEPT ![s].kind = "clone"]
      /\ CheckinEntry(k, c)
      /\ reaper' = ReaperEnsured
      /\ UNCHANGED <<active>>

\* Mutant: a multiplex clone can be checked in.
CheckinAllowedClone(s) == Owns(s, {"original", "clone"})

\* checkin_when_ready drops a multiplex clone instead of checking it in.
CheckinAllowed(s) == Owns(s, {"original"})

\* Mutant: an HTTP/1.1 connection is checked in while its body is streaming.
ReadyForCheckinWhenAlive(c) == c \in Multiplexed \/ conn[c].alive

\* checkin_when_ready need not wait for c.
ReadyForCheckin(c) == c \in Multiplexed \/ IsReady(c)

\* checkin_when_ready with an original that is ready or multiplexed.
CheckinNow(s) ==
  LET k == handle[s].key
      c == handle[s].conn
  IN  /\ CheckinAllowed(s)
      /\ ReadyForCheckin(c)
      /\ active' = [active EXCEPT ![k] = Decremented(k)]
      /\ handle' = [handle EXCEPT ![s] = Nothing]
      /\ CheckinEntry(k, c)
      /\ reaper' = ReaperEnsured
      /\ UNCHANGED conn

\* Mutant: the reaper is only ensured when a connection is checked in at once.
CheckinDeferredNoReaper(s) ==
  /\ Owns(s, {"original"})
  /\ ~ReadyForCheckin(handle[s].conn)
  /\ handle' = [handle EXCEPT ![s].kind = "draining"]
  /\ UNCHANGED <<idle, active, sanIndex, conn, reaper>>

\* checkin_when_ready with an HTTP/1.1 original whose body is still streaming:
\* a background task takes it over and keeps the slot.
CheckinDeferred(s) ==
  /\ Owns(s, {"original"})
  /\ ~ReadyForCheckin(handle[s].conn)
  /\ handle' = [handle EXCEPT ![s].kind = "draining"]
  /\ reaper' = ReaperEnsured
  /\ UNCHANGED <<idle, active, sanIndex, conn>>

\* The background task sees poll_ready succeed.
CheckinDrained(s) ==
  LET k == handle[s].key
      c == handle[s].conn
  IN  /\ Owns(s, {"draining"})
      /\ IsReady(c)
      /\ active' = [active EXCEPT ![k] = Decremented(k)]
      /\ handle' = [handle EXCEPT ![s] = Nothing]
      /\ CheckinEntry(k, c)
      /\ UNCHANGED <<conn, reaper>>

\* Mutant: the background task forgets the slot of what it abandons.
DrainAbandonedLeaking(s) ==
  /\ Owns(s, {"draining"})
  /\ ~IsReady(handle[s].conn)
  /\ handle' = [handle EXCEPT ![s] = Nothing]
  /\ UNCHANGED <<idle, active, sanIndex, conn, reaper>>

\* Mutant: the background task waits without a timer.
DrainAbandonedOnClose(s) ==
  /\ Owns(s, {"draining"})
  /\ ~conn[handle[s].conn].alive
  /\ active' = [active EXCEPT ![handle[s].key] = Decremented(handle[s].key)]
  /\ handle' = [handle EXCEPT ![s] = Nothing]
  /\ UNCHANGED <<idle, sanIndex, conn, reaper>>

\* The background task sees the transport close, or its idle_timeout first.
DrainAbandoned(s) ==
  LET k == handle[s].key
  IN  /\ Owns(s, {"draining"})
      /\ ~IsReady(handle[s].conn)
      /\ active' = [active EXCEPT ![k] = Decremented(k)]
      /\ handle' = [handle EXCEPT ![s] = Nothing]
      /\ UNCHANGED <<idle, sanIndex, conn, reaper>>

\* Dropping a PooledConnection: a clone handed back by checkin_when_ready, a
\* failed send, a response that forbids reuse, or a cancelled request.
DropHandle(s) ==
  LET k == handle[s].key
  IN  /\ Owns(s, {"original", "clone"})
      /\ active' = [active EXCEPT ![k] = Decremented(k)]
      /\ conn' = PermitReleased(s)
      /\ handle' = [handle EXCEPT ![s] = Nothing]
      /\ UNCHANGED <<idle, sanIndex, reaper>>

(***************************************************************************)
(* HTTP/2 CONNECT tunnels.                                                 *)
(***************************************************************************)
\* Mutant: the clone releases its permit although the response took it.
RetainConnectStreamPermitTwice(s) ==
  /\ Tunnels
  /\ Owns(s, {"clone"})
  /\ active' = [active EXCEPT ![handle[s].key] = Decremented(handle[s].key)]
  /\ conn' = PermitReleased(s)
  /\ handle' = [handle EXCEPT ![s].kind = "permit", ![s].key = NoKey]
  /\ UNCHANGED <<idle, sanIndex, reaper>>

\* retain_connect_stream_permit, then the drop of the clone it came from: the
\* slot's unit goes back, the permit lives on in the response.
RetainConnectStreamPermit(s) ==
  LET k == handle[s].key
  IN  /\ Tunnels
      /\ Owns(s, {"clone"})
      /\ active' = [active EXCEPT ![k] = Decremented(k)]
      /\ handle' = [handle EXCEPT ![s].kind = "permit", ![s].key = NoKey]
      /\ UNCHANGED <<idle, sanIndex, conn, reaper>>

\* The upgraded stream ends.
DropPermit(s) ==
  /\ Owns(s, {"permit"})
  /\ conn' = [conn EXCEPT ![handle[s].conn].streams = @ - 1]
  /\ handle' = [handle EXCEPT ![s] = Nothing]
  /\ UNCHANGED <<idle, active, sanIndex, reaper>>

\* Response::into_http_response: the transport leaves the pool's control.
RetirePermitTransport(s) ==
  /\ Owns(s, {"permit"})
  /\ conn' = [conn EXCEPT ![handle[s].conn].retired = TRUE]
  /\ UNCHANGED <<idle, active, sanIndex, handle, reaper>>

\* retire_multiplex_transport after a malformed CONNECT answer, and the drop of
\* the handle when the error returns: its key is already cleared by then, so
\* Drop gives no slot back.
RetireMultiplexTransport(s) ==
  LET k == handle[s].key
      c == handle[s].conn
  IN  /\ Tunnels
      /\ Owns(s, {"original", "clone"})
      /\ c \in Multiplexed
      /\ conn' = [PermitReleased(s) EXCEPT ![c].retired = TRUE]
      /\ idle' = [idle EXCEPT ![k] = <<>>]
      /\ handle' = [handle EXCEPT ![s] = Nothing]
      /\ UNCHANGED <<active, sanIndex, reaper>>

(***************************************************************************)
(* Eviction and the reaper.                                                *)
(***************************************************************************)
\* A send on an h2/h3 handle failed as stale: the whole key is evicted while
\* the failed handle is still held.
Evict(s) ==
  /\ Owns(s, {"original", "clone"}) /\ handle[s].conn \in Multiplexed
  /\ idle' = [idle EXCEPT ![handle[s].key] = <<>>]
  /\ UNCHANGED <<active, sanIndex, conn, handle, reaper>>

\* The reaper wakes: prune_expired over every queue, then the index keeps only
\* keys that still have a queue, and the task sleeps another interval.
PruneExpired ==
  /\ reaper = 0
  /\ idle' = [k \in Keys |->
                Keep(idle[k], {i \in 1..Len(idle[k]) : Unexpired(idle[k][i])})]
  /\ sanIndex' = [h \in Hosts |-> {k \in sanIndex[h] : idle'[k] # <<>>}]
  /\ reaper' = ReaperInterval
  /\ UNCHANGED <<active, conn, handle>>

(***************************************************************************)
(* The environment.                                                        *)
(***************************************************************************)
\* One tick older: ages beyond the bound they are compared with are not told apart,
\* and no bound (Unlimited) means no comparison.
Older(n, bound) == IF n < bound THEN n + 1 ELSE n

Tick ==
  /\ conn' = [c \in Conns |-> [conn[c] EXCEPT !.age = Older(@, MaxLifetime)]]
  /\ idle' = [k \in Keys |-> [i \in 1..Len(idle[k]) |->
                [idle[k][i] EXCEPT !.age = Older(@, IdleTimeout)]]]
  /\ reaper' = IF reaper > 0 THEN reaper - 1 ELSE reaper
  /\ UNCHANGED <<active, sanIndex, handle>>

\* The peer closes, or the connection driver fails.
PeerClose(c) ==
  /\ conn[c].alive /\ ~Unreferenced(c)
  /\ conn' = [conn EXCEPT ![c].alive = FALSE]
  /\ UNCHANGED <<idle, active, sanIndex, handle, reaper>>

\* An HTTP/1.1 request goes out: the sender is not ready until its response
\* has been read to the end.
SendH1(s) ==
  /\ Owns(s, {"original"}) /\ handle[s].conn \notin Multiplexed
  /\ IsReady(handle[s].conn)
  /\ conn' = [conn EXCEPT ![handle[s].conn].busy = TRUE]
  /\ UNCHANGED <<idle, active, sanIndex, handle, reaper>>

BodyDrained(c) ==
  /\ conn[c].busy
  /\ conn' = [conn EXCEPT ![c].busy = FALSE]
  /\ UNCHANGED <<idle, active, sanIndex, handle, reaper>>

Next ==
  \/ \E s \in Slots :
       \/ DropReservation(s) \/ RekeyActive(s) \/ ShareFresh(s) \/ CheckinNow(s) \/ CheckinDeferred(s)
       \/ CheckinDrained(s) \/ DrainAbandoned(s) \/ DropHandle(s)
       \/ RetainConnectStreamPermit(s) \/ DropPermit(s) \/ RetirePermitTransport(s)
       \/ RetireMultiplexTransport(s) \/ Evict(s) \/ SendH1(s)
       \/ \E k \in Keys : TryReserveActive(s, k)
       \/ \E c \in Conns : AttachActiveReservation(s, c)
       \/ \E k \in Keys, M \in {Conns, H3Conns} : CheckoutMatching(s, k, M)
       \/ \E h \in Hosts, c \in Conns, k \in Keys :
            CheckoutCoalesced(s, h, AddrOf[c], RouteOf[k])
  \/ \E k \in Keys, M \in {Conns, H3Conns} : CheckoutMatchingMiss(k, M)
  \/ \E h \in Hosts, c \in Conns, k \in Keys : CheckoutCoalescedMiss(h, AddrOf[c], RouteOf[k])
  \/ PruneExpired
  \/ Tick
  \/ \E c \in Conns : PeerClose(c) \/ BodyDrained(c)

Spec == Init /\ [][Next]_vars

(***************************************************************************)
(* Time passes, and the tasks the pool itself spawned run when their timer *)
(* or their connection wakes them.  Nothing is assumed of the requests.    *)
(***************************************************************************)
Fairness ==
  /\ WF_vars(Tick) /\ WF_vars(PruneExpired)
  /\ \A s \in Slots : WF_vars(CheckinDrained(s)) /\ WF_vars(DrainAbandoned(s))

FairSpec == Spec /\ Fairness

(***************************************************************************)
(* Properties.                                                             *)
(***************************************************************************)
\* The type invariant of the pool, its transports and its handles
\* (PoolInner, PooledConnection, ActiveReservation, ActiveStreamPermit).
TypeOK ==
  /\ idle \in [Keys -> Seq(Entry)]
  /\ active \in [Keys -> Nat]
  /\ sanIndex \in [Hosts -> SUBSET Keys]
  /\ conn \in [Conns -> Transport]
  /\ handle \in [Slots -> Handle]
  /\ reaper \in Nat \cup {Unlimited}

\* No unit of an active count is given back while its owner still holds the
\* slot: whatever is reserved, checked out or draining under a key is counted,
\* through every hand-over between reservations, originals, clones and
\* background tasks (attach_active_reservation, rekey_active, the clone of a
\* fresh transport, checkin_when_ready).
NoEarlyRelease == \A k \in Keys : Cardinality(Holders(k)) <= active[k]

\* ... and without CONNECT tunnels the count is exact: "check-in or drop releases
\* the active slot exactly once" (pool/mod.rs:506).
SlotsBalanced == \A k \in Keys : active[k] = Cardinality(Holders(k))

\* The Auto keys an adaptive h2c dial may move its slot to.
RekeyTargets == {AutoOf[k] : k \in {j \in Keys : AutoOf[j] # j}}

\* pool_max_active_per_host: no interleaving of reservations, checkouts and
\* coalesced checkouts takes a key over the cap, unless rekey_active can.
ActiveWithinCap ==
  MaxActivePerHost # Unlimited =>
    \A k \in Keys \ RekeyTargets : active[k] <= MaxActivePerHost

\* The shared stream counter of a transport is the number of permits alive:
\* those of its clones and those an upgraded CONNECT response retained.
StreamsExact == \A c \in Conns : conn[c].streams = Cardinality(PermitHolders(c))

\* pool_max_active_streams_per_connection is never exceeded.
StreamsWithinCap ==
  MaxActiveStreams # Unlimited => \A c \in Conns : conn[c].streams <= MaxActiveStreams

\* The places an owner of transport c itself (not a clone) can be.
IdlePlaces(c) ==
  UNION {{<<k, i>> : i \in {j \in DOMAIN idle[k] : idle[k][j].conn = c}} : k \in Keys}
OriginalHolders(c) == {s \in Slots : Owns(s, {"original", "draining"}) /\ handle[s].conn = c}

\* All handles of a transport, and its idle entry, are under one pool key: what
\* was dialled for one route or forced address never surfaces under another.
OneKey ==
  \A s \in Slots : Owns(s, {"original", "clone", "draining"}) =>
    /\ \A t \in Slots :
         Owns(t, {"original", "clone", "draining"}) /\ handle[t].conn = handle[s].conn
           => handle[t].key = handle[s].key
    /\ \A p \in IdlePlaces(handle[s].conn) : p[1] = handle[s].key

\* A transport has one owner at a time and one key: it is idle at one place, or
\* checked out or draining in one slot, never both, and no clone of it is under
\* another key.  For HTTP/1.1, where there are no clones, two requests never
\* share a socket.
OneOwner ==
  /\ OneKey
  /\ \A c \in Conns :
       /\ \A p, q \in IdlePlaces(c) : p = q
       /\ \A s, t \in OriginalHolders(c) : s = t
       /\ IdlePlaces(c) = {} \/ OriginalHolders(c) = {}
       /\ c \notin Multiplexed => PermitHolders(c) = {}

\* checkout_coalesced finds its candidates through the index alone, so the index
\* covers every idle transport, whatever was pruned or evicted in between.
SanIndexCovers ==
  \A k \in Keys : \A i \in DOMAIN idle[k] :
    \A h \in SansOf[idle[k][i].conn] : k \in sanIndex[h]

\* checkin_when_ready "prevents concurrent checkouts from finding (and
\* destroying) not-ready connections in the pool": an HTTP/1.1 transport whose
\* response is still streaming is never idle.
NoBusyIdle == \A k \in Keys : \A i \in DOMAIN idle[k] : ~conn[idle[k][i].conn].busy

\* Once a transport has left the idle queue by evict, capacity, expiry or
\* retirement and only clones of it are left, it never comes back: "multiplexed
\* clones sharing the same broken transport are not re-issued" (pool/mod.rs:877).
EvictionIsFinal ==
  [][\A c \in Multiplexed :
       IdlePlaces(c) = {} /\ OriginalHolders(c) = {} => IdlePlaces(c)' = {}]_vars

\* Idle entries of an unused host do not stay: whatever expires while idle is
\* evicted, by a checkout or, if none comes, by the reaper.
ExpiredIdle(c) ==
  \E k \in Keys : \E i \in DOMAIN idle[k] : idle[k][i].conn = c /\ ~Unexpired(idle[k][i])
ExpiredReaped == \A c \in Conns : ExpiredIdle(c) ~> ~ExpiredIdle(c)

\* A background check-in never holds its slot for ever, even if the response
\* body is never read (checkin_when_ready races it with idle_timeout).
DrainEnds == \A s \in Slots : Owns(s, {"draining"}) ~> ~Owns(s, {"draining"})

\* The slots the pool counts are those that hold a handle: nothing is counted
\* once its owner is gone (the half of SlotsBalanced that tunnels break).
NoLeakedSlot == \A k \in Keys : active[k] <= Cardinality(Holders(k))
=============================================================================
