------------------------------ MODULE Dispatch ------------------------------
(***************************************************************************)
(* Requests on top of the connection pool: execute_single_with_hint_send   *)
(* (client/dispatch_send.rs, and its Local twin dispatch_local.rs), with   *)
(* the send and replay rules of client/connection_lifecycle.rs and         *)
(* client/replay.rs, for the build without the http3 feature.              *)
(*                                                                         *)
(* Every request is a task.  Between two await points a task runs without  *)
(* being cancelled, but other threads run too, so each critical section of *)
(* the pool it goes through is a step of its own.  At an await the task    *)
(* may also fail, time out or be cancelled (Abandon): it then drops what   *)
(* it holds in the order Rust drops its locals.                            *)
(*                                                                         *)
(* What a task holds of the pool is in handle: a task has two slots, as it *)
(* holds two connections while it swaps a fresh one for a pooled one.      *)
(***************************************************************************)
EXTENDS ConnectionPool

CONSTANTS
  Tasks,              \* the tasks that execute requests
  Requests,           \* the requests they may execute: see Request
  MaxPolls,           \* polls of the wait loop when no connect_timeout is set
  ConnectTimeout,     \* whether a connect_timeout is set
  NoConnectionReuse   \* the engine's no_connection_reuse

(***************************************************************************)
(* What dispatch asks about a request: its pool key; whether it is an      *)
(* adaptive h2c request, whether it may speak HTTP/2 (may_h2), and which   *)
(* protocols a dial can come back with; whether it is eligible for         *)
(* coalescing; BodyReplayability (one-shot or reproducible); whether the   *)
(* method is idempotent, or CONNECT; and FreshConnectionRequired.          *)
(***************************************************************************)
Request ==
  [key : Keys, adaptive : BOOLEAN, mayH2 : BOOLEAN, dials : SUBSET {"h1", "h2"},
   coalesce : BOOLEAN, oneShot : BOOLEAN, idempotent : BOOLEAN, connect : BOOLEAN,
   fresh : BOOLEAN]

ASSUME DispatchAssumption ==
  /\ Slots = Tasks \X {1, 2}
  /\ Requests \subseteq Request /\ Requests # {}
  /\ MaxPolls \in Nat \ {0}
  /\ ConnectTimeout \in BOOLEAN /\ NoConnectionReuse \in BOOLEAN

VARIABLES
  marks,   \* connecting_h2: the keys somebody is dialling an HTTP/2 connection for
  task     \* the local variables of each task

dispatchVars == <<idle, active, sanIndex, conn, handle, reaper, marks, task>>

Phases ==
  {"idle", "lookup", "lookupAuto", "resolve", "mark", "wait", "remark", "reserve", "dial",
   "fellBack", "rekey", "dialled", "share", "swap", "unmark", "send", "sent", "replay", "recovered", "checkin",
   "unwind"}

\* How a task came by the connection it sends on.
Sources == {"pooled", "coalesced", "awaited", "fresh"}

\* pc and the locals of a request: pool_key, owns_h2_mark (with H2ConnectGuard),
\* stale_replay_budget, the polls of the wait loop, and cur, the slot of its
\* connection.  History: how often the request went on the wire, and how often the
\* server processed it.
Task ==
  [pc : Phases, req : Request, key : Keys, source : Sources, cur : {1, 2},
   marked : BOOLEAN, claimed : BOOLEAN, polls : Nat,
   wire : Nat, processed : Nat]

Slot(t) == <<t, task[t].cur>>
Other(t) == <<t, 3 - task[t].cur>>
At(t, phases) == task[t].pc \in phases

\* can_use_pooled_connection.
CanUsePooled(r) == ~NoConnectionReuse /\ ~r.fresh

\* Where a request goes once the lookup has failed.
Missed(r) == IF r.coalesce /\ CanUsePooled(r) THEN "resolve" ELSE "mark"

Started(r) ==
  [pc |-> IF CanUsePooled(r) THEN "lookup" ELSE Missed(r), req |-> r, key |-> r.key,
   source |-> "fresh", cur |-> 1, marked |-> FALSE, claimed |-> FALSE, polls |-> 0,
   wire |-> 0, processed |-> 0]

\* A task between two requests; its locals are gone.
IdleTask == [Started(CHOOSE r \in Requests : TRUE) EXCEPT !.pc = "idle"]

DispatchInit ==
  /\ Init
  /\ marks = {}
  /\ task = [t \in Tasks |-> IdleTask]

Goto(t, phase) == task' = [task EXCEPT ![t].pc = phase]

\* checkout(k) finds nothing: at the cap it does not even look.
CheckoutNone(k) ==
  \/ CheckoutMatchingMiss(k, Conns)
  \/ ~UnderCap(k) /\ UNCHANGED vars

(***************************************************************************)
(* Pool lookup.                                                            *)
(***************************************************************************)
Begin(t, r) ==
  /\ At(t, {"idle"})
  /\ Owns(<<t, 1>>, {"none"}) /\ Owns(<<t, 2>>, {"none"})
  /\ task' = [task EXCEPT ![t] = Started(r)]
  /\ UNCHANGED <<vars, marks>>

\* An adaptive request that misses under its H2c key also looks under Auto.
LookupKey(t) == IF At(t, {"lookupAuto"}) THEN AutoOf[task[t].key] ELSE task[t].key

\* pool_key becomes the key the connection was found under.
LookupHit(t) ==
  /\ At(t, {"lookup", "lookupAuto"})
  /\ CheckoutMatching(Slot(t), LookupKey(t), Conns)
  /\ task' = [task EXCEPT ![t].pc = "send", ![t].source = "pooled", ![t].key = LookupKey(t)]
  /\ UNCHANGED marks

LookupMiss(t) ==
  /\ At(t, {"lookup", "lookupAuto"})
  /\ CheckoutNone(LookupKey(t))
  /\ Goto(t, IF At(t, {"lookup"}) /\ task[t].req.adaptive THEN "lookupAuto" ELSE Missed(task[t].req))
  /\ UNCHANGED marks

\* The name is resolved and the pool searched for a connection to coalesce on.
ResolveHit(t, h, a) ==
  /\ At(t, {"resolve"})
  /\ CheckoutCoalesced(Slot(t), h, a, RouteOf[task[t].key])
  /\ task' = [task EXCEPT ![t].pc = "send", ![t].source = "coalesced"]
  /\ UNCHANGED marks

ResolveMiss(t, h, a) ==
  /\ At(t, {"resolve"})
  /\ CheckoutCoalescedMiss(h, a, RouteOf[task[t].key])
  /\ Goto(t, "mark")
  /\ UNCHANGED marks

(***************************************************************************)
(* One dial at a time per HTTP/2 key.                                      *)
(***************************************************************************)
NeedsMark(r) == r.mayH2 /\ CanUsePooled(r)

\* mark_connecting_h2: the first task dials, the others wait.
Mark(t) ==
  LET k == task[t].key
      r == task[t].req
  IN  /\ At(t, {"mark"})
      /\ marks' = IF NeedsMark(r) THEN marks \cup {k} ELSE marks
      /\ task' = [task EXCEPT ![t].pc = IF NeedsMark(r) /\ k \in marks THEN "wait" ELSE "reserve",
                              ![t].marked = NeedsMark(r) /\ k \notin marks]
      /\ UNCHANGED vars

\* A poll of the wait loop, after its sleep, that finds a connection.
WaitHit(t) ==
  /\ At(t, {"wait"})
  /\ CheckoutMatching(Slot(t), task[t].key, Conns)
  /\ task' = [task EXCEPT ![t].pc = "send", ![t].source = "awaited"]
  /\ UNCHANGED marks

\* Mutant: the wait loop does not count its polls.
WaitMissUncounted(t) ==
  /\ At(t, {"wait"})
  /\ CheckoutNone(task[t].key)
  /\ Goto(t, "wait")
  /\ UNCHANGED marks

\* A poll that finds none.  With a connect_timeout only the deadline ends the
\* loop (max_polls is usize::MAX).
WaitMiss(t) ==
  LET last == ~ConnectTimeout /\ task[t].polls + 1 = MaxPolls
  IN  /\ At(t, {"wait"})
      /\ CheckoutNone(task[t].key)
      /\ task' = [task EXCEPT ![t].pc = IF last THEN "remark" ELSE "wait",
                              ![t].polls = IF ConnectTimeout \/ last THEN 0 ELSE @ + 1]
      /\ UNCHANGED marks

\* Mutant: a task that waited long enough takes the mark over.
RemarkTakingOver(t) ==
  /\ At(t, {"remark"})
  /\ marks' = marks \cup {task[t].key}
  /\ task' = [task EXCEPT ![t].pc = "reserve", ![t].marked = TRUE]
  /\ UNCHANGED vars

\* Mutant: a task that waited long enough waits again until it owns the mark.
RemarkWaits(t) ==
  /\ At(t, {"remark"})
  /\ marks' = marks \cup {task[t].key}
  /\ task' = [task EXCEPT ![t].pc = IF task[t].key \in marks THEN "wait" ELSE "reserve",
                          ![t].marked = task[t].key \notin marks]
  /\ UNCHANGED vars

\* After the wait loop: make sure the mark is set, owning it if it was not.
Remark(t) ==
  /\ At(t, {"remark"})
  /\ marks' = marks \cup {task[t].key}
  /\ task' = [task EXCEPT ![t].pc = "reserve", ![t].marked = task[t].key \notin marks]
  /\ UNCHANGED vars

(***************************************************************************)
(* The fresh connection.                                                   *)
(***************************************************************************)
\* try_reserve_active; at the cap the request fails with a PoolLimit error.
Reserve(t) ==
  /\ At(t, {"reserve"})
  /\ \/ TryReserveActive(Slot(t), task[t].key) /\ Goto(t, "dial")
     \/ ~UnderCap(task[t].key) /\ UNCHANGED vars /\ Goto(t, "unwind")
  /\ UNCHANGED marks

\* DNS, TCP, proxy hops, TLS and the HTTP handshake have succeeded with c, which
\* takes over the reservation; H2ConnectGuard is disarmed.
Dialled(t, c) ==
  LET h2 == c \in Multiplexed
      r == task[t].req
  IN  /\ At(t, {"dial"})
      /\ (IF h2 THEN "h2" ELSE "h1") \in r.dials
      /\ AttachActiveReservation(Slot(t), c)
      /\ Goto(t, CASE r.adaptive /\ ~h2 -> "fellBack"
                   [] h2 /\ CanUsePooled(r) -> "dialled"
                   [] OTHER -> "unmark")
      /\ UNCHANGED marks

\* Mutant: the mark is removed after pool_key has become the Auto key.
FellBackLate(t) ==
  /\ At(t, {"fellBack"})
  /\ marks' = IF task[t].marked THEN marks \ {AutoOf[task[t].key]} ELSE marks
  /\ task' = [task EXCEPT ![t].pc = "rekey", ![t].marked = FALSE]
  /\ UNCHANGED vars

\* An adaptive probe fell back to HTTP/1.1: the mark goes first, under the H2c key.
FellBack(t) ==
  /\ At(t, {"fellBack"})
  /\ marks' = IF task[t].marked THEN marks \ {task[t].key} ELSE marks
  /\ task' = [task EXCEPT ![t].pc = "rekey", ![t].marked = FALSE]
  /\ UNCHANGED vars

\* Mutant: the handle gets its new key, the counts stay as they are.
RekeyUncounted(t) ==
  /\ At(t, {"rekey"})
  /\ handle' = [handle EXCEPT ![Slot(t)].key = AutoOf[@]]
  /\ task' = [task EXCEPT ![t].pc = "unmark", ![t].key = AutoOf[@]]
  /\ UNCHANGED <<idle, active, sanIndex, conn, reaper, marks>>

\* ... then the slot moves to the Auto key, and pool_key with it.
Rekey(t) ==
  /\ At(t, {"rekey"})
  /\ RekeyActive(Slot(t))
  /\ task' = [task EXCEPT ![t].pc = "unmark", ![t].key = AutoOf[@]]
  /\ UNCHANGED marks

\* A fresh HTTP/2 connection: if another task has pooled one by now, take that.
PreferExisting(t) ==
  /\ At(t, {"dialled"}) /\ ~task[t].req.oneShot
  /\ \/ CheckoutMatching(Other(t), task[t].key, Conns) /\ Goto(t, "swap")
     \/ CheckoutNone(task[t].key) /\ Goto(t, "share")
  /\ UNCHANGED marks

\* Mutant: the redundant connection is not dropped.
SwapKeepsFresh(t) ==
  /\ At(t, {"swap"})
  /\ task' = [task EXCEPT ![t].pc = "unmark", ![t].cur = 3 - @]
  /\ UNCHANGED <<vars, marks>>

Swap(t) ==
  /\ At(t, {"swap"})
  /\ DropHandle(Slot(t))
  /\ task' = [task EXCEPT ![t].pc = "unmark", ![t].cur = 3 - @]
  /\ UNCHANGED marks

\* Otherwise pool the fresh connection at once and go on with a clone of it.
Share(t) ==
  /\ At(t, {"share"}) \/ (At(t, {"dialled"}) /\ task[t].req.oneShot)
  /\ ShareFresh(Slot(t))
  /\ Goto(t, "unmark")
  /\ UNCHANGED marks

\* The mark goes only now that the waiters can find the connection.
Unmark(t) ==
  /\ At(t, {"unmark"})
  /\ marks' = IF task[t].marked THEN marks \ {task[t].key} ELSE marks
  /\ task' = [task EXCEPT ![t].pc = "send", ![t].source = "fresh", ![t].marked = FALSE]
  /\ UNCHANGED vars

(***************************************************************************)
(* Sending.                                                                *)
(***************************************************************************)
\* The transport accepts the request and starts to serialise it.
Accepted(t) ==
  LET c == handle[Slot(t)].conn
  IN  /\ At(t, {"send"})
      /\ conn[c].alive
      /\ IF c \in Multiplexed THEN UNCHANGED vars ELSE SendH1(Slot(t))
      /\ task' = [task EXCEPT ![t].pc = "sent", ![t].wire = @ + 1]
      /\ UNCHANGED marks

\* What a stale failure on the connection in hand does to the pool.
EvictStale(t) ==
  IF task[t].source # "fresh" /\ handle[Slot(t)].conn \in Multiplexed
    THEN Evict(Slot(t)) ELSE UNCHANGED vars

\* The transport is closed and hands the request back: try_send_request returns
\* it and the dispatch goes on; on a fresh connection the request fails.
Rejected(t) ==
  /\ At(t, {"send"})
  /\ ~conn[handle[Slot(t)].conn].alive
  /\ EvictStale(t)
  /\ Goto(t, IF task[t].source = "fresh" THEN "unwind" ELSE "recovered")
  /\ UNCHANGED marks

\* The history of what the server processed, kept for the requests that must not
\* be processed twice.
Processed(t, n) == IF task[t].req.idempotent THEN 0 ELSE task[t].processed + n

Responded(t) ==
  /\ At(t, {"sent"})
  /\ task' = [task EXCEPT ![t].pc = "checkin", ![t].processed = Processed(t, 1)]
  /\ UNCHANGED <<vars, marks>>

\* Mutant: an ambiguous failure is replayed whatever the method.
PermitsAnyMethod(r, reason) == ~r.oneShot

\* Mutant: the body is not looked at.
PermitsAnyBody(r, reason) == reason = "unprocessed" \/ r.idempotent

\* RequestReplayPolicy::permits, for the two reasons a stale failure can have.
Permits(r, reason) == ~r.oneShot /\ (reason = "unprocessed" \/ r.idempotent)

\* Mutant: the budget is not shared between the branches.
ClaimUnlimited(t, reason) == task[t].source # "fresh" /\ Permits(task[t].req, reason)

\* claim_dispatch_replay; the fresh path has no replay.
Claim(t, reason) ==
  /\ task[t].source # "fresh"
  /\ ~task[t].claimed
  /\ Permits(task[t].req, reason)

\* The connection fails under the request, which the server may have processed
\* (n = 1) unless HTTP/2 proves that it has not.
Stale(t, reason, n) ==
  /\ At(t, {"sent"})
  /\ reason = "unprocessed" => handle[Slot(t)].conn \in Multiplexed /\ n = 0
  /\ EvictStale(t)
  /\ task' = [task EXCEPT ![t].pc = IF Claim(t, reason) THEN "replay" ELSE "unwind",
                          ![t].claimed = @ \/ Claim(t, reason),
                          ![t].processed = Processed(t, n)]
  /\ UNCHANGED marks

\* A malformed answer to CONNECT over HTTP/2 retires the transport.
Malformed(t) ==
  /\ At(t, {"sent"}) /\ task[t].req.connect
  /\ RetireMultiplexTransport(Slot(t))
  /\ task' = [task EXCEPT ![t].pc = "unwind", ![t].processed = Processed(t, 1)]
  /\ UNCHANGED marks

\* The dead connection is dropped and dispatch continues where it was: with
\* coalescing, with the mark, or, in the wait loop, behind it.
Resume(t) ==
  /\ At(t, {"replay", "recovered"})
  /\ DropHandle(Slot(t))
  /\ Goto(t, CASE task[t].source = "pooled" -> Missed(task[t].req)
               [] task[t].source = "coalesced" -> "mark"
               [] OTHER -> "remark")
  /\ UNCHANGED marks

\* The response is handed to the caller: should_skip_checkin, no_connection_reuse
\* or a clone drop the connection; CONNECT keeps its permit; else it is checked in.
CheckIn(t) ==
  /\ At(t, {"checkin"})
  /\ \/ DropHandle(Slot(t))
     \/ task[t].req.connect /\ RetainConnectStreamPermit(Slot(t))
     \/ ~NoConnectionReuse /\ (CheckinNow(Slot(t)) \/ CheckinDeferred(Slot(t)))
  /\ task' = [task EXCEPT ![t] = IdleTask]
  /\ UNCHANGED marks

(***************************************************************************)
(* The ways out.                                                           *)
(***************************************************************************)
\* An await returns an error, expires, or the request is cancelled there; a
\* request on the wire may have been processed (n = 1).
Abandon(t, n) ==
  /\ At(t, {"resolve", "wait", "dial", "sent", "replay"})
  /\ n = 1 => At(t, {"sent"})
  /\ task' = [task EXCEPT ![t].pc = "unwind", ![t].processed = Processed(t, n)]
  /\ UNCHANGED <<vars, marks>>

\* The locals are dropped in reverse order: reservation or connection first.
UnwindHandle(t) ==
  /\ At(t, {"unwind"})
  /\ DropReservation(Slot(t)) \/ DropHandle(Slot(t))
  /\ UNCHANGED <<marks, task>>

\* Mutant: no H2ConnectGuard.
UnwindMarkLeft(t) ==
  /\ At(t, {"unwind"})
  /\ Owns(Slot(t), {"none"})
  /\ task' = [task EXCEPT ![t] = IdleTask]
  /\ UNCHANGED <<vars, marks>>

\* ... then H2ConnectGuard.
UnwindMark(t) ==
  /\ At(t, {"unwind"})
  /\ Owns(Slot(t), {"none"})
  /\ marks' = IF task[t].marked THEN marks \ {task[t].key} ELSE marks
  /\ task' = [task EXCEPT ![t] = IdleTask]
  /\ UNCHANGED vars

(***************************************************************************)
(* Specification.                                                          *)
(***************************************************************************)
TaskStep(t) ==
  \/ LookupHit(t) \/ LookupMiss(t)
  \/ \E h \in Hosts, c \in Conns : ResolveHit(t, h, AddrOf[c]) \/ ResolveMiss(t, h, AddrOf[c])
  \/ Mark(t) \/ WaitHit(t) \/ WaitMiss(t) \/ Remark(t)
  \/ Reserve(t) \/ (\E c \in Conns : Dialled(t, c)) \/ FellBack(t) \/ Rekey(t)
  \/ PreferExisting(t) \/ Swap(t) \/ Share(t) \/ Unmark(t)
  \/ Accepted(t) \/ Rejected(t) \/ Responded(t) \/ Malformed(t) \/ Resume(t) \/ CheckIn(t)
  \/ \E reason \in {"ambiguous", "unprocessed"}, n \in {0, 1} : Stale(t, reason, n)
  \/ \E n \in {0, 1} : Abandon(t, n)
  \/ UnwindHandle(t) \/ UnwindMark(t)

\* What goes on in the pool beside the requests.
Environment ==
  /\ \/ Tick \/ PruneExpired
     \/ \E c \in Conns : PeerClose(c) \/ BodyDrained(c)
     \/ \E s \in Slots : CheckinDrained(s) \/ DrainAbandoned(s) \/ DropPermit(s) \/ RetirePermitTransport(s)
  /\ UNCHANGED <<marks, task>>

DispatchNext ==
  \/ \E t \in Tasks : TaskStep(t) \/ \E r \in Requests : Begin(t, r)
  \/ Environment

DispatchSpec == DispatchInit /\ [][DispatchNext]_dispatchVars

\* Only the timers of the wait loop are assumed to run: the dial it waits for
\* may never end.
WaitFairSpec ==
  DispatchSpec /\ \A t \in Tasks : WF_dispatchVars(WaitHit(t) \/ WaitMiss(t))

(***************************************************************************)
(* Properties.                                                             *)
(***************************************************************************)
\* The type of marks and task (connecting_h2 and the locals of dispatch).
DispatchTypeOK == marks \subseteq Keys /\ task \in [Tasks -> Task]

Owners(k) == {t \in Tasks : task[t].marked /\ task[t].key = k}

\* Whatever fails, times out or is cancelled while dialling, a mark of
\* connecting_h2 always has the one task that will remove it: a mark without
\* owner would make every later request for the key wait in vain, and a mark
\* with two would be removed while somebody still dials.
MarkOwned ==
  /\ \A k \in marks : Owners(k) # {}
  /\ \A k \in Keys : \A t, u \in Owners(k) : t = u /\ k \in marks

\* A request that ended holds neither a mark nor a slot: what is left of it is
\* at most a background check-in or the permit of its tunnel.
EndedHoldsNothing ==
  \A t \in Tasks : At(t, {"idle"}) =>
    /\ ~task[t].marked
    /\ \A i \in {1, 2} : Owns(<<t, i>>, {"none", "draining", "permit"})

\* "A stale HTTP/1 connection that may have delivered a request does not cause
\* an ambiguous non-idempotent request to be sent again": the server processes
\* it at most once, over all branches of dispatch.
ProcessedOnce ==
  \A t \in Tasks : ~task[t].req.idempotent => task[t].processed <= 1

\* "Once serialization is accepted, a later write or connection failure does
\* not make the body replayable": a one-shot body goes on the wire once.
OneShotSentOnce == \A t \in Tasks : task[t].req.oneShot => task[t].wire <= 1

\* StaleReplayBudget's "one-replay invariant": whatever sequence of pooled,
\* coalesced, awaited and fresh connections fails, two wire attempts at most.
OneReplay == \A t \in Tasks : task[t].wire <= 2

\* The tasks use the pool as its clients may: every step of dispatch is a step
\* of the pool's specification, so what is proved of the pool holds here.
PoolSpec == Spec

\* A waiter is never stuck behind a dial, even one that never ends.
WaitEnds == \A t \in Tasks : At(t, {"wait"}) ~> ~At(t, {"wait"})

\* Tasks are scheduled, and every await ends: the wait loop by its timer, a dial
\* and a response by the timeouts the caller sets.
AwaitsEnd == \A t \in Tasks : WF_dispatchVars(TaskStep(t))

\* Dispatch has no endless cycle of recoveries and replays: if awaits end, every
\* request does.
RequestsEnd == AwaitsEnd => \A t \in Tasks : ~At(t, {"idle"}) ~> At(t, {"idle"})
=============================================================================
