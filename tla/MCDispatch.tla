----------------------------- MODULE MCDispatch -----------------------------
(***************************************************************************)
(* Small instances of dispatch for TLC: two tasks; the Auto and H2c keys   *)
(* of a plain-text origin, or one https origin (key web) whose connections *)
(* may be coalesced; HTTP/1.1 transports p, q and HTTP/2 ones m, n.        *)
(***************************************************************************)
EXTENDS Dispatch, TLC

CONSTANTS auto, h2c, web, p, q, m, n, t1, t2, host

MCSlots == Tasks \X {1, 2}
MCRouteOf == [k \in Keys |-> "direct"]
MCAutoOf == [k \in Keys |-> IF k = h2c THEN auto ELSE k]
MCSelfOf == [k \in Keys |-> k]
MCSansOf == [c \in Conns |-> IF c \in Multiplexed THEN Hosts ELSE {}]
MCAddrOf == [c \in Conns |-> "addr"]

Get(k) ==
  [key |-> k, adaptive |-> FALSE, mayH2 |-> FALSE, dials |-> {"h1"}, coalesce |-> FALSE,
   oneShot |-> FALSE, idempotent |-> TRUE, connect |-> FALSE, fresh |-> FALSE]

\* Plain-text requests: HTTP/1.1, and h2c with prior knowledge or by probing.
PlainGet == Get(auto)
AdaptiveGet == [Get(h2c) EXCEPT !.mayH2 = TRUE, !.dials = {"h1", "h2"}, !.adaptive = TRUE]

\* https requests: ALPN decides, coalescing is on.
WebGet == [Get(web) EXCEPT !.mayH2 = TRUE, !.dials = {"h1", "h2"}, !.coalesce = TRUE]
WebPost == [WebGet EXCEPT !.idempotent = FALSE]
WebUpload == [WebPost EXCEPT !.oneShot = TRUE]
WebConnect == [WebPost EXCEPT !.connect = TRUE, !.dials = {"h2"}]
ForwardedUpload == [WebUpload EXCEPT !.fresh = TRUE]

PlainRequests == {PlainGet, AdaptiveGet}
WebRequests == {WebConnect, WebUpload, ForwardedUpload}
WebGets == {WebGet}

TaskSymmetry == Permutations(Tasks)

\* The last state of a transport nothing refers to does not matter, nor does the
\* age of any transport when there is no max_lifetime.
ViewOf(c) ==
  IF Unreferenced(c) THEN [FreshConn EXCEPT !.streams = conn[c].streams]
  ELSE [conn[c] EXCEPT !.age = 0]
DispatchView ==
  <<idle, active, sanIndex, [c \in Conns |-> ViewOf(c)], handle, reaper, marks, task>>
=============================================================================
