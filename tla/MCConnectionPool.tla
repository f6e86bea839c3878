-------------------------- MODULE MCConnectionPool --------------------------
(***************************************************************************)
(* Small instances of the pool for TLC.  Keys: an Auto key and the H2c key *)
(* of the same origin (whose adaptive dials may fall back to Auto), both   *)
(* direct; transports: one HTTP/1.1 (p), HTTP/2 ones (m, n), covering one  *)
(* name.                                                                   *)
(***************************************************************************)
EXTENDS ConnectionPool, TLC

CONSTANTS auto, h2c, p, q, m, n, s1, s2, s3, host

MCKeys == {auto, h2c}
MCRouteOf == [k \in Keys |-> "direct"]
MCAutoOf == [k \in Keys |-> IF k = h2c THEN auto ELSE k]
MCSelfOf == [k \in Keys |-> k]
MCSansOf == [c \in Conns |-> IF c \in Multiplexed THEN Hosts ELSE {}]
MCAddrOf == [c \in Conns |-> "addr"]

\* Owners are interchangeable.
SlotSymmetry == Permutations(Slots)

\* A transport nothing refers to is reset before it is used again, so its last
\* state does not matter; its stream count stays visible to StreamsExact.
ViewOf(c) ==
  IF Unreferenced(c) THEN [FreshConn EXCEPT !.streams = conn[c].streams] ELSE conn[c]
View == <<idle, active, sanIndex, [c \in Conns |-> ViewOf(c)], handle, reaper>>
=============================================================================
