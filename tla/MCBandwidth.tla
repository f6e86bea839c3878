---------------------------- MODULE MCBandwidth ----------------------------
(***************************************************************************)
(* Two bodies under one BandwidthLimiter, the last frame of the first one  *)
(* larger than what the limiter lets through in a second.                  *)
(***************************************************************************)
EXTENDS Bandwidth

CONSTANTS b1, b2

MCFramesOf == [x \in Bodies |-> IF x = b1 THEN <<1, 3>> ELSE <<2, 1>>]
=============================================================================
