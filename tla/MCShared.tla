------------------------------ MODULE MCShared ------------------------------
(***************************************************************************)
(* What the requests of one client share beside the pool (the evidence on  *)
(* h2c endpoints, the rate limiter, the Alt-Svc cache), the decoder of an  *)
(* event stream and the observation of a request.  They share no state:    *)
(* part names the one that moves.                                          *)
(***************************************************************************)
EXTENDS H2cProbe, RateLimiter, AltSvc, SseDecoder, Observation

VARIABLE part

\* Initial states only one part needs are left to that part.
MCInit ==
    /\ part \in {"probe", "rate", "alt_svc", "sse", "observation"}
    /\ ProbeInit /\ RateInit /\ AltSvcInit /\ SseInit /\ ObservationInit
    /\ part # "sse" => stream = <<>> /\ max_payload_size = 0
    /\ part # "observation" => sse_interest

MCNext ==
    \/ part = "probe" /\ ProbeNext /\ UNCHANGED <<part, rateVars, altSvcVars, sseVars, observationVars>>
    \/ part = "rate" /\ RateNext /\ UNCHANGED <<part, probeVars, altSvcVars, sseVars, observationVars>>
    \/ part = "alt_svc" /\ AltSvcNext /\ UNCHANGED <<part, probeVars, rateVars, sseVars, observationVars>>
    \/ part = "sse" /\ SseNext /\ UNCHANGED <<part, probeVars, rateVars, altSvcVars, observationVars>>
    \/ part = "observation" /\ ObservationNext /\ UNCHANGED <<part, probeVars, rateVars, altSvcVars, sseVars>>

MCSpec ==
    MCInit /\ [][MCNext]_<<part, probeVars, rateVars, altSvcVars, sseVars, observationVars>>
=============================================================================
