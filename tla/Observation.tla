---------------------------- MODULE Observation ----------------------------
(***************************************************************************)
(* Telling an observer how a request ended: observer/continuation.rs and   *)
(* the owner of body/mod.rs.  One SendObservationHandle is responsible for *)
(* the end.  It is made with the request, moves into the response body     *)
(* when send returns, from there into a body stream, an SSE stream or an   *)
(* upgrade, and reports when the carrier sees the end or is dropped.  The  *)
(* caller may drop what it holds at any await.                             *)
(***************************************************************************)
EXTENDS Naturals, Sequences

CONSTANT MaxSseErrors    \* bound: events too large for the decoder

ASSUME ObservationAssumption == MaxSseErrors \in Nat

VARIABLES
    stage,         \* who holds the request: "executing" and "finalizing" are
                   \* send(); then the caller's "body", "sse" or "upgrading"; "gone"
    inner,         \* SendObservationInner: whether a response was selected, whether
                   \* the finish is claimed, and what the observer was told
    owner,         \* the SendObservationHandle
    sse_interest,  \* whether the observer asked for SSE_LIFECYCLE
    sse,           \* SseObservation: "none", "active" or "over"; what it told
    wire,          \* the body itself: "open", "ended" or "failed"
    fact           \* how the request really ended, "none" so far

observationVars == <<stage, inner, owner, sse_interest, sse, wire, fact>>

ObservationInit ==
    /\ stage = "executing"
    /\ inner = [response |-> FALSE, finished |-> FALSE, finishes |-> <<>>, bodies |-> <<>>]
    /\ owner = [held |-> TRUE, terminal |-> FALSE, awaiting_handoff |-> FALSE]
    /\ sse_interest \in BOOLEAN
    /\ sse = [state |-> "none", told |-> <<>>]
    /\ wire = "open"
    /\ fact = "none"
-----------------------------------------------------------------------------
\* SendObservationInner::finish: only the one who claims it reports.
InnerFinish(i, reason) ==
    IF i.finished THEN i
    ELSE [i EXCEPT !.finished = TRUE, !.finishes = Append(@, reason)]

\* on_body_end and on_body_error: nothing before a response was selected.
on_body_end(i, reason) ==
    IF ~i.response \/ i.finished THEN i
    ELSE [i EXCEPT !.finished = TRUE, !.bodies = Append(@, reason),
                   !.finishes = Append(@, reason)]

\* SendObservationHandle::finish reporting the end of a body that only precedes
\* a handoff.
OwnerFinishEager(o, reason) == ~o.terminal

\* SendObservationHandle::finish and fail: the first terminal fact counts, and
\* the end of the body is none while a handoff is awaited.
OwnerFinish(o, reason) ==
    /\ ~o.terminal
    /\ ~(reason = "Ended" /\ o.awaiting_handoff)

\* What the owner's finish(reason), and dropping it after that, comes to.
Report(reason) ==
    /\ inner' = IF owner.held /\ OwnerFinish(owner, reason)
                THEN on_body_end(inner, reason) ELSE inner
    /\ owner' = [owner EXCEPT !.terminal = @ \/ (owner.held /\ OwnerFinish(owner, reason))]

\* The last carrier goes: the owner's Drop.
ReportAndDrop(reason) ==
    /\ inner' = IF ~owner.held THEN inner
                ELSE IF OwnerFinish(owner, reason) THEN on_body_end(inner, reason)
                ELSE IF owner.terminal THEN inner
                ELSE on_body_end(inner, "ConsumerAbandoned")
    /\ owner' = [owner EXCEPT !.held = FALSE, !.terminal = TRUE]

Happens(what) == fact' = IF fact = "none" THEN what ELSE fact
-----------------------------------------------------------------------------
\* finish_failed: with a response the owner reports, without one it is discarded.
finish_failed ==
    IF inner.response THEN ReportAndDrop("Failed")
    ELSE /\ inner' = InnerFinish(inner, "Failed")
         /\ owner' = [owner EXCEPT !.held = FALSE, !.terminal = TRUE]

\* send_once or send_with_retry returns an error, or the processing of the
\* selected response does (its timeout included).
SendFails ==
    /\ stage \in {"executing", "finalizing"}
    /\ finish_failed
    /\ stage' = "gone"
    /\ Happens("Failed")
    /\ UNCHANGED <<sse_interest, sse, wire>>

\* The future of send() is dropped at an await: the Drop of the handle.
SendDropped ==
    /\ stage \in {"executing", "finalizing"}
    /\ inner' = InnerFinish(inner, "ExecutionAbandoned")
    /\ owner' = [owner EXCEPT !.held = FALSE, !.terminal = TRUE]
    /\ stage' = "gone"
    /\ Happens("ExecutionAbandoned")
    /\ UNCHANGED <<sse_interest, sse, wire>>

observe_headers ==
    /\ stage = "executing"
    /\ inner' = [inner EXCEPT !.response = TRUE]
    /\ stage' = "finalizing"
    /\ UNCHANGED <<owner, sse_interest, sse, wire, fact>>

\* The response was read whole for the cache: finish_ended.  Its owner goes with
\* it only when an SSE stream may still be made of the copy.
ReturnBuffered ==
    /\ stage = "finalizing"
    /\ inner' = on_body_end(inner, "Ended")
    /\ owner' = [owner EXCEPT !.terminal = TRUE, !.held = sse_interest]
    /\ stage' = "body"
    /\ Happens("Ended")
    /\ UNCHANGED <<sse_interest, sse, wire>>

\* attach_to_send_response: a body that is empty has ended, unless the response
\* switches protocols.
ReturnResponse(awaiting, empty) ==
    /\ stage = "finalizing"
    /\ owner' = [owner EXCEPT !.awaiting_handoff = awaiting, !.terminal = empty /\ ~awaiting]
    /\ inner' = IF empty /\ ~awaiting THEN on_body_end(inner, "Ended") ELSE inner
    /\ wire' = IF empty THEN "ended" ELSE "open"
    /\ stage' = "body"
    /\ Happens(IF empty /\ ~awaiting THEN "Ended" ELSE "none")
    /\ UNCHANGED <<sse_interest, sse>>
-----------------------------------------------------------------------------
\* poll_frame of ResponseBodySend, or of BodyStreamSend, sees the last frame or
\* the end ...
BodyComplete ==
    /\ stage = "body"
    /\ wire = "open"
    /\ Report("Ended")
    /\ wire' = "ended"
    /\ Happens(IF owner.awaiting_handoff THEN "none" ELSE "Ended")
    /\ UNCHANGED <<stage, sse_interest, sse>>

\* ... or an error.
BodyFailed ==
    /\ stage = "body"
    /\ wire = "open"
    /\ Report("Failed")
    /\ wire' = "failed"
    /\ Happens("Failed")
    /\ UNCHANGED <<stage, sse_interest, sse>>

\* The caller drops the response or its stream.
BodyDropped ==
    /\ stage = "body"
    /\ ReportAndDrop("ConsumerAbandoned")
    /\ stage' = "gone"
    /\ Happens("ConsumerAbandoned")
    /\ UNCHANGED <<sse_interest, sse, wire>>

\* upgrade() takes the response, any response: hyper has a connection to hand
\* over only for one that switches protocols.
StartUpgrade ==
    /\ stage = "body"
    /\ stage' = "upgrading"
    /\ UNCHANGED <<inner, owner, sse_interest, sse, wire, fact>>

\* The switch succeeds, fails, or is dropped with the response.
UpgradeEnds(reason) ==
    /\ stage = "upgrading"
    /\ reason = "HandedOff" => owner.awaiting_handoff
    /\ ReportAndDrop(reason)
    /\ stage' = "gone"
    /\ Happens(reason)
    /\ UNCHANGED <<sse_interest, sse, wire>>
-----------------------------------------------------------------------------
\* from_owner: the owner moves into the SSE stream, unless it has reported.
IntoSseStream ==
    /\ stage = "body"
    /\ stage' = "sse"
    /\ sse' = IF owner.held /\ sse_interest
              THEN [state |-> "active", told |-> <<"Started">>] ELSE sse
    /\ owner' = [owner EXCEPT !.held = @ /\ ~owner.terminal]
    /\ UNCHANGED <<inner, sse_interest, wire, fact>>

\* body_complete: HTTP is over, messages may still be buffered.
SseBodyComplete ==
    /\ stage = "sse"
    /\ wire = "open"
    /\ ReportAndDrop("Ended")
    /\ wire' = "ended"
    /\ Happens(IF owner.awaiting_handoff THEN "ConsumerAbandoned" ELSE "Ended")
    /\ UNCHANGED <<stage, sse_interest, sse>>

Told(event) == IF sse.state = "active" THEN Append(sse.told, event) ELSE sse.told

SseBodyFailed ==
    /\ stage = "sse"
    /\ wire = "open"
    /\ ReportAndDrop("Failed")
    /\ wire' = "failed"
    /\ sse' = [sse EXCEPT !.told = Told("Error")]
    /\ Happens("Failed")
    /\ UNCHANGED <<stage, sse_interest>>

\* The decoder reports an event that is too large.
SseDecodeError ==
    /\ stage = "sse"
    /\ Len(sse.told) <= MaxSseErrors
    /\ sse' = [sse EXCEPT !.told = Told("Error")]
    /\ UNCHANGED <<stage, inner, owner, sse_interest, wire, fact>>

\* SseObservation::end leaving the observation active for its Drop.
SseEndActive ==
    /\ stage = "sse"
    /\ wire # "open"
    /\ sse' = [sse EXCEPT !.told = Told("Ended")]
    /\ UNCHANGED <<stage, inner, owner, sse_interest, wire, fact>>

\* The stream returned None, as it does too when it is polled after an error of
\* the body: end() reports and gives up the continuation.
SseEnd ==
    /\ stage = "sse"
    /\ wire # "open"
    /\ sse' = [state |-> IF sse.state = "active" THEN "over" ELSE sse.state,
               told |-> Told("Ended")]
    /\ UNCHANGED <<stage, inner, owner, sse_interest, wire, fact>>

\* The stream is dropped: the Drops of the owner and of the SseObservation.
SseDropped ==
    /\ stage = "sse"
    /\ ReportAndDrop("ConsumerAbandoned")
    /\ sse' = [state |-> IF sse.state = "active" THEN "over" ELSE sse.state,
               told |-> Told("Abandoned")]
    /\ stage' = "gone"
    /\ Happens("ConsumerAbandoned")
    /\ UNCHANGED <<sse_interest, wire>>

ObservationNext ==
    \/ SendFails \/ SendDropped \/ observe_headers \/ ReturnBuffered
    \/ \E awaiting, empty \in BOOLEAN : ReturnResponse(awaiting, empty)
    \/ BodyComplete \/ BodyFailed \/ BodyDropped
    \/ StartUpgrade
    \/ \E reason \in {"HandedOff", "Failed", "ConsumerAbandoned"} : UpgradeEnds(reason)
    \/ IntoSseStream \/ SseBodyComplete \/ SseBodyFailed \/ SseDecodeError
    \/ SseEnd \/ SseDropped

ObservationSpec == ObservationInit /\ [][ObservationNext]_observationVars
-----------------------------------------------------------------------------
\* An SSE stream the observer follows is opened once and closed once, and
\* nothing is told after the close, also when HTTP ended long before or the
\* response was replayed from the cache.
SseClosedOnce ==
    /\ sse.state = "over" =>
        /\ sse.told[1] = "Started"
        /\ sse.told[Len(sse.told)] \in {"Ended", "Abandoned"}
        /\ \A k \in 2..(Len(sse.told) - 1) : sse.told[k] = "Error"
    /\ stage = "gone" => sse.state # "active"

\* The observer is told how a request ended exactly once, no later than when the
\* caller lets go of it, and what it is told is what happened first, whichever
\* carrier held the request then; the response body is reported on in the same
\* words exactly when a response was selected and its fate known; and an SSE
\* stream made of it is closed once, whatever happened to the request before.
FinishTold ==
    /\ inner.finishes = IF fact = "none" THEN <<>> ELSE <<fact>>
    /\ inner.bodies = IF fact # "ExecutionAbandoned" /\ inner.response
                      THEN inner.finishes ELSE <<>>
    /\ stage = "gone" => fact # "none"
    /\ SseClosedOnce
=============================================================================
