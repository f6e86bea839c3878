------------------------------- MODULE Upload -------------------------------
(***************************************************************************)
(* One request whose body is uploaded while its response is awaited, under *)
(* a first-byte timeout: FirstByteTimeout and BodyCompletion of timeout.rs *)
(* around send_on_connection (HTTP/1 and HTTP/2, where hyper's connection  *)
(* task polls the body) or around send_on_h3 of h3/request.rs (where a     *)
(* spawned supervise_upload does, and reports its result).                 *)
(*                                                                         *)
(* Three tasks take part: the request's future and then the reader of the  *)
(* response body; the task that uploads; the server.  The future is polled *)
(* again only when a waker it left behind fires.  The supervisor is told   *)
(* what to do by a one-shot channel whose sender the future, and later the *)
(* response body, owns: Cancel, Detach, or dropped unsent, which cancels.  *)
(***************************************************************************)
EXTENDS Naturals

CONSTANT MaxUpload     \* bound: data frames of the request body

ASSUME UploadAssumption == MaxUpload \in Nat

VARIABLES
    driver,           \* "hyper" or "h3"
    frames,           \* data frames the body still has
    ends_with_frame,  \* whether is_end_stream holds right after the last frame
    complete,         \* request_body_complete
    uploader,         \* the uploading task
    result,           \* the result channel of supervise_upload
    control,          \* the control channel of supervise_upload
    replied,         \* whether the server sent response headers
    sleep,            \* the timer of FirstByteTimeout: "none", "armed", "over"
    woken,            \* whether the executor will poll the future
    outcome,          \* of the request's future
    body              \* the response body

uploadVars ==
    <<driver, frames, ends_with_frame, complete, uploader, result, control,
      replied, sleep, woken, outcome, body>>

\* uploader: "body" polling the body, "finish" writing its end, then how it ended.
UploadTypeOK ==
    /\ driver \in {"hyper", "h3"}
    /\ frames \in 0..MaxUpload
    /\ ends_with_frame \in BOOLEAN /\ complete \in BOOLEAN
    /\ uploader \in {"body", "finish", "done", "failed", "stopped", "cancelled"}
    /\ result \in {"none", "ok", "err"}
    /\ control \in {"held", "guarded", "detach", "cancel", "gone"}
    /\ replied \in BOOLEAN
    /\ sleep \in {"none", "armed", "over"}
    /\ woken \in BOOLEAN
    /\ outcome \in {"waiting", "response", "timeout", "error", "dropped"}
    /\ body \in {"none", "reading", "ended", "dropped"}

\* mark_body_completion looks at is_end_stream once.  The request may be given up
\* before it is sent.
UploadInit ==
    /\ driver \in {"hyper", "h3"}
    /\ frames \in 0..MaxUpload
    /\ ends_with_frame \in BOOLEAN
    /\ complete = (frames = 0 /\ ends_with_frame)
    /\ result = "none"
    /\ replied = FALSE
    /\ sleep = "none"
    /\ body = "none"
    /\ \/ /\ uploader = "body" /\ control = "held"
          /\ woken = TRUE /\ outcome = "waiting"
       \/ /\ uploader = "stopped" /\ control = "gone"
          /\ woken = FALSE /\ outcome = "dropped"
-----------------------------------------------------------------------------
Running == uploader \in {"body", "finish"}

\* A result left where the request's future would find it, without waking it.
ReportsUnheard(r) ==
    IF driver = "h3" \/ r = "err"
    THEN result' = r /\ UNCHANGED woken
    ELSE UNCHANGED <<result, woken>>

\* The supervisor's result wakes the request's future, if it is still there;
\* hyper tells it of a failure and of nothing else.
Reports(r) ==
    IF driver = "h3" \/ r = "err"
    THEN result' = r /\ woken' = (woken \/ outcome = "waiting")
    ELSE UNCHANGED <<result, woken>>

\* BodyCompletion::poll_frame gives a frame: the flag is set with the last one
\* if the body knows that it was.
BodyFrame ==
    /\ uploader = "body"
    /\ frames > 0
    /\ frames' = frames - 1
    /\ complete' = (complete \/ (frames = 1 /\ ends_with_frame))
    /\ UNCHANGED <<driver, ends_with_frame, uploader, result, control, replied,
                   sleep, woken, outcome, body>>

\* It finds no more frames.
BodyDry ==
    /\ uploader = "body"
    /\ frames = 0
    /\ complete' = TRUE
    /\ uploader' = "finish"
    /\ UNCHANGED <<driver, frames, ends_with_frame, result, control, replied,
                   sleep, woken, outcome, body>>

BodyFails ==
    /\ uploader = "body"
    /\ frames > 0
    /\ complete' = TRUE
    /\ uploader' = "failed"
    /\ Reports("err")
    /\ UNCHANGED <<driver, frames, ends_with_frame, control, replied, sleep, outcome, body>>

\* The end of the stream is written.
UploadFinishes ==
    /\ uploader = "finish"
    /\ uploader' = "done"
    /\ Reports("ok")
    /\ UNCHANGED <<driver, frames, ends_with_frame, complete, control, replied,
                   sleep, outcome, body>>

\* A write fails or takes longer than write_timeout.
WriteFails ==
    /\ Running
    /\ uploader' = "failed"
    /\ Reports("err")
    /\ UNCHANGED <<driver, frames, ends_with_frame, complete, control, replied,
                   sleep, outcome, body>>

\* An HTTP/3 server stops the upload, politely (H3_NO_ERROR) or not.  The body
\* is dropped where it was.
PeerStops(r) ==
    /\ driver = "h3"
    /\ Running
    /\ uploader' = "stopped"
    /\ Reports(r)
    /\ UNCHANGED <<driver, frames, ends_with_frame, complete, control, replied,
                   sleep, outcome, body>>

\* The supervisor hears from the control channel: a Detach is consumed.
HearsCancel ==
    /\ driver = "h3"
    /\ Running
    /\ control = "cancel"
    /\ uploader' = "cancelled"
    /\ control' = "gone"
    /\ UNCHANGED <<driver, frames, ends_with_frame, complete, result, replied,
                   sleep, woken, outcome, body>>

HearsDetach ==
    /\ driver = "h3"
    /\ Running
    /\ control = "detach"
    /\ control' = "gone"
    /\ UNCHANGED <<driver, frames, ends_with_frame, complete, uploader, result,
                   replied, sleep, woken, outcome, body>>
-----------------------------------------------------------------------------
\* A server may answer before it has read the whole request.
ServerAnswers ==
    /\ ~replied
    /\ outcome = "waiting"
    /\ replied' = TRUE
    /\ woken' = TRUE
    /\ UNCHANGED <<driver, frames, ends_with_frame, complete, uploader, result,
                   control, sleep, outcome, body>>

\* The future ends without a response and drops the sender it holds; after the
\* upload's good result it holds none.
FutureEnds(o) ==
    /\ outcome' = o
    /\ control' = IF control = "held" THEN "cancel" ELSE control
    /\ UNCHANGED body

\* The wrapped future is ready: a failed upload, or the response, whose body
\* takes the sender over unless the upload ended before.
FutureReady ==
    \/ /\ result = "err"
       /\ FutureEnds("error")
    \/ /\ result # "err" /\ replied
       /\ outcome' = "response"
       /\ body' = "reading"
       /\ control' = IF control = "held" /\ driver = "h3" /\ result = "none"
                     THEN "guarded" ELSE "gone"

\* FirstByteTimeout::poll: the wrapped future first, then the flag and the timer.
Poll ==
    /\ woken
    /\ outcome = "waiting"
    /\ UNCHANGED <<driver, frames, ends_with_frame, complete, uploader, result, replied>>
    /\ \/ FutureReady /\ UNCHANGED <<sleep, woken>>
       \/ /\ ~(result = "err" \/ replied)
          /\ \/ /\ complete /\ sleep = "over"
                /\ FutureEnds("timeout")
                /\ sleep' = "none"
                /\ UNCHANGED woken
             \/ /\ complete /\ sleep # "over"
                /\ sleep' = "armed"
                /\ woken' = FALSE
                /\ UNCHANGED <<outcome, control, body>>
             \/ /\ ~complete
                /\ woken' = FALSE
                /\ UNCHANGED <<sleep, outcome, control, body>>

\* A timer that was set but never polled.
SleepFiresUnheard ==
    /\ sleep = "armed"
    /\ sleep' = "over"
    /\ UNCHANGED <<driver, frames, ends_with_frame, complete, uploader, result,
                   control, replied, woken, outcome, body>>

SleepFires ==
    /\ sleep = "armed"
    /\ sleep' = "over"
    /\ woken' = (outcome = "waiting")
    /\ UNCHANGED <<driver, frames, ends_with_frame, complete, uploader, result,
                   control, replied, outcome, body>>

\* The caller gives the request up at an await, or receiving the response fails.
RequestFails(o) ==
    /\ outcome = "waiting"
    /\ FutureEnds(o)
    /\ UNCHANGED <<driver, frames, ends_with_frame, complete, uploader, result,
                   replied, sleep, woken>>

\* BodyRead without the detach: the guard's Drop cancels.
BodyReadNoDetach ==
    /\ body = "reading"
    /\ body' = "ended"
    /\ control' = IF control = "guarded" THEN "cancel" ELSE control
    /\ UNCHANGED <<driver, frames, ends_with_frame, complete, uploader, result,
                   replied, sleep, woken, outcome>>

\* The response body ends: an upload still running is let go.
BodyRead ==
    /\ body = "reading"
    /\ body' = "ended"
    /\ control' = IF control = "guarded" THEN "detach" ELSE control
    /\ UNCHANGED <<driver, frames, ends_with_frame, complete, uploader, result,
                   replied, sleep, woken, outcome>>

\* A guard whose Drop says nothing while the sender lives on.
ResponseDroppedSilently ==
    /\ body = "reading"
    /\ body' = "dropped"
    /\ UNCHANGED <<driver, frames, ends_with_frame, complete, uploader, result, control,
                   replied, sleep, woken, outcome>>

\* The response is dropped, or its body fails: UploadControlGuard's Drop.
ResponseDropped ==
    /\ body = "reading"
    /\ body' = "dropped"
    /\ control' = IF control = "guarded" THEN "cancel" ELSE control
    /\ UNCHANGED <<driver, frames, ends_with_frame, complete, uploader, result,
                   replied, sleep, woken, outcome>>

UploadNext ==
    \/ BodyFrame \/ BodyDry \/ BodyFails \/ UploadFinishes \/ WriteFails
    \/ PeerStops("ok") \/ PeerStops("err")
    \/ HearsCancel \/ HearsDetach
    \/ ServerAnswers \/ Poll \/ SleepFires
    \/ RequestFails("dropped") \/ RequestFails("error") \/ BodyRead \/ ResponseDropped

\* The executor polls what is woken, timers fire, a task hears its channel.  The
\* peer promises neither to take the upload nor to answer.
UploadFairness ==
    /\ WF_uploadVars(Poll)
    /\ WF_uploadVars(SleepFires)
    /\ WF_uploadVars(HearsCancel)

UploadSpec == UploadInit /\ [][UploadNext]_uploadVars /\ UploadFairness
-----------------------------------------------------------------------------
\* An upload is cancelled only on behalf of someone who gave the exchange up:
\* never once the whole response was read.
DetachedUploadKept ==
    uploader = "cancelled" =>
        body = "dropped" \/ outcome \in {"timeout", "error", "dropped"}

\* An HTTP/3 upload does not go on once nobody wants its response.
AbandonedUploadStops ==
    (driver = "h3" /\ (outcome \in {"timeout", "error", "dropped"} \/ body = "dropped"))
        ~> ~Running

\* Once the end of an upload has been reported, its failure or over HTTP/3 its
\* last byte (supervise_upload), the request ends too, with a response, an error
\* or the first-byte timeout, even if the server stays silent for ever.  Nobody
\* reports the last byte of an HTTP/1 or HTTP/2 upload, whose request_body_complete
\* wakes no task, and an upload the server stopped politely never sets it: in both
\* cases the timer may not start and the request wait for ever.
UploadedRequestEnds ==
    (result = "err" \/ (result = "ok" /\ uploader = "done")) ~> (outcome # "waiting")
=============================================================================
