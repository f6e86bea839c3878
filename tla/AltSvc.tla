------------------------------- MODULE AltSvc -------------------------------
(***************************************************************************)
(* The Alt-Svc cache of alt_svc.rs for one authority, and the requests     *)
(* that use it: dispatch looks for an HTTP/3 alternative, a failed HTTP/3  *)
(* connection suppresses it for H3_FAILURE_BACKOFF, and every response may *)
(* advertise one or clear them.  The cache is two maps under two mutexes,  *)
(* so an operation that touches both is two steps.                         *)
(***************************************************************************)
EXTENDS Naturals

CONSTANT Senders     \* requests to the authority

VARIABLES
    entry,       \* the h3 alternative in the map: "none", or whether it was
                 \* advertised since the last failure ("new") or before ("old")
    suppressed,  \* suppressed_h3_until: "no", "until" or "elapsed"
    failing,     \* an HTTP/3 failure was reported, its backoff has not passed and
                 \* the server has not cleared its alternatives since
    sender       \* sender[r]: what request r is doing

altSvcVars == <<entry, suppressed, failing, sender>>

\* at: "idle", "entries" (lookup_h3 between its locks), "h3", "tcp",
\* "retain" (suppress_h3 between its locks), "remove" (a clear between its locks).
\* barred: failing when the lookup began; overlapped: a suppress_h3 ran
\* beside the lookup; using: the age of the entry the lookup found.
AltSvcInit ==
    /\ entry = "none"
    /\ suppressed = "no"
    /\ failing = FALSE
    /\ sender = [r \in Senders |->
                    [at |-> "idle", barred |-> FALSE, overlapped |-> FALSE, using |-> "none"]]

At(r, place) == sender' = [sender EXCEPT ![r].at = place]
-----------------------------------------------------------------------------
LookupSuppressed(r) ==
    /\ sender[r].at = "idle"
    /\ suppressed' = IF suppressed = "elapsed" THEN "no" ELSE suppressed
    /\ sender' = [sender EXCEPT ![r] =
            [at |-> IF suppressed = "until" THEN "tcp" ELSE "entries",
             barred |-> failing,
             overlapped |-> \E q \in Senders : sender[q].at = "retain",
             using |-> "none"]]
    /\ UNCHANGED <<entry, failing>>

LookupEntries(r) ==
    /\ sender[r].at = "entries"
    /\ sender' = [sender EXCEPT ![r].at = IF entry = "none" THEN "tcp" ELSE "h3",
                                ![r].using = entry]
    /\ UNCHANGED <<entry, suppressed, failing>>

\* suppress_h3 that leaves the backoff out and only drops the entry.
SuppressUnrecorded(r) ==
    /\ sender[r].at = "h3"
    /\ At(r, "retain")
    /\ failing' = TRUE
    /\ entry' = IF entry = "new" THEN "old" ELSE entry
    /\ UNCHANGED suppressed

\* suppress_h3 up to its second lock; what is in the map is old from now on.
suppress_h3(r) ==
    /\ sender[r].at = "h3"
    /\ suppressed' = "until"
    /\ failing' = TRUE
    /\ entry' = IF entry = "new" THEN "old" ELSE entry
    /\ sender' = [q \in Senders |->
            IF q = r THEN [sender[q] EXCEPT !.at = "retain"]
            ELSE [sender[q] EXCEPT !.overlapped = @ \/ sender[q].at = "entries"]]

\* suppress_h3 without the second map.
RetainAll(r) ==
    /\ sender[r].at = "retain"
    /\ At(r, "tcp")
    /\ UNCHANGED <<entry, suppressed, failing>>

\* The h3 entries go; the request falls back to TCP or fails.
SuppressRetain(r) ==
    /\ sender[r].at = "retain"
    /\ entry' = "none"
    /\ At(r, "tcp")
    /\ UNCHANGED <<suppressed, failing>>

\* A response arrives, or the request fails without one; cache_alt_svc inserts
\* what it advertises: h3, or something else in its place.
Respond(r) ==
    /\ sender[r].at \in {"h3", "tcp"}
    /\ entry' \in {entry, "new", "none"}
    /\ At(r, "idle")
    /\ UNCHANGED <<suppressed, failing>>

\* "clear", or a value without a usable entry: insert(authority, []).
RespondClear(r) ==
    /\ sender[r].at \in {"h3", "tcp"}
    /\ suppressed' = "no"
    /\ failing' = FALSE
    /\ At(r, "remove")
    /\ UNCHANGED entry

ClearRemove(r) ==
    /\ sender[r].at = "remove"
    /\ entry' = "none"
    /\ At(r, "idle")
    /\ UNCHANGED <<suppressed, failing>>

BackoffElapses ==
    /\ failing
    /\ failing' = FALSE
    /\ suppressed' = IF suppressed = "until" THEN "elapsed" ELSE suppressed
    /\ UNCHANGED <<entry, sender>>

\* max_age runs out: the next lookup drops the entry.
EntryExpires ==
    /\ entry # "none"
    /\ entry' = "none"
    /\ UNCHANGED <<suppressed, failing, sender>>

AltSvcNext ==
    \/ \E r \in Senders :
        \/ LookupSuppressed(r) \/ LookupEntries(r) \/ suppress_h3(r) \/ SuppressRetain(r)
        \/ Respond(r) \/ RespondClear(r) \/ ClearRemove(r)
    \/ BackoffElapses
    \/ EntryExpires

AltSvcSpec == AltSvcInit /\ [][AltSvcNext]_altSvcVars
-----------------------------------------------------------------------------
\* A request tries HTTP/3 only when no backoff was running as its lookup began,
\* even if other responses advertised HTTP/3 again meanwhile, and on an
\* advertisement newer than every failure recorded before; only a lookup that
\* overlaps the suppression may still find the old one.
FailureRemembered ==
    \A r \in Senders :
        sender[r].at = "h3" =>
            /\ ~sender[r].barred
            /\ sender[r].using = "old" => sender[r].overlapped
=============================================================================
