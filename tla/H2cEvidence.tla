---------------------------- MODULE H2cEvidence ----------------------------
(***************************************************************************)
(* What the adaptive h2c probe cache promises a request, without its       *)
(* generations, counters and timestamps.  Probes of one endpoint that      *)
(* overlap form a round.  Within a round, evidence that the endpoint       *)
(* speaks HTTP/2 wins over an HTTP/1 fall-back whatever the order in which *)
(* the probes start and end.  Two things only take it away: the clock,     *)
(* which no probe moves, and a report of a later round.  A request skips   *)
(* the probe only between rounds and on HTTP/1 evidence.                   *)
(***************************************************************************)
CONSTANTS Endpoints, Probers

VARIABLES
    known,    \* known[e]: the evidence a request may act on
    fresh,    \* fresh[e]: what is known of e has not expired
    settled,  \* settled[e]: known[e] was observed in the round now open
    open,     \* open[e]: the probes of the round now open
    skips     \* requests told to use HTTP/1 without probing

evidenceVars == <<known, fresh, settled, open, skips>>

Evidence == {"none", "h2c", "h1"}

EvidenceInit ==
    /\ known = [e \in Endpoints |-> "none"]
    /\ fresh = [e \in Endpoints |-> FALSE]
    /\ settled = [e \in Endpoints |-> FALSE]
    /\ open = [e \in Endpoints |-> {}]
    /\ skips = {}

\* A probe opens a round, or joins the one that is open.  An endpoint nothing is
\* known of may be entered anew: that knowledge is fresh, and it is nothing.
Join(p, e) ==
    /\ \A f \in Endpoints : p \notin open[f]
    /\ p \notin skips
    /\ ~(open[e] = {} /\ known[e] = "h1")
    /\ open' = [open EXCEPT ![e] = @ \cup {p}]
    /\ settled' = [settled EXCEPT ![e] = @ /\ open[e] # {}]
    /\ \E young \in BOOLEAN :
        /\ fresh[e] => young
        /\ fresh' = [fresh EXCEPT ![e] = young]
    /\ UNCHANGED <<known, skips>>

Skip(p, e) ==
    /\ open[e] = {} /\ known[e] = "h1"
    /\ \A f \in Endpoints : p \notin open[f]
    /\ skips' = skips \cup {p}
    /\ UNCHANGED <<known, fresh, settled, open>>

SkipDone(p) ==
    /\ p \in skips
    /\ skips' = skips \ {p}
    /\ UNCHANGED <<known, fresh, settled, open>>

\* A probe reports what it saw; "none" is a failed attempt whose fall-back is
\* still to come.  HTTP/2 evidence of the round yields to nothing but itself,
\* and a report never leaves an endpoint with less than fresh knowledge.
Report(p, e, seen, leaves) ==
    /\ p \in open[e]
    /\ open' = [open EXCEPT ![e] = IF leaves THEN @ \ {p} ELSE @]
    /\ \/ /\ settled[e] /\ known[e] = "h2c" /\ seen # "h2c"
          /\ known' = known
       \/ /\ ~(settled[e] /\ known[e] = "h2c" /\ seen # "h2c")
          /\ known' = [known EXCEPT ![e] = seen]
    /\ settled' = [settled EXCEPT ![e] = open'[e] # {}]
    /\ fresh' = [fresh EXCEPT ![e] = TRUE]
    /\ UNCHANGED skips

\* A probe ends without a verdict.
Leave(p, e) ==
    /\ p \in open[e]
    /\ open' = [open EXCEPT ![e] = @ \ {p}]
    /\ settled' = [settled EXCEPT ![e] = @ /\ open'[e] # {}]
    /\ UNCHANGED <<known, fresh, skips>>

\* The clock, and nothing else: what is known of e is too old to act on.
Expire(e) ==
    /\ fresh[e]
    /\ fresh' = [fresh EXCEPT ![e] = FALSE]
    /\ known' = [known EXCEPT ![e] = "none"]
    /\ UNCHANGED <<settled, open, skips>>

EvidenceNext ==
    \/ \E p \in Probers, e \in Endpoints :
        \/ Join(p, e)
        \/ Skip(p, e)
        \/ Leave(p, e)
        \/ \E seen \in Evidence, leaves \in BOOLEAN : Report(p, e, seen, leaves)
    \/ \E p \in Probers : SkipDone(p)
    \/ \E e \in Endpoints : Expire(e)

EvidenceSpec == EvidenceInit /\ [][EvidenceNext]_evidenceVars
=============================================================================
