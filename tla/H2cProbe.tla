------------------------------ MODULE H2cProbe ------------------------------
(***************************************************************************)
(* The adaptive h2c probe cache of h2c_probe.rs.  A request to a cleartext *)
(* endpoint whose protocol is unknown takes a token, tries HTTP/2 with     *)
(* prior knowledge, and either confirms it or rejects it, reconnects with  *)
(* HTTP/1 and confirms that once the first response has arrived.  A token  *)
(* dropped at any await reports nothing.  Every method holds the cache's   *)
(* mutex, so every action here is one critical section.                    *)
(***************************************************************************)
EXTENDS Naturals, FiniteSets

CONSTANTS
    Endpoints,       \* route and address pairs the requests connect to
    Probers,         \* requests establishing a connection
    EvictAbove,      \* the entries above which evict_expired sweeps (64)
    MaxGenerations,  \* bound: generations handed out
    NoEndpoint       \* the endpoint of a request that holds no token

ASSUME H2cProbeAssumption ==
    /\ NoEndpoint \notin Endpoints
    /\ IsFiniteSet(Probers)
    /\ EvictAbove \in Nat
    /\ MaxGenerations \in Nat \ {0}

VARIABLES
    endpoints,        \* endpoints[e]: the H2cEndpointState, absent when ~cached
    next_generation,
    tokens            \* tokens[p]: the H2cProbeToken request p holds

probeVars == <<endpoints, next_generation, tokens>>

Capability == {"none", "h2c", "h1"}

\* fresh stands for observed_at.elapsed() < ttl.
H2cEndpointState ==
    [cached : BOOLEAN, generation : Nat, active_generation : Nat,
     capability : Capability, fresh : BOOLEAN, active_probes : Nat]

Absent ==
    [cached |-> FALSE, generation |-> 0, active_generation |-> 0,
     capability |-> "none", fresh |-> FALSE, active_probes |-> 0]

\* stage: "idle"; "h1" told to use HTTP/1 at once; "probing" HTTP/2 being
\* tried; "fallback" rejected, HTTP/1 being tried under the same token.
H2cProbeToken ==
    [key : Endpoints \cup {NoEndpoint}, generation : Nat,
     stage : {"idle", "h1", "probing", "fallback"}]

NoToken == [key |-> NoEndpoint, generation |-> 0, stage |-> "idle"]

ProbeInit ==
    /\ endpoints = [e \in Endpoints |-> Absent]
    /\ next_generation = 1
    /\ tokens = [p \in Probers |-> NoToken]
-----------------------------------------------------------------------------
CachedEndpoints == {e \in Endpoints : endpoints[e].cached}

Evicted(e) ==
    /\ Cardinality(CachedEndpoints) > EvictAbove
    /\ endpoints[e].active_probes = 0
    /\ ~endpoints[e].fresh

\* evict_expired sweeps only a map of more than EvictAbove entries.
evict_expired ==
    [e \in Endpoints |-> IF Evicted(e) THEN Absent ELSE endpoints[e]]

UseH1(e) ==
    /\ endpoints[e].cached
    /\ endpoints[e].active_probes = 0
    /\ endpoints[e].fresh
    /\ endpoints[e].capability = "h1"

BeginUseH1(p, e) ==
    /\ tokens[p].stage = "idle"
    /\ UseH1(e)
    /\ tokens' = [tokens EXCEPT ![p].stage = "h1"]
    /\ UNCHANGED <<endpoints, next_generation>>

H1Done(p) ==
    /\ tokens[p].stage = "h1"
    /\ tokens' = [tokens EXCEPT ![p] = NoToken]
    /\ UNCHANGED <<endpoints, next_generation>>

\* An entry new to the map: or_insert_with.
Inserted(entry, g) ==
    IF entry.cached THEN entry
    ELSE [cached |-> TRUE, generation |-> 0, active_generation |-> g,
          capability |-> "none", fresh |-> TRUE, active_probes |-> 0]

\* One more active probe; the first of a round fixes its generation.
Joined(entry, g) ==
    [entry EXCEPT
        !.active_generation = IF entry.active_probes = 0 THEN g ELSE @,
        !.active_probes = @ + 1]

JoinedRestarting(entry, g) ==
    [entry EXCEPT !.active_generation = g, !.active_probes = @ + 1]

\* begin_endpoint_probe giving every probe a generation of its own.
BeginOwnGeneration(p, e) ==
    LET swept == evict_expired
        g == next_generation
    IN  /\ tokens[p].stage = "idle"
        /\ ~UseH1(e)
        /\ next_generation <= MaxGenerations
        /\ next_generation' = next_generation + 1
        /\ endpoints' = [swept EXCEPT ![e] = JoinedRestarting(Inserted(@, g), g)]
        /\ tokens' = [tokens EXCEPT ![p] = [key |-> e, generation |-> g, stage |-> "probing"]]

begin_endpoint_probe(p, e) ==
    LET swept == evict_expired
        joins == swept[e].active_probes > 0
        g == IF joins THEN swept[e].active_generation ELSE next_generation
    IN  /\ tokens[p].stage = "idle"
        /\ ~UseH1(e)
        /\ joins \/ next_generation <= MaxGenerations
        /\ next_generation' = IF joins THEN next_generation ELSE next_generation + 1
        /\ endpoints' = [swept EXCEPT ![e] = Joined(Inserted(@, g), g)]
        /\ tokens' = [tokens EXCEPT ![p] = [key |-> e, generation |-> g, stage |-> "probing"]]

-----------------------------------------------------------------------------
\* publish_observation without the precedence of HTTP/2 within a generation.
OutdatedByOrder(entry, g, seen) ==
    \/ ~entry.cached
    \/ g < entry.generation

\* publish_observation letting a failed attempt, which reports nothing, wipe the
\* HTTP/2 evidence of its round.
OutdatedButByNone(entry, g, seen) ==
    \/ ~entry.cached
    \/ g < entry.generation
    \/ /\ g = entry.generation
       /\ entry.capability = "h2c"
       /\ entry.fresh
       /\ seen = "h1"

\* Evidence of an older generation is late; HTTP/2 evidence of the same one,
\* not yet expired, yields only to itself.
Outdated(entry, g, seen) ==
    \/ ~entry.cached
    \/ g < entry.generation
    \/ /\ g = entry.generation
       /\ entry.capability = "h2c"
       /\ entry.fresh
       /\ seen # "h2c"

publish_observation(entry, g, seen) ==
    IF Outdated(entry, g, seen) THEN entry
    ELSE [entry EXCEPT !.generation = g, !.capability = seen, !.fresh = TRUE]

finish_probe(entry) ==
    [entry EXCEPT !.active_probes = IF @ > 0 THEN @ - 1 ELSE 0]

complete_probe(p, seen) ==
    LET t == tokens[p]
    IN  /\ endpoints' = [endpoints EXCEPT ![t.key] =
                            finish_probe(publish_observation(@, t.generation, seen))]
        /\ tokens' = [tokens EXCEPT ![p] = NoToken]
        /\ UNCHANGED next_generation

confirm_h2c_endpoint(p) ==
    /\ tokens[p].stage = "probing"
    /\ complete_probe(p, "h2c")

reject_h2c_endpoint(p) ==
    LET t == tokens[p]
    IN  /\ t.stage = "probing"
        /\ endpoints' = [endpoints EXCEPT ![t.key] =
                            publish_observation(@, t.generation, "none")]
        /\ tokens' = [tokens EXCEPT ![p].stage = "fallback"]
        /\ UNCHANGED next_generation

confirm_h1_endpoint(p) ==
    /\ tokens[p].stage = "fallback"
    /\ complete_probe(p, "h1")

\* A token whose Drop forgets the count.
DropUncounted(p) ==
    /\ tokens[p].stage \in {"probing", "fallback"}
    /\ tokens' = [tokens EXCEPT ![p] = NoToken]
    /\ UNCHANGED <<endpoints, next_generation>>

\* The request fails or is cancelled at an await: the token's Drop.
drop_token(p) ==
    LET t == tokens[p]
    IN  /\ t.stage \in {"probing", "fallback"}
        /\ endpoints' = [endpoints EXCEPT ![t.key] = finish_probe(@)]
        /\ tokens' = [tokens EXCEPT ![p] = NoToken]
        /\ UNCHANGED next_generation

\* The ttl of the observation runs out.
ObservationExpires(e) ==
    /\ endpoints[e].fresh
    /\ endpoints' = [endpoints EXCEPT ![e].fresh = FALSE]
    /\ UNCHANGED <<next_generation, tokens>>

ProbeNext ==
    \/ \E p \in Probers, e \in Endpoints : BeginUseH1(p, e) \/ begin_endpoint_probe(p, e)
    \/ \E p \in Probers :
        \/ H1Done(p)
        \/ confirm_h2c_endpoint(p)
        \/ reject_h2c_endpoint(p)
        \/ confirm_h1_endpoint(p)
        \/ drop_token(p)
    \/ \E e \in Endpoints : ObservationExpires(e)

ProbeSpec == ProbeInit /\ [][ProbeNext]_probeVars
-----------------------------------------------------------------------------
ProbeTypeOK ==
    /\ endpoints \in [Endpoints -> H2cEndpointState]
    /\ next_generation \in Nat \ {0}
    /\ tokens \in [Probers -> H2cProbeToken]

Holding(e) == {p \in Probers : tokens[p].key = e}

\* The probes an endpoint counts are exactly the tokens requests hold for it,
\* so a dropped request never leaves the endpoint probing for ever (and no
\* eviction takes an entry from under a token); and all of them carry the
\* generation the entry was opened with, whatever probes ended before.
ProbesCounted ==
    \A e \in Endpoints :
        /\ endpoints[e].active_probes = Cardinality(Holding(e))
        /\ \A p \in Holding(e) :
            tokens[p].generation = endpoints[e].active_generation

\* The refinement: what a request may conclude from the cache.  A round is open
\* for the cache while it counts a probe, for H2cEvidence while one is held.
Known ==
    [e \in Endpoints |-> IF endpoints[e].fresh THEN endpoints[e].capability ELSE "none"]

Fresh == [e \in Endpoints |-> endpoints[e].fresh]

Settled ==
    [e \in Endpoints |->
        /\ endpoints[e].active_probes > 0
        /\ endpoints[e].generation = endpoints[e].active_generation]

Evidence == INSTANCE H2cEvidence WITH
    known <- Known,
    fresh <- Fresh,
    settled <- Settled,
    open <- [e \in Endpoints |-> Holding(e)],
    skips <- {p \in Probers : tokens[p].stage = "h1"}

\* The cache implements H2cEvidence: in a round of overlapping probes HTTP/2
\* evidence survives every failed attempt and every HTTP/1 fall-back until its
\* ttl runs out, in whatever order the probes begin, fail, reconnect and end
\* (publish_observation, h2c_probe.rs); and no request is sent to HTTP/1
\* unprobed while any probe of the endpoint is under way.  It rests on
\* ProbesCounted: a miscounted probe closes a round early or never.
EvidenceKept == Evidence!EvidenceSpec
=============================================================================
