--------------------------- MODULE H2cProbeProofs ---------------------------
(***************************************************************************)
(* Proofs about the adaptive h2c probe cache: the probes an endpoint       *)
(* counts are the tokens held for it (ProbesCounted), and the cache        *)
(* implements H2cEvidence (EvidenceKept), for any endpoints, any finite    *)
(* set of requests, any eviction threshold and any number of generations.  *)
(***************************************************************************)
EXTENDS H2cProbe, FiniteSetTheorems, TLAPS

\* A request holds a token exactly while it probes or falls back.
TokensShaped ==
    \A p \in Probers :
        IF tokens[p].stage \in {"probing", "fallback"}
        THEN tokens[p].key \in Endpoints
        ELSE tokens[p].key = NoEndpoint

\* Evidence is never of a later generation than the round, nor that one yet to
\* be handed out; an endpoint outside the map is as Absent describes it.
GenerationsOrdered ==
    \A e \in Endpoints :
        /\ endpoints[e].generation <= endpoints[e].active_generation
        /\ endpoints[e].active_generation < next_generation
        /\ ~endpoints[e].cached => endpoints[e] = Absent

ProbeInv == ProbeTypeOK /\ TokensShaped /\ GenerationsOrdered /\ ProbesCounted

\* The requests holding a token for an endpoint can be counted.
LEMMA HoldingFinite ==
  ASSUME NEW e \in Endpoints
  PROVE  /\ IsFiniteSet(Holding(e)) /\ Cardinality(Holding(e)) \in Nat
         /\ Cardinality(Holding(e)) = 0 <=> Holding(e) = {}
<1>1. Holding(e) \in SUBSET Probers
  BY DEF Holding
<1>2. IsFiniteSet(Holding(e))
  BY <1>1, FS_Subset, H2cProbeAssumption
<1> QED
  BY <1>2, FS_CardinalityType, FS_EmptySet

\* The endpoint counts no probe exactly when no request holds a token for it.
LEMMA NoProbeNoHolder ==
  ASSUME ProbesCounted, NEW e \in Endpoints
  PROVE  endpoints[e].active_probes = 0 <=> Holding(e) = {}
BY HoldingFinite DEF ProbesCounted

\* A request that takes a token joins the holders of that endpoint.
LEMMA HoldingTake ==
  ASSUME NEW p \in Probers, NEW t, tokens \in [Probers -> H2cProbeToken],
         tokens' = [tokens EXCEPT ![p] = t],
         NEW e \in Endpoints, tokens[p].key # e, t.key = e
  PROVE  /\ Holding(e)' = Holding(e) \cup {p}
         /\ Cardinality(Holding(e)') = Cardinality(Holding(e)) + 1
<1>1. Holding(e)' = Holding(e) \cup {p} /\ p \notin Holding(e)
  BY DEF Holding
<1>2. IsFiniteSet(Holding(e))
  BY HoldingFinite
<1> QED BY <1>1, <1>2, FS_AddElement

\* A request whose token goes leaves them.
LEMMA HoldingDrop ==
  ASSUME NEW p \in Probers, NEW t, tokens \in [Probers -> H2cProbeToken],
         tokens' = [tokens EXCEPT ![p] = t],
         NEW e \in Endpoints, tokens[p].key = e, t.key # e
  PROVE  /\ Holding(e)' = Holding(e) \ {p}
         /\ Cardinality(Holding(e)') = Cardinality(Holding(e)) - 1
         /\ Cardinality(Holding(e)) >= 1
<1>1. Holding(e)' = Holding(e) \ {p} /\ p \in Holding(e)
  BY DEF Holding
<1>2. IsFiniteSet(Holding(e)) /\ Cardinality(Holding(e)) \in Nat
  BY HoldingFinite
<1>3. Holding(e) # {}
  BY <1>1
<1>4. Cardinality(Holding(e)) # 0
  BY <1>3, HoldingFinite
<1>5. Cardinality(Holding(e) \ {p}) = Cardinality(Holding(e)) - 1
  BY <1>1, <1>2, FS_RemoveElement
<1> QED BY <1>1, <1>2, <1>4, <1>5

\* The holders of every other endpoint stay.
LEMMA HoldingElsewhere ==
  ASSUME NEW p \in Probers, NEW t, tokens \in [Probers -> H2cProbeToken],
         tokens' = [tokens EXCEPT ![p] = t],
         NEW e \in Endpoints, tokens[p].key # e <=> t.key # e
  PROVE  Holding(e)' = Holding(e)
BY DEF Holding
-----------------------------------------------------------------------------
\* The cache begins empty.
LEMMA ProbeInitInv == ProbeInit => ProbeInv
<1> SUFFICES ASSUME ProbeInit PROVE ProbeInv
  OBVIOUS
<1>1. ProbeTypeOK
  BY DEF ProbeInit, ProbeTypeOK, H2cEndpointState, Absent, Capability, H2cProbeToken, NoToken
<1>2. TokensShaped /\ GenerationsOrdered
  BY DEF ProbeInit, TokensShaped, GenerationsOrdered, NoToken, Absent
<1>3. ASSUME NEW e \in Endpoints PROVE Holding(e) = {}
  BY H2cProbeAssumption DEF ProbeInit, Holding, NoToken
<1>4. ProbesCounted
  BY <1>3, FS_EmptySet DEF ProbesCounted, ProbeInit, Absent
<1> QED BY <1>1, <1>2, <1>4 DEF ProbeInv
-----------------------------------------------------------------------------
\* The evidence in an entry a request may act on.
Seen(entry) == IF entry.fresh THEN entry.capability ELSE "none"

\* What evict_expired may do to an entry: nothing a request could notice.
Swept(old, new) ==
    new = old \/ (new = Absent /\ old.active_probes = 0 /\ ~old.fresh)

\* begin_endpoint_probe: the endpoint counts one more probe, which carries the
\* generation of the open round or opens one with a generation nobody had, and
\* neither that nor the sweep changes the evidence.
LEMMA BeginFacts ==
  ASSUME ProbeInv, NEW p \in Probers, NEW e \in Endpoints, begin_endpoint_probe(p, e)
  PROVE  /\ endpoints' \in [Endpoints -> H2cEndpointState]
         /\ next_generation' \in Nat /\ next_generation' >= next_generation
         /\ tokens' = [tokens EXCEPT ![p] =
                [key |-> e, generation |-> endpoints'[e].active_generation, stage |-> "probing"]]
         /\ tokens[p].key = NoEndpoint /\ tokens[p].stage = "idle"
         /\ \A f \in Endpoints \ {e} : Swept(endpoints[f], endpoints'[f])
         /\ endpoints'[e].cached
         /\ endpoints'[e].active_probes = endpoints[e].active_probes + 1
         /\ Seen(endpoints'[e]) = Seen(endpoints[e])
         /\ endpoints[e].fresh => endpoints'[e].fresh
         /\ endpoints[e].active_probes > 0 =>
                /\ endpoints'[e].active_generation = endpoints[e].active_generation
                /\ endpoints'[e].generation = endpoints[e].generation
         /\ endpoints[e].active_probes = 0 =>
                /\ endpoints'[e].active_generation = next_generation
                /\ endpoints'[e].generation < next_generation
                /\ next_generation' = next_generation + 1
<1> DEFINE old == endpoints[e]
           mid == evict_expired[e]
           g == IF mid.active_probes > 0 THEN mid.active_generation ELSE next_generation
           ins == Inserted(mid, g)
           new == Joined(ins, g)
<1>1. /\ endpoints \in [Endpoints -> H2cEndpointState] /\ old \in H2cEndpointState
      /\ next_generation \in Nat \ {0}
      /\ Absent \in H2cEndpointState
  BY DEF ProbeInv, ProbeTypeOK, H2cEndpointState, Absent, Capability
<1>2. \A f \in Endpoints : Swept(endpoints[f], evict_expired[f])
  BY <1>1 DEF evict_expired, Evicted, Swept, H2cEndpointState
<1>3. evict_expired \in [Endpoints -> H2cEndpointState]
  BY <1>1 DEF evict_expired
<1>4. /\ mid \in H2cEndpointState /\ Swept(old, mid)
      /\ mid.active_probes = old.active_probes
      /\ mid.active_probes > 0 => mid = old
      /\ mid.generation < next_generation /\ mid.active_generation < next_generation
      /\ ~mid.cached => mid = Absent
  BY <1>1, <1>2, <1>3 DEF Swept, Absent, ProbeInv, GenerationsOrdered, H2cEndpointState
<1>5. /\ endpoints' = [evict_expired EXCEPT ![e] = new]
      /\ tokens' = [tokens EXCEPT ![p] = [key |-> e, generation |-> g, stage |-> "probing"]]
      /\ tokens[p].stage = "idle"
      /\ next_generation' = IF mid.active_probes > 0 THEN next_generation ELSE next_generation + 1
  BY <1>3 DEF begin_endpoint_probe
<1>6. tokens[p].key = NoEndpoint
  BY <1>5 DEF ProbeInv, TokensShaped
<1>7. g \in Nat
  BY <1>1, <1>4 DEF H2cEndpointState
<1> HIDE DEF g, mid
<1>8. /\ ins \in H2cEndpointState /\ ins.cached /\ ins.active_probes = mid.active_probes
      /\ mid.active_probes > 0 => ins = mid
      /\ ins.generation < next_generation
      /\ Seen(ins) = Seen(mid)
  <2>1. CASE mid.cached
    BY <1>4, <2>1 DEF Inserted
  <2>2. CASE ~mid.cached
    <3>1. mid = Absent /\ ins = [cached |-> TRUE, generation |-> 0, active_generation |-> g,
                  capability |-> "none", fresh |-> TRUE, active_probes |-> 0]
      BY <1>4, <2>2 DEF Inserted
    <3>2. ins \in H2cEndpointState
      BY <1>7, <3>1 DEF H2cEndpointState, Capability
    <3>3. /\ ins.cached /\ ins.active_probes = 0 /\ ins.generation = 0
          /\ ins.capability = "none"
      BY <3>1
    <3>4. mid.active_probes = 0 /\ mid.capability = "none"
      BY <3>1 DEF Absent
    <3> QED BY <1>1, <3>2, <3>3, <3>4 DEF Seen
  <2> QED BY <2>1, <2>2
<1> HIDE DEF ins
<1>9. /\ new \in H2cEndpointState /\ new.cached = ins.cached /\ new.generation = ins.generation
      /\ new.capability = ins.capability /\ new.fresh = ins.fresh
      /\ new.active_probes = ins.active_probes + 1
      /\ new.active_generation = IF ins.active_probes = 0 THEN g ELSE ins.active_generation
  <2> DEFINE ag == IF ins.active_probes = 0 THEN g ELSE ins.active_generation
             n == ins.active_probes + 1
  <2>1. ag \in Nat /\ n \in Nat
    BY <1>7, <1>8 DEF H2cEndpointState
  <2>2. new = [ins EXCEPT !.active_generation = ag, !.active_probes = n]
    BY DEF Joined
  <2> HIDE DEF ag, n, new
  <2>3. /\ new \in H2cEndpointState /\ new.cached = ins.cached
        /\ new.generation = ins.generation /\ new.capability = ins.capability
        /\ new.fresh = ins.fresh /\ new.active_probes = n /\ new.active_generation = ag
    BY <1>8, <2>1, <2>2 DEF H2cEndpointState
  <2> QED BY <2>3 DEF ag, n
<1> HIDE DEF new
<1>10. endpoints'[e] = new /\ \A f \in Endpoints \ {e} : endpoints'[f] = evict_expired[f]
  BY <1>3, <1>5
<1>11. Seen(new) = Seen(old)
  BY <1>4, <1>8, <1>9 DEF Seen, Swept, Absent
<1>12. endpoints' \in [Endpoints -> H2cEndpointState]
  BY <1>3, <1>5, <1>9
<1>13. new.active_generation = g
  <2>1. CASE mid.active_probes > 0
    BY <1>4, <1>8, <1>9, <2>1 DEF g, H2cEndpointState
  <2>2. CASE ~(mid.active_probes > 0)
    BY <1>4, <1>8, <1>9, <2>2 DEF H2cEndpointState
  <2> QED BY <2>1, <2>2
<1>14. old.active_probes > 0 =>
         new.active_generation = old.active_generation /\ new.generation = old.generation
  BY <1>4, <1>8, <1>9, <1>13 DEF g
<1>15. old.active_probes = 0 =>
          /\ new.active_generation = next_generation /\ new.generation < next_generation
          /\ next_generation' = next_generation + 1
  BY <1>4, <1>5, <1>8, <1>9, <1>13 DEF g
<1>16. next_generation' \in Nat /\ next_generation' >= next_generation
  BY <1>1, <1>5
<1>17. old.fresh => new.fresh
  <2>1. old.fresh => mid = old /\ mid.cached
    BY <1>4 DEF Swept, Absent
  <2>2. old.fresh => ins = mid
    BY <2>1 DEF ins, Inserted
  <2> QED BY <1>9, <2>1, <2>2
<1> QED
  BY <1>2, <1>4, <1>5, <1>6, <1>8, <1>9, <1>10, <1>11, <1>12, <1>13, <1>14, <1>15, <1>16, <1>17

\* The entry of an endpoint some request holds a token for.
LEMMA HolderFacts ==
  ASSUME ProbeInv, NEW p \in Probers, tokens[p].stage \in {"probing", "fallback"}
  PROVE  LET e == tokens[p].key
         IN  /\ e \in Endpoints /\ p \in Holding(e) /\ e # NoEndpoint
             /\ endpoints[e] \in H2cEndpointState /\ endpoints[e].cached
             /\ endpoints[e].active_probes >= 1
             /\ tokens[p].generation = endpoints[e].active_generation
             /\ endpoints[e].generation <= endpoints[e].active_generation
<1> DEFINE e == tokens[p].key
<1>1. e \in Endpoints /\ e # NoEndpoint
  BY H2cProbeAssumption DEF ProbeInv, TokensShaped
<1> HIDE DEF e
<1>2. p \in Holding(e)
  BY DEF Holding, e
<1>3. endpoints[e] \in H2cEndpointState
  BY <1>1 DEF ProbeInv, ProbeTypeOK
<1>4. tokens[p].generation = endpoints[e].active_generation
  BY <1>1, <1>2 DEF ProbeInv, ProbesCounted
<1>5. endpoints[e].active_probes >= 1
  <2>1. Holding(e) # {}
    BY <1>2
  <2>2. endpoints[e].active_probes # 0
    BY <1>1, <2>1, NoProbeNoHolder DEF ProbeInv
  <2> QED BY <1>3, <2>2 DEF H2cEndpointState
<1>6. endpoints[e].cached
  BY <1>1, <1>3, <1>5 DEF ProbeInv, GenerationsOrdered, Absent, H2cEndpointState
<1> QED
  BY <1>1, <1>2, <1>3, <1>4, <1>5, <1>6 DEF ProbeInv, GenerationsOrdered, e

\* publish_observation by a holder: the evidence is of the round from then on,
\* and it is what the holder saw, except that unexpired HTTP/2 evidence of the
\* round stays.
LEMMA PublishFacts ==
  ASSUME ProbeInv, NEW p \in Probers, tokens[p].stage \in {"probing", "fallback"},
         NEW seen \in Capability
  PROVE  LET entry == endpoints[tokens[p].key]
             pub == publish_observation(entry, tokens[p].generation, seen)
         IN  /\ pub \in H2cEndpointState /\ pub.cached
             /\ pub.active_probes = entry.active_probes
             /\ pub.active_generation = entry.active_generation
             /\ pub.generation = entry.active_generation
             /\ pub.fresh
             /\ Seen(pub) = IF /\ entry.generation = entry.active_generation
                               /\ Seen(entry) = "h2c" /\ seen # "h2c"
                            THEN Seen(entry) ELSE seen
<1> DEFINE entry == endpoints[tokens[p].key]
           g == tokens[p].generation
           pub == publish_observation(entry, g, seen)
<1>1. /\ entry \in H2cEndpointState /\ entry.cached /\ g = entry.active_generation
      /\ entry.generation <= entry.active_generation
  BY HolderFacts
<1>2. g \in Nat /\ entry.generation \in Nat /\ entry.active_generation \in Nat
  BY <1>1 DEF H2cEndpointState
<1> HIDE DEF entry, g
<1>3. Outdated(entry, g, seen) <=>
        g = entry.generation /\ entry.capability = "h2c" /\ entry.fresh /\ seen # "h2c"
  BY <1>1, <1>2 DEF Outdated
<1>4. CASE Outdated(entry, g, seen)
  <2>1. pub = entry
    BY <1>4 DEF publish_observation
  <2> QED BY <1>1, <1>2, <1>3, <1>4, <2>1 DEF Seen, entry, g
<1>5. CASE ~Outdated(entry, g, seen)
  <2>1. pub = [entry EXCEPT !.generation = g, !.capability = seen, !.fresh = TRUE]
    BY <1>5 DEF publish_observation
  <2> HIDE DEF pub
  <2>2. /\ pub \in H2cEndpointState /\ pub.cached = entry.cached /\ pub.generation = g
        /\ pub.active_generation = entry.active_generation
        /\ pub.active_probes = entry.active_probes
        /\ pub.capability = seen /\ pub.fresh = TRUE
    BY <1>1, <1>2, <2>1 DEF H2cEndpointState
  <2>3. Seen(pub) = seen
    BY <2>2 DEF Seen
  <2>4. ~(/\ entry.generation = entry.active_generation
          /\ Seen(entry) = "h2c" /\ seen # "h2c")
    BY <1>1, <1>3, <1>5 DEF Seen
  <2> QED BY <1>1, <2>2, <2>3, <2>4 DEF entry, g, pub
<1> QED BY <1>4, <1>5

\* finish_probe takes one from the count and touches nothing else.
LEMMA FinishFacts ==
  ASSUME NEW entry \in H2cEndpointState, entry.active_probes >= 1
  PROVE  LET new == finish_probe(entry)
         IN  /\ new \in H2cEndpointState /\ new.cached = entry.cached
             /\ new.active_probes = entry.active_probes - 1
             /\ new.active_generation = entry.active_generation
             /\ new.generation = entry.generation
             /\ new.fresh = entry.fresh
             /\ Seen(new) = Seen(entry)
<1> DEFINE n == entry.active_probes - 1
           new == finish_probe(entry)
<1>1. n \in Nat /\ entry.active_probes > 0
  BY DEF H2cEndpointState
<1>2. new = [entry EXCEPT !.active_probes = n]
  BY <1>1 DEF finish_probe
<1> HIDE DEF n, new
<1>3. /\ new \in H2cEndpointState /\ new.cached = entry.cached /\ new.active_probes = n
      /\ new.active_generation = entry.active_generation /\ new.generation = entry.generation
      /\ new.capability = entry.capability /\ new.fresh = entry.fresh
  BY <1>1, <1>2 DEF H2cEndpointState
<1> QED BY <1>3 DEF Seen, n, new
-----------------------------------------------------------------------------
\* A holder that keeps its token, or drops it and is counted off, keeps ProbeInv.
LEMMA HolderStepInv ==
  ASSUME ProbeInv, NEW p \in Probers, tokens[p].stage \in {"probing", "fallback"},
         NEW e \in Endpoints, tokens[p].key = e, NEW new \in H2cEndpointState, NEW t \in H2cProbeToken,
         endpoints' = [endpoints EXCEPT ![e] = new],
         tokens' = [tokens EXCEPT ![p] = t], next_generation' = next_generation,
         new.cached,
         new.active_generation = endpoints[e].active_generation,
         new.generation <= new.active_generation,
         \/ t = NoToken /\ new.active_probes = endpoints[e].active_probes - 1
         \/ /\ t.key = e /\ t.generation = tokens[p].generation
            /\ t.stage = "fallback"
            /\ new.active_probes = endpoints[e].active_probes
  PROVE  ProbeInv'
<1>1. /\ e \in Endpoints /\ p \in Holding(e) /\ e # NoEndpoint
      /\ tokens[p].generation = endpoints[e].active_generation
  BY HolderFacts
<1>2. /\ endpoints \in [Endpoints -> H2cEndpointState]
      /\ tokens \in [Probers -> H2cProbeToken] /\ next_generation \in Nat \ {0}
  BY DEF ProbeInv, ProbeTypeOK
<1>3. ProbeTypeOK'
  BY <1>1, <1>2 DEF ProbeTypeOK
<1>4. /\ endpoints' = [endpoints EXCEPT ![e] = new]
      /\ endpoints'[e] = new /\ tokens'[p] = t
      /\ \A f \in Endpoints \ {e} : endpoints'[f] = endpoints[f]
      /\ \A q \in Probers \ {p} : tokens'[q] = tokens[q]
  BY <1>1, <1>2
<1>5. TokensShaped'
  BY <1>1, <1>4 DEF TokensShaped, ProbeInv, NoToken
<1>6. GenerationsOrdered'
  BY <1>1, <1>4 DEF GenerationsOrdered, ProbeInv
<1>7. ASSUME NEW f \in Endpoints \ {e}
      PROVE  /\ endpoints'[f].active_probes = Cardinality(Holding(f)')
             /\ \A q \in Holding(f)' : tokens'[q].generation = endpoints'[f].active_generation
  <2>1. tokens[p].key # f /\ t.key # f
    BY <1>1, H2cProbeAssumption DEF NoToken
  <2>2. Holding(f)' = Holding(f) /\ p \notin Holding(f)
    BY <1>2, <2>1, HoldingElsewhere DEF Holding
  <2>3. \A q \in Holding(f) : tokens'[q] = tokens[q]
    BY <1>4, <2>2 DEF Holding
  <2> QED BY <1>4, <2>2, <2>3 DEF ProbeInv, ProbesCounted
<1>8. endpoints'[e].active_probes = Cardinality(Holding(e)')
  <2>1. endpoints[e].active_probes = Cardinality(Holding(e))
    BY <1>1 DEF ProbeInv, ProbesCounted
  <2>2. CASE t = NoToken /\ new.active_probes = endpoints[e].active_probes - 1
    <3>1. tokens[p].key = e /\ t.key # e
      BY <1>1, <2>2 DEF NoToken
    <3>2. Cardinality(Holding(e)') = Cardinality(Holding(e)) - 1
      BY <1>1, <1>2, <3>1, HoldingDrop
    <3> QED BY <1>4, <2>1, <2>2, <3>2
  <2>3. CASE t.key = e /\ new.active_probes = endpoints[e].active_probes
    <3>1. Holding(e)' = Holding(e)
      BY <1>1, <1>2, <2>3, HoldingElsewhere
    <3> QED BY <1>4, <2>1, <2>3, <3>1
  <2> QED BY <2>2, <2>3
<1>9. ASSUME NEW q \in Holding(e)'
      PROVE  tokens'[q].generation = endpoints'[e].active_generation
  <2>1. q \in Probers /\ tokens'[q].key = e
    BY <1>9 DEF Holding
  <2>2. CASE q = p
    <3>1. t # NoToken
      BY <1>1, <1>4, <2>1, <2>2 DEF NoToken
    <3> QED BY <1>1, <1>4, <2>2, <3>1
  <2>3. CASE q # p
    <3>1. q \in Holding(e) /\ tokens'[q] = tokens[q]
      BY <1>4, <2>1, <2>3 DEF Holding
    <3> QED BY <1>1, <1>4, <3>1 DEF ProbeInv, ProbesCounted
  <2> QED BY <2>2, <2>3
<1>10. ProbesCounted'
  BY <1>7, <1>8, <1>9 DEF ProbesCounted
<1> QED BY <1>3, <1>5, <1>6, <1>10 DEF ProbeInv

\* A probe that begins is counted, in its endpoint's open round or in a new one.
LEMMA BeginStepInv ==
  ASSUME ProbeInv, NEW p \in Probers, NEW e \in Endpoints, begin_endpoint_probe(p, e)
  PROVE  ProbeInv'
<1> DEFINE t == [key |-> e, generation |-> endpoints'[e].active_generation, stage |-> "probing"]
<1>1. /\ endpoints \in [Endpoints -> H2cEndpointState]
      /\ tokens \in [Probers -> H2cProbeToken] /\ next_generation \in Nat \ {0}
  BY DEF ProbeInv, ProbeTypeOK
<1>2. /\ endpoints' \in [Endpoints -> H2cEndpointState]
      /\ next_generation' \in Nat /\ next_generation' >= next_generation
      /\ tokens' = [tokens EXCEPT ![p] = t]
      /\ tokens[p].key = NoEndpoint
      /\ \A f \in Endpoints \ {e} : Swept(endpoints[f], endpoints'[f])
      /\ endpoints'[e].cached
      /\ endpoints'[e].active_probes = endpoints[e].active_probes + 1
      /\ endpoints[e].active_probes > 0 =>
             /\ endpoints'[e].active_generation = endpoints[e].active_generation
             /\ endpoints'[e].generation = endpoints[e].generation
      /\ endpoints[e].active_probes = 0 =>
             /\ endpoints'[e].active_generation = next_generation
             /\ endpoints'[e].generation < next_generation
             /\ next_generation' = next_generation + 1
  BY BeginFacts
<1>3. t \in H2cProbeToken /\ t.key = e /\ tokens[p].key # e
  BY <1>2, H2cProbeAssumption DEF H2cProbeToken, H2cEndpointState
<1>4. t.generation = endpoints'[e].active_generation /\ t.stage = "probing"
  OBVIOUS
<1> HIDE DEF t
<1>5. ProbeTypeOK'
  BY <1>1, <1>2, <1>3 DEF ProbeTypeOK
<1>6. tokens'[p] = t /\ \A q \in Probers \ {p} : tokens'[q] = tokens[q]
  BY <1>1, <1>2
<1>7. TokensShaped'
  BY <1>3, <1>4, <1>6 DEF TokensShaped, ProbeInv
<1>8. endpoints[e].active_probes \in Nat /\ endpoints[e].generation \in Nat
      /\ endpoints'[e].generation \in Nat /\ endpoints'[e].active_generation \in Nat
  BY <1>1, <1>2 DEF H2cEndpointState
<1>9. GenerationsOrdered'
  <2>1. ASSUME NEW f \in Endpoints \ {e}
        PROVE  /\ endpoints'[f].generation <= endpoints'[f].active_generation
               /\ endpoints'[f].active_generation < next_generation'
               /\ ~endpoints'[f].cached => endpoints'[f] = Absent
    <3>1. /\ endpoints[f].generation \in Nat /\ endpoints[f].active_generation \in Nat
      BY <1>1 DEF H2cEndpointState
    <3>2. CASE endpoints'[f] = endpoints[f]
      BY <1>1, <1>2, <3>1, <3>2 DEF ProbeInv, GenerationsOrdered
    <3>3. CASE endpoints'[f] = Absent
      BY <1>1, <1>2, <3>3 DEF Absent
    <3> QED BY <1>2, <3>2, <3>3 DEF Swept
  <2>2. /\ endpoints'[e].generation <= endpoints'[e].active_generation
        /\ endpoints'[e].active_generation < next_generation'
    <3>1. CASE endpoints[e].active_probes > 0
      BY <1>1, <1>2, <1>8, <3>1 DEF ProbeInv, GenerationsOrdered
    <3>2. CASE endpoints[e].active_probes = 0
      BY <1>1, <1>2, <1>8, <3>2
    <3> QED BY <1>8, <3>1, <3>2
  <2> QED BY <1>2, <2>1, <2>2 DEF GenerationsOrdered
<1>10. ProbesCounted'
  <2>1. ASSUME NEW f \in Endpoints \ {e}
        PROVE  /\ endpoints'[f].active_probes = Cardinality(Holding(f)')
               /\ \A q \in Holding(f)' :
                    tokens'[q].generation = endpoints'[f].active_generation
    <3>1. Holding(f)' = Holding(f) /\ p \notin Holding(f)
      <4>1. tokens[p].key # f /\ t.key # f
        BY <1>2, <1>3, H2cProbeAssumption
      <4>2. Holding(f)' = Holding(f)
        BY <1>1, <1>2, <4>1, HoldingElsewhere
      <4> QED BY <4>1, <4>2 DEF Holding
    <3>2. CASE endpoints'[f] = endpoints[f]
      BY <1>6, <3>1, <3>2 DEF Holding, ProbeInv, ProbesCounted
    <3>3. CASE endpoints'[f] = Absent /\ endpoints[f].active_probes = 0
      <4>1. Holding(f) = {}
        BY <3>3, NoProbeNoHolder DEF ProbeInv
      <4> QED BY <3>1, <3>3, <4>1, FS_EmptySet DEF Absent
    <3> QED BY <1>2, <3>2, <3>3 DEF Swept
  <2>2. Holding(e)' = Holding(e) \cup {p} /\ Cardinality(Holding(e)') = Cardinality(Holding(e)) + 1
    BY <1>1, <1>2, <1>3, HoldingTake
  <2>3. endpoints'[e].active_probes = Cardinality(Holding(e)')
    BY <1>2, <2>2 DEF ProbeInv, ProbesCounted
  <2>4. ASSUME NEW q \in Holding(e)'
        PROVE  tokens'[q].generation = endpoints'[e].active_generation
    <3>1. CASE q = p
      BY <1>4, <1>6, <3>1
    <3>2. CASE q # p
      <4>1. q \in Holding(e) /\ tokens'[q] = tokens[q]
        BY <1>6, <2>2, <2>4, <3>2 DEF Holding
      <4>2. endpoints[e].active_probes > 0
        BY <1>8, <4>1, NoProbeNoHolder DEF ProbeInv
      <4> QED BY <1>2, <4>1, <4>2 DEF ProbeInv, ProbesCounted
    <3> QED BY <3>1, <3>2
  <2> QED BY <2>1, <2>3, <2>4 DEF ProbesCounted
<1> QED BY <1>5, <1>7, <1>9, <1>10 DEF ProbeInv

\* A request that uses HTTP/1 unprobed, or is done with it, holds no token.
LEMMA SkipStepInv ==
  ASSUME ProbeInv, NEW p \in Probers, NEW t \in H2cProbeToken,
         tokens[p].stage \in {"idle", "h1"}, t.key = NoEndpoint, t.stage \in {"idle", "h1"},
         tokens' = [tokens EXCEPT ![p] = t], UNCHANGED <<endpoints, next_generation>>
  PROVE  ProbeInv' /\ \A e \in Endpoints : Holding(e)' = Holding(e)
<1>1. tokens \in [Probers -> H2cProbeToken] /\ tokens[p].key = NoEndpoint
  BY DEF ProbeInv, ProbeTypeOK, TokensShaped
<1>2. ASSUME NEW e \in Endpoints
      PROVE  Holding(e)' = Holding(e) /\ \A q \in Holding(e) : tokens'[q] = tokens[q]
  BY <1>1, H2cProbeAssumption DEF Holding
<1>3. ProbeTypeOK' /\ TokensShaped' /\ GenerationsOrdered'
  BY <1>1 DEF ProbeInv, ProbeTypeOK, TokensShaped, GenerationsOrdered
<1>4. ProbesCounted'
  BY <1>2 DEF ProbeInv, ProbesCounted
<1> QED BY <1>2, <1>3, <1>4 DEF ProbeInv

\* A token that reports and is consumed: confirm_h2c_endpoint and
\* confirm_h1_endpoint.
LEMMA CompleteFacts ==
  ASSUME ProbeInv, NEW p \in Probers, tokens[p].stage \in {"probing", "fallback"},
         NEW e \in Endpoints, tokens[p].key = e, NEW seen \in Capability, complete_probe(p, seen)
  PROVE  /\ ProbeInv'
         /\ tokens' = [tokens EXCEPT ![p] = NoToken]
         /\ \A f \in Endpoints \ {e} : endpoints'[f] = endpoints[f]
         /\ endpoints'[e].generation = endpoints'[e].active_generation
         /\ endpoints'[e].fresh
         /\ Seen(endpoints'[e]) =
               IF /\ endpoints[e].generation = endpoints[e].active_generation
                  /\ Seen(endpoints[e]) = "h2c" /\ seen # "h2c"
               THEN Seen(endpoints[e]) ELSE seen
<1> DEFINE pub == publish_observation(endpoints[e], tokens[p].generation, seen)
           new == finish_probe(pub)
<1>1. /\ endpoints[e] \in H2cEndpointState /\ endpoints[e].active_probes >= 1
      /\ e # NoEndpoint
  BY HolderFacts
<1>2. /\ pub \in H2cEndpointState /\ pub.cached
      /\ pub.active_probes = endpoints[e].active_probes
      /\ pub.active_generation = endpoints[e].active_generation
      /\ pub.generation = endpoints[e].active_generation
      /\ pub.fresh
      /\ Seen(pub) = IF /\ endpoints[e].generation = endpoints[e].active_generation
                        /\ Seen(endpoints[e]) = "h2c" /\ seen # "h2c"
                     THEN Seen(endpoints[e]) ELSE seen
  BY PublishFacts
<1>3. /\ endpoints' = [endpoints EXCEPT ![e] = new]
      /\ tokens' = [tokens EXCEPT ![p] = NoToken] /\ next_generation' = next_generation
  BY DEF complete_probe
<1> HIDE DEF pub
<1>4. /\ new \in H2cEndpointState /\ new.cached = pub.cached
      /\ new.active_probes = pub.active_probes - 1
      /\ new.active_generation = pub.active_generation
      /\ new.generation = pub.generation
      /\ new.fresh = pub.fresh
      /\ Seen(new) = Seen(pub)
  BY <1>1, <1>2, FinishFacts
<1> HIDE DEF new
<1>5. new.generation <= new.active_generation
  BY <1>2, <1>4 DEF H2cEndpointState
<1>6. NoToken \in H2cProbeToken
  BY DEF NoToken, H2cProbeToken
<1>7. ProbeInv'
  BY <1>2, <1>3, <1>4, <1>5, <1>6, HolderStepInv
<1>8. endpoints'[e] = new /\ \A f \in Endpoints \ {e} : endpoints'[f] = endpoints[f]
  BY <1>3 DEF ProbeInv, ProbeTypeOK
<1> QED BY <1>2, <1>3, <1>4, <1>7, <1>8

\* reject_h2c_endpoint: the attempt is reported, the token stays for the fall-back.
LEMMA RejectFacts ==
  ASSUME ProbeInv, NEW p \in Probers, NEW e \in Endpoints, tokens[p].key = e,
         reject_h2c_endpoint(p)
  PROVE  /\ ProbeInv'
         /\ tokens[p].stage = "probing"
         /\ tokens' = [tokens EXCEPT ![p].stage = "fallback"]
         /\ \A f \in Endpoints \ {e} : endpoints'[f] = endpoints[f]
         /\ endpoints'[e].generation = endpoints'[e].active_generation
         /\ endpoints'[e].fresh
         /\ Seen(endpoints'[e]) =
               IF /\ endpoints[e].generation = endpoints[e].active_generation
                  /\ Seen(endpoints[e]) = "h2c"
               THEN Seen(endpoints[e]) ELSE "none"
<1> DEFINE new == publish_observation(endpoints[e], tokens[p].generation, "none")
           t == [tokens[p] EXCEPT !.stage = "fallback"]
<1>1. /\ tokens[p].stage = "probing"
      /\ endpoints' = [endpoints EXCEPT ![e] = new]
      /\ tokens' = [tokens EXCEPT ![p].stage = "fallback"]
      /\ tokens' = [tokens EXCEPT ![p] = t] /\ next_generation' = next_generation
  BY DEF reject_h2c_endpoint
<1>2. /\ new \in H2cEndpointState /\ new.cached
      /\ new.active_probes = endpoints[e].active_probes
      /\ new.active_generation = endpoints[e].active_generation
      /\ new.generation = endpoints[e].active_generation
      /\ new.fresh
      /\ Seen(new) = IF /\ endpoints[e].generation = endpoints[e].active_generation
                        /\ Seen(endpoints[e]) = "h2c"
                     THEN Seen(endpoints[e]) ELSE "none"
  BY <1>1, PublishFacts DEF Capability
<1>3. /\ t \in H2cProbeToken /\ t.key = e /\ t.generation = tokens[p].generation
      /\ t.stage = "fallback"
  BY DEF ProbeInv, ProbeTypeOK, H2cProbeToken
<1> HIDE DEF new, t
<1>4. new.generation <= new.active_generation
  BY <1>2 DEF H2cEndpointState
<1>5. ProbeInv'
  BY <1>1, <1>2, <1>3, <1>4, HolderStepInv
<1>6. endpoints'[e] = new /\ \A f \in Endpoints \ {e} : endpoints'[f] = endpoints[f]
  BY <1>1 DEF ProbeInv, ProbeTypeOK
<1> QED BY <1>1, <1>2, <1>5, <1>6

\* drop_token: the probe is counted off, the evidence stays.
LEMMA DropFacts ==
  ASSUME ProbeInv, NEW p \in Probers, NEW e \in Endpoints, tokens[p].key = e, drop_token(p)
  PROVE  /\ ProbeInv'
         /\ tokens' = [tokens EXCEPT ![p] = NoToken]
         /\ \A f \in Endpoints \ {e} : endpoints'[f] = endpoints[f]
         /\ endpoints'[e].generation = endpoints[e].generation
         /\ endpoints'[e].active_generation = endpoints[e].active_generation
         /\ endpoints'[e].fresh = endpoints[e].fresh
         /\ Seen(endpoints'[e]) = Seen(endpoints[e])
<1> DEFINE new == finish_probe(endpoints[e])
<1>1. /\ tokens[p].stage \in {"probing", "fallback"}
      /\ endpoints' = [endpoints EXCEPT ![e] = new]
      /\ tokens' = [tokens EXCEPT ![p] = NoToken] /\ next_generation' = next_generation
  BY DEF drop_token
<1>2. /\ endpoints[e] \in H2cEndpointState /\ endpoints[e].active_probes >= 1
      /\ endpoints[e].cached /\ endpoints[e].generation <= endpoints[e].active_generation
  BY <1>1, HolderFacts
<1>3. /\ new \in H2cEndpointState /\ new.cached = endpoints[e].cached
      /\ new.active_probes = endpoints[e].active_probes - 1
      /\ new.active_generation = endpoints[e].active_generation
      /\ new.generation = endpoints[e].generation
      /\ new.fresh = endpoints[e].fresh
      /\ Seen(new) = Seen(endpoints[e])
  BY <1>2, FinishFacts
<1> HIDE DEF new
<1>4. NoToken \in H2cProbeToken
  BY DEF NoToken, H2cProbeToken
<1>5. ProbeInv'
  BY <1>1, <1>2, <1>3, <1>4, HolderStepInv
<1>6. endpoints'[e] = new /\ \A f \in Endpoints \ {e} : endpoints'[f] = endpoints[f]
  BY <1>1 DEF ProbeInv, ProbeTypeOK
<1> QED BY <1>1, <1>3, <1>5, <1>6

\* ObservationExpires changes no count and no generation.
LEMMA ExpireFacts ==
  ASSUME ProbeInv, NEW e \in Endpoints, ObservationExpires(e)
  PROVE  /\ ProbeInv'
         /\ \A f \in Endpoints : Holding(f)' = Holding(f)
         /\ \A f \in Endpoints \ {e} : endpoints'[f] = endpoints[f]
         /\ endpoints'[e].active_probes = endpoints[e].active_probes
         /\ endpoints'[e].generation = endpoints[e].generation
         /\ endpoints'[e].active_generation = endpoints[e].active_generation
         /\ endpoints[e].fresh /\ endpoints'[e].fresh = FALSE
         /\ Seen(endpoints'[e]) = "none"
<1>1. /\ endpoints[e].fresh /\ endpoints' = [endpoints EXCEPT ![e].fresh = FALSE]
      /\ UNCHANGED <<next_generation, tokens>>
  BY DEF ObservationExpires
<1>2. endpoints \in [Endpoints -> H2cEndpointState]
  BY DEF ProbeInv, ProbeTypeOK
<1>3. /\ endpoints' \in [Endpoints -> H2cEndpointState]
      /\ \A f \in Endpoints \ {e} : endpoints'[f] = endpoints[f]
      /\ endpoints'[e].active_probes = endpoints[e].active_probes
      /\ endpoints'[e].generation = endpoints[e].generation
      /\ endpoints'[e].active_generation = endpoints[e].active_generation
      /\ endpoints'[e].cached = endpoints[e].cached
      /\ endpoints'[e].fresh = FALSE
  BY <1>1, <1>2 DEF H2cEndpointState
<1>4. \A f \in Endpoints : Holding(f)' = Holding(f)
  BY <1>1 DEF Holding
<1>5. endpoints[e].cached
  BY <1>1 DEF ProbeInv, GenerationsOrdered, Absent
<1>6. ProbeTypeOK' /\ TokensShaped' /\ GenerationsOrdered'
  BY <1>1, <1>3, <1>5 DEF ProbeInv, ProbeTypeOK, TokensShaped, GenerationsOrdered
<1>7. ProbesCounted'
  BY <1>1, <1>3, <1>4 DEF ProbeInv, ProbesCounted
<1>8. Seen(endpoints'[e]) = "none"
  BY <1>3 DEF Seen
<1> QED BY <1>1, <1>3, <1>4, <1>6, <1>7, <1>8 DEF ProbeInv

\* Every critical section of the cache keeps ProbeInv.
LEMMA ProbeNextInv == ProbeInv /\ [ProbeNext]_probeVars => ProbeInv'
<1> SUFFICES ASSUME ProbeInv, [ProbeNext]_probeVars PROVE ProbeInv'
  OBVIOUS
<1>1. ASSUME NEW p \in Probers, NEW e \in Endpoints, BeginUseH1(p, e) PROVE ProbeInv'
  <2> DEFINE t == [tokens[p] EXCEPT !.stage = "h1"]
  <2>1. /\ tokens[p].stage = "idle" /\ tokens' = [tokens EXCEPT ![p] = t]
        /\ UNCHANGED <<endpoints, next_generation>>
    BY <1>1 DEF BeginUseH1
  <2>2. t \in H2cProbeToken /\ t.key = NoEndpoint /\ t.stage = "h1"
    BY <2>1 DEF ProbeInv, ProbeTypeOK, TokensShaped, H2cProbeToken
  <2> QED BY <2>1, <2>2, SkipStepInv
<1>2. ASSUME NEW p \in Probers, H1Done(p) PROVE ProbeInv'
  <2>1. NoToken \in H2cProbeToken /\ NoToken.key = NoEndpoint /\ NoToken.stage = "idle"
    BY DEF NoToken, H2cProbeToken
  <2> QED BY <1>2, <2>1, SkipStepInv DEF H1Done
<1>3. ASSUME NEW p \in Probers, tokens[p].stage \in {"probing", "fallback"},
             confirm_h2c_endpoint(p) \/ reject_h2c_endpoint(p)
                \/ confirm_h1_endpoint(p) \/ drop_token(p)
      PROVE  ProbeInv'
  <2>1. PICK e \in Endpoints : tokens[p].key = e
    BY <1>3, HolderFacts
  <2> QED
    BY <1>3, <2>1, CompleteFacts, RejectFacts, DropFacts
       DEF confirm_h2c_endpoint, confirm_h1_endpoint, Capability
<1>4. ASSUME NEW p \in Probers,
             confirm_h2c_endpoint(p) \/ reject_h2c_endpoint(p)
                \/ confirm_h1_endpoint(p) \/ drop_token(p)
      PROVE  tokens[p].stage \in {"probing", "fallback"}
  BY <1>4 DEF confirm_h2c_endpoint, reject_h2c_endpoint, confirm_h1_endpoint, drop_token
<1>5. CASE UNCHANGED probeVars
  <2>1. \A e \in Endpoints : Holding(e)' = Holding(e)
    BY <1>5 DEF probeVars, Holding
  <2> QED
    BY <1>5, <2>1 DEF probeVars, ProbeInv, ProbeTypeOK, TokensShaped, GenerationsOrdered,
                      ProbesCounted
<1> QED
  BY <1>1, <1>2, <1>3, <1>4, <1>5, BeginStepInv, ExpireFacts DEF ProbeNext

\* The cache's count of probes is the tokens held, all of the open round.
THEOREM H2cProbesCounted == ProbeSpec => []ProbesCounted
<1>1. ProbeInv => ProbesCounted
  BY DEF ProbeInv
<1> QED
  BY <1>1, ProbeInitInv, ProbeNextInv, PTL DEF ProbeSpec
-----------------------------------------------------------------------------
(***************************************************************************)
(* The refinement.  ProbeInv relates the two states: a round is open for   *)
(* H2cEvidence while some token is held, for the cache while it counts a   *)
(* probe, and its evidence is of the round when the generations agree.     *)
(***************************************************************************)
Open == [e \in Endpoints |-> Holding(e)]

Skips == {p \in Probers : tokens[p].stage = "h1"}

\* The mapped state, endpoint by endpoint.
LEMMA Mapped ==
  /\ \A e \in Endpoints : Known[e] = Seen(endpoints[e])
  /\ \A e \in Endpoints : Fresh[e] = endpoints[e].fresh
  /\ \A e \in Endpoints : Open[e] = Holding(e)
  /\ \A e \in Endpoints : Settled[e] = (/\ endpoints[e].active_probes > 0
                                        /\ endpoints[e].generation = endpoints[e].active_generation)
BY DEF Known, Fresh, Open, Settled, Seen

\* A step that changes one endpoint changes the mapped state there only.
LEMMA MappedStep ==
  ASSUME NEW e \in Endpoints, endpoints \in [Endpoints -> H2cEndpointState],
         \A f \in Endpoints \ {e} : Swept(endpoints[f], endpoints'[f]),
         \A f \in Endpoints \ {e} : Holding(f)' = Holding(f)
  PROVE  /\ Known' = [Known EXCEPT ![e] = Seen(endpoints'[e])]
         /\ Fresh' = [Fresh EXCEPT ![e] = endpoints'[e].fresh]
         /\ Open' = [Open EXCEPT ![e] = Holding(e)']
         /\ Settled' = [Settled EXCEPT ![e] =
                (/\ endpoints'[e].active_probes > 0
                 /\ endpoints'[e].generation = endpoints'[e].active_generation)]
<1>1. \A f \in Endpoints \ {e} : Seen(endpoints'[f]) = Seen(endpoints[f])
  BY DEF Seen, Swept, Absent
<1>2. Known' = [Known EXCEPT ![e] = Seen(endpoints'[e])]
  BY <1>1 DEF Known, Seen
<1>3. Open' = [Open EXCEPT ![e] = Holding(e)']
  BY DEF Open
<1>4. \A f \in Endpoints \ {e} :
        (/\ endpoints'[f].active_probes > 0
         /\ endpoints'[f].generation = endpoints'[f].active_generation)
        = (/\ endpoints[f].active_probes > 0
           /\ endpoints[f].generation = endpoints[f].active_generation)
  BY DEF Swept, Absent
<1>5. Settled' = [Settled EXCEPT ![e] =
                (/\ endpoints'[e].active_probes > 0
                 /\ endpoints'[e].generation = endpoints'[e].active_generation)]
  BY <1>4 DEF Settled
<1>6. \A f \in Endpoints \ {e} : endpoints'[f].fresh = endpoints[f].fresh
  <2> SUFFICES ASSUME NEW f \in Endpoints \ {e} PROVE endpoints'[f].fresh = endpoints[f].fresh
    OBVIOUS
  <2>1. CASE endpoints'[f] = endpoints[f]
    BY <2>1
  <2>2. CASE endpoints'[f] = Absent /\ ~endpoints[f].fresh
    <3>1. endpoints[f].fresh \in BOOLEAN
      BY DEF H2cEndpointState
    <3>2. endpoints'[f].fresh = FALSE
      BY <2>2 DEF Absent
    <3> QED BY ONLY <2>2, <3>1, <3>2
  <2> QED BY <2>1, <2>2 DEF Swept
<1>7. Fresh' = [Fresh EXCEPT ![e] = endpoints'[e].fresh]
  BY <1>6 DEF Fresh
<1> QED BY <1>2, <1>3, <1>5, <1>7

\* begin_endpoint_probe, told to use HTTP/1, is Skip.
LEMMA UseH1Refines ==
  ASSUME ProbeInv, NEW p \in Probers, NEW e \in Endpoints, BeginUseH1(p, e)
  PROVE  Evidence!Skip(p, e)
<1>1. /\ tokens[p].stage = "idle" /\ tokens' = [tokens EXCEPT ![p].stage = "h1"]
      /\ tokens[p].key = NoEndpoint
      /\ endpoints[e].active_probes = 0 /\ endpoints[e].fresh /\ endpoints[e].capability = "h1"
      /\ endpoints' = endpoints
  BY DEF BeginUseH1, UseH1, ProbeInv, TokensShaped
<1>2. tokens \in [Probers -> H2cProbeToken]
  BY DEF ProbeInv, ProbeTypeOK
<1>3. \A f \in Endpoints : Holding(f)' = Holding(f) /\ p \notin Holding(f)
  BY <1>1, <1>2, H2cProbeAssumption DEF Holding, H2cProbeToken
<1>4. Holding(e) = {}
  BY <1>1, NoProbeNoHolder DEF ProbeInv
<1>5. Skips' = Skips \cup {p}
  BY <1>1, <1>2 DEF Skips, H2cProbeToken
<1>6. Known[e] = "h1" /\ Known' = Known /\ Fresh' = Fresh /\ Settled' = Settled /\ Open' = Open
  BY <1>1, <1>3 DEF Known, Fresh, Settled, Open
<1> QED BY <1>3, <1>4, <1>5, <1>6 DEF Evidence!Skip, Open, Skips

\* The end of such a request is SkipDone.
LEMMA H1DoneRefines ==
  ASSUME ProbeInv, NEW p \in Probers, H1Done(p)
  PROVE  Evidence!SkipDone(p)
<1>1. /\ tokens[p].stage = "h1" /\ tokens' = [tokens EXCEPT ![p] = NoToken]
      /\ tokens[p].key = NoEndpoint /\ endpoints' = endpoints
  BY DEF H1Done, ProbeInv, TokensShaped
<1>2. tokens \in [Probers -> H2cProbeToken]
  BY DEF ProbeInv, ProbeTypeOK
<1>3. \A f \in Endpoints : Holding(f)' = Holding(f)
  BY <1>1, <1>2, H2cProbeAssumption DEF Holding, NoToken
<1>4. Skips' = Skips \ {p} /\ p \in Skips
  BY <1>1, <1>2 DEF Skips, NoToken
<1>5. Known' = Known /\ Fresh' = Fresh /\ Settled' = Settled /\ Open' = Open
  BY <1>1, <1>3 DEF Known, Fresh, Settled, Open
<1> QED BY <1>4, <1>5 DEF Evidence!SkipDone, Open, Skips

\* begin_endpoint_probe that probes is Join.
LEMMA BeginRefines ==
  ASSUME ProbeInv, NEW p \in Probers, NEW e \in Endpoints, begin_endpoint_probe(p, e)
  PROVE  Evidence!Join(p, e)
<1> DEFINE t == [key |-> e, generation |-> endpoints'[e].active_generation, stage |-> "probing"]
<1>1. /\ tokens' = [tokens EXCEPT ![p] = t]
      /\ tokens[p].key = NoEndpoint /\ tokens[p].stage = "idle"
      /\ \A f \in Endpoints \ {e} : Swept(endpoints[f], endpoints'[f])
      /\ endpoints'[e].active_probes = endpoints[e].active_probes + 1
      /\ Seen(endpoints'[e]) = Seen(endpoints[e])
      /\ endpoints[e].fresh => endpoints'[e].fresh
      /\ endpoints' \in [Endpoints -> H2cEndpointState]
      /\ endpoints[e].active_probes > 0 =>
             /\ endpoints'[e].active_generation = endpoints[e].active_generation
             /\ endpoints'[e].generation = endpoints[e].generation
      /\ endpoints[e].active_probes = 0 =>
             /\ endpoints'[e].active_generation = next_generation
             /\ endpoints'[e].generation < next_generation
  BY BeginFacts
<1>2. /\ tokens \in [Probers -> H2cProbeToken]
      /\ endpoints \in [Endpoints -> H2cEndpointState]
      /\ endpoints[e] \in H2cEndpointState /\ next_generation \in Nat
  BY DEF ProbeInv, ProbeTypeOK
<1>3. t.key = e /\ t.stage = "probing" /\ tokens[p].key # e
  BY <1>1, H2cProbeAssumption
<1> HIDE DEF t
<1>4. \A f \in Endpoints : p \notin Holding(f)
  BY <1>1, H2cProbeAssumption DEF Holding
<1>5. \A f \in Endpoints \ {e} : Holding(f)' = Holding(f)
  BY <1>1, <1>2, <1>3, H2cProbeAssumption DEF Holding
<1>6. Holding(e)' = Holding(e) \cup {p}
  BY <1>1, <1>2, <1>3 DEF Holding
<1>7. Skips' = Skips /\ p \notin Skips
  BY <1>1, <1>2, <1>3 DEF Skips
<1>8. ~(Open[e] = {} /\ Known[e] = "h1")
  <2> SUFFICES ASSUME Open[e] = {}, Known[e] = "h1" PROVE FALSE
    OBVIOUS
  <2>1. endpoints[e].active_probes = 0
    BY NoProbeNoHolder DEF Open, ProbeInv
  <2>2. endpoints[e].fresh /\ endpoints[e].capability = "h1"
    BY DEF Known
  <2>3. endpoints[e].cached
    BY <2>2 DEF ProbeInv, GenerationsOrdered, Absent
  <2> QED BY <2>1, <2>2, <2>3 DEF begin_endpoint_probe, UseH1
<1>9. Known' = Known
  <2>1. Known' = [Known EXCEPT ![e] = Seen(endpoints'[e])]
    BY <1>1, <1>2, <1>5, MappedStep
  <2>2. Seen(endpoints'[e]) = Known[e]
    BY <1>1, Mapped
  <2>3. [Known EXCEPT ![e] = Known[e]] = Known
    BY DEF Known
  <2> QED BY <2>1, <2>2, <2>3
<1>10. Open' = [Open EXCEPT ![e] = @ \cup {p}]
  BY <1>5, <1>6 DEF Open
<1>11. Settled' = [Settled EXCEPT ![e] = @ /\ Open[e] # {}]
  <2>1. Open[e] # {} <=> endpoints[e].active_probes # 0
    BY NoProbeNoHolder DEF Open, ProbeInv
  <2>2. endpoints[e].active_probes \in Nat /\ endpoints'[e].active_probes > 0
    BY <1>1, <1>2 DEF H2cEndpointState
  <2>3. (/\ endpoints'[e].active_probes > 0
         /\ endpoints'[e].generation = endpoints'[e].active_generation)
        <=> (Settled[e] /\ Open[e] # {})
    <3>0. Settled[e] <=> (/\ endpoints[e].active_probes > 0
                          /\ endpoints[e].generation = endpoints[e].active_generation)
      BY DEF Settled
    <3>1. CASE endpoints[e].active_probes > 0
      BY <1>1, <2>1, <2>2, <3>0, <3>1
    <3>2. CASE endpoints[e].active_probes = 0
      BY <1>1, <1>2, <2>1, <2>2, <3>0, <3>2 DEF H2cEndpointState
    <3> QED BY <1>2, <3>1, <3>2 DEF H2cEndpointState
  <2>4. Settled' = [Settled EXCEPT ![e] =
                (/\ endpoints'[e].active_probes > 0
                 /\ endpoints'[e].generation = endpoints'[e].active_generation)]
    BY <1>1, <1>2, <1>5, MappedStep
  <2> QED BY <2>3, <2>4
<1>12. \E young \in BOOLEAN : (Fresh[e] => young) /\ Fresh' = [Fresh EXCEPT ![e] = young]
  <2>1. endpoints'[e].fresh \in BOOLEAN
    BY <1>1 DEF H2cEndpointState
  <2>2. Fresh' = [Fresh EXCEPT ![e] = endpoints'[e].fresh]
    BY <1>1, <1>2, <1>5, MappedStep
  <2>3. Fresh[e] => endpoints'[e].fresh
    BY <1>1, Mapped
  <2> QED BY <2>1, <2>2, <2>3
<1> QED
  BY <1>4, <1>7, <1>8, <1>9, <1>10, <1>11, <1>12 DEF Evidence!Join, Open, Skips

\* What a step of holder p at e comes to in the mapped state.
HolderStep(p, e, leaves) ==
    /\ p \in Open[e]
    /\ Open' = [Open EXCEPT ![e] = IF leaves THEN @ \ {p} ELSE @]
    /\ Skips' = Skips
    /\ Open'[e] # {} <=> endpoints'[e].active_probes > 0
    /\ Known' = [Known EXCEPT ![e] = Seen(endpoints'[e])]
    /\ Fresh' = [Fresh EXCEPT ![e] = endpoints'[e].fresh]
    /\ Settled' = [Settled EXCEPT ![e] =
            (/\ endpoints'[e].active_probes > 0
             /\ endpoints'[e].generation = endpoints'[e].active_generation)]

\* Holders and counts after a step of one holder, which leaves or stays.
LEMMA HolderStepMapped ==
  ASSUME ProbeInv, ProbeInv', NEW p \in Probers, NEW e \in Endpoints, tokens[p].key = e,
         tokens[p].stage \in {"probing", "fallback"},
         NEW leaves \in BOOLEAN, NEW t, t.key = (IF leaves THEN NoEndpoint ELSE e),
         t.stage # "h1", tokens' = [tokens EXCEPT ![p] = t],
         \A f \in Endpoints \ {e} : endpoints'[f] = endpoints[f]
  PROVE  HolderStep(p, e, leaves)
<1>1. /\ tokens \in [Probers -> H2cProbeToken]
      /\ endpoints \in [Endpoints -> H2cEndpointState]
      /\ endpoints'[e].active_probes \in Nat
  BY DEF ProbeInv, ProbeTypeOK, H2cEndpointState
<1>2. Holding(e)' = IF leaves THEN Holding(e) \ {p} ELSE Holding(e)
  BY <1>1, H2cProbeAssumption DEF Holding
<1>3. \A f \in Endpoints \ {e} : Holding(f)' = Holding(f)
  BY <1>1, H2cProbeAssumption DEF Holding
<1>4. Skips' = Skips /\ p \in Holding(e)
  BY <1>1 DEF Skips, Holding
<1>5. endpoints'[e].active_probes = 0 <=> Holding(e)' = {}
  <2>1. /\ IsFiniteSet(Holding(e)') /\ endpoints'[e].active_probes = Cardinality(Holding(e)')
    <3>1. Holding(e)' \in SUBSET Probers
      BY DEF Holding
    <3>2. IsFiniteSet(Holding(e)')
      BY <3>1, FS_Subset, H2cProbeAssumption
    <3> QED BY <3>2 DEF ProbeInv, ProbesCounted
  <2> QED BY <2>1, FS_EmptySet
<1>6. \A f \in Endpoints \ {e} : Swept(endpoints[f], endpoints'[f])
  BY DEF Swept
<1>7. /\ Known' = [Known EXCEPT ![e] = Seen(endpoints'[e])]
      /\ Fresh' = [Fresh EXCEPT ![e] = endpoints'[e].fresh]
      /\ Open' = [Open EXCEPT ![e] = Holding(e)']
      /\ Settled' = [Settled EXCEPT ![e] =
                (/\ endpoints'[e].active_probes > 0
                 /\ endpoints'[e].generation = endpoints'[e].active_generation)]
  BY <1>1, <1>3, <1>6, MappedStep
<1>8. Open[e] = Holding(e) /\ Open'[e] = Holding(e)'
  BY DEF Open
<1> QED BY <1>1, <1>2, <1>4, <1>5, <1>7, <1>8 DEF HolderStep

\* A report of a holder is Report: unexpired HTTP/2 evidence of the round yields
\* to nothing but itself.
LEMMA ReportRefines ==
  ASSUME ProbeInv, ProbeInv', NEW p \in Probers, NEW e \in Endpoints, tokens[p].key = e,
         tokens[p].stage \in {"probing", "fallback"},
         NEW seen \in Capability, NEW leaves \in BOOLEAN,
         NEW t, t.key = (IF leaves THEN NoEndpoint ELSE e), t.stage # "h1",
         tokens' = [tokens EXCEPT ![p] = t],
         \A f \in Endpoints \ {e} : endpoints'[f] = endpoints[f],
         endpoints'[e].generation = endpoints'[e].active_generation, endpoints'[e].fresh,
         Seen(endpoints'[e]) =
               IF /\ endpoints[e].generation = endpoints[e].active_generation
                  /\ Seen(endpoints[e]) = "h2c" /\ seen # "h2c"
               THEN Seen(endpoints[e]) ELSE seen
  PROVE  Evidence!Report(p, e, seen, leaves)
<1>1. HolderStep(p, e, leaves)
  BY HolderStepMapped
<1>2. /\ endpoints[e].active_probes >= 1 /\ endpoints[e].active_probes \in Nat
      /\ endpoints[e].generation <= endpoints[e].active_generation
  BY HolderFacts DEF H2cEndpointState
<1>3. Settled[e] <=> endpoints[e].generation = endpoints[e].active_generation
  BY <1>2 DEF Settled
<1>4. Known[e] = Seen(endpoints[e])
  BY Mapped
<1>5. Settled' = [Settled EXCEPT ![e] = Open'[e] # {}]
  BY <1>1 DEF HolderStep
<1>6. \/ /\ Settled[e] /\ Known[e] = "h2c" /\ seen # "h2c"
         /\ Known' = Known
      \/ /\ ~(Settled[e] /\ Known[e] = "h2c" /\ seen # "h2c")
         /\ Known' = [Known EXCEPT ![e] = seen]
  <2>1. CASE Settled[e] /\ Known[e] = "h2c" /\ seen # "h2c"
    <3>1. Seen(endpoints'[e]) = Known[e]
      BY <1>3, <1>4, <2>1
    <3>2. [Known EXCEPT ![e] = Known[e]] = Known
      BY DEF Known
    <3> QED BY <1>1, <2>1, <3>1, <3>2 DEF HolderStep
  <2>2. CASE ~(Settled[e] /\ Known[e] = "h2c" /\ seen # "h2c")
    <3>1. Seen(endpoints'[e]) = seen
      BY <1>3, <1>4, <2>2
    <3> QED BY <1>1, <2>2, <3>1 DEF HolderStep
  <2> QED BY <2>1, <2>2
<1>7. Fresh' = [Fresh EXCEPT ![e] = TRUE]
  <2>1. endpoints'[e].fresh \in BOOLEAN
    BY DEF ProbeInv, ProbeTypeOK, H2cEndpointState
  <2>2. endpoints'[e].fresh = TRUE
    BY <2>1
  <2> QED BY <1>1, <2>2 DEF HolderStep
<1> QED
  BY <1>1, <1>5, <1>6, <1>7 DEF HolderStep, Evidence!Report, Open, Skips

\* Dropping a token is Leave.
LEMMA DropRefines ==
  ASSUME ProbeInv, NEW p \in Probers, NEW e \in Endpoints, tokens[p].key = e, drop_token(p)
  PROVE  Evidence!Leave(p, e)
<1>1. /\ ProbeInv'
      /\ tokens' = [tokens EXCEPT ![p] = NoToken]
      /\ \A f \in Endpoints \ {e} : endpoints'[f] = endpoints[f]
      /\ endpoints'[e].generation = endpoints[e].generation
      /\ endpoints'[e].active_generation = endpoints[e].active_generation
      /\ endpoints'[e].fresh = endpoints[e].fresh
      /\ Seen(endpoints'[e]) = Seen(endpoints[e])
  BY DropFacts
<1>2. tokens[p].stage \in {"probing", "fallback"}
  BY DEF drop_token
<1>3. NoToken.key = (IF TRUE THEN NoEndpoint ELSE e) /\ NoToken.stage # "h1"
  BY DEF NoToken
<1>4. HolderStep(p, e, TRUE)
  <2>1. TRUE \in BOOLEAN
    OBVIOUS
  <2> HIDE DEF NoToken
  <2> QED BY <1>1, <1>2, <1>3, <2>1, HolderStepMapped
<1>5. Known' = Known
  <2>1. Seen(endpoints'[e]) = Known[e]
    BY <1>1, Mapped
  <2>2. [Known EXCEPT ![e] = Known[e]] = Known
    BY DEF Known
  <2> QED BY <1>4, <2>1, <2>2 DEF HolderStep
<1>6. endpoints[e].active_probes >= 1 /\ endpoints[e].active_probes \in Nat
  BY <1>2, HolderFacts DEF H2cEndpointState
<1>7. Settled[e] <=> endpoints[e].generation = endpoints[e].active_generation
  BY <1>6 DEF Settled
<1>8. Settled' = [Settled EXCEPT ![e] = @ /\ Open'[e] # {}]
  BY <1>1, <1>4, <1>7 DEF HolderStep
<1>9. Fresh' = Fresh
  <2>1. [Fresh EXCEPT ![e] = Fresh[e]] = Fresh
    BY DEF Fresh
  <2> QED BY <1>1, <1>4, <2>1, Mapped DEF HolderStep
<1> QED
  BY <1>4, <1>5, <1>8, <1>9 DEF HolderStep, Evidence!Leave, Open, Skips

\* The end of an observation's ttl is Expire, the only step that takes freshness.
LEMMA ExpireRefines ==
  ASSUME ProbeInv, NEW e \in Endpoints, ObservationExpires(e)
  PROVE  Evidence!Expire(e)
<1>1. /\ \A f \in Endpoints : Holding(f)' = Holding(f)
      /\ \A f \in Endpoints \ {e} : endpoints'[f] = endpoints[f]
      /\ endpoints'[e].active_probes = endpoints[e].active_probes
      /\ endpoints'[e].generation = endpoints[e].generation
      /\ endpoints'[e].active_generation = endpoints[e].active_generation
      /\ endpoints[e].fresh /\ endpoints'[e].fresh = FALSE
      /\ Seen(endpoints'[e]) = "none"
  BY ExpireFacts
<1>2. Open' = Open
  BY <1>1 DEF Open
<1>3. Skips' = Skips
  BY DEF Skips, ObservationExpires
<1>4. Settled' = Settled
  BY <1>1 DEF Settled
<1>5. Known' = [Known EXCEPT ![e] = "none"] /\ Fresh' = [Fresh EXCEPT ![e] = FALSE]
  <2>1. \A f \in Endpoints \ {e} : Swept(endpoints[f], endpoints'[f])
    BY <1>1 DEF Swept
  <2>2. endpoints \in [Endpoints -> H2cEndpointState]
    BY DEF ProbeInv, ProbeTypeOK
  <2> QED BY <1>1, <2>1, <2>2, MappedStep
<1>6. Fresh[e]
  BY <1>1, Mapped
<1> QED BY <1>2, <1>3, <1>4, <1>5, <1>6 DEF Evidence!Expire, Open, Skips

\* The empty cache knows nothing and nobody probes.
LEMMA InitRefines == ProbeInit => Evidence!EvidenceInit
<1> SUFFICES ASSUME ProbeInit PROVE Evidence!EvidenceInit
  OBVIOUS
<1>1. \A e \in Endpoints : Holding(e) = {}
  BY H2cProbeAssumption DEF ProbeInit, Holding, NoToken
<1>2. Skips = {}
  BY DEF ProbeInit, Skips, NoToken
<1>3. /\ Known = [e \in Endpoints |-> "none"] /\ Settled = [e \in Endpoints |-> FALSE]
      /\ Fresh = [e \in Endpoints |-> FALSE]
  BY DEF ProbeInit, Known, Fresh, Settled, Absent
<1> QED BY <1>1, <1>2, <1>3 DEF Evidence!EvidenceInit, Skips

\* Every critical section is a step of H2cEvidence.
LEMMA NextRefines ==
  ProbeInv /\ ProbeInv' /\ [ProbeNext]_probeVars
    => [Evidence!EvidenceNext]_Evidence!evidenceVars
<1> SUFFICES ASSUME ProbeInv, ProbeInv', [ProbeNext]_probeVars
             PROVE  Evidence!EvidenceNext \/ UNCHANGED Evidence!evidenceVars
  OBVIOUS
<1>1. ASSUME NEW p \in Probers, NEW e \in Endpoints, BeginUseH1(p, e) \/ begin_endpoint_probe(p, e)
      PROVE  Evidence!EvidenceNext
  <2>1. Evidence!Skip(p, e) \/ Evidence!Join(p, e)
    BY <1>1, UseH1Refines, BeginRefines
  <2> QED BY <2>1 DEF Evidence!EvidenceNext
<1>2. ASSUME NEW p \in Probers, H1Done(p) PROVE Evidence!EvidenceNext
  <2>1. Evidence!SkipDone(p)
    BY <1>2, H1DoneRefines
  <2> QED BY <2>1 DEF Evidence!EvidenceNext
<1>3. ASSUME NEW p \in Probers, tokens[p].stage \in {"probing", "fallback"},
             NEW seen \in {"h2c", "h1"}, complete_probe(p, seen)
      PROVE  Evidence!EvidenceNext
  <2>1. PICK e \in Endpoints : tokens[p].key = e
    BY <1>3, HolderFacts
  <2>2. seen \in Capability /\ seen \in Evidence!Evidence /\ TRUE \in BOOLEAN
    BY DEF Capability, Evidence!Evidence
  <2>3. /\ tokens' = [tokens EXCEPT ![p] = NoToken]
        /\ \A f \in Endpoints \ {e} : endpoints'[f] = endpoints[f]
        /\ endpoints'[e].generation = endpoints'[e].active_generation
        /\ endpoints'[e].fresh
        /\ Seen(endpoints'[e]) =
               IF /\ endpoints[e].generation = endpoints[e].active_generation
                  /\ Seen(endpoints[e]) = "h2c" /\ seen # "h2c"
               THEN Seen(endpoints[e]) ELSE seen
    BY <1>3, <2>1, <2>2, CompleteFacts
  <2>4. NoToken.key = (IF TRUE THEN NoEndpoint ELSE e) /\ NoToken.stage # "h1"
    BY DEF NoToken
  <2>5. Evidence!Report(p, e, seen, TRUE)
    BY <1>3, <2>1, <2>2, <2>3, <2>4, ReportRefines
  <2> QED BY <2>2, <2>5 DEF Evidence!EvidenceNext
<1>4. ASSUME NEW p \in Probers, reject_h2c_endpoint(p)
      PROVE  Evidence!EvidenceNext
  <2>1. tokens[p].stage = "probing"
    BY <1>4 DEF reject_h2c_endpoint
  <2>2. PICK e \in Endpoints : tokens[p].key = e
    BY <2>1, HolderFacts
  <2>3. "none" \in Capability /\ "none" \in Evidence!Evidence /\ FALSE \in BOOLEAN
    BY DEF Capability, Evidence!Evidence
  <2> DEFINE t == [tokens[p] EXCEPT !.stage = "fallback"]
  <2>4. /\ tokens' = [tokens EXCEPT ![p] = t]
        /\ \A f \in Endpoints \ {e} : endpoints'[f] = endpoints[f]
        /\ endpoints'[e].generation = endpoints'[e].active_generation
        /\ endpoints'[e].fresh
        /\ Seen(endpoints'[e]) =
               IF /\ endpoints[e].generation = endpoints[e].active_generation
                  /\ Seen(endpoints[e]) = "h2c" /\ "none" # "h2c"
               THEN Seen(endpoints[e]) ELSE "none"
    BY <1>4, <2>2, RejectFacts
  <2>5. t.key = (IF FALSE THEN NoEndpoint ELSE e) /\ t.stage # "h1"
    BY <2>2 DEF ProbeInv, ProbeTypeOK, H2cProbeToken
  <2> HIDE DEF t
  <2>6. Evidence!Report(p, e, "none", FALSE)
    BY <2>1, <2>2, <2>3, <2>4, <2>5, ReportRefines
  <2> QED BY <2>3, <2>6 DEF Evidence!EvidenceNext
<1>5. ASSUME NEW p \in Probers, drop_token(p) PROVE Evidence!EvidenceNext
  <2>1. tokens[p].stage \in {"probing", "fallback"}
    BY <1>5 DEF drop_token
  <2>2. PICK e \in Endpoints : tokens[p].key = e
    BY <2>1, HolderFacts
  <2>3. Evidence!Leave(p, e)
    BY <1>5, <2>2, DropRefines
  <2> QED BY <2>3 DEF Evidence!EvidenceNext
<1>6. ASSUME NEW e \in Endpoints, ObservationExpires(e) PROVE Evidence!EvidenceNext
  <2>1. Evidence!Expire(e)
    BY <1>6, ExpireRefines
  <2> QED BY <2>1 DEF Evidence!EvidenceNext
<1>7. ASSUME NEW p \in Probers, confirm_h2c_endpoint(p) \/ confirm_h1_endpoint(p)
      PROVE  Evidence!EvidenceNext
  BY <1>3, <1>7 DEF confirm_h2c_endpoint, confirm_h1_endpoint
<1>8. CASE UNCHANGED probeVars
  <2>1. UNCHANGED <<Known, Fresh, Settled, [e \in Endpoints |-> Holding(e)], Skips>>
    BY <1>8 DEF probeVars, Known, Fresh, Settled, Holding, Skips
  <2> QED BY <2>1 DEF Evidence!evidenceVars, Skips
<1> QED
  BY <1>1, <1>2, <1>4, <1>5, <1>6, <1>7, <1>8 DEF ProbeNext

\* The cache implements H2cEvidence: within a round of overlapping probes HTTP/2
\* evidence survives every failed attempt and HTTP/1 fall-back until its ttl runs
\* out, and nobody skips a probe beside one.
THEOREM H2cEvidenceKept == ProbeSpec => EvidenceKept
<1>1. ProbeSpec => []ProbeInv
  BY ProbeInitInv, ProbeNextInv, PTL DEF ProbeSpec
<1> QED
  BY <1>1, InitRefines, NextRefines, PTL DEF ProbeSpec, EvidenceKept, Evidence!EvidenceSpec
=============================================================================
