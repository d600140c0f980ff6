----------------------------- MODULE BaselinePolicy -----------------------------
(***************************************************************************)
(* The agent without a model (agent/llm.py, BaselinePolicyClient): from    *)
(* the results it has seen so far, the next call to make or the diagnosis. *)
(* Confidence is the only number kept of it; the evidence is wording.      *)
(***************************************************************************)
EXTENDS Telemetry

CONSTANTS
  HEALTHY_SR, COLLAPSE_SR, \* in percent
  MIN_CONFIDENCE           \* of constraints.py, in percent

ASSUME PolicyAssumption ==
  /\ IsFiniteSet(Gateways) /\ Gateways = 1..Cardinality(Gateways)
  /\ IsFiniteSet(Issuers) /\ Issuers = 1..Cardinality(Issuers)
  /\ MIN_SAMPLES \in Nat \ {0}
  /\ {HEALTHY_SR, COLLAPSE_SR, MIN_CONFIDENCE} \subseteq 0..100

Nothing == 0  \* no gateway, no issuer

\* The tools whose results the transcript holds.
\* Mutant: those that did not fail.
DoneWell(seen) == {seen[n].name : n \in {k \in DOMAIN seen : ~IsError(seen[k].result)}}

Done(seen) == {seen[n].name : n \in DOMAIN seen}

ResultOf(seen, name) ==
  LET first == CHOOSE n \in DOMAIN seen :
                 seen[n].name = name /\ \A m \in 1..(n - 1) : seen[m].name # name
  IN seen[first].result

\* min(..., key = success rate): the first of the lowest.
Worst(tallies, rated) ==
  CHOOSE x \in rated :
    \A y \in rated :
      \/ Lower(tallies[x], tallies[y])
      \/ ~Lower(tallies[y], tallies[x]) /\ x <= y

\* The window before the incident's, as long and no earlier than the start.
Baseline(window) ==
  LET length == window.end - window.start
  IN [ start |-> IF window.start > length THEN window.start - length ELSE 0,
       end   |-> window.start ]

RatedOf(tallies) == {x \in DOMAIN tallies : Rated(tallies[x])}

\* _observed finds per_gateway and segments empty in an error.
PerGateway(seen) ==
  LET r == ResultOf(seen, "get_fleet_health") IN IF IsError(r) THEN <<>> ELSE r.per_gateway

Segments(seen) ==
  IF "segment_failures" \notin Done(seen) \/ IsError(ResultOf(seen, "segment_failures"))
  THEN <<>>
  ELSE ResultOf(seen, "segment_failures").segments

\* A payment of each of some issuers.
Picks(segments, others) ==
  {pick \in [others -> UNION {1..segments[j].n : j \in others}] :
     \A j \in others : pick[j] <= segments[j].n}

\* Does an issuer convert below 0.6 of the average rate of the others?  With
\* no other issuer rated the average is 1; else it is the share, of an issuer
\* and a payment of each, in which that of the issuer went through.
StandsOut(segments, low) ==
  LET others  == RatedOf(segments) \ {low}
      all     == others \X Picks(segments, others)
      typical == IF others = {} THEN [n |-> 1, ok |-> 1]
                 ELSE [ n  |-> Cardinality(all),
                        ok |-> Cardinality({p \in all : p[2][p[1]] <= segments[p[1]].ok}) ]
  IN segments[low].ok * typical.n * 10 < 6 * typical.ok * segments[low].n

Diagnosis(scope, gateway, issuer, confidence) ==
  [ scope |-> scope, gateway |-> gateway, issuer |-> issuer,
    confident |-> confidence >= MIN_CONFIDENCE ]

Call(name, window) == [name |-> name, window |-> window]

\* The fleet sweep is followed up for one gateway.
FollowUp(seen, window, g, tally) ==
  LET segments == Segments(seen)
      rated    == RatedOf(segments)
  IN CASE "compare_windows" \notin Done(seen) ->
            [name |-> "compare_windows", window |-> window, gateway |-> g,
             baseline |-> Baseline(window)]
       [] /\ "compare_windows" \in Done(seen) /\ "segment_failures" \notin Done(seen)
          /\ tally.ok * 100 > COLLAPSE_SR * tally.n ->
            [name |-> "segment_failures", window |-> window, gateway |-> g]
       [] OTHER ->
            IF rated # {} /\ StandsOut(segments, Worst(segments, rated))
            THEN Diagnosis("issuer_specific", g, Worst(segments, rated), 70)
            ELSE Diagnosis("single_gateway", g, Nothing, 65)

\* create: sweep the fleet, then compare and segment the worst gateway.
Create(seen, window) ==
  IF "get_fleet_health" \notin Done(seen) THEN Call("get_fleet_health", window)
  ELSE LET tallies == PerGateway(seen)
           rated   == RatedOf(tallies)
           healthy == {g \in rated : Reaches(tallies[g], HEALTHY_SR)}
           fleet   == ResultOf(seen, "get_fleet_health").fleet
           worst   == Worst(tallies, rated)
       IN CASE rated = {} -> Diagnosis("no_incident", Nothing, Nothing, 20)
            [] rated # {} /\ healthy = {} /\ Rated(fleet) /\ ~Reaches(fleet, HEALTHY_SR) ->
                 Diagnosis("fleet_wide", Nothing, Nothing, 60)
            [] rated # {} /\ worst \in healthy ->
                 Diagnosis("no_incident", Nothing, Nothing, 50)
            [] OTHER -> FollowUp(seen, window, worst, tallies[worst])

===============================================================================
