------------------------------- MODULE Telemetry -------------------------------
(***************************************************************************)
(* What the tools show (agent/telemetry.py) and how a call becomes a       *)
(* result or an error (agent/tools.py): the rows of a window counted per   *)
(* gateway and per issuer.  A success rate stays a pair of counts, so that *)
(* rates are compared without rounding; shares, latencies and wording are  *)
(* left out, as are the tools BaselinePolicyClient does not call.          *)
(***************************************************************************)
EXTENDS Integers, FiniteSets, Sequences

CONSTANTS
  Gateways,    \* positions in the fleet, the first is 1
  Issuers,     \* positions in ISSUERS
  MIN_SAMPLES  \* MIN_SAMPLES_FOR_SR

\* An error result; it carries no data.
ToolError == [error |-> TRUE]

IsError(result) == "error" \in DOMAIN result

\* _slice by searchsorted: ticks never decrease.  end_minute is outside.
Slice(rows, window) ==
  {n \in DOMAIN rows : window.start <= rows[n].tick /\ rows[n].tick < window.end}

Tally(rows, ns) == [n |-> Cardinality(ns), ok |-> Cardinality({n \in ns : rows[n].success})]

\* _sr: a rate, or None when there is not enough traffic to say.
Rated(tally) == tally.n >= MIN_SAMPLES

Lower(a, b) == a.ok * b.n < b.ok * a.n

\* a rate against a threshold in percent
Reaches(tally, percent) == tally.ok * 100 >= percent * tally.n

On(rows, ns, g) == {n \in ns : rows[n].gateway = g}

FleetHealth(rows, window) ==
  LET ns == Slice(rows, window)
  IN [ fleet       |-> Tally(rows, ns),
       per_gateway |-> [g \in Gateways |-> Tally(rows, On(rows, ns, g))] ]

GatewayHealth(rows, g, window) == Tally(rows, On(rows, Slice(rows, window), g))

SegmentFailures(rows, g, window) ==
  LET ns == On(rows, Slice(rows, window), g)
  IN [ overall  |-> Tally(rows, ns),
       segments |-> [j \in Issuers |-> Tally(rows, {n \in ns : rows[n].issuer = j})] ]

CompareWindows(rows, g, baseline, current) ==
  [ baseline |-> GatewayHealth(rows, g, baseline),
    current  |-> GatewayHealth(rows, g, current) ]

\* _invoke, on arguments that are what the tool asks for.
Invoke(call, rows) ==
  CASE call.name = "get_fleet_health" -> FleetHealth(rows, call.window)
    [] call.name = "segment_failures" -> SegmentFailures(rows, call.gateway, call.window)
    [] call.name = "compare_windows"  ->
         CompareWindows(rows, call.gateway, call.baseline, call.window)

\* dispatch: an empty window and a gateway that is not there are ValueErrors
\* and KeyErrors, which come back as a result.
Empty(window) == window.end <= window.start

Dispatch(call, rows) ==
  IF \/ Empty(call.window)
     \/ "baseline" \in DOMAIN call /\ Empty(call.baseline)
     \/ "gateway" \in DOMAIN call /\ call.gateway \notin Gateways
  THEN ToolError
  ELSE Invoke(call, rows)

===============================================================================
