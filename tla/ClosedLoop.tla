------------------------------- MODULE ClosedLoop -------------------------------
(***************************************************************************)
(* The simulation that investigates and constrains itself (closed_loop.py, *)
(* run_closed_loop, as close_loop.py drives it with the baseline agent):   *)
(* payments are routed and go through or fail, the agent is woken, calls   *)
(* its tools on the rows routed so far, and its diagnosis becomes a        *)
(* constraint that the router has to honour from the next payment on.      *)
(* The other program is the open loop (simulator.py, run_once): no store,  *)
(* nobody is woken; its finished log is a case the agent is evaluated on.  *)
(***************************************************************************)
EXTENDS BaselinePolicy, Sequences

CONSTANTS
  Transactions, n_ticks,
  LOOKBACK_MINUTES,
  Ttl,           \* ttl_minutes
  detect_ticks,  \* ascending
  Canary,        \* the rolls canary_rate allows
  Weighted,      \* the gateways a static router may use
  CaseWindow     \* the window an EvalCase asks about

ASSUME LoopAssumption ==
  /\ {Transactions, n_ticks, LOOKBACK_MINUTES} \subseteq Nat \ {0}
  /\ Ttl \in Nat
  /\ CaseWindow \in [start : Nat, end : Nat]
  /\ Weighted \subseteq Gateways /\ Weighted # {}
  /\ Canary \subseteq BOOLEAN
  /\ detect_ticks \in Seq(Nat)
  /\ \A m, n \in DOMAIN detect_ticks : m <= n => detect_ticks[m] <= detect_ticks[n]

VARIABLES
  program,      \* "closed" or "open"
  rows,         \* chosen, success, ticks and issuers up to i
  pending,      \* detection points still to come
  constraints,  \* the store's
  asking,       \* the investigation under way: its window and what it has seen
  findings      \* what the investigations concluded, oldest first

vars == <<program, rows, pending, constraints, asking, findings>>

Nobody == [window |-> <<>>, seen |-> <<>>]

Router == INSTANCE Routers

\* The store of agent/constraints.py; issuers are spelled as they are.
Store ==
  INSTANCE ConstraintStore WITH
    Spellings <- Issuers, Canonical <- [j \in Issuers |-> j], Absent <- Nothing,
    Diagnoses <- {}, MaxTick <- n_ticks, MaxInvestigations <- Len(detect_ticks),
    tick <- 0, answer <- Nothing

Init ==
  /\ rows = <<>>
  /\ program \in {"closed", "open"}
  /\ pending = IF program = "closed" THEN detect_ticks ELSE <<>>
  /\ constraints = <<>>
  /\ asking = Nobody
  /\ findings = <<>>

\* ticks[i], for the transaction that is next
TickOf(n) == (n * n_ticks) \div Transactions

t == TickOf(Len(rows))

Investigating == asking # Nobody

\* The clock has passed a detection point, and there is something to look at.
Due == pending # <<>> /\ t >= Head(pending) /\ Len(rows) > 0

\* Mutant: the window reaches back to the start.
WindowFromStart(detect_at) == [start |-> 0, end |-> detect_at]

Window(detect_at) ==
  [ start |-> IF detect_at > LOOKBACK_MINUTES THEN detect_at - LOOKBACK_MINUTES ELSE 0,
    end   |-> detect_at ]

Wake ==
  /\ ~Investigating /\ Len(rows) < Transactions /\ Due
  /\ pending' = Tail(pending)
  /\ asking' = [window |-> Window(Head(pending)), seen |-> <<>>]
  /\ UNCHANGED <<program, rows, constraints, findings>>

\* Each case of the evaluation is investigated once its log is complete.
OpenCase ==
  /\ program = "open" /\ ~Investigating /\ Len(rows) = Transactions
  /\ findings = <<>>
  /\ asking' = [window |-> CaseWindow, seen |-> <<>>]
  /\ UNCHANGED <<program, rows, pending, constraints, findings>>

Response == Create(asking.seen, asking.window)

IsCall(response) == "name" \in DOMAIN response

\* A turn of the loop: the call is dispatched on the rows routed so far.
Ask ==
  /\ Investigating /\ IsCall(Response)
  /\ asking' = [asking EXCEPT !.seen =
       Append(@, [name |-> Response.name, result |-> Dispatch(Response, rows)])]
  /\ UNCHANGED <<program, rows, pending, constraints, findings>>

\* The diagnosis becomes a constraint, or from_diagnosis declines; that of a
\* case is graded and nothing else.
Conclude ==
  /\ Investigating /\ ~IsCall(Response)
  /\ findings' = Append(findings, [diagnosis |-> Response, window |-> asking.window])
  /\ constraints' =
       IF program = "closed" /\ Store!Accepts(Response)
       THEN Append(constraints, Store!FromDiagnosis(Response, asking.window.end))
       ELSE constraints
  /\ asking' = Nobody
  /\ UNCHANGED <<program, rows, pending>>

\* draws[i] < sr[g, t, issuer], a rate clipped to 0.001..0.999: incident or not,
\* any payment may go through and any may fail.
Outcomes == BOOLEAN

\* ConstrainedRouter: the strategy selects from what the store leaves.
Selectable(governing, released) == Router!Select(Store!Blocked(governing \ released))

Row(issuer, g, success, canary) ==
  [tick |-> t, issuer |-> issuer, gateway |-> g, success |-> success, canary |-> canary]

Route ==
  /\ program = "closed" /\ ~Investigating /\ Len(rows) < Transactions /\ ~Due
  /\ \E issuer \in Issuers :
       LET governing == Store!Governing(issuer, t)
       IN \E released \in Store!Rolls(governing) :
            \E g \in Selectable(governing, released) :
              \E success \in Outcomes :
                rows' = Append(rows, Row(issuer, g, success,
                                         {constraints[n].gateway : n \in released}))
  /\ UNCHANGED <<program, pending, constraints, asking, findings>>

\* run_once: the strategy alone.
RouteOpen ==
  /\ program = "open" /\ Len(rows) < Transactions
  /\ \E issuer \in Issuers, g \in Router!Select({}) :
       \E success \in Outcomes :
         rows' = Append(rows, Row(issuer, g, success, {}))
  /\ UNCHANGED <<program, pending, constraints, asking, findings>>

Next == Wake \/ OpenCase \/ Ask \/ Conclude \/ Route \/ RouteOpen

Spec == Init /\ [][Next]_vars

-------------------------------------------------------------------------------
\* The minutes an alert is about.
InWindow(f) ==
  IF program = "open" THEN CaseWindow.start .. (CaseWindow.end - 1)
  ELSE (f.window.end - LOOKBACK_MINUTES) .. (f.window.end - 1)

\* Rows of a gateway that an investigation could look at.
Looked(f, g) ==
  {n \in DOMAIN rows : rows[n].gateway = g /\ rows[n].tick \in InWindow(f)}

Converted(f) == [g \in Gateways |-> Tally(rows, Looked(f, g))]

ConvertedFor(f, g) ==
  [j \in Issuers |-> Tally(rows, {n \in Looked(f, g) : rows[n].issuer = j})]

\* Those with traffic enough, none of which converts worse.
Lowest(tallies) ==
  {x \in RatedOf(tallies) : \A y \in RatedOf(tallies) : ~Lower(tallies[y], tallies[x])}

\* A diagnosis fits the payments of each gateway, and of each issuer on the one
\* it names: it blames the gateway that converts worst, and is not healthy; an
\* issuer only where the gateway has not collapsed and the issuer converts worst
\* on it, at less than 0.6; all gateways, or none, only if all with traffic
\* enough are below, or reach, what is healthy.
Fits(d, tallies, issuers) ==
  /\ d.scope = "no_incident" => \A g \in RatedOf(tallies) : Reaches(tallies[g], HEALTHY_SR)
  /\ d.scope = "fleet_wide" => \A g \in RatedOf(tallies) : ~Reaches(tallies[g], HEALTHY_SR)
  /\ d.scope \in {"single_gateway", "issuer_specific"} =>
       d.gateway \in Lowest(tallies) /\ ~Reaches(tallies[d.gateway], HEALTHY_SR)
  /\ d.scope = "issuer_specific" =>
       /\ tallies[d.gateway].ok * 100 > COLLAPSE_SR * tallies[d.gateway].n
       /\ d.issuer \in Lowest(issuers)
       /\ issuers[d.issuer].ok * 10 < 6 * issuers[d.issuer].n

\* Every investigation comes to a diagnosis in three calls, none made twice, and
\* the diagnosis fits the payments of the minutes its alert is about, those of
\* which the log has them all: whatever is routed later, whatever an earlier
\* finding has kept off a gateway, and whatever older minutes were like ("a long
\* window dilutes it", closed_loop.py).  It need not be right of the fleet.
DiagnosesFitWindow ==
  /\ Len(asking.seen) <= 3
  /\ \A m, n \in DOMAIN asking.seen : m # n => asking.seen[m].name # asking.seen[n].name
  /\ \A k \in DOMAIN findings :
       LET f == findings[k]  d == f.diagnosis
       IN Fits(d, Converted(f), ConvertedFor(f, d.gateway))

\* A finding that a constraint was made of is in force for every transaction
\* routed from then on until it expires, whichever strategy routes it: it takes
\* the gateway only as a canary, or where every gateway is to be avoided, or
\* every one its strategy uses.
BlocksHonoured ==
  \A n \in DOMAIN rows :
    LET row     == rows[n]
        avoid   == {constraints[k].gateway : k \in Store!Governing(row.issuer, row.tick)}
    IN row.gateway \in avoid =>
         \/ row.gateway \in row.canary
         \/ avoid = Gateways
         \/ Weighted \subseteq avoid /\ row.gateway \in Weighted

===============================================================================
