--------------------------- MODULE ClosedLoop_proofs ---------------------------
(***************************************************************************)
(* What the closed loop guarantees for any fleet, whichever payments fail, *)
(* with any detection points and any strategy.                             *)
(*                                                                         *)
(* The inductive invariant LoopInv says that the agent has asked the calls *)
(* of its script and got what the rows say (AskingInv), and that a window  *)
(* is past once it is asked about (PastInv), so that no payment changes    *)
(* what was found and no constraint governs a payment routed before it.    *)
(* That a diagnosis fits the rows is arithmetic on rates: some rate is the *)
(* lowest, and below a share of an average of rates is below that share.   *)
(***************************************************************************)
EXTENDS ClosedLoop, FiniteSetTheorems, SequenceTheorems, WellFoundedInduction, TLAPS

-------------------------------------------------------------------------------
(* Rates, compared without dividing                                          *)

\* Both sides of an inequality may be multiplied by, or divided by, a count.
LEMMA Scaling ==
  ASSUME NEW a \in Nat, NEW b \in Nat, NEW m \in Nat, m > 0
  PROVE  /\ a < b <=> a * m < b * m
         /\ a <= b <=> a * m <= b * m
<1>1. a < b => a * m < b * m
  BY SMT
<1>2. a <= b => a * m <= b * m
  BY SMT
<1>3. b < a => b * m < a * m
  BY SMT
<1>4. a * m \in Nat /\ b * m \in Nat
  BY SMT
<1> QED BY <1>1, <1>2, <1>3, <1>4, SMT

\* a/k <= b/l and b/l <= c/m give a/k <= c/m, strictly if either is strict.
LEMMA CrossMultiplied ==
  ASSUME NEW a \in Nat, NEW b \in Nat, NEW c \in Nat,
         NEW k \in Nat, NEW l \in Nat, NEW m \in Nat,
         k > 0, l > 0, m > 0,
         a * l <= b * k, b * m <= c * l
  PROVE  /\ a * m <= c * k
         /\ a * l < b * k \/ b * m < c * l => a * m < c * k
<1> DEFINE u == a * l  v == b * k  x == b * m  y == c * l
<1>1. u \in Nat /\ v \in Nat /\ x \in Nat /\ y \in Nat /\ a * m \in Nat /\ c * k \in Nat
  BY SMT
<1>2. (a * m) * l = u * m /\ v * m = x * k /\ y * k = (c * k) * l
  BY SMT
<1>3. u * m <= v * m /\ x * k <= y * k
  BY <1>1, Scaling
<1>4. u < v => u * m < v * m
  BY <1>1, Scaling
<1>5. x < y => x * k < y * k
  BY <1>1, Scaling
<1>6. u * m \in Nat /\ v * m \in Nat /\ y * k \in Nat
  BY <1>1, SMT
<1>7. (a * m) * l <= (c * k) * l
  BY <1>2, <1>3, <1>6
<1>8. u < v \/ x < y => (a * m) * l < (c * k) * l
  BY <1>2, <1>3, <1>4, <1>5, <1>6
<1> HIDE DEF u, v, x, y
<1>9. a * m <= c * k
  BY <1>1, <1>7, Scaling
<1>10. u < v \/ x < y => a * m < c * k
  BY <1>1, <1>8, Scaling
<1> QED BY <1>9, <1>10 DEF u, v, x, y

\* Tallies with traffic.
Tallies == [n : Nat \ {0}, ok : Nat]

\* x is to be chosen before y: its rate is lower, or as low and x comes first.
Before(tallies, x, y) ==
  \/ Lower(tallies[x], tallies[y])
  \/ ~Lower(tallies[y], tallies[x]) /\ x < y

\* It is a strict order, and y is before x unless Worst would take x.
LEMMA BeforeIsAnOrder ==
  ASSUME NEW S \in SUBSET Nat, NEW tallies, \A x \in S : tallies[x] \in Tallies,
         NEW x \in S, NEW y \in S, NEW z \in S
  PROVE  /\ ~Before(tallies, x, x)
         /\ Before(tallies, x, y) /\ Before(tallies, y, z) => Before(tallies, x, z)
         /\ \/ Before(tallies, y, x)
            \/ Lower(tallies[x], tallies[y])
            \/ ~Lower(tallies[y], tallies[x]) /\ x <= y
<1> DEFINE a == tallies[x].ok  k == tallies[x].n
           b == tallies[y].ok  l == tallies[y].n
           c == tallies[z].ok  m == tallies[z].n
<1>0. x \in Nat /\ y \in Nat /\ z \in Nat
  OBVIOUS
<1>1. a \in Nat /\ b \in Nat /\ c \in Nat /\ k \in Nat /\ l \in Nat /\ m \in Nat
      /\ k > 0 /\ l > 0 /\ m > 0
  BY DEF Tallies
<1>2. a * l \in Nat /\ b * k \in Nat /\ b * m \in Nat /\ c * l \in Nat /\ a * m \in Nat /\ c * k \in Nat
      /\ a * k \in Nat
  BY <1>1, SMT
<1>3. /\ Lower(tallies[x], tallies[x]) <=> a * k < a * k
      /\ Lower(tallies[x], tallies[y]) <=> a * l < b * k
      /\ Lower(tallies[y], tallies[x]) <=> b * k < a * l
      /\ Lower(tallies[y], tallies[z]) <=> b * m < c * l
      /\ Lower(tallies[z], tallies[y]) <=> c * l < b * m
      /\ Lower(tallies[x], tallies[z]) <=> a * m < c * k
      /\ Lower(tallies[z], tallies[x]) <=> c * k < a * m
  BY DEF Lower
<1> HIDE DEF a, b, c, k, l, m
<1>4. ~Before(tallies, x, x)
  BY <1>0, <1>2, <1>3 DEF Before
<1>5. \/ Before(tallies, y, x)
      \/ Lower(tallies[x], tallies[y])
      \/ ~Lower(tallies[y], tallies[x]) /\ x <= y
  BY <1>0, <1>2, <1>3 DEF Before
<1>6. ASSUME Before(tallies, x, y), Before(tallies, y, z)
      PROVE  Before(tallies, x, z)
  <2>1. a * l <= b * k /\ b * m <= c * l
    BY <1>2, <1>3, <1>6 DEF Before
  <2>2. /\ a * m <= c * k
        /\ a * l < b * k \/ b * m < c * l => a * m < c * k
    BY <1>1, <2>1, CrossMultiplied
  <2>3. ~(c * k < a * m)
    BY <2>2, <1>2
  <2>4. (a * l < b * k \/ b * m < c * l) \/ x < z
    BY <1>0, <1>3, <1>6 DEF Before
  <2> QED BY <1>3, <2>2, <2>3, <2>4 DEF Before
<1> QED BY <1>4, <1>5, <1>6

\* Some rate is the lowest, that of which the fewest are chosen before it, and
\* Worst chooses such a one.
LEMMA WorstIsRated ==
  ASSUME NEW S \in SUBSET Nat, IsFiniteSet(S), S # {},
         NEW tallies, \A x \in S : tallies[x] \in Tallies
  PROVE  /\ Worst(tallies, S) \in S
         /\ \A y \in S : ~Lower(tallies[y], tallies[Worst(tallies, S)])
<1> DEFINE Better(x) == {y \in S : Before(tallies, y, x)}
           Counts == {Cardinality(Better(x)) : x \in S}
<1>1. ASSUME NEW x \in S
      PROVE  IsFiniteSet(Better(x)) /\ Cardinality(Better(x)) \in Nat
  <2>1. Better(x) \in SUBSET S
    OBVIOUS
  <2> QED BY <2>1, FS_Subset, FS_CardinalityType
<1>2. Counts \subseteq Nat /\ Counts # {}
  BY <1>1
<1>3. \E c \in Counts : \A d \in Counts : ~(d < c)
  <2> DEFINE R == OpToRel(<, Nat)
  <2>1. \A c, d \in Nat : d < c => <<d, c>> \in R
    BY DEF OpToRel
  <2>2. IsWellFoundedOn(R, Nat)
    BY NatLessThanWellFounded
  <2> HIDE DEF R, Counts
  <2>3. \E c \in Counts : \A d \in Counts : ~(<<d, c>> \in R)
    BY <1>2, <2>2, WFMin
  <2> QED BY <1>2, <2>1, <2>3
<1>4. PICK x \in S : \A y \in S : ~(Cardinality(Better(y)) < Cardinality(Better(x)))
  BY <1>3
<1>5. ASSUME NEW y \in S, Before(tallies, y, x)
      PROVE  FALSE
  <2>1. Better(y) \subseteq Better(x) /\ y \in Better(x) /\ y \notin Better(y)
    BY <1>5, BeforeIsAnOrder
  <2>2. Better(y) \in SUBSET Better(x) /\ Better(y) # Better(x)
    BY <2>1
  <2> HIDE DEF Better
  <2>3. /\ Cardinality(Better(y)) <= Cardinality(Better(x))
        /\ Cardinality(Better(x)) # Cardinality(Better(y))
    BY <1>1, <2>2, FS_Subset
  <2> QED BY <1>1, <1>4, <2>3
<1>6. \A y \in S : \/ Lower(tallies[x], tallies[y])
                   \/ ~Lower(tallies[y], tallies[x]) /\ x <= y
  BY <1>5, BeforeIsAnOrder
<1> DEFINE First(z) == \A y \in S : \/ Lower(tallies[z], tallies[y])
                                    \/ ~Lower(tallies[y], tallies[z]) /\ z <= y
           w == Worst(tallies, S)
<1>7. w = CHOOSE z \in S : First(z)
  BY DEF Worst
<1>8. First(x)
  BY <1>6
<1> HIDE DEF w, First
<1>9. w \in S /\ First(w)
  BY <1>7, <1>8
<1>10. ASSUME NEW y \in S, Lower(tallies[y], tallies[w])
       PROVE  FALSE
  <2>1. Lower(tallies[w], tallies[y])
    BY <1>9, <1>10 DEF First
  <2>2. /\ tallies[w].ok \in Nat /\ tallies[w].n \in Nat
        /\ tallies[y].ok \in Nat /\ tallies[y].n \in Nat
    BY <1>9 DEF Tallies
  <2>3. tallies[w].ok * tallies[y].n \in Nat /\ tallies[y].ok * tallies[w].n \in Nat
    BY <2>2, SMT
  <2> QED BY <1>10, <2>1, <2>3 DEF Lower
<1> QED BY <1>9, <1>10 DEF w

-------------------------------------------------------------------------------
(* What can be read from a tally                                             *)

Rates == {y \in [n : Nat, ok : Nat] : y.ok <= y.n}

\* A tally counts payments.
LEMMA TallyCounts ==
  ASSUME NEW rs, NEW ns, IsFiniteSet(ns)
  PROVE  Tally(rs, ns) \in Rates
<1> DEFINE through == {k \in ns : rs[k].success}
<1>1. through \in SUBSET ns
  OBVIOUS
<1>2. /\ Cardinality(ns) \in Nat /\ Cardinality(through) \in Nat
      /\ Cardinality(through) <= Cardinality(ns)
  BY <1>1, FS_Subset, FS_CardinalityType
<1>3. Tally(rs, ns) = [n |-> Cardinality(ns), ok |-> Cardinality(through)]
  BY DEF Tally
<1> HIDE DEF through
<1> QED BY <1>2, <1>3 DEF Rates

\* What reaches a threshold is not below it, nor is what is not lower.
LEMMA NotLowerReaches ==
  ASSUME NEW y \in Tallies, NEW z \in Tallies, NEW percent \in Nat,
         Reaches(y, percent), ~Lower(z, y)
  PROVE  Reaches(z, percent)
<1>1. y.ok \in Nat /\ y.n \in Nat /\ y.n > 0 /\ z.ok \in Nat /\ z.n \in Nat /\ z.n > 0
  BY DEF Tallies
<1>2. /\ y.ok * 100 \in Nat /\ percent * y.n \in Nat /\ y.ok * z.n \in Nat /\ z.ok * y.n \in Nat
      /\ percent * z.n \in Nat /\ z.ok * 100 \in Nat
  BY <1>1, SMT
<1>3. percent * y.n <= y.ok * 100 /\ y.ok * z.n <= z.ok * y.n
  BY <1>2 DEF Reaches, Lower
<1>4. percent * z.n <= z.ok * 100
  BY <1>1, <1>3, CrossMultiplied
<1> QED BY <1>2, <1>4 DEF Reaches

\* There are finitely many ways to pick a payment of each of some issuers.
LEMMA PicksAreFinite ==
  ASSUME NEW segments, NEW others, IsFiniteSet(others),
         \A j \in others : segments[j] \in Rates
  PROVE  IsFiniteSet(Picks(segments, others))
<1> DEFINE ranges == {1..segments[j].n : j \in others}
           U      == UNION ranges
           graphs == SUBSET (others \X U)
           graph  == [pick \in Picks(segments, others) |-> {<<j, pick[j]>> : j \in others}]
<1>1. IsFiniteSet(ranges)
  <2> DEFINE f == [j \in others |-> 1..segments[j].n]
  <2>1. f \in Surjection(others, ranges)
    BY DEF Surjection
  <2> HIDE DEF f, ranges
  <2> QED BY <2>1, FS_Surjection
<1>2. \A R \in ranges : IsFiniteSet(R)
  BY FS_Interval DEF Rates
<1>3. IsFiniteSet(U)
  <2> HIDE DEF ranges
  <2> QED BY <1>1, <1>2, FS_UNION
<1>4. IsFiniteSet(graphs)
  <2> HIDE DEF U
  <2>1. IsFiniteSet(others \X U)
    BY <1>3, FS_Product
  <2> QED BY <2>1, FS_SUBSET
<1>5. \A pick \in Picks(segments, others) : pick \in [others -> U]
  BY DEF Picks
<1> HIDE DEF U
<1>6. graph \in [Picks(segments, others) -> graphs]
  <2>1. ASSUME NEW pick \in Picks(segments, others)
        PROVE  {<<j, pick[j]>> : j \in others} \in graphs
    <3>1. pick \in [others -> U]
      BY <1>5
    <3> QED BY <3>1
  <2> QED BY <2>1
<1>7. ASSUME NEW a \in Picks(segments, others), NEW b \in Picks(segments, others),
             graph[a] = graph[b]
      PROVE  a = b
  <2>1. a \in [others -> U] /\ b \in [others -> U]
    BY <1>5
  <2>2. {<<j, a[j]>> : j \in others} = {<<j, b[j]>> : j \in others}
    BY <1>7
  <2>3. ASSUME NEW j \in others
        PROVE  a[j] = b[j]
    <3>1. <<j, a[j]>> \in {<<k, b[k]>> : k \in others}
      BY <2>2, Zenon
    <3>2. PICK k \in others : <<j, a[j]>> = <<k, b[k]>>
      BY <3>1
    <3> QED BY <3>2
  <2> QED BY <2>1, <2>3
<1>8. graph \in Injection(Picks(segments, others), graphs)
  <2> HIDE DEF graph, graphs
  <2> QED BY <1>6, <1>7 DEF Injection, IsInjective
<1> HIDE DEF graph, graphs
<1> QED BY <1>4, <1>8, FS_Injection

\* An issuer that converts below 0.6 of the others' rate, which is at most one,
\* converts below 0.6.
LEMMA StandingOutIsLow ==
  ASSUME NEW segments, IsFiniteSet(DOMAIN segments),
         \A j \in DOMAIN segments : segments[j] \in Rates,
         NEW low \in DOMAIN segments, StandsOut(segments, low)
  PROVE  segments[low].ok * 10 < 6 * segments[low].n
<1> DEFINE others  == RatedOf(segments) \ {low}
           all     == others \X Picks(segments, others)
           through == {p \in all : p[2][p[1]] <= segments[p[1]].ok}
           typical == IF others = {} THEN [n |-> 1, ok |-> 1]
                      ELSE [n |-> Cardinality(all), ok |-> Cardinality(through)]
<1>1. others \in SUBSET DOMAIN segments
  BY DEF RatedOf
<1>2. segments[low].ok * typical.n * 10 < 6 * typical.ok * segments[low].n
  BY DEF StandsOut
<1>3. typical \in Rates
  <2>1. IsFiniteSet(others)
    BY <1>1, FS_Subset
  <2>2. IsFiniteSet(Picks(segments, others))
    <3> HIDE DEF others
    <3> QED BY <1>1, <2>1, PicksAreFinite
  <2>3. IsFiniteSet(all)
    <3> HIDE DEF others
    <3> QED BY <2>1, <2>2, FS_Product
  <2>4. through \in SUBSET all
    OBVIOUS
  <2> HIDE DEF all, through, others
  <2>5. /\ Cardinality(all) \in Nat /\ Cardinality(through) \in Nat
        /\ Cardinality(through) <= Cardinality(all)
    BY <2>3, <2>4, FS_Subset, FS_CardinalityType
  <2> QED BY <2>5 DEF Rates
<1> HIDE DEF typical
<1>4. /\ typical.n \in Nat /\ typical.ok \in Nat /\ typical.ok <= typical.n
      /\ segments[low].n \in Nat /\ segments[low].ok \in Nat
      /\ segments[low].ok <= segments[low].n
  BY <1>3 DEF Rates
<1> DEFINE tn == typical.n  tok == typical.ok  n == segments[low].n  ok == segments[low].ok
<1> HIDE DEF tn, tok, n, ok
<1>5. ok * tn * 10 < 6 * tok * n /\ tok <= tn /\ tn \in Nat /\ tok \in Nat /\ n \in Nat /\ ok \in Nat
  BY <1>2, <1>4 DEF tn, tok, n, ok
<1>6. /\ ok * tn * 10 = (ok * 10) * tn /\ 6 * tok * n = tok * (6 * n)
      /\ ok * 10 \in Nat /\ 6 * n \in Nat
  BY <1>5, SMT
<1>7. tok * (6 * n) <= tn * (6 * n) /\ tn * (6 * n) = (6 * n) * tn
  BY <1>5, <1>6, SMT
<1>8. (ok * 10) * tn < (6 * n) * tn
  <2>1. /\ (ok * 10) * tn \in Nat /\ tok * (6 * n) \in Nat /\ (6 * n) * tn \in Nat
    BY <1>5, <1>6, SMT
  <2> QED BY <1>5, <1>6, <1>7, <2>1
<1>9. ~(6 * n <= ok * 10)
  <2>1. 6 * n <= ok * 10 => (6 * n) * tn <= (ok * 10) * tn
    BY <1>5, <1>6, SMT
  <2>2. (ok * 10) * tn \in Nat /\ (6 * n) * tn \in Nat
    BY <1>5, <1>6, SMT
  <2> QED BY <1>8, <2>1, <2>2
<1>10. ok * 10 < 6 * n
  BY <1>6, <1>9
<1> QED BY <1>10 DEF n, ok

-------------------------------------------------------------------------------
(* What the agent has seen, and what it answers                              *)

RowType ==
  [tick : Nat, issuer : Issuers, gateway : Gateways, success : BOOLEAN, canary : SUBSET Gateways]

WindowType == [start : Nat, end : Nat]

\* The payments of a window by gateway, and those of a gateway by issuer.
ByGateway(window, rs) == [g \in Gateways |-> Tally(rs, On(rs, Slice(rs, window), g))]

ByIssuer(window, rs, g) ==
  [j \in Issuers |-> Tally(rs, {n \in On(rs, Slice(rs, window), g) : rs[n].issuer = j})]

\* The tallies the fleet sweep shows of a window: none of an empty one.
Health(window, rs) == IF Empty(window) THEN <<>> ELSE ByGateway(window, rs)

Suspect(window, rs) == Worst(Health(window, rs), RatedOf(Health(window, rs)))

CompareCall(window, g) ==
  [name |-> "compare_windows", window |-> window, gateway |-> g, baseline |-> Baseline(window)]

SegmentCall(window, g) == [name |-> "segment_failures", window |-> window, gateway |-> g]

Entry(call, rs) == [name |-> call.name, result |-> Dispatch(call, rs)]

Swept(window, rs) == Entry(Call("get_fleet_health", window), rs)
Compared(window, rs) == Entry(CompareCall(window, Suspect(window, rs)), rs)
Segmented(window, rs) == Entry(SegmentCall(window, Suspect(window, rs)), rs)

\* More than a few went through.
Above(tally) == tally.ok * 100 > COLLAPSE_SR * tally.n

\* The calls are made in one order, each on the rows there are; the issuers are
\* looked at unless the gateway has collapsed.
Transcript(seen, window, rs) ==
  \/ seen = <<>>
  \/ seen = <<Swept(window, rs)>>
  \/ seen = <<Swept(window, rs), Compared(window, rs)>>
  \/ /\ seen = <<Swept(window, rs), Compared(window, rs), Segmented(window, rs)>>
     /\ Above(Health(window, rs)[Suspect(window, rs)])

DiagnosisType ==
  [ scope : {"single_gateway", "issuer_specific", "fleet_wide", "no_incident"},
    gateway : Gateways \cup {Nothing}, issuer : Issuers \cup {Nothing}, confident : BOOLEAN ]

\* A diagnosis fits the payments of its window.
Sound(d, window, rs) ==
  /\ d \in DiagnosisType
  /\ d.scope \in {"single_gateway", "issuer_specific"} => d.gateway \in Gateways /\ ~Empty(window)
  /\ d.scope = "issuer_specific" => d.issuer \in Issuers
  /\ Fits(d, ByGateway(window, rs), ByIssuer(window, rs, d.gateway))

-------------------------------------------------------------------------------
(* The inductive invariant                                                   *)

Types ==
  /\ program \in {"closed", "open"}
  /\ rows \in Seq(RowType)
  /\ pending \in Seq(Nat)
  /\ constraints \in Seq(Store!Constraint)
  /\ findings \in Seq([diagnosis : DiagnosisType, window : WindowType])
  /\ \/ asking = Nobody
     \/ /\ asking.window \in WindowType
        /\ asking = [window |-> asking.window, seen |-> asking.seen]

\* Nobody is woken in the open program, and it has no store.
OpenInv == program = "open" => pending = <<>> /\ constraints = <<>>

\* Payments were routed before the detection points that are to come; at
\* minute 0 there may be none before.
PendingInv ==
  /\ \A m, n \in DOMAIN pending : m <= n => pending[m] <= pending[n]
  /\ \A m \in DOMAIN pending, n \in DOMAIN rows : pending[m] = 0 \/ rows[n].tick < pending[m]

\* A window is past once it is asked about.
Past(prog, rs, window) ==
  IF prog = "open" THEN window = CaseWindow /\ Len(rs) = Transactions
  ELSE window = Window(window.end) /\ window.end <= TickOf(Len(rs))

\* The agent has asked the calls of its script and got what the rows say.
AskingInv ==
  Investigating =>
    /\ Past(program, rows, asking.window)
    /\ Transcript(asking.seen, asking.window, rows)
    /\ program = "closed" =>
         \A n \in DOMAIN rows : asking.window.end = 0 \/ rows[n].tick < asking.window.end

PastInv == \A k \in DOMAIN findings : Past(program, rows, findings[k].window)

\* DiagnosesFitWindow, for one finding.
Span(prog, f) ==
  IF prog = "open" THEN CaseWindow.start .. (CaseWindow.end - 1)
  ELSE (f.window.end - LOOKBACK_MINUTES) .. (f.window.end - 1)

Within(prog, rs, f, g) == {n \in DOMAIN rs : rs[n].gateway = g /\ rs[n].tick \in Span(prog, f)}

WithinByGateway(prog, rs, f) == [g \in Gateways |-> Tally(rs, Within(prog, rs, f, g))]

WithinByIssuer(prog, rs, f, g) ==
  [j \in Issuers |-> Tally(rs, {n \in Within(prog, rs, f, g) : rs[n].issuer = j})]

Grounded(prog, rs, f) ==
  Fits(f.diagnosis, WithinByGateway(prog, rs, f), WithinByIssuer(prog, rs, f, f.diagnosis.gateway))

\* BlocksHonoured, for one payment.
Governors(cs, issuer, tick) ==
  {n \in DOMAIN cs : Store!Active(cs[n], tick) /\ Store!Matches(cs[n], issuer)}

Avoid(cs, row) == {cs[n].gateway : n \in Governors(cs, row.issuer, row.tick)}

Honoured(cs, row) ==
  row.gateway \in Avoid(cs, row) =>
    \/ row.gateway \in row.canary
    \/ Avoid(cs, row) = Gateways
    \/ Weighted \subseteq Avoid(cs, row) /\ row.gateway \in Weighted

LoopInv ==
  /\ Types /\ OpenInv /\ PendingInv /\ AskingInv /\ PastInv
  /\ DiagnosesFitWindow
  /\ BlocksHonoured

-------------------------------------------------------------------------------
(* Lemmas about the agent                                                    *)

\* The rows of a window and a gateway are finitely many.
LEMMA LookedIsFinite ==
  ASSUME NEW rs \in Seq(RowType), NEW window, NEW g
  PROVE  IsFiniteSet(On(rs, Slice(rs, window), g))
<1>1. IsFiniteSet(DOMAIN rs)
  <2>1. Len(rs) \in Nat /\ DOMAIN rs = 1..Len(rs)
    OBVIOUS
  <2> QED BY <2>1, FS_Interval
<1>2. On(rs, Slice(rs, window), g) \in SUBSET DOMAIN rs
  BY DEF On, Slice
<1> QED BY <1>1, <1>2, FS_Subset

\* Gateways and issuers are numbered from 1, and there are finitely many.
LEMMA ConstantTypes ==
  /\ IsFiniteSet(Gateways) /\ IsFiniteSet(Issuers)
  /\ Gateways \subseteq Nat \ {0} /\ Issuers \subseteq Nat \ {0}
  /\ MIN_SAMPLES \in Nat /\ MIN_SAMPLES > 0
<1>1. /\ IsFiniteSet(Gateways) /\ Gateways = 1..Cardinality(Gateways)
      /\ IsFiniteSet(Issuers) /\ Issuers = 1..Cardinality(Issuers)
      /\ MIN_SAMPLES \in Nat \ {0}
  BY PolicyAssumption, Zenon DEF PolicyAssumption
<1>2. Cardinality(Gateways) \in Nat /\ Cardinality(Issuers) \in Nat
  BY <1>1, FS_CardinalityType
<1>3. \A n \in Nat : 1..n \subseteq Nat \ {0}
  OBVIOUS
<1> QED BY <1>1, <1>2, <1>3

\* A rate is of some traffic.
LEMMA RatedHasTraffic ==
  ASSUME NEW y \in Rates, Rated(y)
  PROVE  y \in Tallies
<1>1. y \in [n : Nat, ok : Nat]
  BY DEF Rates
<1>2. y.n \in Nat /\ y.n # 0
  BY <1>1, ConstantTypes DEF Rated
<1> QED BY <1>1, <1>2 DEF Tallies

\* Whichever gateway has a rate, the sweep was of a window that is not empty; of
\* an empty one there are no payments.
LEMMA HealthFacts ==
  ASSUME NEW rs \in Seq(RowType), NEW window \in WindowType
  PROVE  /\ RatedOf(Health(window, rs)) \subseteq Gateways
         /\ RatedOf(Health(window, rs)) # {} => ~Empty(window)
         /\ \A g \in RatedOf(Health(window, rs)) : Health(window, rs)[g] \in Tallies
         /\ ~Empty(window) => Health(window, rs) = ByGateway(window, rs)
         /\ RatedOf(Health(window, rs)) = RatedOf(ByGateway(window, rs))
<1> DEFINE H == ByGateway(window, rs)
<1>1. DOMAIN H = Gateways /\ \A g \in Gateways : H[g] = Tally(rs, On(rs, Slice(rs, window), g))
  BY DEF ByGateway
<1> HIDE DEF H
<1>2. ASSUME NEW g \in Gateways
      PROVE  H[g] \in Rates
  BY <1>1, LookedIsFinite, TallyCounts
<1>3. RatedOf(H) \subseteq Gateways /\ \A g \in RatedOf(H) : H[g] \in Tallies
  BY <1>1, <1>2, RatedHasTraffic DEF RatedOf
<1>4. ASSUME Empty(window)
      PROVE  RatedOf(H) = {} /\ RatedOf(<<>>) = {}
  <2>1. \A k \in DOMAIN rs : rs[k].tick \in Nat
    <3>1. \A k \in DOMAIN rs : rs[k] \in RowType
      OBVIOUS
    <3>2. \A row \in RowType : row.tick \in Nat
      BY DEF RowType
    <3> QED BY <3>1, <3>2
  <2>2. window.start \in Nat /\ window.end \in Nat
    BY DEF WindowType
  <2>3. Slice(rs, window) = {}
    BY <1>4, <2>1, <2>2 DEF Slice, Empty
  <2>4. \A g \in Gateways : H[g].n = 0
    <3>1. \A g : On(rs, Slice(rs, window), g) = {}
      BY <2>3 DEF On
    <3>2. Tally(rs, {}).n = 0
      BY FS_EmptySet DEF Tally
    <3> QED BY <1>1, <3>1, <3>2
  <2>5. MIN_SAMPLES \in Nat /\ MIN_SAMPLES > 0
    BY ConstantTypes
  <2>6. RatedOf(H) = {}
    BY <1>1, <2>4, <2>5 DEF RatedOf, Rated
  <2> QED BY <2>6 DEF RatedOf
<1>5. Health(window, rs) = IF Empty(window) THEN <<>> ELSE H
  BY DEF Health, H
<1> QED BY <1>3, <1>4, <1>5 DEF H

\* What is chosen as the worst has a rate and is of the lowest.
LEMMA WorstIsLowest ==
  ASSUME NEW tallies, RatedOf(tallies) \in SUBSET Nat, IsFiniteSet(RatedOf(tallies)),
         RatedOf(tallies) # {}, \A x \in RatedOf(tallies) : tallies[x] \in Tallies
  PROVE  Worst(tallies, RatedOf(tallies)) \in Lowest(tallies)
<1> DEFINE S == RatedOf(tallies)
<1> HIDE DEF S
<1>1. Worst(tallies, S) \in S /\ \A y \in S : ~Lower(tallies[y], tallies[Worst(tallies, S)])
  BY WorstIsRated DEF S
<1> QED BY <1>1 DEF S, Lowest

\* The gateway looked into is of the lowest.
LEMMA SuspectIsLowest ==
  ASSUME NEW rs \in Seq(RowType), NEW window \in WindowType, RatedOf(Health(window, rs)) # {}
  PROVE  Suspect(window, rs) \in Lowest(Health(window, rs))
<1> DEFINE H == Health(window, rs)
<1>1. RatedOf(H) \in SUBSET Gateways /\ \A x \in RatedOf(H) : H[x] \in Tallies
  BY HealthFacts
<1>2. IsFiniteSet(RatedOf(H)) /\ RatedOf(H) \in SUBSET Nat
  BY <1>1, ConstantTypes, FS_Subset
<1> HIDE DEF H
<1>3. Worst(H, RatedOf(H)) \in Lowest(H)
  BY <1>1, <1>2, WorstIsLowest DEF H
<1> QED BY <1>3 DEF H, Suspect

\* The issuer that stands out among those of a gateway.
LEMMA SegmentFacts ==
  ASSUME NEW rs \in Seq(RowType), NEW window, NEW g,
         NEW segments, segments = SegmentFailures(rs, g, window).segments,
         RatedOf(segments) # {}, StandsOut(segments, Worst(segments, RatedOf(segments)))
  PROVE  /\ segments = ByIssuer(window, rs, g)
         /\ Worst(segments, RatedOf(segments)) \in Issuers
         /\ Worst(segments, RatedOf(segments)) \in Lowest(segments)
         /\ segments[Worst(segments, RatedOf(segments))].ok * 10
              < 6 * segments[Worst(segments, RatedOf(segments))].n
<1> DEFINE ns == On(rs, Slice(rs, window), g)
           of(j) == {k \in ns : rs[k].issuer = j}
           low == Worst(segments, RatedOf(segments))
<1>1. segments = ByIssuer(window, rs, g)
  <2>1. SegmentFailures(rs, g, window) =
          [overall |-> Tally(rs, ns), segments |-> ByIssuer(window, rs, g)]
    BY Zenon DEF SegmentFailures, ByIssuer
  <2> HIDE DEF of, ns
  <2> QED BY <2>1
<1>2. \A j : IsFiniteSet(of(j))
  <2>1. IsFiniteSet(ns)
    BY LookedIsFinite
  <2>2. \A j : of(j) \in SUBSET ns
    OBVIOUS
  <2> HIDE DEF ns, of
  <2> QED BY <2>1, <2>2, FS_Subset
<1>3. DOMAIN segments = Issuers /\ \A j \in Issuers : segments[j] = Tally(rs, of(j))
  BY <1>1 DEF ByIssuer
<1> HIDE DEF of
<1>4. \A j \in Issuers : segments[j] \in Rates
  BY <1>2, <1>3, TallyCounts
<1>5. RatedOf(segments) \in SUBSET Issuers
  BY <1>3 DEF RatedOf
<1>6. \A j \in RatedOf(segments) : segments[j] \in Tallies
  BY <1>3, <1>4, RatedHasTraffic DEF RatedOf
<1>7. IsFiniteSet(RatedOf(segments)) /\ RatedOf(segments) \in SUBSET Nat
  BY <1>5, ConstantTypes, FS_Subset
<1>8. low \in Lowest(segments)
  BY <1>6, <1>7, WorstIsLowest
<1>9. low \in Issuers
  BY <1>5, <1>8 DEF Lowest
<1> HIDE DEF low
<1>10. StandsOut(segments, low)
  BY DEF low
<1>11. segments[low].ok * 10 < 6 * segments[low].n
  BY <1>3, <1>4, <1>9, <1>10, ConstantTypes, StandingOutIsLow
<1> QED BY <1>1, <1>8, <1>9, <1>11 DEF low

\* The first result of a tool is the one that is read.
LEMMA ResultFound ==
  ASSUME NEW seen, NEW n \in Nat, DOMAIN seen = 1..n, NEW name, NEW m \in 1..n,
         seen[m].name = name, \A k \in 1..n : k < m => seen[k].name # name
  PROVE  ResultOf(seen, name) = seen[m].result
<1> DEFINE IsFirst(k) == seen[k].name = name /\ \A j \in 1..(k - 1) : seen[j].name # name
<1>1. IsFirst(m)
  OBVIOUS
<1>2. ASSUME NEW k \in 1..n, IsFirst(k)
      PROVE  k = m
  <2>1. ~(k < m)
    BY <1>2
  <2>2. ~(m < k)
    <3>1. m < k => m \in 1..(k - 1)
      OBVIOUS
    <3> QED BY <1>2, <3>1
  <2> QED BY <2>1, <2>2
<1> DEFINE first == CHOOSE k \in DOMAIN seen : IsFirst(k)
<1>3. first \in 1..n /\ IsFirst(first)
  <2>1. \E k \in DOMAIN seen : IsFirst(k)
    BY <1>1
  <2> HIDE DEF IsFirst
  <2> QED BY <2>1
<1>4. first = m
  <2> HIDE DEF first, IsFirst
  <2> QED BY <1>2, <1>3
<1>5. ResultOf(seen, name) = seen[first].result
  BY DEF ResultOf
<1> QED BY <1>4, <1>5

\* What the calls are called and how their results read.
LEMMA EntryFacts ==
  ASSUME NEW rs, NEW window
  PROVE  /\ Swept(window, rs) = [ name   |-> "get_fleet_health",
                                  result |-> IF Empty(window) THEN ToolError
                                             ELSE FleetHealth(rs, window) ]
         /\ Compared(window, rs).name = "compare_windows"
         /\ Segmented(window, rs).name = "segment_failures"
         /\ Suspect(window, rs) \in Gateways =>
              Segmented(window, rs).result =
                IF Empty(window) THEN ToolError
                ELSE SegmentFailures(rs, Suspect(window, rs), window)
<1> DEFINE g == Suspect(window, rs)
<1>1. Swept(window, rs).name = "get_fleet_health" /\ Compared(window, rs).name = "compare_windows"
      /\ Segmented(window, rs).name = "segment_failures"
  BY DEF Swept, Compared, Segmented, Entry, Call, CompareCall, SegmentCall
<1>2. Dispatch(Call("get_fleet_health", window), rs) =
        IF Empty(window) THEN ToolError ELSE FleetHealth(rs, window)
  <2> DEFINE call == [name |-> "get_fleet_health", window |-> window]
  <2>1. /\ "baseline" \notin DOMAIN call /\ "gateway" \notin DOMAIN call
        /\ call.window = window /\ call.name = "get_fleet_health"
    OBVIOUS
  <2> HIDE DEF call
  <2>2. Dispatch(call, rs) = IF Empty(window) THEN ToolError ELSE FleetHealth(rs, window)
    BY <2>1 DEF Dispatch, Invoke
  <2> QED BY <2>2 DEF call, Call
<1>3. Swept(window, rs) = [ name   |-> "get_fleet_health",
                            result |-> IF Empty(window) THEN ToolError
                                       ELSE FleetHealth(rs, window) ]
  BY <1>2, Zenon DEF Swept, Entry, Call
<1>4. ASSUME g \in Gateways
      PROVE  Dispatch(SegmentCall(window, g), rs) =
               IF Empty(window) THEN ToolError ELSE SegmentFailures(rs, g, window)
  <2> HIDE DEF g
  <2> DEFINE call == [name |-> "segment_failures", window |-> window, gateway |-> g]
  <2>1. /\ "baseline" \notin DOMAIN call
        /\ call.window = window /\ call.name = "segment_failures" /\ call.gateway = g
    OBVIOUS
  <2> HIDE DEF call
  <2>2. Dispatch(call, rs) = IF Empty(window) THEN ToolError ELSE SegmentFailures(rs, g, window)
    BY <1>4, <2>1 DEF Dispatch, Invoke
  <2> QED BY <2>2 DEF call, SegmentCall
<1>5. Segmented(window, rs).result = Dispatch(SegmentCall(window, g), rs)
  BY DEF Segmented, Entry
<1> QED BY <1>1, <1>3, <1>4, <1>5

\* Once the fleet has been swept, what follows depends on its tallies.
LEMMA AfterSweep ==
  ASSUME NEW rs, NEW window, NEW seen, NEW n \in Nat, n >= 1,
         DOMAIN seen = 1..n, seen[1] = Swept(window, rs)
  PROVE  "get_fleet_health" \in Done(seen) /\ PerGateway(seen) = Health(window, rs)
<1>1. seen[1].name = "get_fleet_health" /\ 1 \in 1..n
  BY EntryFacts
<1>2. "get_fleet_health" \in Done(seen)
  BY <1>1 DEF Done
<1>3. ResultOf(seen, "get_fleet_health") = seen[1].result
  BY <1>1, ResultFound
<1>4. seen[1].result = IF Empty(window) THEN ToolError ELSE FleetHealth(rs, window)
  BY EntryFacts
<1>5. PerGateway(seen) = IF IsError(seen[1].result) THEN <<>> ELSE seen[1].result.per_gateway
  BY <1>3 DEF PerGateway
<1>6. IsError(ToolError) /\ ~IsError(FleetHealth(rs, window))
  BY DEF IsError, ToolError, FleetHealth
<1>7. FleetHealth(rs, window).per_gateway =
        [g \in Gateways |-> Tally(rs, On(rs, Slice(rs, window), g))]
  BY DEF FleetHealth
<1> QED BY <1>2, <1>4, <1>5, <1>6, <1>7 DEF Health, ByGateway

\* Then the answer is one of four.
LEMMA CreateCases ==
  ASSUME NEW rs \in Seq(RowType), NEW window \in WindowType, NEW seen, NEW n \in Nat, n >= 1,
         DOMAIN seen = 1..n, seen[1] = Swept(window, rs)
  PROVE  \/ /\ Create(seen, window) = Diagnosis("no_incident", Nothing, Nothing, 20)
            /\ RatedOf(Health(window, rs)) = {}
         \/ /\ Create(seen, window) = Diagnosis("no_incident", Nothing, Nothing, 50)
            /\ RatedOf(Health(window, rs)) # {}
            /\ Reaches(Health(window, rs)[Suspect(window, rs)], HEALTHY_SR)
         \/ /\ Create(seen, window) = Diagnosis("fleet_wide", Nothing, Nothing, 60)
            /\ RatedOf(Health(window, rs)) # {}
            /\ \A g \in RatedOf(Health(window, rs)) : ~Reaches(Health(window, rs)[g], HEALTHY_SR)
         \/ /\ Create(seen, window) =
                 FollowUp(seen, window, Suspect(window, rs), Health(window, rs)[Suspect(window, rs)])
            /\ RatedOf(Health(window, rs)) # {}
            /\ ~Reaches(Health(window, rs)[Suspect(window, rs)], HEALTHY_SR)
<1> DEFINE H       == Health(window, rs)
           rated   == RatedOf(H)
           healthy == {g \in rated : Reaches(H[g], HEALTHY_SR)}
           fleet   == ResultOf(seen, "get_fleet_health").fleet
           worst   == Worst(H, rated)
           calm    == Diagnosis("no_incident", Nothing, Nothing, 20)
           fine    == Diagnosis("no_incident", Nothing, Nothing, 50)
           fleetwide == Diagnosis("fleet_wide", Nothing, Nothing, 60)
           followed  == FollowUp(seen, window, worst, H[worst])
<1>1. "get_fleet_health" \in Done(seen) /\ PerGateway(seen) = H
  BY AfterSweep
<1>2. Create(seen, window) =
        CASE rated = {} -> calm
          [] rated # {} /\ healthy = {} /\ Rated(fleet) /\ ~Reaches(fleet, HEALTHY_SR) -> fleetwide
          [] rated # {} /\ worst \in healthy -> fine
          [] OTHER -> followed
  BY <1>1, Zenon DEF Create
<1>3. \A g \in healthy : g \in rated /\ Reaches(H[g], HEALTHY_SR)
  OBVIOUS
<1>4. rated # {} => worst \in rated
  <2>1. rated # {} => worst \in Lowest(H)
    BY SuspectIsLowest, Zenon DEF Suspect
  <2> QED BY <2>1 DEF Lowest
<1>5. \A g \in rated : g \notin healthy => ~Reaches(H[g], HEALTHY_SR)
  OBVIOUS
<1>6. worst = Suspect(window, rs)
  BY DEF Suspect
<1> HIDE DEF H, rated, healthy, fleet, worst, calm, fine, fleetwide, followed
<1>7. CASE rated = {}
  <2>1. Create(seen, window) = calm
    BY <1>2, <1>7
  <2> QED BY <1>7, <2>1 DEF calm, rated, H
<1>8. CASE rated # {} /\ healthy = {} /\ Rated(fleet) /\ ~Reaches(fleet, HEALTHY_SR)
  <2>1. worst \notin healthy
    BY <1>8
  <2>2. Create(seen, window) = fleetwide
    BY <1>2, <1>8, <2>1
  <2>3. \A g \in rated : ~Reaches(H[g], HEALTHY_SR)
    BY <1>5, <1>8
  <2> QED BY <1>8, <2>2, <2>3 DEF fleetwide, rated, H
<1>9. CASE rated # {} /\ worst \in healthy
  <2>1. healthy # {}
    BY <1>9
  <2>2. Create(seen, window) = fine
    BY <1>2, <1>9, <2>1
  <2>3. Reaches(H[worst], HEALTHY_SR)
    BY <1>3, <1>9
  <2> QED BY <1>6, <1>9, <2>2, <2>3 DEF fine, rated, H
<1>10. CASE /\ rated # {} /\ worst \notin healthy
            /\ ~(healthy = {} /\ Rated(fleet) /\ ~Reaches(fleet, HEALTHY_SR))
  <2>1. Create(seen, window) = followed
    BY <1>2, <1>10
  <2>2. worst \in rated /\ ~Reaches(H[worst], HEALTHY_SR)
    BY <1>4, <1>5, <1>10
  <2> QED BY <1>6, <1>10, <2>1, <2>2 DEF followed, rated, H
<1> QED BY <1>7, <1>8, <1>9, <1>10

\* Append on the short sequences of a script.
LEMMA Appended ==
  ASSUME NEW a, NEW b, NEW c
  PROVE  /\ Append(<<a>>, b) = <<a, b>>
         /\ Append(<<a, b>>, c) = <<a, b, c>>
<1> DEFINE S == {a, b, c}
           one == <<a>>  two == <<a, b>>  three == <<a, b, c>>
<1>1. /\ one \in Seq(S) /\ Len(one) = 1 /\ one[1] = a
      /\ two \in Seq(S) /\ Len(two) = 2 /\ two[1] = a /\ two[2] = b
      /\ three \in Seq(S) /\ Len(three) = 3 /\ three[1] = a /\ three[2] = b /\ three[3] = c
  <2>1. one \in Seq(S) /\ Len(one) = 1 /\ one[1] = a
    OBVIOUS
  <2>2. two \in Seq(S) /\ Len(two) = 2 /\ two[1] = a /\ two[2] = b
    OBVIOUS
  <2>3. three \in Seq(S) /\ Len(three) = 3 /\ three[1] = a /\ three[2] = b /\ three[3] = c
    OBVIOUS
  <2> QED BY <2>1, <2>2, <2>3
<1>2. a \in S /\ b \in S /\ c \in S
  OBVIOUS
<1> HIDE DEF S, one, two, three
<1>3. ASSUME NEW s \in Seq(S), NEW e \in S
      PROVE  /\ Append(s, e) \in Seq(S) /\ Len(Append(s, e)) = Len(s) + 1
             /\ \A i \in 1..Len(s) : Append(s, e)[i] = s[i]
             /\ Append(s, e)[Len(s) + 1] = e
  BY AppendProperties
<1>4. /\ Append(one, b) \in Seq(S) /\ Len(Append(one, b)) = 2
      /\ Append(one, b)[1] = a /\ Append(one, b)[2] = b
  <2>1. one \in Seq(S) /\ b \in S
    BY <1>1, <1>2
  <2>2. /\ Append(one, b) \in Seq(S) /\ Len(Append(one, b)) = Len(one) + 1
        /\ \A i \in 1..Len(one) : Append(one, b)[i] = one[i]
        /\ Append(one, b)[Len(one) + 1] = b
    BY <1>3, <2>1
  <2>3. Len(one) = 1 /\ one[1] = a
    BY <1>1
  <2> QED BY <2>2, <2>3
<1>5. /\ Append(two, c) \in Seq(S) /\ Len(Append(two, c)) = 3
      /\ Append(two, c)[1] = a /\ Append(two, c)[2] = b /\ Append(two, c)[3] = c
  <2>1. two \in Seq(S) /\ c \in S
    BY <1>1, <1>2
  <2>2. /\ Append(two, c) \in Seq(S) /\ Len(Append(two, c)) = Len(two) + 1
        /\ \A i \in 1..Len(two) : Append(two, c)[i] = two[i]
        /\ Append(two, c)[Len(two) + 1] = c
    BY <1>3, <2>1
  <2>3. Len(two) = 2 /\ two[1] = a /\ two[2] = b
    BY <1>1
  <2> QED BY <2>2, <2>3
<1>6. Append(one, b) = two
  BY <1>1, <1>4, SeqEqual
<1>7. Append(two, c) = three
  BY <1>1, <1>5, SeqEqual
<1> QED BY <1>6, <1>7 DEF one, two, three

\* What it says of a suspect that is not healthy fits.
LEMMA DiagnosesAreSound ==
  ASSUME NEW rs \in Seq(RowType), NEW window \in WindowType,
         RatedOf(Health(window, rs)) # {},
         NEW g, g = Suspect(window, rs), ~Reaches(Health(window, rs)[g], HEALTHY_SR)
  PROVE  /\ g \in Gateways /\ ~Empty(window)
         /\ Sound(Diagnosis("single_gateway", g, Nothing, 65), window, rs)
         /\ \A j \in Issuers :
              /\ Above(Health(window, rs)[g])
              /\ j \in Lowest(ByIssuer(window, rs, g))
              /\ ByIssuer(window, rs, g)[j].ok * 10 < 6 * ByIssuer(window, rs, g)[j].n
              => Sound(Diagnosis("issuer_specific", g, j, 70), window, rs)
<1> DEFINE H == ByGateway(window, rs)  I == ByIssuer(window, rs, g)
<1>1. ~Empty(window) /\ Health(window, rs) = H
  BY HealthFacts
<1>2. g \in Lowest(H) /\ ~Reaches(H[g], HEALTHY_SR)
  BY <1>1, SuspectIsLowest
<1>3. g \in Gateways
  BY <1>1, <1>2, HealthFacts DEF Lowest
<1> HIDE DEF H, I
<1>4. Sound(Diagnosis("single_gateway", g, Nothing, 65), window, rs)
  <2> DEFINE d == Diagnosis("single_gateway", g, Nothing, 65)
  <2>1. d \in DiagnosisType /\ d.scope = "single_gateway" /\ d.gateway = g
    BY <1>3 DEF Diagnosis, DiagnosisType
  <2> HIDE DEF d
  <2>2. Fits(d, H, I)
    BY <1>2, <2>1 DEF Fits
  <2>3. Sound(d, window, rs)
    BY <1>1, <1>3, <2>1, <2>2 DEF Sound, H, I
  <2> QED BY <2>3 DEF d
<1>5. ASSUME NEW j \in Issuers, Above(H[g]), j \in Lowest(I), I[j].ok * 10 < 6 * I[j].n
      PROVE  Sound(Diagnosis("issuer_specific", g, j, 70), window, rs)
  <2> DEFINE d == Diagnosis("issuer_specific", g, j, 70)
  <2>1. /\ d \in DiagnosisType /\ d.scope = "issuer_specific"
        /\ d.gateway = g /\ d.issuer = j
    BY <1>3 DEF Diagnosis, DiagnosisType
  <2> HIDE DEF d
  <2>2. Fits(d, H, I)
    BY <1>2, <1>5, <2>1 DEF Fits, Above
  <2>3. Sound(d, window, rs)
    BY <1>1, <1>3, <2>1, <2>2 DEF Sound, H, I
  <2> QED BY <2>3 DEF d
<1> QED BY <1>1, <1>3, <1>4, <1>5 DEF I

\* What it says of no gateway in particular fits.
LEMMA FleetIsSound ==
  ASSUME NEW rs \in Seq(RowType), NEW window \in WindowType, NEW confidence
  PROVE  /\ \/ RatedOf(Health(window, rs)) = {}
            \/ /\ RatedOf(Health(window, rs)) # {}
               /\ Reaches(Health(window, rs)[Suspect(window, rs)], HEALTHY_SR)
            => Sound(Diagnosis("no_incident", Nothing, Nothing, confidence), window, rs)
         /\ /\ RatedOf(Health(window, rs)) # {}
            /\ \A g \in RatedOf(Health(window, rs)) : ~Reaches(Health(window, rs)[g], HEALTHY_SR)
            => Sound(Diagnosis("fleet_wide", Nothing, Nothing, confidence), window, rs)
<1> DEFINE H == Health(window, rs)
           B == ByGateway(window, rs)
           calm  == Diagnosis("no_incident", Nothing, Nothing, confidence)
           fleet == Diagnosis("fleet_wide", Nothing, Nothing, confidence)
<1>1. RatedOf(H) = RatedOf(B) /\ (RatedOf(H) # {} => H = B)
      /\ \A g \in RatedOf(H) : H[g] \in Tallies
  BY HealthFacts
<1>2. calm \in DiagnosisType /\ calm.scope = "no_incident"
      /\ fleet \in DiagnosisType /\ fleet.scope = "fleet_wide"
  BY DEF Diagnosis, DiagnosisType
<1>3. HEALTHY_SR \in Nat
  <2>1. HEALTHY_SR \in 0..100
    <3>1. HEALTHY_SR \in {HEALTHY_SR, COLLAPSE_SR, MIN_CONFIDENCE}
      OBVIOUS
    <3> QED BY <3>1, PolicyAssumption, Zenon DEF PolicyAssumption
  <2> QED BY <2>1
<1>4. ASSUME RatedOf(H) # {}, Reaches(H[Suspect(window, rs)], HEALTHY_SR)
      PROVE  \A g \in RatedOf(H) : Reaches(H[g], HEALTHY_SR)
  <2>1. Suspect(window, rs) \in Lowest(H)
    BY <1>4, SuspectIsLowest
  <2> HIDE DEF H
  <2> QED BY <1>1, <1>3, <1>4, <2>1, NotLowerReaches DEF Lowest
<1> HIDE DEF H, B, calm, fleet
<1>5. ASSUME \A g \in RatedOf(B) : Reaches(B[g], HEALTHY_SR)
      PROVE  Sound(calm, window, rs)
  BY <1>2, <1>5 DEF Sound, Fits, B
<1>6. ASSUME \A g \in RatedOf(B) : ~Reaches(B[g], HEALTHY_SR)
      PROVE  Sound(fleet, window, rs)
  BY <1>2, <1>6 DEF Sound, Fits, B
<1>7. RatedOf(H) = {} => Sound(calm, window, rs)
  BY <1>1, <1>5
<1>8. RatedOf(H) # {} /\ Reaches(H[Suspect(window, rs)], HEALTHY_SR) => Sound(calm, window, rs)
  BY <1>1, <1>4, <1>5
<1>9. RatedOf(H) # {} /\ (\A g \in RatedOf(H) : ~Reaches(H[g], HEALTHY_SR)) => Sound(fleet, window, rs)
  BY <1>1, <1>6
<1> QED BY <1>7, <1>8, <1>9 DEF H, calm, fleet

\* A call is told from a diagnosis by its name.
LEMMA CallsAndDiagnoses ==
  /\ \A window : IsCall(Call("get_fleet_health", window))
  /\ \A window, g : IsCall(CompareCall(window, g)) /\ IsCall(SegmentCall(window, g))
  /\ \A scope, gateway, issuer, confidence : ~IsCall(Diagnosis(scope, gateway, issuer, confidence))
BY DEF IsCall, Call, CompareCall, SegmentCall, Diagnosis

\* The agent asks the next call of its script, or says what it has seen.
LEMMA Answers ==
  ASSUME NEW rs \in Seq(RowType), NEW window \in WindowType, NEW seen, Transcript(seen, window, rs)
  PROVE  IF IsCall(Create(seen, window))
         THEN Transcript(Append(seen, Entry(Create(seen, window), rs)), window, rs)
         ELSE Sound(Create(seen, window), window, rs)
<1> DEFINE H == Health(window, rs)
           g == Suspect(window, rs)
           first == Swept(window, rs)
           second == Compared(window, rs)
           third == Segmented(window, rs)
           answer == Create(seen, window)
           followed == FollowUp(seen, window, g, H[g])
           Fine == IF IsCall(answer) THEN Transcript(Append(seen, Entry(answer, rs)), window, rs)
                   ELSE Sound(answer, window, rs)
<1>1. CASE seen = <<>>
  <2>1. Done(seen) = {}
    BY <1>1 DEF Done
  <2>2. answer = Call("get_fleet_health", window)
    BY <2>1 DEF Create
  <2>3. Append(seen, Entry(answer, rs)) = <<first>>
    BY <1>1, <2>2 DEF Swept
  <2> QED BY <2>2, <2>3, CallsAndDiagnoses DEF Transcript
<1>2. ASSUME \E n \in 1..3 : DOMAIN seen = 1..n, seen[1] = first,
             (/\ RatedOf(H) # {} /\ ~Reaches(H[g], HEALTHY_SR)
              /\ answer = followed) => Fine
      PROVE  Fine
  <2>1. CASE /\ answer = Diagnosis("no_incident", Nothing, Nothing, 20)
             /\ RatedOf(H) = {}
    BY <2>1, FleetIsSound, CallsAndDiagnoses
  <2>2. CASE /\ answer = Diagnosis("no_incident", Nothing, Nothing, 50)
             /\ RatedOf(H) # {} /\ Reaches(H[g], HEALTHY_SR)
    BY <2>2, FleetIsSound, CallsAndDiagnoses
  <2>3. CASE /\ answer = Diagnosis("fleet_wide", Nothing, Nothing, 60)
             /\ RatedOf(H) # {} /\ \A x \in RatedOf(H) : ~Reaches(H[x], HEALTHY_SR)
    BY <2>3, FleetIsSound, CallsAndDiagnoses
  <2> HIDE DEF Fine
  <2>4. PICK n \in 1..3 : DOMAIN seen = 1..n
    BY <1>2
  <2>5. n \in Nat /\ n >= 1
    OBVIOUS
  <2> HIDE DEF H, g, first, answer, followed
  <2>6. \/ answer = Diagnosis("no_incident", Nothing, Nothing, 20) /\ RatedOf(H) = {}
        \/ /\ answer = Diagnosis("no_incident", Nothing, Nothing, 50)
           /\ RatedOf(H) # {} /\ Reaches(H[g], HEALTHY_SR)
        \/ /\ answer = Diagnosis("fleet_wide", Nothing, Nothing, 60)
           /\ RatedOf(H) # {} /\ \A x \in RatedOf(H) : ~Reaches(H[x], HEALTHY_SR)
        \/ answer = followed /\ RatedOf(H) # {} /\ ~Reaches(H[g], HEALTHY_SR)
    BY <1>2, <2>4, <2>5, CreateCases DEF H, g, first, answer, followed
  <2> QED BY <1>2, <2>1, <2>2, <2>3, <2>6
<1>3. CASE seen = <<first>>
  <2>1. DOMAIN seen = 1..1 /\ seen[1] = first
    BY <1>3
  <2>2. Done(seen) = {"get_fleet_health"}
    BY <2>1, EntryFacts DEF Done
  <2>3. followed = CompareCall(window, g)
    BY <2>2 DEF FollowUp, CompareCall
  <2>4. ASSUME answer = followed
        PROVE  Fine
    <3>1. Entry(answer, rs) = second
      BY <2>3, <2>4, Zenon DEF Compared
    <3>2. Append(seen, second) = <<first, second>>
      <4> HIDE DEF first, second
      <4> QED BY <1>3, Appended
    <3>3. Append(seen, Entry(answer, rs)) = <<first, second>>
      BY <3>1, <3>2, Zenon
    <3> QED BY <2>3, <2>4, <3>3, CallsAndDiagnoses DEF Transcript
  <2>5. \E n \in 1..3 : DOMAIN seen = 1..n
    <3>1. 1 \in 1..3
      OBVIOUS
    <3> QED BY <2>1, <3>1, Zenon
  <2> HIDE DEF Fine, followed, first
  <2>6. Fine
    BY <1>2, <2>1, <2>4, <2>5
  <2> QED BY <2>6 DEF Fine
<1>4. CASE seen = <<first, second>>
  <2>1. DOMAIN seen = 1..2 /\ seen[1] = first /\ seen[2] = second
    BY <1>4
  <2>2. Done(seen) = {"get_fleet_health", "compare_windows"}
    BY <2>1, EntryFacts DEF Done
  <2>3. Segments(seen) = <<>>
    BY <2>2 DEF Segments
  <2>4. RatedOf(Segments(seen)) = {}
    BY <2>3 DEF RatedOf
  <2>5. \/ followed = SegmentCall(window, g) /\ Above(H[g])
        \/ followed = Diagnosis("single_gateway", g, Nothing, 65)
    BY <2>2, <2>4 DEF FollowUp, SegmentCall, Above
  <2>6. ASSUME answer = followed, followed = SegmentCall(window, g), Above(H[g])
        PROVE  Fine
    <3>1. Entry(answer, rs) = third
      BY <2>6, Zenon DEF Segmented
    <3>2. Append(seen, third) = <<first, second, third>>
      <4> HIDE DEF first, second, third
      <4> QED BY <1>4, Appended
    <3>3. Append(seen, Entry(answer, rs)) = <<first, second, third>>
      BY <3>1, <3>2, Zenon
    <3> QED BY <2>6, <3>3, CallsAndDiagnoses DEF Transcript
  <2>7. ASSUME answer = followed, followed = Diagnosis("single_gateway", g, Nothing, 65),
               RatedOf(H) # {}, ~Reaches(H[g], HEALTHY_SR)
        PROVE  Fine
    BY <2>7, DiagnosesAreSound, CallsAndDiagnoses
  <2>8. \E n \in 1..3 : DOMAIN seen = 1..n
    <3>1. 2 \in 1..3
      OBVIOUS
    <3> QED BY <2>1, <3>1, Zenon
  <2> HIDE DEF Fine, followed, answer, first
  <2>9. Fine
    BY <1>2, <2>1, <2>5, <2>6, <2>7, <2>8
  <2> QED BY <2>9 DEF Fine, answer
<1>5. CASE seen = <<first, second, third>> /\ Above(H[g])
  <2>1. DOMAIN seen = 1..3 /\ seen[1] = first /\ seen[2] = second /\ seen[3] = third
    BY <1>5
  <2>2. Done(seen) = {"get_fleet_health", "compare_windows", "segment_failures"}
    BY <2>1, EntryFacts DEF Done
  <2> DEFINE segments == Segments(seen)
             low == Worst(segments, RatedOf(segments))
  <2>3. \/ /\ RatedOf(segments) # {} /\ StandsOut(segments, low)
           /\ followed = Diagnosis("issuer_specific", g, low, 70)
        \/ followed = Diagnosis("single_gateway", g, Nothing, 65)
    BY <2>2 DEF FollowUp
  <2>4. ASSUME RatedOf(H) # {}, ~Reaches(H[g], HEALTHY_SR), answer = followed,
               RatedOf(segments) # {}, StandsOut(segments, low),
               followed = Diagnosis("issuer_specific", g, low, 70)
        PROVE  Fine
    <3>1. ResultOf(seen, "segment_failures") = third.result
      <4>1. /\ seen[1].name = "get_fleet_health" /\ seen[2].name = "compare_windows"
            /\ seen[3].name = "segment_failures"
        BY <2>1, EntryFacts
      <4>2. 3 \in 1..3 /\ \A k \in 1..3 : k < 3 => seen[k].name # "segment_failures"
        BY <4>1
      <4>3. ResultOf(seen, "segment_failures") = seen[3].result
        <5>1. 3 \in Nat
          OBVIOUS
        <5> QED BY <2>1, <4>1, <4>2, <5>1, ResultFound, Zenon
      <4> QED BY <2>1, <4>3
    <3>2. third.result = SegmentFailures(rs, g, window)
      BY <2>4, DiagnosesAreSound, EntryFacts
    <3>3. ~IsError(SegmentFailures(rs, g, window))
      BY DEF IsError, SegmentFailures
    <3>4. segments = SegmentFailures(rs, g, window).segments
      BY <2>2, <3>1, <3>2, <3>3 DEF Segments
    <3> HIDE DEF segments
    <3>5. /\ segments = ByIssuer(window, rs, g)
          /\ low \in Issuers /\ low \in Lowest(segments)
          /\ segments[low].ok * 10 < 6 * segments[low].n
      BY <2>4, <3>4, SegmentFacts
    <3>6. Sound(Diagnosis("issuer_specific", g, low, 70), window, rs)
      BY <1>5, <2>4, <3>5, DiagnosesAreSound
    <3> QED BY <2>4, <3>6, CallsAndDiagnoses
  <2>5. ASSUME answer = followed, followed = Diagnosis("single_gateway", g, Nothing, 65),
               RatedOf(H) # {}, ~Reaches(H[g], HEALTHY_SR)
        PROVE  Fine
    BY <2>5, DiagnosesAreSound, CallsAndDiagnoses
  <2>6. \E n \in 1..3 : DOMAIN seen = 1..n
    <3>1. 3 \in 1..3
      OBVIOUS
    <3> QED BY <2>1, <3>1, Zenon
  <2> HIDE DEF Fine, followed, answer, segments, first
  <2>7. Fine
    BY <1>2, <2>1, <2>3, <2>4, <2>5, <2>6
  <2> QED BY <2>7 DEF Fine, answer
<1> QED BY <1>1, <1>3, <1>4, <1>5 DEF Transcript

-------------------------------------------------------------------------------
(* Lemmas about the loop                                                     *)

\* A program's clock.
LEMMA TickFacts ==
  /\ TickOf(0) = 0
  /\ \A n \in Nat : TickOf(n) \in Nat /\ TickOf(n) <= TickOf(n + 1)
<1>1. Transactions \in Nat /\ Transactions > 0 /\ n_ticks \in Nat
  <2>1. {Transactions, n_ticks, LOOKBACK_MINUTES} \subseteq Nat \ {0}
    BY LoopAssumption DEF LoopAssumption
  <2> QED BY <2>1
<1>2. \A a \in Nat : /\ a \div Transactions \in Nat
                     /\ \A b \in Nat : a <= b => a \div Transactions <= b \div Transactions
  BY <1>1, SMT
<1>3. \A n \in Nat : /\ n * n_ticks \in Nat /\ (n + 1) * n_ticks \in Nat
                     /\ n * n_ticks <= (n + 1) * n_ticks
  BY <1>1, SMT
<1>4. 0 * n_ticks = 0 /\ 0 \div Transactions = 0
  BY <1>1, SMT
<1> QED BY <1>2, <1>3, <1>4 DEF TickOf

\* How far back the agent looks.
LEMMA LookbackType == LOOKBACK_MINUTES \in Nat /\ LOOKBACK_MINUTES > 0
<1>1. {Transactions, n_ticks, LOOKBACK_MINUTES} \subseteq Nat \ {0}
  BY LoopAssumption DEF LoopAssumption
<1> QED BY <1>1

\* DiagnosesFitWindow, finding by finding.
LEMMA DiagnosesFitByFinding ==
  DiagnosesFitWindow <=>
    /\ Len(asking.seen) <= 3
    /\ \A m, n \in DOMAIN asking.seen : m # n => asking.seen[m].name # asking.seen[n].name
    /\ \A k \in DOMAIN findings : Grounded(program, rows, findings[k])
BY DEF DiagnosesFitWindow, Grounded, WithinByGateway, WithinByIssuer, Within, Span, Converted,
       ConvertedFor, Looked, InWindow

\* BlocksHonoured, payment by payment.
LEMMA BlocksHonouredByRow ==
  BlocksHonoured <=> \A n \in DOMAIN rows : Honoured(constraints, rows[n])
BY DEF BlocksHonoured, Honoured, Avoid, Governors, Store!Governing

\* Both, of the state after a step.
LEMMA DiagnosesFitNext ==
  DiagnosesFitWindow' <=>
    /\ Len(asking'.seen) <= 3
    /\ \A m, n \in DOMAIN asking'.seen : m # n => asking'.seen[m].name # asking'.seen[n].name
    /\ \A k \in DOMAIN findings' : Grounded(program', rows', findings'[k])
BY DEF DiagnosesFitWindow, Grounded, WithinByGateway, WithinByIssuer, Within, Span, Converted,
       ConvertedFor, Looked, InWindow

LEMMA BlocksHonouredNext ==
  BlocksHonoured' <=> \A n \in DOMAIN rows' : Honoured(constraints', rows'[n])
BY DEF BlocksHonoured, Honoured, Avoid, Governors, Store!Governing

\* A strategy selects a gateway that is blocked only where it has no other.
LEMMA SelectFacts ==
  ASSUME NEW blocked \in SUBSET Gateways, NEW g \in Router!Select(blocked)
  PROVE  /\ g \in Gateways
         /\ g \in blocked => \/ blocked = Gateways
                             \/ Weighted \subseteq blocked /\ g \in Weighted
<1>1. Weighted \subseteq Gateways /\ Weighted # {}
  BY LoopAssumption, Zenon DEF LoopAssumption
<1>2. 1 \in Gateways
  <2>1. IsFiniteSet(Gateways) /\ Gateways = 1..Cardinality(Gateways)
    BY PolicyAssumption, Zenon DEF PolicyAssumption
  <2>2. Cardinality(Gateways) \in Nat
    BY <2>1, FS_CardinalityType
  <2> QED BY <1>1, <2>1, <2>2
<1>3. Router!Open(blocked) \subseteq Gateways
      /\ (g \in Router!Open(blocked) /\ g \in blocked => blocked = Gateways)
  BY DEF Router!Open
<1>4. \A r : Router!Tied(r, blocked) \subseteq Router!Open(blocked)
  BY DEF Router!Tied
<1>5. \A r : Router!Argmax(r, blocked) \subseteq Router!Open(blocked)
  BY <1>2, <1>4 DEF Router!Argmax, Router!Open
<1>6. Router!Select(blocked) \subseteq Router!Open(blocked) \cup Router!StaticWeightedSelect(blocked)
  BY <1>4, <1>5
     DEF Router!Select, Router!ThompsonSelect, Router!PIDThompsonSelect, Router!ContextualSelect,
         Router!UCB1Select, Router!EpsilonGreedySelect
<1>7. CASE g \in Router!Open(blocked)
  BY <1>3, <1>7
<1>8. CASE g \in Router!StaticWeightedSelect(blocked)
  BY <1>1, <1>8 DEF Router!StaticWeightedSelect
<1> QED BY <1>6, <1>7, <1>8

\* No call is made twice, and there are three.
LEMMA TranscriptShape ==
  ASSUME NEW rs, NEW window, NEW seen, Transcript(seen, window, rs)
  PROVE  /\ Len(seen) <= 3
         /\ \A m, n \in DOMAIN seen : m # n => seen[m].name # seen[n].name
<1> DEFINE first == Swept(window, rs)  second == Compared(window, rs)  third == Segmented(window, rs)
<1>1. /\ first.name = "get_fleet_health" /\ second.name = "compare_windows"
      /\ third.name = "segment_failures"
  BY EntryFacts
<1> HIDE DEF first, second, third
<1>2. \/ seen = <<>> \/ seen = <<first>> \/ seen = <<first, second>>
      \/ seen = <<first, second, third>>
  BY DEF Transcript, first, second, third
<1>3. CASE seen = <<>>
  BY <1>3
<1>4. CASE seen = <<first>>
  BY <1>4
<1>5. CASE seen = <<first, second>>
  BY <1>1, <1>5
<1>6. CASE seen = <<first, second, third>>
  <2>1. /\ Len(seen) = 3 /\ DOMAIN seen = 1..3
        /\ seen[1] = first /\ seen[2] = second /\ seen[3] = third
    BY <1>6
  <2> QED BY <1>1, <2>1
<1> QED BY <1>2, <1>3, <1>4, <1>5, <1>6

\* What a row is made of.
LEMMA RowFacts ==
  ASSUME NEW rs \in Seq(RowType), NEW n \in DOMAIN rs
  PROVE  /\ rs[n] \in RowType
         /\ rs[n].tick \in Nat /\ rs[n].issuer \in Issuers /\ rs[n].gateway \in Gateways
<1>1. rs[n] \in RowType
  OBVIOUS
<1>2. ASSUME NEW row \in RowType
      PROVE  row.tick \in Nat /\ row.issuer \in Issuers /\ row.gateway \in Gateways
  BY DEF RowType
<1> QED BY <1>1, <1>2

\* The rows of a window are those of its minutes.
LEMMA WithinIsOn ==
  ASSUME NEW prog, NEW rs \in Seq(RowType), NEW f, f.window \in WindowType, Past(prog, rs, f.window),
         NEW g
  PROVE  Within(prog, rs, f, g) = On(rs, Slice(rs, f.window), g)
<1>1. \A n \in DOMAIN rs : rs[n].tick \in Nat
  BY RowFacts
<1>2. f.window.start \in Nat /\ f.window.end \in Nat
  BY DEF WindowType
<1>3. \A tick \in Nat : tick \in Span(prog, f) <=> f.window.start <= tick /\ tick < f.window.end
  <2>1. CASE prog = "open"
    BY <1>2, <2>1 DEF Span, Past
  <2>2. CASE prog # "open"
    <3>1. f.window.start = IF f.window.end > LOOKBACK_MINUTES
                           THEN f.window.end - LOOKBACK_MINUTES ELSE 0
      BY <2>2 DEF Past, Window
    <3> QED BY <1>2, <2>2, <3>1, LookbackType DEF Span
  <2> QED BY <2>1, <2>2
<1> QED BY <1>1, <1>3 DEF Within, On, Slice

\* What fits what the agent has seen fits the payments of its minutes.
LEMMA SoundIsGrounded ==
  ASSUME NEW prog, NEW rs \in Seq(RowType), NEW d, NEW window \in WindowType,
         Past(prog, rs, window), Sound(d, window, rs)
  PROVE  Grounded(prog, rs, [diagnosis |-> d, window |-> window])
<1> DEFINE f == [diagnosis |-> d, window |-> window]
<1>1. f.diagnosis = d /\ f.window = window
  OBVIOUS
<1> HIDE DEF f
<1>2. \A g : Within(prog, rs, f, g) = On(rs, Slice(rs, window), g)
  BY <1>1, WithinIsOn
<1>3. WithinByGateway(prog, rs, f) = ByGateway(window, rs)
  BY <1>2 DEF WithinByGateway, ByGateway
<1>4. WithinByIssuer(prog, rs, f, d.gateway) = ByIssuer(window, rs, d.gateway)
  BY <1>2 DEF WithinByIssuer, ByIssuer
<1>5. Fits(d, WithinByGateway(prog, rs, f), WithinByIssuer(prog, rs, f, d.gateway))
  BY <1>3, <1>4, Zenon DEF Sound
<1>6. Grounded(prog, rs, f)
  BY <1>1, <1>5, Zenon DEF Grounded
<1> QED BY <1>6 DEF f

\* A payment routed after a window does not change what was found of it.
LEMMA GroundedIsKept ==
  ASSUME NEW rs \in Seq(RowType), NEW row \in RowType, NEW f, f.window \in WindowType,
         f.window.end <= row.tick, Grounded("closed", rs, f)
  PROVE  Grounded("closed", Append(rs, row), f)
<1> DEFINE longer == Append(rs, row)
<1>1. row.tick \in Nat /\ f.window.end \in Nat
  BY DEF RowType, WindowType
<1>2. row.tick \notin Span("closed", f)
  BY <1>1, LookbackType DEF Span
<1>3. /\ DOMAIN longer = DOMAIN rs \cup {Len(rs) + 1}
      /\ longer[Len(rs) + 1] = row
      /\ \A n \in DOMAIN rs : longer[n] = rs[n]
  OBVIOUS
<1> HIDE DEF longer
<1>4. \A g : Within("closed", longer, f, g) = Within("closed", rs, f, g)
  BY <1>2, <1>3 DEF Within
<1>5. \A g : Within("closed", rs, f, g) \subseteq DOMAIN rs
  BY DEF Within
<1>6. ASSUME NEW ns \in SUBSET DOMAIN rs
      PROVE  Tally(longer, ns) = Tally(rs, ns)
  <2>1. {k \in ns : longer[k].success} = {k \in ns : rs[k].success}
    BY <1>3
  <2> QED BY <2>1, Zenon DEF Tally
<1>7. WithinByGateway("closed", longer, f) = WithinByGateway("closed", rs, f)
  BY <1>4, <1>5, <1>6 DEF WithinByGateway
<1>8. WithinByIssuer("closed", longer, f, f.diagnosis.gateway)
        = WithinByIssuer("closed", rs, f, f.diagnosis.gateway)
  <2> DEFINE ns == Within("closed", rs, f, f.diagnosis.gateway)
             of(j) == {n \in ns : rs[n].issuer = j}
  <2>1. ns \subseteq DOMAIN rs /\ Within("closed", longer, f, f.diagnosis.gateway) = ns
    BY <1>4, <1>5
  <2> HIDE DEF ns
  <2>2. \A j : {n \in ns : longer[n].issuer = j} = of(j) /\ of(j) \in SUBSET DOMAIN rs
    BY <1>3, <2>1
  <2>3. \A j : Tally(longer, {n \in ns : longer[n].issuer = j}) = Tally(rs, of(j))
    BY <1>6, <2>2
  <2>4. WithinByIssuer("closed", longer, f, f.diagnosis.gateway)
          = [j \in Issuers |-> Tally(longer, {n \in ns : longer[n].issuer = j})]
    BY <2>1, Zenon DEF WithinByIssuer
  <2>5. WithinByIssuer("closed", rs, f, f.diagnosis.gateway) = [j \in Issuers |-> Tally(rs, of(j))]
    BY Zenon DEF WithinByIssuer, ns
  <2> HIDE DEF of
  <2> QED BY <2>3, <2>4, <2>5
<1> QED BY <1>7, <1>8, Zenon DEF Grounded, longer

\* A constraint that comes into force after a payment does not govern it.
LEMMA HonouredIsKept ==
  ASSUME NEW cs \in Seq(Store!Constraint), NEW c \in Store!Constraint, NEW row \in RowType,
         row.tick < c.created, Honoured(cs, row)
  PROVE  Honoured(Append(cs, c), row)
<1>1. /\ DOMAIN Append(cs, c) = DOMAIN cs \cup {Len(cs) + 1}
      /\ Append(cs, c)[Len(cs) + 1] = c
      /\ \A n \in DOMAIN cs : Append(cs, c)[n] = cs[n]
  OBVIOUS
<1>2. row.tick \in Nat /\ c.created \in Nat
  BY DEF RowType, Store!Constraint
<1>3. ~Store!Active(c, row.tick)
  BY <1>2 DEF Store!Active
<1>4. Governors(Append(cs, c), row.issuer, row.tick) = Governors(cs, row.issuer, row.tick)
  BY <1>1, <1>3 DEF Governors
<1>5. \A n \in Governors(cs, row.issuer, row.tick) : Append(cs, c)[n] = cs[n]
  BY <1>1 DEF Governors
<1>6. Avoid(Append(cs, c), row) = Avoid(cs, row)
  BY <1>4, <1>5 DEF Avoid
<1> QED BY <1>6 DEF Honoured

-------------------------------------------------------------------------------
(* The invariant is kept                                                     *)

\* The invariant holds before anything is routed.
LEMMA LoopInvInit == Init => LoopInv
<1> SUFFICES ASSUME Init PROVE LoopInv
  OBVIOUS
<1>1. detect_ticks \in Seq(Nat)
      /\ \A m, n \in DOMAIN detect_ticks : m <= n => detect_ticks[m] <= detect_ticks[n]
  BY LoopAssumption, Zenon DEF LoopAssumption
<1>2. /\ program \in {"closed", "open"} /\ rows = <<>> /\ constraints = <<>> /\ findings = <<>>
      /\ asking = Nobody /\ asking.seen = <<>>
      /\ pending = IF program = "closed" THEN detect_ticks ELSE <<>>
  BY DEF Init, Nobody
<1>3. Types
  BY <1>1, <1>2 DEF Types
<1>4. OpenInv /\ PendingInv
  BY <1>1, <1>2 DEF OpenInv, PendingInv
<1>5. AskingInv /\ PastInv
  BY <1>2 DEF AskingInv, PastInv, Investigating
<1>6. DiagnosesFitWindow
  BY <1>2, DiagnosesFitByFinding
<1>7. BlocksHonoured
  BY <1>2, BlocksHonouredByRow
<1> QED BY <1>3, <1>4, <1>5, <1>6, <1>7 DEF LoopInv

\* What a step that routes nothing leaves as it was.
LEMMA NothingRouted ==
  ASSUME LoopInv, UNCHANGED <<program, rows>>
  PROVE  /\ findings' = findings => PastInv'
         /\ \A k \in DOMAIN findings : Grounded(program', rows', findings[k])
         /\ constraints' = constraints => BlocksHonoured'
<1>1. findings' = findings => PastInv'
  BY DEF LoopInv, PastInv
<1>2. \A k \in DOMAIN findings : Grounded(program', rows', findings[k])
  BY DiagnosesFitByFinding DEF LoopInv
<1>3. ASSUME constraints' = constraints
      PROVE  BlocksHonoured'
  <2>1. \A n \in DOMAIN rows' : Honoured(constraints', rows'[n])
    BY <1>3, BlocksHonouredByRow DEF LoopInv
  <2> QED BY <2>1, BlocksHonouredNext
<1> QED BY <1>1, <1>2, <1>3

\* The window begins empty of calls and all rows are before its end.
LEMMA LoopInvWake ==
  ASSUME LoopInv, Wake
  PROVE  LoopInv'
<1> DEFINE d == Head(pending)
<1>1. /\ Types /\ OpenInv /\ PendingInv
  BY DEF LoopInv
<1>2. /\ pending # <<>> /\ t >= d
      /\ pending' = Tail(pending) /\ asking' = [window |-> Window(d), seen |-> <<>>]
      /\ UNCHANGED <<program, rows, constraints, findings>>
  BY DEF Wake, Due
<1>3. pending \in Seq(Nat) /\ d \in Nat /\ d = pending[1] /\ 1 \in DOMAIN pending
  BY <1>1, <1>2 DEF Types
<1>4. program = "closed"
  BY <1>1, <1>2 DEF OpenInv, Types
<1>5. /\ pending' \in Seq(Nat)
      /\ \A m \in DOMAIN pending' : m + 1 \in DOMAIN pending /\ pending'[m] = pending[m + 1]
      /\ \A m \in DOMAIN pending' : m \in Nat
  BY <1>2, <1>3
<1> HIDE DEF d
<1>6. /\ Window(d) \in WindowType /\ Window(d).end = d /\ Window(d) = Window(Window(d).end)
  <2>1. Window(d).end = d
    BY DEF Window
  <2>2. Window(d) \in WindowType
    BY <1>3, LookbackType DEF Window, WindowType
  <2> QED BY <2>1, <2>2
<1>7. asking'.window = Window(d) /\ asking'.seen = <<>>
  BY <1>2
<1>8. Types'
  BY <1>1, <1>2, <1>5, <1>6, <1>7 DEF Types
<1>9. OpenInv'
  BY <1>2, <1>4 DEF OpenInv
<1>10. PendingInv'
  <2>1. \A m, n \in DOMAIN pending' : m <= n => pending'[m] <= pending'[n]
    <3>1. ASSUME NEW m \in DOMAIN pending', NEW n \in DOMAIN pending', m <= n
          PROVE  pending'[m] <= pending'[n]
      <4>1. m + 1 <= n + 1 /\ m + 1 \in DOMAIN pending /\ n + 1 \in DOMAIN pending
        BY <1>5, <3>1
      <4> QED BY <1>1, <1>5, <4>1 DEF PendingInv
    <3> QED BY <3>1
  <2>2. \A m \in DOMAIN pending', n \in DOMAIN rows : pending'[m] = 0 \/ rows[n].tick < pending'[m]
    BY <1>1, <1>5 DEF PendingInv
  <2> QED BY <1>2, <2>1, <2>2 DEF PendingInv
<1>11. AskingInv'
  <2>1. Past(program, rows, Window(d))
    BY <1>2, <1>4, <1>6 DEF Past, t
  <2>2. \A n \in DOMAIN rows : d = 0 \/ rows[n].tick < d
    BY <1>1, <1>3 DEF PendingInv
  <2> QED BY <1>2, <1>6, <1>7, <2>1, <2>2 DEF AskingInv, Transcript
<1>12. DiagnosesFitWindow'
  BY <1>2, <1>7, NothingRouted, DiagnosesFitNext
<1> QED BY <1>2, <1>8, <1>9, <1>10, <1>11, <1>12, NothingRouted DEF LoopInv

\* A case is investigated once nothing more is routed.
LEMMA LoopInvOpenCase ==
  ASSUME LoopInv, OpenCase
  PROVE  LoopInv'
<1>1. Types /\ OpenInv /\ PendingInv
  BY DEF LoopInv
<1>2. /\ program = "open" /\ Len(rows) = Transactions
      /\ asking' = [window |-> CaseWindow, seen |-> <<>>]
      /\ UNCHANGED <<program, rows, pending, constraints, findings>>
  BY DEF OpenCase
<1>3. asking'.window = CaseWindow /\ asking'.seen = <<>> /\ CaseWindow \in WindowType
  BY <1>2, LoopAssumption DEF LoopAssumption, WindowType
<1>4. Types'
  BY <1>1, <1>2, <1>3 DEF Types
<1>5. OpenInv' /\ PendingInv'
  BY <1>1, <1>2 DEF OpenInv, PendingInv
<1>6. AskingInv'
  BY <1>2, <1>3 DEF AskingInv, Past, Transcript
<1>7. DiagnosesFitWindow'
  BY <1>2, <1>3, NothingRouted, DiagnosesFitNext
<1> QED BY <1>2, <1>4, <1>5, <1>6, <1>7, NothingRouted DEF LoopInv

\* The next call of the script, on the rows there are.
LEMMA LoopInvAsk ==
  ASSUME LoopInv, Ask
  PROVE  LoopInv'
<1>1. Types /\ OpenInv /\ PendingInv /\ AskingInv /\ DiagnosesFitWindow
  BY DEF LoopInv
<1>2. /\ Investigating /\ IsCall(Response)
      /\ asking' = [asking EXCEPT !.seen = Append(@, Entry(Response, rows))]
      /\ UNCHANGED <<program, rows, pending, constraints, findings>>
  BY DEF Ask, Entry
<1>3. asking.window \in WindowType /\ asking = [window |-> asking.window, seen |-> asking.seen]
  BY <1>1, <1>2 DEF Types, Investigating
<1>4. asking' = [window |-> asking.window, seen |-> Append(asking.seen, Entry(Response, rows))]
  <2> DEFINE w == asking.window  s == asking.seen
  <2>1. asking = [window |-> w, seen |-> s]
    BY <1>3
  <2> HIDE DEF w, s
  <2>2. \A e : [asking EXCEPT !.seen = e] = [window |-> w, seen |-> e]
    BY <2>1
  <2>3. asking' = [asking EXCEPT !.seen = Append(s, Entry(Response, rows))]
    BY <1>2 DEF s
  <2> QED BY <2>2, <2>3 DEF w, s
<1>5. asking'.window = asking.window /\ asking'.seen = Append(asking.seen, Entry(Response, rows))
  BY <1>4
<1>6. rows \in Seq(RowType) /\ Transcript(asking.seen, asking.window, rows)
  BY <1>1, <1>2 DEF Types, AskingInv
<1>7. Transcript(asking'.seen, asking'.window, rows)
  BY <1>2, <1>3, <1>5, <1>6, Answers DEF Response
<1>8. Types'
  BY <1>1, <1>2, <1>3, <1>4, <1>5 DEF Types
<1>9. OpenInv' /\ PendingInv'
  BY <1>1, <1>2 DEF OpenInv, PendingInv
<1>10. AskingInv'
  BY <1>1, <1>2, <1>5, <1>7 DEF AskingInv
<1>11. DiagnosesFitWindow'
  <2>1. /\ Len(asking'.seen) <= 3
        /\ \A m, n \in DOMAIN asking'.seen : m # n => asking'.seen[m].name # asking'.seen[n].name
    BY <1>7, TranscriptShape
  <2> QED BY <1>2, <2>1, NothingRouted, DiagnosesFitNext
<1> QED BY <1>2, <1>8, <1>9, <1>10, <1>11, NothingRouted DEF LoopInv

\* A constraint is made of a finding about a window that is not empty, so it
\* comes into force after the payments routed so far.
LEMMA ConstraintFacts ==
  ASSUME NEW d, NEW window \in WindowType, NEW rs, Sound(d, window, rs), Store!Accepts(d)
  PROVE  /\ Store!FromDiagnosis(d, window.end) \in Store!Constraint
         /\ Store!FromDiagnosis(d, window.end).created = window.end
         /\ window.end > 0
<1>1. window.start \in Nat /\ window.end \in Nat
  BY DEF WindowType
<1>2. /\ d.gateway \in Gateways
      /\ d.scope = "single_gateway" \/ d.scope = "issuer_specific"
  BY DEF Store!Accepts, Store!ActionableScopes
<1>3. ~Empty(window) /\ (d.scope = "issuer_specific" => d.issuer \in Issuers)
  BY <1>2 DEF Sound
<1>4. Ttl \in Nat
  BY LoopAssumption DEF LoopAssumption
<1>5. Store!FromDiagnosis(d, window.end) \in Store!Constraint
  BY <1>1, <1>2, <1>3, <1>4 DEF Store!FromDiagnosis, Store!Constraint
<1>6. Store!FromDiagnosis(d, window.end).created = window.end
  BY DEF Store!FromDiagnosis
<1> QED BY <1>1, <1>3, <1>5, <1>6 DEF Empty

\* What is concluded is sound, and what is made of it governs nothing before.
LEMMA LoopInvConclude ==
  ASSUME LoopInv, Conclude
  PROVE  LoopInv'
<1> DEFINE d == Response  w == asking.window  f == [diagnosis |-> d, window |-> w]
           c == Store!FromDiagnosis(d, w.end)
<1>1. Types /\ OpenInv /\ PendingInv /\ AskingInv /\ PastInv
  BY DEF LoopInv
<1>2. /\ Investigating /\ ~IsCall(d)
      /\ findings' = Append(findings, f)
      /\ constraints' = IF program = "closed" /\ Store!Accepts(d) THEN Append(constraints, c)
                        ELSE constraints
      /\ asking' = Nobody
      /\ UNCHANGED <<program, rows, pending>>
  BY DEF Conclude
<1>3. /\ rows \in Seq(RowType) /\ constraints \in Seq(Store!Constraint)
      /\ findings \in Seq([diagnosis : DiagnosisType, window : WindowType])
      /\ w \in WindowType
  BY <1>1, <1>2 DEF Types, Investigating
<1>4. /\ Past(program, rows, w) /\ Transcript(asking.seen, w, rows)
      /\ program = "closed" => \A n \in DOMAIN rows : w.end = 0 \/ rows[n].tick < w.end
  BY <1>1, <1>2 DEF AskingInv
<1>5. Sound(d, w, rows)
  BY <1>2, <1>3, <1>4, Answers DEF Response
<1>6. Grounded(program, rows, f)
  BY <1>3, <1>4, <1>5, SoundIsGrounded
<1>7. f \in [diagnosis : DiagnosisType, window : WindowType] /\ f.window = w
  BY <1>3, <1>5 DEF Sound
<1> HIDE DEF d, w, f, c
<1>8. /\ DOMAIN findings' = DOMAIN findings \cup {Len(findings) + 1}
      /\ findings'[Len(findings) + 1] = f
      /\ \A k \in DOMAIN findings : findings'[k] = findings[k]
  BY <1>2, <1>3
<1>9. asking'.seen = <<>>
  BY <1>2 DEF Nobody
<1>10. ASSUME Store!Accepts(d), program = "closed"
       PROVE  /\ c \in Store!Constraint
              /\ \A n \in DOMAIN rows : rows[n].tick < c.created
  <2>1. c \in Store!Constraint /\ c.created = w.end /\ w.end > 0
    BY <1>3, <1>5, <1>10, ConstraintFacts DEF c
  <2> QED BY <1>4, <1>10, <2>1
<1>11. Types'
  <2>1. constraints' \in Seq(Store!Constraint)
    BY <1>2, <1>3, <1>10
  <2>2. findings' \in Seq([diagnosis : DiagnosisType, window : WindowType])
    BY <1>2, <1>3, <1>7
  <2> QED BY <1>1, <1>2, <2>1, <2>2 DEF Types
<1>12. OpenInv' /\ PendingInv'
  BY <1>1, <1>2 DEF OpenInv, PendingInv, Types
<1>13. AskingInv'
  BY <1>2 DEF AskingInv, Investigating
<1>14. PastInv'
  BY <1>1, <1>2, <1>4, <1>7, <1>8 DEF PastInv
<1>15. DiagnosesFitWindow'
  <2>1. \A k \in DOMAIN findings' : Grounded(program', rows', findings'[k])
    BY <1>2, <1>6, <1>8, NothingRouted
  <2> QED BY <1>9, <2>1, DiagnosesFitNext
<1>16. BlocksHonoured'
  <2>1. CASE constraints' = constraints
    BY <1>2, <2>1, NothingRouted
  <2>2. CASE Store!Accepts(d) /\ program = "closed" /\ constraints' = Append(constraints, c)
    <3>1. \A n \in DOMAIN rows : Honoured(constraints, rows[n])
      BY BlocksHonouredByRow DEF LoopInv
    <3>2. \A n \in DOMAIN rows : rows[n] \in RowType
      BY <1>3, RowFacts
    <3>3. \A n \in DOMAIN rows : Honoured(constraints', rows[n])
      BY <1>3, <1>10, <2>2, <3>1, <3>2, HonouredIsKept
    <3> QED BY <1>2, <3>3, BlocksHonouredNext
  <2> QED BY <1>2, <2>1, <2>2
<1> QED BY <1>2, <1>11, <1>12, <1>13, <1>14, <1>15, <1>16, NothingRouted DEF LoopInv

\* What a step that routes one payment makes of the rows.
LEMMA RowRouted ==
  ASSUME LoopInv, NEW issuer \in Issuers, NEW g \in Gateways, NEW success \in Outcomes,
         NEW canary \in SUBSET Gateways, rows' = Append(rows, Row(issuer, g, success, canary)),
         UNCHANGED program
  PROVE  /\ Row(issuer, g, success, canary) \in RowType
         /\ Row(issuer, g, success, canary).tick = TickOf(Len(rows))
         /\ rows' \in Seq(RowType)
         /\ DOMAIN rows' = DOMAIN rows \cup {Len(rows) + 1} /\ Len(rows') = Len(rows) + 1
         /\ rows'[Len(rows) + 1] = Row(issuer, g, success, canary)
         /\ \A n \in DOMAIN rows : rows'[n] = rows[n]
<1> DEFINE row == Row(issuer, g, success, canary)
<1>1. rows \in Seq(RowType)
  BY DEF LoopInv, Types
<1>2. Len(rows) \in Nat /\ t \in Nat
  BY <1>1, TickFacts DEF t
<1>3. success \in BOOLEAN
  BY DEF Outcomes
<1>4. /\ row.tick = t /\ row.issuer = issuer /\ row.gateway = g /\ row.success = success
      /\ row \in RowType
  BY <1>2, <1>3 DEF Row, RowType
<1> HIDE DEF row
<1>5. /\ rows' \in Seq(RowType)
      /\ DOMAIN rows' = DOMAIN rows \cup {Len(rows) + 1} /\ Len(rows') = Len(rows) + 1
      /\ rows'[Len(rows) + 1] = row
      /\ \A n \in DOMAIN rows : rows'[n] = rows[n]
  <2>1. rows' = Append(rows, row)
    BY DEF row
  <2> QED BY <1>1, <1>4, <2>1
<1> QED BY <1>4, <1>5 DEF row, t

\* A payment honours the constraints in force when it is routed.
LEMMA RouteHonours ==
  ASSUME constraints \in Seq(Store!Constraint), NEW issuer,
         NEW governing, governing = Store!Governing(issuer, t),
         NEW released \in SUBSET governing, NEW g \in Selectable(governing, released), NEW success
  PROVE  /\ g \in Gateways
         /\ {constraints[n].gateway : n \in released} \in SUBSET Gateways
         /\ Honoured(constraints, Row(issuer, g, success, {constraints[n].gateway : n \in released}))
<1> DEFINE canary == {constraints[n].gateway : n \in released}
           row    == Row(issuer, g, success, canary)
           held   == {constraints[n].gateway : n \in governing \ released}
           avoid  == {constraints[n].gateway : n \in governing}
           blocked == Store!Blocked(governing \ released)
<1>1. governing \subseteq DOMAIN constraints
  BY DEF Store!Governing
<1>2. \A n \in DOMAIN constraints : constraints[n].gateway \in Gateways
  <2>1. \A n \in DOMAIN constraints : constraints[n] \in Store!Constraint
    OBVIOUS
  <2>2. \A c \in Store!Constraint : c.gateway \in Gateways
    BY DEF Store!Constraint
  <2> QED BY <2>1, <2>2
<1>3. held \subseteq avoid /\ avoid \subseteq Gateways /\ avoid \subseteq held \cup canary
      /\ canary \subseteq Gateways
  BY <1>1, <1>2
<1>4. blocked = IF held = Gateways THEN {} ELSE held
  BY DEF Store!Blocked
<1>5. Avoid(constraints, row) = avoid
  <2>1. row.issuer = issuer /\ row.tick = t
    BY DEF Row
  <2> HIDE DEF row
  <2>2. Governors(constraints, row.issuer, row.tick) = governing
    BY <2>1 DEF Governors, Store!Governing
  <2> QED BY <2>2 DEF Avoid
<1>6. row.gateway = g /\ row.canary = canary
  BY DEF Row
<1>7. g \in Router!Select(blocked)
  BY DEF Selectable
<1> HIDE DEF canary, row, held, avoid, blocked
<1>8. blocked \in SUBSET Gateways
  BY <1>3, <1>4
<1>9. /\ g \in Gateways
      /\ g \in blocked => \/ blocked = Gateways
                          \/ Weighted \subseteq blocked /\ g \in Weighted
  BY <1>7, <1>8, SelectFacts
<1>10. ASSUME g \in avoid, g \notin canary
       PROVE  \/ avoid = Gateways
              \/ Weighted \subseteq avoid /\ g \in Weighted
  <2>1. g \in held
    BY <1>3, <1>10
  <2>2. CASE held = Gateways
    BY <1>3, <2>2
  <2>3. CASE held # Gateways
    BY <1>3, <1>4, <1>9, <2>1, <2>3
  <2> QED BY <2>2, <2>3
<1>11. Honoured(constraints, row)
  BY <1>5, <1>6, <1>10 DEF Honoured
<1> QED BY <1>3, <1>9, <1>11 DEF canary, row

\* A row is past every window asked about and honours the store.
LEMMA LoopInvRoute ==
  ASSUME LoopInv, Route
  PROVE  LoopInv'
<1>1. Types /\ OpenInv /\ PendingInv /\ AskingInv /\ PastInv
  BY DEF LoopInv
<1>2. /\ program = "closed" /\ ~Investigating /\ ~Due
      /\ UNCHANGED <<program, pending, constraints, asking, findings>>
  BY DEF Route
<1>3. /\ rows \in Seq(RowType) /\ pending \in Seq(Nat) /\ constraints \in Seq(Store!Constraint)
      /\ findings \in Seq([diagnosis : DiagnosisType, window : WindowType])
  BY <1>1 DEF Types
<1>4. PICK issuer \in Issuers :
        \E released \in Store!Rolls(Store!Governing(issuer, t)) :
          \E g \in Selectable(Store!Governing(issuer, t), released) :
            \E success \in Outcomes :
              rows' = Append(rows, Row(issuer, g, success,
                                       {constraints[n].gateway : n \in released}))
  BY Zenon DEF Route
<1> DEFINE governing == Store!Governing(issuer, t)
<1>5. PICK released \in Store!Rolls(governing) :
        \E g \in Selectable(governing, released) :
          \E success \in Outcomes :
            rows' = Append(rows, Row(issuer, g, success,
                                     {constraints[n].gateway : n \in released}))
  BY <1>4
<1> DEFINE canary == {constraints[n].gateway : n \in released}
<1>6. PICK g \in Selectable(governing, released) :
        \E success \in Outcomes : rows' = Append(rows, Row(issuer, g, success, canary))
  BY <1>5
<1>7. PICK success \in Outcomes : rows' = Append(rows, Row(issuer, g, success, canary))
  BY <1>6
<1> DEFINE row == Row(issuer, g, success, canary)
<1>8. released \in SUBSET governing
  BY DEF Store!Rolls
<1>9. g \in Gateways /\ canary \in SUBSET Gateways /\ Honoured(constraints, row)
  BY <1>3, <1>8, RouteHonours
<1>10. /\ row \in RowType /\ row.tick = TickOf(Len(rows))
       /\ rows' \in Seq(RowType)
       /\ DOMAIN rows' = DOMAIN rows \cup {Len(rows) + 1} /\ Len(rows') = Len(rows) + 1
       /\ rows'[Len(rows) + 1] = row
       /\ \A n \in DOMAIN rows : rows'[n] = rows[n]
  BY <1>2, <1>7, <1>9, RowRouted
<1>11. rows' = Append(rows, row)
  BY <1>7
<1> HIDE DEF governing, canary, row
<1>12. Types'
  BY <1>1, <1>2, <1>10 DEF Types
<1>13. OpenInv'
  BY <1>1, <1>2 DEF OpenInv
<1>14. PendingInv'
  <2>1. ASSUME NEW m \in DOMAIN pending
        PROVE  pending[m] = 0 \/ row.tick < pending[m]
    <3>1. /\ pending # <<>> /\ Head(pending) = pending[1] /\ 1 \in DOMAIN pending /\ 1 <= m
          /\ pending[1] \in Nat /\ pending[m] \in Nat
      BY <1>3
    <3>2. pending[1] <= pending[m]
      BY <1>1, <3>1 DEF PendingInv
    <3>3. TickOf(Len(rows)) \in Nat /\ Len(rows) \in Nat
      BY <1>3, TickFacts
    <3>4. CASE Len(rows) = 0
      BY <1>10, <3>1, <3>4, TickFacts
    <3>5. CASE Len(rows) > 0
      <4>1. ~(TickOf(Len(rows)) >= pending[1])
        BY <1>2, <3>1, <3>5 DEF Due, t
      <4> QED BY <1>10, <3>1, <3>2, <3>3, <4>1
    <3> QED BY <3>3, <3>4, <3>5
  <2>2. \A m \in DOMAIN pending, n \in DOMAIN rows' : pending[m] = 0 \/ rows'[n].tick < pending[m]
    BY <1>1, <1>10, <2>1 DEF PendingInv
  <2> QED BY <1>1, <1>2, <2>2 DEF PendingInv
<1>15. AskingInv'
  BY <1>2 DEF AskingInv, Investigating
<1>16. \A k \in DOMAIN findings :
         /\ findings[k].window \in WindowType
         /\ Past(program, rows, findings[k].window)
  <2>1. \A k \in DOMAIN findings :
          findings[k] \in [diagnosis : DiagnosisType, window : WindowType]
    <3> DEFINE F == [diagnosis : DiagnosisType, window : WindowType]
    <3>1. findings \in Seq(F)
      BY <1>3
    <3> HIDE DEF F
    <3>2. \A k \in DOMAIN findings : findings[k] \in F
      BY <3>1
    <3> QED BY <3>2 DEF F
  <2>2. \A f \in [diagnosis : DiagnosisType, window : WindowType] : f.window \in WindowType
    OBVIOUS
  <2>3. \A k \in DOMAIN findings : Past(program, rows, findings[k].window)
    BY <1>1 DEF PastInv
  <2> QED BY <2>1, <2>2, <2>3
<1>17. PastInv'
  <2>1. TickOf(Len(rows)) \in Nat /\ TickOf(Len(rows)) <= TickOf(Len(rows')) /\ TickOf(Len(rows')) \in Nat
    <3>1. Len(rows) \in Nat /\ Len(rows) + 1 \in Nat /\ Len(rows') = Len(rows) + 1
      BY <1>3, <1>10
    <3> QED BY <3>1, TickFacts
  <2>2. \A window \in WindowType : Past(program, rows, window) => Past(program, rows', window)
    BY <1>2, <2>1 DEF Past, WindowType
  <2> QED BY <1>2, <1>16, <2>2 DEF PastInv
<1>18. DiagnosesFitWindow'
  <2>1. ASSUME NEW k \in DOMAIN findings
        PROVE  Grounded("closed", rows', findings[k])
    <3>1. Grounded("closed", rows, findings[k])
      BY <1>2, DiagnosesFitByFinding DEF LoopInv
    <3>2. findings[k].window.end <= row.tick
      BY <1>2, <1>10, <1>16 DEF Past
    <3> QED BY <1>3, <1>10, <1>11, <1>16, <3>1, <3>2, GroundedIsKept
  <2>2. /\ Len(asking.seen) <= 3
        /\ \A m, n \in DOMAIN asking.seen : m # n => asking.seen[m].name # asking.seen[n].name
    BY DiagnosesFitByFinding DEF LoopInv
  <2> QED BY <1>2, <2>1, <2>2, DiagnosesFitNext
<1>19. BlocksHonoured'
  <2>1. \A n \in DOMAIN rows : Honoured(constraints, rows[n])
    BY BlocksHonouredByRow DEF LoopInv
  <2> QED BY <1>2, <1>9, <1>10, <2>1, BlocksHonouredNext
<1> QED BY <1>10, <1>12, <1>13, <1>14, <1>15, <1>17, <1>18, <1>19 DEF LoopInv

\* Nothing was found yet, and there is no store.
LEMMA LoopInvRouteOpen ==
  ASSUME LoopInv, RouteOpen
  PROVE  LoopInv'
<1>1. Types /\ OpenInv /\ AskingInv /\ PastInv
  BY DEF LoopInv
<1>2. /\ program = "open" /\ Len(rows) < Transactions
      /\ UNCHANGED <<program, pending, constraints, asking, findings>>
  BY DEF RouteOpen
<1>3. PICK issuer \in Issuers, g \in Router!Select({}) :
        \E success \in Outcomes : rows' = Append(rows, Row(issuer, g, success, {}))
  BY Zenon DEF RouteOpen
<1>4. PICK success \in Outcomes : rows' = Append(rows, Row(issuer, g, success, {}))
  BY <1>3
<1>5. g \in Gateways
  BY SelectFacts
<1>6. rows' \in Seq(RowType)
  <2>1. {} \in SUBSET Gateways
    OBVIOUS
  <2> QED BY <1>2, <1>4, <1>5, <2>1, RowRouted
<1>7. pending = <<>> /\ constraints = <<>>
  BY <1>1, <1>2 DEF OpenInv
<1>8. \A window : ~Past(program, rows, window)
  <2>1. Transactions \in Nat /\ Len(rows) \in Nat
    <3>1. {Transactions, n_ticks, LOOKBACK_MINUTES} \subseteq Nat \ {0}
      BY LoopAssumption DEF LoopAssumption
    <3> QED BY <1>1, <3>1 DEF Types
  <2> QED BY <1>2, <2>1 DEF Past
<1>9. ~Investigating
  BY <1>1, <1>8 DEF AskingInv
<1>10. DOMAIN findings = {}
  BY <1>1, <1>8 DEF PastInv
<1>11. Types'
  BY <1>1, <1>2, <1>6 DEF Types
<1>12. OpenInv' /\ PendingInv'
  BY <1>2, <1>7 DEF OpenInv, PendingInv
<1>13. AskingInv' /\ PastInv'
  BY <1>2, <1>9, <1>10 DEF AskingInv, PastInv, Investigating
<1>14. DiagnosesFitWindow'
  <2>1. /\ Len(asking.seen) <= 3
        /\ \A m, n \in DOMAIN asking.seen : m # n => asking.seen[m].name # asking.seen[n].name
    BY DiagnosesFitByFinding DEF LoopInv
  <2> QED BY <1>2, <1>10, <2>1, DiagnosesFitNext
<1>15. BlocksHonoured'
  <2>1. \A row : Avoid(<<>>, row) = {}
    BY DEF Avoid, Governors
  <2>2. \A row : Honoured(<<>>, row)
    BY <2>1 DEF Honoured
  <2> QED BY <1>2, <1>7, <2>2, BlocksHonouredNext
<1> QED BY <1>6, <1>11, <1>12, <1>13, <1>14, <1>15 DEF LoopInv

\* Every step keeps the invariant.
LEMMA LoopInvNext == LoopInv /\ [Next]_vars => LoopInv'
<1> SUFFICES ASSUME LoopInv, [Next]_vars
             PROVE  LoopInv'
  OBVIOUS
<1>1. CASE Wake
  BY <1>1, LoopInvWake
<1>2. CASE OpenCase
  BY <1>2, LoopInvOpenCase
<1>3. CASE Ask
  BY <1>3, LoopInvAsk
<1>4. CASE Conclude
  BY <1>4, LoopInvConclude
<1>5. CASE Route
  BY <1>5, LoopInvRoute
<1>6. CASE RouteOpen
  BY <1>6, LoopInvRouteOpen
<1>7. CASE UNCHANGED vars
  <2>1. UNCHANGED <<program, rows, pending, constraints, asking, findings>>
    BY <1>7 DEF vars
  <2>2. /\ Types => Types'
        /\ OpenInv => OpenInv'
        /\ PendingInv => PendingInv'
        /\ AskingInv => AskingInv'
    <3>1. Types => Types'
      BY <2>1 DEF Types
    <3>2. OpenInv => OpenInv'
      BY <2>1 DEF OpenInv
    <3>3. PendingInv => PendingInv'
      BY <2>1 DEF PendingInv
    <3>4. AskingInv => AskingInv'
      BY <2>1 DEF AskingInv, Investigating
    <3> QED BY <3>1, <3>2, <3>3, <3>4
  <2>3. DiagnosesFitWindow'
    BY <2>1, DiagnosesFitByFinding, DiagnosesFitNext DEF LoopInv
  <2> QED BY <2>1, <2>2, <2>3, NothingRouted DEF LoopInv
<1> QED BY <1>1, <1>2, <1>3, <1>4, <1>5, <1>6, <1>7 DEF Next

-------------------------------------------------------------------------------
(* Theorems                                                                  *)

\* Whichever payments go through and however they are routed, every
\* investigation ends after three calls at the most, and its diagnosis fits the
\* payments of its window, then and ever after: the agent of llm.py on the
\* telemetry of closed_loop.py and of a finished log.
THEOREM DiagnosesFit == Spec => []DiagnosesFitWindow
<1>1. LoopInv => DiagnosesFitWindow
  BY DEF LoopInv
<1> QED BY <1>1, LoopInvInit, LoopInvNext, PTL DEF Spec

\* Every constraint governs every payment routed while it is in force, with any
\* strategy, any number of gateways and issuers and any canary rolls; a
\* payment takes a gateway it is to avoid only where a canary lets it through
\* or nothing else is left to choose.
THEOREM RouterHonours == Spec => []BlocksHonoured
<1>1. LoopInv => BlocksHonoured
  BY DEF LoopInv
<1> QED BY <1>1, LoopInvInit, LoopInvNext, PTL DEF Spec

================================================================================
