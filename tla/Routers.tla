-------------------------------- MODULE Routers --------------------------------
(***************************************************************************)
(* Which gateways a strategy may select (src/routers/*.py) when some are   *)
(* blocked.  Every strategy ranks the gateways: by posterior draws, by an  *)
(* estimate or a bound; a ranking is free here, for draws are continuous   *)
(* and the estimates any history may have left.  Blocked gateways rank     *)
(* below all others.                                                       *)
(***************************************************************************)
EXTENDS Integers

CONSTANTS
  Gateways, \* indices
  Weighted  \* static_weighted: the gateways whose weight is positive

Rankings == [Gateways -> 0..1]

\* The gateways that compete: all, when every score is -inf.
Open(blocked) == IF Gateways \subseteq blocked THEN Gateways ELSE Gateways \ blocked

\* The gateways whose score is the maximum.
Tied(ranking, blocked) ==
  {g \in Open(blocked) : \A h \in Open(blocked) : ranking[g] >= ranking[h]}

\* argmax takes the first of them, and the first of all where all are -inf.
Argmax(ranking, blocked) ==
  IF Gateways \subseteq blocked THEN {1}
  ELSE {g \in Tied(ranking, blocked) : \A h \in Tied(ranking, blocked) : g <= h}

\* thompson ranks by one draw per gateway.
ThompsonSelect(blocked) == UNION {Argmax(r, blocked) : r \in Rankings}

\* pid-thompson inflates the variance of the draws, contextual-thompson draws
\* for the issuer: any ranking, again.
PIDThompsonSelect(blocked) == ThompsonSelect(blocked)

ContextualSelect(blocked) == ThompsonSelect(blocked)

\* ucb1: one of those that tie.
UCB1Select(blocked) == UNION {Tied(r, blocked) : r \in Rankings}

\* epsilon-greedy explores any gateway that is not blocked, or exploits.
\* Mutant: it explores all.
EpsilonGreedyExploringAll(blocked) ==
  Gateways \cup UNION {Tied(r, blocked) : r \in Rankings}

EpsilonGreedySelect(blocked) ==
  Open(blocked) \cup UNION {Tied(r, blocked) : r \in Rankings}

\* static-weighted falls back when no weight is left.
StaticWeightedSelect(blocked) ==
  IF Weighted \subseteq blocked THEN Weighted ELSE Weighted \ blocked

Select(blocked) ==
  ThompsonSelect(blocked) \cup PIDThompsonSelect(blocked) \cup ContextualSelect(blocked)
    \cup UCB1Select(blocked) \cup EpsilonGreedySelect(blocked) \cup StaticWeightedSelect(blocked)

===============================================================================
