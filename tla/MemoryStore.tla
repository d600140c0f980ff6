------------------------------ MODULE MemoryStore ------------------------------
(***************************************************************************)
(* The agent's memory (src/agent/memory.py): a log of episodes and the     *)
(* facts derived from them.  A pattern stands for the scope, gateway and   *)
(* issuer a memory is about, numbered in the order consolidate() sorts     *)
(* them; 0 is "no_incident", which is remembered and never promoted.       *)
(***************************************************************************)
EXTENDS Integers, FiniteSets

CONSTANTS
  Patterns,   \* bound: how many different incidents are diagnosed
  MinSupport  \* min_support: the episodes it takes to promote a pattern

ASSUME MemoryAssumption == Patterns \in Nat /\ MinSupport \in Nat \ {0}

\* The list of memories is in the order of their seq: a set says the same.
NewMemory == [memories |-> {}, seq |-> 0]

\* remember_investigation
Remember(m, pattern) ==
  [ seq      |-> m.seq + 1,
    memories |-> m.memories \cup {[ kind |-> "episodic", pattern |-> pattern,
                                    seq |-> m.seq + 1, support |-> 1 ]} ]

Episodes(m) == {e \in m.memories : e.kind # "semantic"}

EpisodesOf(m, pattern) == {e \in Episodes(m) : e.pattern = pattern}

Support(m, pattern) == Cardinality(EpisodesOf(m, pattern))

Promoted(m) == {p \in 1..Patterns : Support(m, p) >= MinSupport}

\* The facts are numbered on, in the order of their patterns.
Number(m, pattern) == m.seq + Cardinality({p \in Promoted(m) : p <= pattern})

Facts(m) ==
  {[ kind |-> "semantic", pattern |-> p, seq |-> Number(m, p), support |-> Support(m, p) ] :
     p \in Promoted(m)}

\* Mutant: the facts of the pass before are kept.
ConsolidateOnTop(m) ==
  [memories |-> m.memories \cup Facts(m), seq |-> m.seq + Cardinality(Promoted(m))]

\* consolidate: the facts are rebuilt from the episodes.
Consolidate(m) ==
  [memories |-> Episodes(m) \cup Facts(m), seq |-> m.seq + Cardinality(Promoted(m))]

================================================================================
