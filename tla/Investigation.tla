----------------------------- MODULE Investigation -----------------------------
(***************************************************************************)
(* What agent/loop.py promises of an investigation, with no budgets and no *)
(* conversation: a bounded number of turns, then at most one turn that     *)
(* must answer, then an ending that says why, and an ending always comes.  *)
(***************************************************************************)
EXTENDS Integers

CONSTANTS MaxTurns, \* turns an investigation may take before it must answer
          Endings,  \* why it may end
          Open      \* it has not ended

VARIABLES stage,  \* "investigating", "answering" or "ended"
          turns,  \* turns completed
          ending

vars == <<stage, turns, ending>>

Init == stage = "investigating" /\ turns = 0 /\ ending = Open

Turn ==
  /\ stage = "investigating" /\ turns < MaxTurns
  /\ turns' = turns + 1
  /\ UNCHANGED <<stage, ending>>

MustAnswer ==
  /\ stage = "investigating"
  /\ stage' = "answering"
  /\ UNCHANGED <<turns, ending>>

\* A response may end it, as may a failure before any response.
End ==
  /\ stage # "ended"
  /\ stage' = "ended"
  /\ ending' \in Endings
  /\ turns' \in {turns, turns + 1}

Next == Turn \/ MustAnswer \/ End

Spec == Init /\ [][Next]_vars /\ WF_vars(Next)

===============================================================================
