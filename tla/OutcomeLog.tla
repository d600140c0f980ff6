------------------------------ MODULE OutcomeLog ------------------------------
(***************************************************************************)
(* What RouterService promises about recorded outcomes, with no lock and   *)
(* no columns: recording an outcome credits the posterior and appends one  *)
(* row to a bounded log in one indivisible step, the rows are in tick      *)
(* order, and a reader gets the log as it is at one instant.               *)
(***************************************************************************)
EXTENDS Integers, Sequences

CONSTANTS Threads,      \* the threads that may read the log
          Ticks,        \* the ticks a row may carry
          Entries,      \* the outcomes that may be recorded
          Row(_, _),    \* the log row of an outcome recorded at a tick
          HistoryLimit, \* how many rows the log keeps
          Nothing       \* a reader that has read nothing yet

VARIABLES log,      \* the rows kept, oldest first
          credited, \* every outcome the posterior has absorbed, oldest first
          seen      \* per thread, the log as its last read returned it

vars == <<log, credited, seen>>

\* The last n elements of s, or all of it when it is shorter.
LastN(s, n) == IF Len(s) <= n THEN s ELSE SubSeq(s, Len(s) - n + 1, Len(s))

Init ==
  /\ log = <<>>
  /\ credited = <<>>
  /\ seen = [t \in Threads |-> Nothing]

Record(e, now) ==
  /\ \A i \in DOMAIN log : log[i][1] <= now
  /\ log' = LastN(Append(log, Row(e, now)), HistoryLimit)
  /\ credited' = Append(credited, e)
  /\ UNCHANGED seen

\* An empty log reads as nothing at all.
Read(t) ==
  /\ seen' = [seen EXCEPT ![t] = IF log = <<>> THEN Nothing ELSE log]
  /\ UNCHANGED <<log, credited>>

Next ==
  \/ \E e \in Entries, now \in Ticks : Record(e, now)
  \/ \E t \in Threads : Read(t)

Spec == Init /\ [][Next]_vars

===============================================================================
