-------------------------- MODULE MCSharedConstraints --------------------------
(***************************************************************************)
(* SharedConstraints with one handler on each of two replicas, with two on *)
(* one, and with two on one and a third on another.                        *)
(***************************************************************************)
EXTENDS SharedConstraints, TLC

CONSTANTS r1, r2, t1, t2, t3, delta_hdfc, echo_all

OneThreadEach == [t \in {t1, t2} |-> IF t = t1 THEN r1 ELSE r2]
TwoOnOne == [t \in {t1, t2} |-> r1]
TwoAndOne == [t \in {t1, t2, t3} |-> IF t = t3 THEN r2 ELSE r1]

\* The paths are interchangeable, and so are the two threads of one replica.
Renumber == {[t \in {t1, t2} |-> t], t1 :> t2 @@ t2 :> t1}
ThreadSymmetry == {f @@ g : f \in Permutations(Paths), g \in Renumber}

===============================================================================
