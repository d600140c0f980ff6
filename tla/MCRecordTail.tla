------------------------------ MODULE MCRecordTail ------------------------------
(***************************************************************************)
(* RecordTail on two threads, which are interchangeable.                   *)
(***************************************************************************)
EXTENDS RecordTail, TLC

CONSTANTS t1, t2

Symmetry == Permutations(Threads)

===============================================================================
