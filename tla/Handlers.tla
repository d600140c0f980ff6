-------------------------------- MODULE Handlers --------------------------------
(***************************************************************************)
(* The threads of FastAPI's pool, the statement each runs next, and how    *)
(* often something outside the process goes wrong.                         *)
(***************************************************************************)
EXTENDS Integers, Sequences

CONSTANTS Threads,
          Nothing,  \* a local, or a key, that has no value
          MaxFaults \* bound: faults

ASSUME FaultAssumption == MaxFaults \in Nat

VARIABLES
  pc,    \* per thread, the next step of its handler
  faults \* calls of a backend that failed, crashes, writes of a peer

Goto(t, where) == pc' = [pc EXCEPT ![t] = where]

AllIdle == \A t \in Threads : pc[t] = "idle"

Fault == faults < MaxFaults /\ faults' = faults + 1

===============================================================================
