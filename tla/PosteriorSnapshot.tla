---------------------------- MODULE PosteriorSnapshot ----------------------------
(***************************************************************************)
(* The write-back of the posterior to Redis (service/state.py,             *)
(* PosteriorSnapshot): every outcome may trigger a save, at most one per   *)
(* interval is made, and a new process restores the last.                  *)
(*                                                                         *)
(* maybe_save takes no lock, neither its own nor the router's.  Steps are  *)
(* cut where the interpreter may switch threads: the interval is checked,  *)
(* the stamp is written, one array of counts is copied, then the other.    *)
(* An array is the set of outcomes it has absorbed.                        *)
(***************************************************************************)
EXTENDS Handlers

CONSTANTS Interval,    \* interval_seconds
          SaveSeconds, \* the longest a save takes: socket_timeout, and the thread's turn
          MaxClock     \* bound: seconds

ASSUME SnapshotAssumption ==
  /\ Interval \in Nat \ {0} /\ SaveSeconds \in Nat /\ MaxClock \in Nat
  /\ SaveSeconds < Interval
  /\ Nothing \notin [successes : SUBSET Nat, failures : SUBSET Nat, at : Int]

VARIABLES
  clock,     \* seconds
  posterior, \* router.counts, as [successes, failures]
  lastWrite, \* self._last_write
  now,       \* per thread, the local of that name
  payload,   \* per thread, what it is about to write
  key,       \* the Redis key
  stopping   \* the server has stopped accepting requests

snapshotLocals == <<now, payload>>
snapshotVars == <<clock, posterior, lastWrite, key, stopping, snapshotLocals>>

Cold == [successes |-> {}, failures |-> {}]

\* time.monotonic() is far from zero when a process starts.
LongAgo == -Interval

SnapshotInit ==
  /\ clock = 0
  /\ posterior = Cold
  /\ lastWrite = LongAgo
  /\ now = [t \in Threads |-> 0]
  /\ payload = [t \in Threads |-> Nothing]
  /\ key = Nothing
  /\ stopping = FALSE

\* The save is due, or forced at shutdown.  Mutant: it never is forced.
DueOnly == clock - lastWrite >= Interval
Due == clock - lastWrite >= Interval \/ stopping

\* Mutant: a save that is not due is remembered as made.
CheckStamps(t) ==
  /\ pc[t] = "save"
  /\ lastWrite' = clock
  /\ IF Due
     THEN now' = [now EXCEPT ![t] = clock] /\ Goto(t, "stamp")
     ELSE Goto(t, "idle") /\ UNCHANGED now
  /\ UNCHANGED <<clock, posterior, payload, key, stopping, faults>>

Check(t) ==
  /\ pc[t] = "save"
  /\ IF Due
     THEN now' = [now EXCEPT ![t] = clock] /\ Goto(t, "stamp")
     ELSE Goto(t, "idle") /\ UNCHANGED now
  /\ UNCHANGED <<clock, posterior, lastWrite, payload, key, stopping, faults>>

Stamp(t) ==
  /\ pc[t] = "stamp"
  /\ lastWrite' = now[t]
  /\ Goto(t, "successes")
  /\ UNCHANGED <<clock, posterior, key, stopping, snapshotLocals, faults>>

CopySuccesses(t) ==
  /\ pc[t] = "successes"
  /\ payload' = [payload EXCEPT ![t] =
                   [successes |-> posterior.successes, failures |-> {}, at |-> now[t]]]
  /\ Goto(t, "failures")
  /\ UNCHANGED <<clock, posterior, lastWrite, now, key, stopping, faults>>

CopyFailures(t) ==
  /\ pc[t] = "failures"
  /\ payload' = [payload EXCEPT ![t].failures = posterior.failures]
  /\ Goto(t, "set")
  /\ UNCHANGED <<clock, posterior, lastWrite, now, key, stopping, faults>>

\* client.set: after a failure the payload is dropped, although a call that times
\* out may have written it.
Set(t) ==
  /\ pc[t] = "set"
  /\ \/ key' = payload[t] /\ UNCHANGED faults
     \/ Fault /\ key' \in {key, payload[t]}
  /\ payload' = [payload EXCEPT ![t] = Nothing]
  /\ now' = [now EXCEPT ![t] = 0]
  /\ Goto(t, "idle")
  /\ UNCHANGED <<clock, posterior, lastWrite, stopping>>

\* restore(): the arrays of the key, or none when there is no key.
Restored ==
  IF key = Nothing THEN Cold
  ELSE [successes |-> key.successes, failures |-> key.failures]

SnapshotStep(t) == Check(t) \/ Stamp(t) \/ CopySuccesses(t) \/ CopyFailures(t) \/ Set(t)

\* A save that is under way is not older than SaveSeconds (the client's timeouts).
SavesArePrompt ==
  \A t \in Threads :
    pc[t] \in {"stamp", "successes", "failures", "set"} => clock < now[t] + SaveSeconds

Second ==
  /\ clock < MaxClock
  /\ SavesArePrompt
  /\ clock' = clock + 1
  /\ UNCHANGED <<posterior, lastWrite, key, stopping, snapshotLocals, pc, faults>>

\* A replica that shares the key, and has seen none of these outcomes, saves.
PeerSaves ==
  /\ Fault
  /\ key' = [successes |-> {}, failures |-> {}, at |-> clock]
  /\ UNCHANGED <<clock, posterior, lastWrite, stopping, snapshotLocals, pc>>

===============================================================================
