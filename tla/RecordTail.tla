------------------------------- MODULE RecordTail -------------------------------
(***************************************************************************)
(* An outcome from the moment RouterService.record has absorbed it         *)
(* (service/api.py): events.publish, then snapshot.maybe_save, each on the *)
(* thread of the request and outside the lock; the flush and the forced    *)
(* save of a server that stops; and the process that follows, or that      *)
(* follows a crash, which restores the snapshot.                           *)
(***************************************************************************)
EXTENDS EventPipeline, PosteriorSnapshot

CONSTANT MaxOutcomes \* bound: outcomes recorded

ASSUME TailAssumption == MaxOutcomes \in Nat

VARIABLE credited \* when each outcome was absorbed, in order (auxiliary)

vars == <<pc, faults, pipelineVars, snapshotVars, credited>>

Init ==
  /\ pc = [t \in Threads |-> "idle"]
  /\ faults = 0
  /\ PipelineInit
  /\ SnapshotInit
  /\ credited = <<>>

\* record() up to the release of the lock: the posterior absorbs the outcome.
Record(t) ==
  LET o == Len(credited) + 1 IN
  /\ pc[t] = "idle" /\ ~stopping /\ Len(credited) < MaxOutcomes
  /\ credited' = Append(credited, clock)
  /\ posterior' = [ successes |-> posterior.successes \cup {o},
                    failures  |-> posterior.failures \cup {o} ]
  /\ event' = [event EXCEPT ![t] = o]
  /\ Goto(t, "produce")
  /\ UNCHANGED <<faults, lists, published, lost, inserted, failures, table, ref, body, ok, tmp,
                 clock, lastWrite, key, stopping, snapshotLocals>>

Publish(t) == PipelineStep(t) /\ UNCHANGED <<snapshotVars, credited>>

Save(t) == SnapshotStep(t) /\ UNCHANGED <<pipelineVars, credited>>

\* lifespan, after yield: every request has been answered.  events.flush has
\* Kafka's producer send what it holds, then the ClickHouse sink; the save
\* that follows is forced.
Shutdown(t) ==
  /\ AllIdle /\ ~stopping
  /\ stopping' = TRUE
  /\ Goto(t, "flush")
  /\ UNCHANGED <<faults, pipelineVars, clock, posterior, lastWrite, key, snapshotLocals, credited>>

\* RouterService.__init__ in a new process.
Start(counts) ==
  /\ pc' = [t \in Threads |-> "idle"]
  /\ Forgotten
  /\ posterior' = counts
  /\ lastWrite' = LongAgo
  /\ now' = [t \in Threads |-> 0]
  /\ payload' = [t \in Threads |-> Nothing]
  /\ stopping' = FALSE
  /\ UNCHANGED <<table, clock, key, credited>>

\* The server has stopped and is started again.
Restart ==
  /\ stopping /\ AllIdle
  /\ Start(Restored)
  /\ UNCHANGED faults

\* The process dies anywhere, or restarts and Redis does not answer restore().
Crash ==
  /\ Fault
  /\ Start(Restored) \/ (stopping /\ AllIdle /\ Start(Cold))

Tick == Second /\ UNCHANGED <<pipelineVars, credited>>

Peer == PeerSaves /\ UNCHANGED <<pipelineVars, credited>>

Next ==
  \/ \E t \in Threads : Record(t) \/ Publish(t) \/ Save(t) \/ Shutdown(t)
  \/ Restart \/ Crash \/ Tick \/ Peer

Spec == Init /\ [][Next]_vars

-------------------------------------------------------------------------------
(* Properties                                                                *)

\* "Losing the last few seconds of counts" (state.py:24), and no others: unless a
\* backend fails, the process crashes or a peer writes the key, an outcome that is
\* not in the snapshot when no handler runs was absorbed after the snapshot was
\* begun, by less than an interval and the length of a save.
SnapshotKeepsUp ==
  faults = 0 /\ AllIdle =>
    \A o \in DOMAIN credited :
      /\ key # Nothing
      /\ \/ o \in key.successes /\ o \in key.failures
         \/ /\ credited[o] >= key.at
            /\ credited[o] < key.at + Interval + SaveSeconds

\* A server that stops in order loses nothing: the snapshot is the posterior with
\* every outcome in it, and the buffer is empty.
CleanStopKeepsAll ==
  faults = 0 /\ stopping /\ AllIdle =>
    /\ key # Nothing
    /\ key.successes = DOMAIN credited /\ key.failures = DOMAIN credited
    /\ Buffer = <<>>

\* "Both count failures, and both degrade to dropping events" (events.py:25): as
\* long as nothing fails, no event is dropped, each is in ClickHouse or waits in
\* the buffer for the next batch.
NothingDropped ==
  faults = 0 /\ AllIdle =>
    \A o \in DOMAIN credited :
      \/ \E n \in DOMAIN table : table[n] = o
      \/ \E n \in DOMAIN Buffer : Buffer[n] = o

===============================================================================
