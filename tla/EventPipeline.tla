----------------------------- MODULE EventPipeline -----------------------------
(***************************************************************************)
(* Where an outcome goes (service/events.py): the Kafka producer, then     *)
(* ClickHouse's buffer, sent as one batch when it is full.                 *)
(*                                                                         *)
(* publish runs on many threads and the sink has no lock.  Steps are cut   *)
(* where the interpreter may switch threads, at calls: `rows = self.buffer;*)
(* self.buffer = []` has none and is one step, `self.buffer.append(        *)
(* event.to_dict())` has one between looking the list up and appending to  *)
(* it.  A Python list is a position of lists; the last is self.buffer.     *)
(***************************************************************************)
EXTENDS Handlers

CONSTANT BatchSize

ASSUME PipelineAssumption == BatchSize \in Nat \ {0}

VARIABLES
  event,     \* per thread, the outcome it publishes
  lists,     \* every list self.buffer has been bound to, oldest first
  ref,       \* per thread, the list its call is about to append to, or sends
  body,      \* per thread, the rows it has rendered
  ok,        \* per thread, what _post returned
  tmp,       \* per thread, a counter's new value, not yet written
  published, \* kafka.published
  lost,      \* kafka.failures
  inserted, failures, \* of the ClickHouse sink
  table      \* the rows ClickHouse holds

pipelineLocals == <<event, ref, body, ok, tmp>>
pipelineVars == <<lists, published, lost, inserted, failures, table, pipelineLocals>>

\* self.buffer
Buffer == lists[Len(lists)]

PipelineInit ==
  /\ event = [t \in Threads |-> 0]
  /\ lists = << <<>> >>
  /\ ref = [t \in Threads |-> 0]
  /\ body = [t \in Threads |-> <<>>]
  /\ ok = [t \in Threads |-> FALSE]
  /\ tmp = [t \in Threads |-> 0]
  /\ published = 0 /\ lost = 0 /\ inserted = 0 /\ failures = 0
  /\ table = <<>>

\* What a new process starts with; ClickHouse keeps its rows.
Forgotten ==
  /\ event' = [t \in Threads |-> 0]
  /\ lists' = << <<>> >>
  /\ ref' = [t \in Threads |-> 0]
  /\ body' = [t \in Threads |-> <<>>]
  /\ ok' = [t \in Threads |-> FALSE]
  /\ tmp' = [t \in Threads |-> 0]
  /\ published' = 0 /\ lost' = 0 /\ inserted' = 0 /\ failures' = 0

\* What is left of a handler's locals when events.publish or flush returns.
Forget(t) ==
  /\ event' = [event EXCEPT ![t] = 0]
  /\ ref' = [ref EXCEPT ![t] = 0]
  /\ body' = [body EXCEPT ![t] = <<>>]
  /\ ok' = [ok EXCEPT ![t] = FALSE]
  /\ tmp' = [tmp EXCEPT ![t] = 0]

-------------------------------------------------------------------------------

\* KafkaSink.publish: produce queues the event or raises; either way it returns.
Produce(t) ==
  /\ pc[t] = "produce"
  /\ \/ published' = published + 1 /\ UNCHANGED <<lost, faults>>
     \/ Fault /\ lost' = lost + 1 /\ UNCHANGED published
  /\ Goto(t, "lookup")
  /\ UNCHANGED <<lists, inserted, failures, table, pipelineLocals>>

\* ClickHouseSink.publish looks self.buffer.append up, then renders the event.
Lookup(t) ==
  /\ pc[t] = "lookup"
  /\ ref' = [ref EXCEPT ![t] = Len(lists)]
  /\ Goto(t, "append")
  /\ UNCHANGED <<lists, published, lost, inserted, failures, table, event, body, ok, tmp, faults>>

AppendRow(t) ==
  /\ pc[t] = "append"
  /\ lists' = [lists EXCEPT ![ref[t]] = Append(@, event[t])]
  /\ Goto(t, "full")
  /\ UNCHANGED <<published, lost, inserted, failures, table, pipelineLocals, faults>>

\* Mutant: one more than a batch.
OverFull == Len(Buffer) > BatchSize
Full == Len(Buffer) >= BatchSize

CheckFull(t) ==
  /\ pc[t] = "full"
  /\ IF Full
     THEN Goto(t, "flush") /\ UNCHANGED pipelineLocals
     ELSE Goto(t, "save") /\ Forget(t)
  /\ UNCHANGED <<lists, published, lost, inserted, failures, table, faults>>

\* flush: an empty buffer is left alone, any other is taken and replaced.
\* Mutant: it is taken, but not replaced.
TakeOnly(t) ==
  /\ pc[t] = "flush"
  /\ IF Buffer = <<>>
     THEN Goto(t, "save") /\ Forget(t) /\ UNCHANGED lists
     ELSE /\ ref' = [ref EXCEPT ![t] = Len(lists)]
          /\ Goto(t, "render")
          /\ UNCHANGED <<lists, event, body, ok, tmp>>
  /\ UNCHANGED <<published, lost, inserted, failures, table, faults>>

Flush(t) ==
  /\ pc[t] = "flush"
  /\ IF Buffer = <<>>
     THEN Goto(t, "save") /\ Forget(t) /\ UNCHANGED lists
     ELSE /\ ref' = [ref EXCEPT ![t] = Len(lists)]
          /\ lists' = Append(lists, <<>>)
          /\ Goto(t, "render")
          /\ UNCHANGED <<event, body, ok, tmp>>
  /\ UNCHANGED <<published, lost, inserted, failures, table, faults>>

\* "\n".join(json.dumps(r) for r in rows): the rows the list holds by now.
Render(t) ==
  /\ pc[t] = "render"
  /\ body' = [body EXCEPT ![t] = lists[ref[t]]]
  /\ Goto(t, "post")
  /\ UNCHANGED <<lists, published, lost, inserted, failures, table, event, ref, ok, tmp, faults>>

\* The insert.  A call that times out may have inserted the rows all the same.
Post(t) ==
  /\ pc[t] = "post"
  /\ \/ table' = table \o body[t] /\ ok' = [ok EXCEPT ![t] = TRUE] /\ UNCHANGED faults
     \/ Fault /\ table' \in {table, table \o body[t]} /\ UNCHANGED ok
  /\ Goto(t, "count")
  /\ UNCHANGED <<lists, published, lost, inserted, failures, event, ref, body, tmp>>

\* An error that is no OSError (http.client.HTTPException) leaves _post, flush and
\* publish: the request is answered 500, what follows publish does not happen.
PostRaises(t) ==
  /\ pc[t] = "post"
  /\ Fault
  /\ table' \in {table, table \o body[t]}
  /\ Goto(t, "idle")
  /\ Forget(t)
  /\ UNCHANGED <<lists, published, lost, inserted, failures>>

\* self.inserted (or failures) += len(rows): the counter is read, then len is
\* called, then the sum is written.  Mutant: the batch size is added.
PlusBatchSize(t) == BatchSize
RowsOf(t) == Len(lists[ref[t]])

CountRead(t) ==
  /\ pc[t] = "count"
  /\ tmp' = [tmp EXCEPT ![t] = (IF ok[t] THEN inserted ELSE failures) + RowsOf(t)]
  /\ Goto(t, "counted")
  /\ UNCHANGED <<lists, published, lost, inserted, failures, table, event, ref, body, ok, faults>>

CountWrite(t) ==
  /\ pc[t] = "counted"
  /\ IF ok[t] THEN inserted' = tmp[t] /\ UNCHANGED failures
              ELSE failures' = tmp[t] /\ UNCHANGED inserted
  /\ Goto(t, "save")
  /\ Forget(t)
  /\ UNCHANGED <<lists, published, lost, table, faults>>

PipelineStep(t) ==
  \/ Produce(t) \/ Lookup(t) \/ AppendRow(t) \/ CheckFull(t) \/ Flush(t) \/ Render(t)
  \/ Post(t) \/ PostRaises(t) \/ CountRead(t) \/ CountWrite(t)

-------------------------------------------------------------------------------
(* Properties                                                                *)

\* Off-policy evaluation weighs every logged decision once (events.py:3): no
\* outcome is in ClickHouse twice, however flushes overlap, whatever they fail
\* with, and across restarts.
NoRowTwice == \A i, j \in DOMAIN table : table[i] = table[j] => i = j

\* The sink batches because ClickHouse degrades under small inserts, and must not
\* hold rows back either: when no handler runs, less than a batch is waiting.
FullBatchIsSent == AllIdle => Len(Buffer) < BatchSize

\* What the ClickHouse sink accounts for is what the pipeline was given: a row is
\* not counted in two batches, nor both as sent and as waiting.
CountedOnce == inserted + failures + Len(Buffer) <= published + lost

===============================================================================
