------------------------------ MODULE TraceStore ------------------------------
(***************************************************************************)
(* Where investigations are recorded (src/agent/traces.py and              *)
(* langfuse_sink.py).  Each session opens a TraceStore of its own; the     *)
(* backend is chosen by the settings they share.  A write never raises: it *)
(* is counted as written or as failed.                                     *)
(***************************************************************************)
EXTENDS Integers, Sequences

CONSTANTS
  Sessions,
  MaxFaults  \* bound: faults of the backends, the network and the disk

ASSUME TraceAssumption == MaxFaults \in Nat

VARIABLES
  store,   \* session -> its TraceStore
  rows,    \* the records PostgreSQL has committed or the Langfuse client has queued
  file,    \* the JSONL file: what each append has left of its record
  faults

traceVars == <<store, rows, file, faults>>

NoStore ==
  [ backend |-> "none", conn |-> "none", client |-> FALSE,
    written |-> 0, failures |-> 0, warned |-> FALSE, traced |-> 0 ]

TraceInit ==
  /\ store = [s \in Sessions |-> NoStore]
  /\ rows = {}
  /\ file = <<>>
  /\ faults = 0

Fault ==
  /\ faults < MaxFaults
  /\ faults' = faults + 1

\* TraceStore.__init__: the Langfuse client may refuse its configuration.
OpenStore(s, cfg) ==
  \E client \in IF cfg.backend = "langfuse" /\ cfg.driver THEN BOOLEAN ELSE {FALSE} :
    store' = [store EXCEPT ![s] = [NoStore EXCEPT !.backend = cfg.backend, !.client = client]]

\* traced numbers the records of the session (auxiliary).
Record(s) == <<s, store[s].traced + 1>>

Wrote(s, conn) ==
  store' = [store EXCEPT ![s].written = @ + 1, ![s].traced = @ + 1, ![s].conn = conn]

\* Counted, and printed the first time.
Failed(s, conn) ==
  store' = [store EXCEPT ![s].failures = @ + 1, ![s].traced = @ + 1, ![s].warned = TRUE,
                         ![s].conn = conn]

\* _connect fails: no driver, or no answer within connect_timeout.
ConnectFails(s, driver) ==
  /\ store[s].conn = "none"
  /\ IF driver THEN Fault ELSE UNCHANGED faults
  /\ Failed(s, "none")
  /\ UNCHANGED rows

Usable(s, driver) == store[s].conn = "open" \/ (store[s].conn = "none" /\ driver)

Inserted(s, driver) ==
  /\ Usable(s, driver)
  /\ Wrote(s, "open")
  /\ rows' = rows \cup {Record(s)}
  /\ UNCHANGED faults

\* The statement is refused; the rollback leaves the connection usable.
StatementFails(s, driver) ==
  /\ Usable(s, driver) /\ Fault
  /\ Failed(s, "open")
  /\ UNCHANGED rows

\* The connection is lost before the commit is acknowledged: rollback() raises
\* too, close() drops the connection, and the row may be there.
ConnectionLost(s, driver) ==
  /\ Usable(s, driver) /\ Fault
  /\ Failed(s, "none")
  /\ rows' \in {rows, rows \cup {Record(s)}}

\* Mutant: the connection is kept when the rollback raises.
DeadConnectionKept(s) ==
  /\ store[s].conn = "dead"
  /\ Failed(s, "dead")
  /\ UNCHANGED <<rows, faults>>

\* The server closed the connection since the last write; closed still says 0.
DeadConnection(s) ==
  /\ store[s].conn = "dead"
  /\ Failed(s, "none")
  /\ UNCHANGED <<rows, faults>>

WritePostgres(s, driver) ==
  /\ store[s].backend = "postgres"
  /\ \/ ConnectFails(s, driver)
     \/ Inserted(s, driver)
     \/ StatementFails(s, driver)
     \/ ConnectionLost(s, driver)
     \/ DeadConnection(s)
  /\ UNCHANGED file

\* Mutant: the store leaves the counting to the sink, which has not counted.
SinkAbsentUncounted(s) ==
  /\ ~store[s].client
  /\ store' = [store EXCEPT ![s].traced = @ + 1]
  /\ UNCHANGED <<rows, faults>>

\* The sink returns False at once: nobody has warned, the store only counts.
SinkAbsent(s) ==
  /\ ~store[s].client
  /\ store' = [store EXCEPT ![s].failures = @ + 1, ![s].traced = @ + 1]
  /\ UNCHANGED <<rows, faults>>

\* _emit queues the observations of a record; an error in between leaves those
\* that were ended.
Emit(s) ==
  /\ store[s].client
  /\ \/ /\ Wrote(s, "none")
        /\ rows' = rows \cup {Record(s)}
        /\ UNCHANGED faults
     \/ /\ Fault
        /\ Failed(s, "none")
        /\ UNCHANGED rows

WriteLangfuse(s) ==
  /\ store[s].backend = "langfuse"
  /\ SinkAbsent(s) \/ Emit(s)
  /\ UNCHANGED file

\* _write_jsonl: a line reaches the file in one write(2), of which a full disk
\* may take a part.
Appended(s, part) == file' = Append(file, [record |-> Record(s), part |-> part])

AppendLine(s) ==
  /\ Appended(s, "line")
  /\ Wrote(s, "none")
  /\ UNCHANGED faults

AppendFails(s) ==
  /\ Fault
  /\ Appended(s, "torn") \/ UNCHANGED file
  /\ Failed(s, "none")

WriteJsonl(s) ==
  /\ store[s].backend = "jsonl"
  /\ AppendLine(s) \/ AppendFails(s)
  /\ UNCHANGED rows

\* close(): the Langfuse client is flushed and shut down, the connection closed.
CloseStore(s) ==
  /\ store' = [store EXCEPT ![s].client = FALSE, ![s].conn = "none"]
  /\ UNCHANGED <<rows, file, faults>>

\* PostgreSQL restarts, or drops an idle connection.
ServerDrops(s) ==
  /\ store[s].conn = "open"
  /\ Fault
  /\ store' = [store EXCEPT ![s].conn = "dead"]
  /\ UNCHANGED <<rows, file>>

\* TraceStore.write, when the backend is not "none".
WriteTrace(s, driver) == WritePostgres(s, driver) \/ WriteLangfuse(s) \/ WriteJsonl(s)

\* The records that can be read back: committed, queued, or alone on a line.
Readable ==
  rows \cup {file[i].record : i \in {j \in DOMAIN file : /\ file[j].part = "line"
                                                         /\ j = 1 \/ file[j - 1].part = "line"}}

Torn == {i \in DOMAIN file : file[i].part = "torn"}

===============================================================================
