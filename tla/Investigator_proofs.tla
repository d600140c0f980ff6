-------------------------- MODULE Investigator_proofs --------------------------
(***************************************************************************)
(* Proofs about Investigator, for any sessions of any programs, any        *)
(* environment, any arms and any number of faults: what a trace store has  *)
(* counted is given by how far its session has come and, over all of them, *)
(* by the faults there were and what can be read back; what a trace says   *)
(* of its prompt by the way the prompt was resolved; what is remembered as *)
(* a fact by the episodes it was derived from.                             *)
(***************************************************************************)
EXTENDS Investigator, FiniteSetTheorems, TLAPS

-------------------------------------------------------------------------------
(* Types                                                                     *)

Backends == {"none", "jsonl", "postgres", "langfuse"}

StoreRecord ==
  [ backend : Backends, conn : {"none", "open", "dead"}, client : BOOLEAN,
    written : Nat, failures : Nat, warned : BOOLEAN, traced : Nat ]

Places ==
  {"idle", "building", "investigating", "tracing", "next", "closing", "done", "failed"}

Types ==
  /\ store \in [Sessions -> StoreRecord]
  /\ kind \in [Sessions -> AllPrograms]
  /\ pc \in [Sessions -> Places]
  /\ at \in [Sessions -> Nat]
  /\ prompt = [s \in Sessions |-> prompt[s]]

-------------------------------------------------------------------------------
(* The inductive invariants, each of one session                             *)

Counted(s) == store[s].written + store[s].failures

Working == {"building", "investigating", "tracing", "next"}

\* What the counters are, and which failures nobody was told of: all those of a
\* Langfuse store that never had its client.
Accounted(s) ==
  /\ pc[s] = "idle" => at[s] = 1 /\ store[s] = NoStore
  /\ store[s].backend # "none" =>
       /\ Counted(s) \in {at[s] - 1, at[s]}
       /\ pc[s] = "next" => Counted(s) = at[s]
       /\ pc[s] \in {"building", "investigating", "tracing"} => Counted(s) = at[s] - 1
  /\ store[s].failures > 0 /\ ~store[s].warned =>
       /\ store[s].written = 0
       /\ store[s].backend = "langfuse" /\ ~store[s].client
  /\ store[s].backend = "langfuse" /\ ~store[s].client /\ pc[s] \in Working =>
       store[s].written = 0 /\ ~store[s].warned

\* A request has no prompt unless its Investigator is built; then it closes.
Shut(s) ==
  /\ pc[s] = "done" /\ Closes(s) => store[s].conn = "none" /\ ~store[s].client
  /\ kind[s] = "service" /\ pc[s] \in {"idle", "building", "failed"} => prompt[s] = NoPrompt

SessionInv == Types /\ \A s \in Sessions : Accounted(s) /\ Shut(s)

-------------------------------------------------------------------------------
(* Lemmas                                                                    *)

\* What a write may do to its store, its files and the count of faults: it counts
\* the record as written, as failed and announced, or, without a client, as failed.
AsWritten(s, v) ==
  /\ v.written = store[s].written + 1 /\ v.failures = store[s].failures
  /\ v.warned = store[s].warned /\ v.conn # "dead"
  /\ v.backend = "langfuse" => v.client
  /\ faults' = faults
  /\ \/ rows' = rows \cup {Record(s)} /\ file' = file
     \/ rows' = rows /\ Appended(s, "line")

AsFailed(s, v, driver) ==
  /\ v.written = store[s].written /\ v.failures = store[s].failures + 1
  /\ v.warned /\ v.conn # "dead"
  /\ v.backend = "langfuse" => v.client
  /\ \/ faults < MaxFaults /\ faults' = faults + 1
     \/ faults' = faults /\ (store[s].conn = "dead" \/ ~driver)
  /\ \/ rows' \in {rows, rows \cup {Record(s)}} /\ file' = file
     \/ rows' = rows /\ Appended(s, "torn")

AsUntold(s, v) ==
  /\ v.written = store[s].written /\ v.failures = store[s].failures + 1
  /\ v.warned = store[s].warned /\ v.conn = store[s].conn
  /\ v.backend = "langfuse" /\ ~v.client
  /\ UNCHANGED <<rows, file, faults>>

Counts(s, v, driver) ==
  /\ store' = [store EXCEPT ![s] = v]
  /\ v.backend = store[s].backend /\ v.client = store[s].client
  /\ v.traced = store[s].traced + 1
  /\ AsWritten(s, v) \/ AsFailed(s, v, driver) \/ AsUntold(s, v)

LEMMA WriteEffect ==
  ASSUME Types, NEW s \in Sessions, NEW driver, WriteTrace(s, driver)
  PROVE  \E v \in StoreRecord : Counts(s, v, driver)
<1> DEFINE old == store[s]
<1>1. store \in [Sessions -> StoreRecord] /\ old \in StoreRecord
  BY DEF Types
<1>2. ASSUME NEW conn \in {"none", "open"}, Wrote(s, conn), faults' = faults,
             old.backend = "langfuse" => old.client,
             \/ rows' = rows \cup {Record(s)} /\ file' = file
             \/ rows' = rows /\ Appended(s, "line")
      PROVE  \E v \in StoreRecord : Counts(s, v, driver)
  <2> DEFINE v == [old EXCEPT !.written = @ + 1, !.traced = @ + 1, !.conn = conn]
  <2>1. v \in StoreRecord /\ store' = [store EXCEPT ![s] = v]
    BY <1>1, <1>2 DEF Wrote, StoreRecord
  <2>2. /\ v.backend = old.backend /\ v.client = old.client /\ v.traced = old.traced + 1
        /\ v.written = old.written + 1 /\ v.failures = old.failures
        /\ v.warned = old.warned /\ v.conn # "dead"
    BY <1>1, <1>2 DEF StoreRecord
  <2> HIDE DEF v
  <2>3. AsWritten(s, v)
    BY <1>2, <2>2 DEF AsWritten
  <2> QED
    BY <2>1, <2>2, <2>3 DEF Counts
<1>3. ASSUME NEW conn \in {"none", "open"}, Failed(s, conn),
             old.backend = "langfuse" => old.client,
             \/ faults < MaxFaults /\ faults' = faults + 1
             \/ faults' = faults /\ (old.conn = "dead" \/ ~driver),
             \/ rows' \in {rows, rows \cup {Record(s)}} /\ file' = file
             \/ rows' = rows /\ Appended(s, "torn")
      PROVE  \E v \in StoreRecord : Counts(s, v, driver)
  <2> DEFINE v == [old EXCEPT !.failures = @ + 1, !.traced = @ + 1, !.warned = TRUE,
                              !.conn = conn]
  <2>1. v \in StoreRecord /\ store' = [store EXCEPT ![s] = v]
    BY <1>1, <1>3 DEF Failed, StoreRecord
  <2>2. /\ v.backend = old.backend /\ v.client = old.client /\ v.traced = old.traced + 1
        /\ v.written = old.written /\ v.failures = old.failures + 1
        /\ v.warned /\ v.conn # "dead"
    BY <1>1, <1>3 DEF StoreRecord
  <2> HIDE DEF v
  <2>3. AsFailed(s, v, driver)
    BY <1>3, <2>2 DEF AsFailed
  <2> QED
    BY <2>1, <2>2, <2>3 DEF Counts
<1>4. ASSUME SinkAbsent(s), old.backend = "langfuse", file' = file
      PROVE  \E v \in StoreRecord : Counts(s, v, driver)
  <2> DEFINE v == [old EXCEPT !.failures = @ + 1, !.traced = @ + 1]
  <2>1. v \in StoreRecord /\ store' = [store EXCEPT ![s] = v]
    BY <1>1, <1>4 DEF SinkAbsent, StoreRecord
  <2>2. /\ v.backend = old.backend /\ v.client = old.client /\ v.traced = old.traced + 1
        /\ v.written = old.written /\ v.failures = old.failures + 1
        /\ v.warned = old.warned /\ v.conn = old.conn
    BY <1>1 DEF StoreRecord
  <2> HIDE DEF v
  <2>3. AsUntold(s, v)
    BY <1>4, <2>2 DEF AsUntold, SinkAbsent
  <2> QED
    BY <2>1, <2>2, <2>3 DEF Counts
<1>5. CASE WritePostgres(s, driver)
  <2>1. old.backend = "postgres" /\ file' = file
    BY <1>5 DEF WritePostgres
  <2>2. CASE Inserted(s, driver)
    BY <1>2, <2>1, <2>2 DEF Inserted
  <2>3. CASE ConnectFails(s, driver)
    BY <1>3, <2>1, <2>3 DEF ConnectFails, Fault
  <2>4. CASE StatementFails(s, driver)
    BY <1>3, <2>1, <2>4 DEF StatementFails, Fault
  <2>5. CASE ConnectionLost(s, driver)
    BY <1>3, <2>1, <2>5 DEF ConnectionLost, Fault
  <2>6. CASE DeadConnection(s)
    BY <1>3, <2>1, <2>6 DEF DeadConnection
  <2> QED
    BY <1>5, <2>2, <2>3, <2>4, <2>5, <2>6 DEF WritePostgres
<1>6. CASE WriteLangfuse(s)
  <2>1. old.backend = "langfuse" /\ file' = file /\ (SinkAbsent(s) \/ Emit(s))
    BY <1>6 DEF WriteLangfuse
  <2>2. ASSUME Emit(s)
        PROVE  \E v \in StoreRecord : Counts(s, v, driver)
    <3>1. old.client
      BY <2>2 DEF Emit
    <3>2. \/ Wrote(s, "none") /\ rows' = rows \cup {Record(s)} /\ faults' = faults
          \/ Failed(s, "none") /\ rows' = rows /\ faults < MaxFaults /\ faults' = faults + 1
      BY <2>2 DEF Emit, Fault
    <3> QED
      BY <1>2, <1>3, <2>1, <3>1, <3>2
  <2> QED
    BY <1>4, <2>1, <2>2
<1>7. CASE WriteJsonl(s)
  <2>1. old.backend = "jsonl" /\ rows' = rows /\ (AppendLine(s) \/ AppendFails(s))
    BY <1>7 DEF WriteJsonl
  <2>2. CASE AppendLine(s)
    BY <1>2, <2>1, <2>2 DEF AppendLine
  <2>3. CASE AppendFails(s)
    BY <1>3, <2>1, <2>3 DEF AppendFails, Fault
  <2> QED
    BY <2>1, <2>2, <2>3
<1> QED
  BY <1>5, <1>6, <1>7 DEF WriteTrace

\* A step of a session is nothing to another one.
LEMMA Elsewhere ==
  ASSUME NEW s \in Sessions, Types, kind' = kind,
         \A r \in Sessions \ {s} :
           /\ store'[r] = store[r] /\ pc'[r] = pc[r] /\ at'[r] = at[r] /\ prompt'[r] = prompt[r],
         \A r \in Sessions : Accounted(r) /\ Shut(r),
         Types', Accounted(s)', Shut(s)'
  PROVE  SessionInv'
<1>1. ASSUME NEW r \in Sessions, r # s
      PROVE  Accounted(r)' /\ Shut(r)'
  <2>1. Accounted(r)'
    BY <1>1 DEF Accounted, Counted
  <2>2. Shut(r)'
    BY <1>1 DEF Shut, Closes
  <2> QED
    BY <2>1, <2>2
<1> QED
  BY <1>1 DEF SessionInv

LEMMA OpenKept ==
  ASSUME SessionInv, NEW s \in Sessions, Open(s)
  PROVE  SessionInv'
<1>1. Types /\ Accounted(s) /\ Shut(s) /\ pc[s] = "idle" /\ kind' = kind
  BY DEF SessionInv, Open, world
<1>2. at[s] = 1 /\ store[s] = NoStore /\ at' = at /\ prompt' = prompt
  BY <1>1 DEF Accounted, Open, sessionVars
<1>3. \/ UNCHANGED store
      \/ SettingsValid(env) /\ pc' = [pc EXCEPT ![s] = "building"] /\ OpenStore(s, cfg)
  BY DEF Open, Goto
<1>4. pc' = [pc EXCEPT ![s] = "building"] \/ pc' = [pc EXCEPT ![s] = "failed"]
  BY DEF Open, Goto
<1>5. \E v \in StoreRecord :
        /\ store' = [store EXCEPT ![s] = v]
        /\ v.written = 0 /\ v.failures = 0 /\ ~v.warned
  <2>1. CASE UNCHANGED store
    BY <1>1, <1>2, <2>1 DEF Types, NoStore
  <2>2. CASE SettingsValid(env) /\ OpenStore(s, cfg)
    <3>1. cfg.backend \in Backends
      BY <2>2 DEF SettingsValid, TraceSettingsValid, cfg, SettingsOf, Backends
    <3>2. PICK client \in BOOLEAN :
            store' = [store EXCEPT ![s] = [NoStore EXCEPT !.backend = cfg.backend, !.client = client]]
      BY <2>2 DEF OpenStore
    <3> HIDE DEF cfg
    <3> DEFINE v == [NoStore EXCEPT !.backend = cfg.backend, !.client = client]
    <3>3. v \in StoreRecord
      BY <3>1 DEF NoStore, StoreRecord
    <3>4. v.written = 0 /\ v.failures = 0 /\ ~v.warned
      BY DEF NoStore
    <3> QED
      BY <3>2, <3>3, <3>4
  <2> QED
    BY <1>3, <2>1, <2>2
<1>6. PICK v \in StoreRecord :
        store' = [store EXCEPT ![s] = v] /\ v.written = 0 /\ v.failures = 0 /\ ~v.warned
  BY <1>5
<1>7. store'[s] = v /\ pc'[s] \in {"building", "failed"}
  BY <1>1, <1>4, <1>6 DEF Types
<1>8. Types'
  BY <1>1, <1>2, <1>4, <1>6 DEF Types, Places
<1>9. Accounted(s)'
  BY <1>2, <1>6, <1>7 DEF Accounted, Counted, StoreRecord
<1>10. Shut(s)'
  BY <1>1, <1>2, <1>7 DEF Shut
<1> QED
  BY <1>1, <1>2, <1>4, <1>6, <1>8, <1>9, <1>10, Elsewhere DEF SessionInv, Types

LEMMA BuildKept ==
  ASSUME SessionInv, NEW s \in Sessions, Build(s)
  PROVE  SessionInv'
<1>1. /\ Types /\ Accounted(s) /\ Shut(s) /\ pc[s] = "building"
      /\ kind' = kind /\ at' = at /\ store' = store
  BY DEF SessionInv, Build, world, traceVars
<1>2. \/ pc' = [pc EXCEPT ![s] = "failed"] /\ prompt' = prompt
      \/ /\ pc' = [pc EXCEPT ![s] = "investigating"]
         /\ \E p : prompt' = [prompt EXCEPT ![s] = p]
  BY DEF Build, Goto
<1>3. CASE pc' = [pc EXCEPT ![s] = "failed"] /\ prompt' = prompt
  <2>1. Types' /\ pc'[s] = "failed"
    BY <1>1, <1>3 DEF Types, Places
  <2>2. Accounted(s)' /\ Shut(s)'
    BY <1>1, <1>3, <2>1 DEF Accounted, Counted, Working, Shut
  <2> QED
    BY <1>1, <1>3, <2>1, <2>2, Elsewhere DEF SessionInv, Types
<1>4. ASSUME pc' = [pc EXCEPT ![s] = "investigating"], NEW p,
             prompt' = [prompt EXCEPT ![s] = p]
      PROVE  SessionInv'
  <2>1. prompt'[s] = p /\ prompt' = [r \in Sessions |-> prompt'[r]]
        /\ \A r \in Sessions \ {s} : prompt'[r] = prompt[r]
    BY <1>1, <1>4 DEF Types
  <2>2. Types' /\ pc'[s] = "investigating"
    BY <1>1, <1>4, <2>1 DEF Types, Places
  <2>3. Accounted(s)' /\ Shut(s)'
    BY <1>1, <2>2 DEF Accounted, Counted, Working, Shut
  <2> QED
    BY <1>1, <1>4, <2>1, <2>2, <2>3, Elsewhere DEF SessionInv, Types
<1> QED
  BY <1>2, <1>3, <1>4

\* The loop itself changes no store; it raises, or goes on to the trace, or past it.
LEMMA InvestigateKept ==
  ASSUME SessionInv, NEW s \in Sessions, Investigate(s) \/ Raise(s)
  PROVE  SessionInv'
<1>1. /\ Types /\ Accounted(s) /\ Shut(s) /\ pc[s] = "investigating"
      /\ kind' = kind /\ at' = at /\ store' = store /\ prompt' = prompt
  BY DEF SessionInv, Investigate, Raise, world, traceVars, sessionVars
<1>2. PICK where :
        /\ pc' = [pc EXCEPT ![s] = where]
        /\ where \in {"next", "tracing", "closing", "failed"}
        /\ where = "next" => store[s].backend = "none"
        /\ where = "failed" => kind[s] # "service"
  BY DEF Investigate, Raise, Goto
<1>3. Types' /\ pc'[s] = where
  BY <1>1, <1>2 DEF Types, Places
<1>4. Accounted(s)' /\ Shut(s)'
  BY <1>1, <1>2, <1>3 DEF Accounted, Counted, Working, Shut
<1> QED
  BY <1>1, <1>2, <1>3, <1>4, Elsewhere DEF SessionInv, Types

LEMMA TraceKept ==
  ASSUME SessionInv, NEW s \in Sessions, Trace(s)
  PROVE  SessionInv'
<1>1. /\ Types /\ Accounted(s) /\ pc[s] = "tracing"
      /\ kind' = kind /\ at' = at /\ prompt' = prompt /\ pc' = [pc EXCEPT ![s] = "next"]
      /\ WriteTrace(s, cfg.driver)
  BY DEF SessionInv, Trace, world, sessionVars, Goto
<1>2. PICK v \in StoreRecord : Counts(s, v, cfg.driver)
  BY <1>1, WriteEffect
<1>3. Types' /\ pc'[s] = "next" /\ store'[s] = v
  BY <1>1, <1>2 DEF Types, Places, Counts
<1>4. store[s] \in StoreRecord /\ at[s] \in Nat /\ store[s].backend # "none"
  BY <1>1 DEF Types, WriteTrace, WritePostgres, WriteLangfuse, WriteJsonl
<1>5. Accounted(s)'
  BY <1>1, <1>2, <1>3, <1>4 DEF Accounted, Counted, Working, StoreRecord,
                                   Counts, AsWritten, AsFailed, AsUntold
<1>6. Shut(s)'
  BY <1>3 DEF Shut
<1> QED
  BY <1>1, <1>2, <1>3, <1>5, <1>6, Elsewhere DEF SessionInv, Types, Counts

LEMMA AdvanceKept ==
  ASSUME SessionInv, NEW s \in Sessions, Advance(s)
  PROVE  SessionInv'
<1>1. /\ Types /\ Accounted(s) /\ pc[s] = "next"
      /\ kind' = kind /\ store' = store /\ prompt' = [prompt EXCEPT ![s] = NoPrompt]
  BY DEF SessionInv, Advance, world, traceVars
<1>2. \/ at' = [at EXCEPT ![s] = @ + 1] /\ pc' = [pc EXCEPT ![s] = "building"]
      \/ at' = at /\ pc' = [pc EXCEPT ![s] = "closing"]
      \/ at' = at /\ pc' = [pc EXCEPT ![s] = "done"] /\ ~Closes(s)
  BY DEF Advance, Goto
<1>3. /\ prompt'[s] = NoPrompt /\ prompt' = [r \in Sessions |-> prompt'[r]]
      /\ \A r \in Sessions \ {s} : prompt'[r] = prompt[r]
  BY <1>1 DEF Types
<1>4. Types'
  BY <1>1, <1>2, <1>3 DEF Types, Places
<1>5. /\ \/ at'[s] = at[s] + 1 /\ pc'[s] = "building"
         \/ at'[s] = at[s] /\ pc'[s] = "closing"
         \/ at'[s] = at[s] /\ pc'[s] = "done" /\ ~Closes(s)'
      /\ \A r \in Sessions \ {s} : at'[r] = at[r] /\ pc'[r] = pc[r]
  BY <1>1, <1>2 DEF Types, Closes
<1>6. store[s] \in StoreRecord /\ at[s] \in Nat
  BY <1>1 DEF Types
<1>7. Accounted(s)'
  BY <1>1, <1>5, <1>6 DEF Accounted, Counted, Working, StoreRecord
<1>8. Shut(s)'
  BY <1>3, <1>5 DEF Shut
<1> QED
  BY <1>1, <1>3, <1>4, <1>5, <1>7, <1>8, Elsewhere DEF SessionInv

LEMMA CloseKept ==
  ASSUME SessionInv, NEW s \in Sessions, Close(s)
  PROVE  SessionInv'
<1>1. /\ Types /\ Accounted(s) /\ pc[s] = "closing"
      /\ kind' = kind /\ at' = at /\ prompt' = prompt /\ pc' = [pc EXCEPT ![s] = "done"]
      /\ store' = [store EXCEPT ![s].client = FALSE, ![s].conn = "none"]
  BY DEF SessionInv, Close, CloseStore, world, Goto
<1> DEFINE v == [store[s] EXCEPT !.client = FALSE, !.conn = "none"]
<1>2. store[s] \in StoreRecord /\ v \in StoreRecord /\ store' = [store EXCEPT ![s] = v]
  BY <1>1 DEF Types, StoreRecord
<1>3. /\ v.backend = store[s].backend /\ v.written = store[s].written
      /\ v.failures = store[s].failures /\ v.warned = store[s].warned
      /\ v.conn = "none" /\ ~v.client
  BY <1>2 DEF StoreRecord
<1> HIDE DEF v
<1>4. Types' /\ pc'[s] = "done" /\ store'[s] = v
  BY <1>1, <1>2 DEF Types, Places
<1>5. Accounted(s)'
  BY <1>1, <1>3, <1>4 DEF Accounted, Counted, Working
<1>6. Shut(s)'
  BY <1>3, <1>4 DEF Shut
<1> QED
  BY <1>1, <1>2, <1>4, <1>5, <1>6, Elsewhere DEF SessionInv, Types

\* The server drops a connection that is open: not that of a store that is closed.
LEMMA DropKept ==
  ASSUME SessionInv, NEW s \in Sessions, Drop(s)
  PROVE  SessionInv'
<1>1. /\ Types /\ Accounted(s) /\ Shut(s) /\ store[s].conn = "open"
      /\ kind' = kind /\ at' = at /\ prompt' = prompt /\ pc' = pc
      /\ store' = [store EXCEPT ![s].conn = "dead"]
  BY DEF SessionInv, Drop, ServerDrops, world, sessionVars
<1> DEFINE v == [store[s] EXCEPT !.conn = "dead"]
<1>2. store[s] \in StoreRecord /\ v \in StoreRecord /\ store' = [store EXCEPT ![s] = v]
  BY <1>1 DEF Types, StoreRecord
<1>3. /\ v.backend = store[s].backend /\ v.written = store[s].written
      /\ v.failures = store[s].failures /\ v.warned = store[s].warned
      /\ v.client = store[s].client
  BY <1>2 DEF StoreRecord
<1>4. pc[s] # "idle"
  BY <1>1 DEF Accounted, NoStore
<1> HIDE DEF v
<1>5. Types' /\ store'[s] = v
  BY <1>1, <1>2 DEF Types
<1>6. Accounted(s)'
  BY <1>1, <1>3, <1>4, <1>5 DEF Accounted, Counted
<1>7. Shut(s)'
  BY <1>1 DEF Shut, Closes
<1> QED
  BY <1>1, <1>2, <1>5, <1>6, <1>7, Elsewhere DEF SessionInv, Types

LEMMA InitiallyInv == Init => SessionInv
<1> SUFFICES ASSUME Init PROVE SessionInv
  OBVIOUS
<1>1. NoStore \in StoreRecord
  BY DEF NoStore, StoreRecord, Backends
<1>2. Types
  BY <1>1, InvestigatorAssumption DEF Init, TraceInit, Types, Places
<1>3. \A s \in Sessions : /\ pc[s] = "idle" /\ at[s] = 1 /\ store[s] = NoStore
                          /\ prompt[s] = NoPrompt
  BY DEF Init, TraceInit
<1>4. \A s \in Sessions : Accounted(s) /\ Shut(s)
  <2> SUFFICES ASSUME NEW s \in Sessions
               PROVE  Accounted(s) /\ Shut(s)
    OBVIOUS
  <2>1. store[s].backend = "none" /\ store[s].failures = 0
    BY <1>3 DEF NoStore
  <2>2. Accounted(s)
    BY <1>3, <2>1 DEF Accounted
  <2>3. Shut(s)
    BY <1>3 DEF Shut
  <2> QED
    BY <2>2, <2>3
<1> QED
  BY <1>2, <1>4 DEF SessionInv

LEMMA SessionKept ==
  ASSUME SessionInv, [Next]_vars
  PROVE  SessionInv'
<1>1. CASE UNCHANGED <<store, kind, pc, at, prompt>>
  BY <1>1 DEF SessionInv, Types, Accounted, Counted, Shut, Closes
<1>2. CASE EditPrompt
  BY <1>1, <1>2 DEF EditPrompt, traceVars, world, sessionVars
<1>3. CASE UNCHANGED vars
  BY <1>1, <1>3 DEF vars, traceVars
<1>4. ASSUME NEW s \in Sessions,
             Open(s) \/ Build(s) \/ Investigate(s) \/ Raise(s) \/ Trace(s)
               \/ Advance(s) \/ Close(s) \/ Drop(s)
      PROVE  SessionInv'
  BY <1>4, OpenKept, BuildKept, InvestigateKept, TraceKept, AdvanceKept, CloseKept, DropKept
<1> QED
  BY <1>2, <1>3, <1>4 DEF Next

-------------------------------------------------------------------------------
(* What a record says of its prompt                                          *)

\* Text and provenance of a prompt resolved under these settings: of the
\* registry, or of one commit, the pinned one if there is one.
Genuine(settings, p) ==
  \/ \E key : p = FromRegistry(key)
  \/ \E commit :
       /\ commit # 0
       /\ settings.commit # 0 => commit = settings.commit
       /\ p.source = "langsmith" /\ p.version = <<"langsmith", p.identifier>>
       /\ p.commit = IF p.hashed THEN commit ELSE settings.commit
       /\ p.text = <<p.identifier, commit, ExtractSystemText(Manifests[commit])>>

ProvenanceInv ==
  /\ live \in Nat \ {0}
  /\ \A s \in Sessions : pc[s] \in {"investigating", "tracing"} => Genuine(cfg, prompt[s])
  /\ \A e \in log : Genuine(cfg, e.prompt) /\ e.recorded = Recorded(e.prompt)

LEMMA ResolvedGenuine ==
  ASSUME live \in Nat \ {0}, NEW settings, NEW requested, NEW reached, NEW hashed
  PROVE  Genuine(settings, Resolve(settings, requested, reached, hashed))
<1>1. \A key : Genuine(settings, FromRegistry(key))
  BY DEF Genuine
<1>2. ASSUME NEW name
      PROVE  Genuine(settings, Hosted(settings, name, hashed))
  <2> DEFINE commit == PulledCommit(settings)
  <2>1. commit # 0 /\ (settings.commit # 0 => commit = settings.commit)
    BY DEF PulledCommit
  <2>2. Hosted(settings, name, hashed).text = <<name, commit, ExtractSystemText(Manifests[commit])>>
    BY DEF Hosted, HostedText
  <2> HIDE DEF commit
  <2> QED
    BY <2>1, <2>2 DEF Genuine, Hosted, commit
<1> QED
  BY <1>1, <1>2 DEF Resolve

LEMMA InitiallyGenuine == Init => ProvenanceInv
  BY DEF Init, ProvenanceInv

\* Prompts are resolved by Build and go into the log by Trace.
LEMMA ProvenanceKept ==
  ASSUME SessionInv, ProvenanceInv, [Next]_vars
  PROVE  ProvenanceInv'
<1>1. env' = env
  BY DEF Next, vars, Open, Build, Investigate, Raise, Trace, Advance, Close, Drop, EditPrompt, world
<1>2. cfg' = cfg
  BY <1>1 DEF cfg
<1>3. live' \in Nat \ {0}
  <2>1. live' = live \/ live' = live + 1
    BY DEF Next, vars, Open, Build, Investigate, Raise, Trace, Advance, Close, Drop, EditPrompt, Edit
  <2> QED
    BY <2>1 DEF ProvenanceInv
<1>4. ASSUME NEW r \in Sessions, pc'[r] \in {"investigating", "tracing"}
      PROVE  Genuine(cfg, prompt'[r])
  <2>1. CASE UNCHANGED <<pc, prompt>>
    BY <1>4, <2>1 DEF ProvenanceInv
  <2>2. CASE EditPrompt \/ UNCHANGED vars
    BY <2>1, <2>2 DEF EditPrompt, sessionVars, vars
  <2>3. ASSUME NEW s \in Sessions,
               Open(s) \/ Raise(s) \/ Trace(s) \/ Advance(s) \/ Close(s) \/ Drop(s)
        PROVE  pc'[r] = pc[r] /\ prompt'[r] = prompt[r]
    <3>1. /\ prompt' = prompt \/ prompt' = [prompt EXCEPT ![s] = NoPrompt]
          /\ \/ pc' = pc
             \/ \E where \in {"building", "failed", "next", "closing", "done"} :
                  pc' = [pc EXCEPT ![s] = where]
      BY <2>3 DEF Open, Raise, Trace, Advance, Close, Drop, Goto, sessionVars
    <3>2. CASE r = s
      BY <1>4, <2>3, <3>1, <3>2 DEF SessionInv, Types, Open, Raise, Trace, Advance, Close, Drop, sessionVars
    <3>3. CASE r # s
      BY <3>1, <3>3 DEF SessionInv, Types
    <3> QED
      BY <3>2, <3>3
  <2>4. ASSUME NEW s \in Sessions, Investigate(s)
        PROVE  pc[r] \in {"investigating", "tracing"} /\ prompt'[r] = prompt[r]
    BY <1>4, <2>4 DEF Investigate, Goto, SessionInv, Types
  <2>5. ASSUME NEW s \in Sessions, Build(s)
        PROVE  Genuine(cfg, prompt'[r])
    <3>1. \/ pc' = [pc EXCEPT ![s] = "failed"] /\ prompt' = prompt
          \/ \E p : prompt' = [prompt EXCEPT ![s] = p] /\ Genuine(cfg, p)
                 /\ pc' = [pc EXCEPT ![s] = "investigating"]
      BY <2>5, ResolvedGenuine DEF Build, Goto, ProvenanceInv
    <3> QED
      BY <1>4, <3>1 DEF ProvenanceInv, SessionInv, Types
  <2> QED
    BY <1>4, <2>2, <2>3, <2>4, <2>5 DEF Next, ProvenanceInv
<1>5. ASSUME NEW e \in log'
      PROVE  Genuine(cfg, e.prompt) /\ e.recorded = Recorded(e.prompt)
  <2>1. log' = log \/ \E s \in Sessions : Trace(s)
    BY DEF Next, vars, Open, Build, Investigate, Raise, Advance, Close, Drop, EditPrompt
  <2>2. CASE e \in log
    BY <2>2 DEF ProvenanceInv
  <2>3. ASSUME NEW s \in Sessions, Trace(s), e \notin log
        PROVE  Genuine(cfg, e.prompt) /\ e.recorded = Recorded(e.prompt)
    <3>1. e = [recorded |-> Recorded(prompt[s]), prompt |-> prompt[s]] /\ pc[s] = "tracing"
      BY <1>5, <2>3 DEF Trace
    <3> QED
      BY <3>1 DEF ProvenanceInv
  <2> QED
    BY <2>1, <2>2, <2>3
<1>6. \A p : Recorded(p)' = Recorded(p)
  BY <1>2 DEF Recorded
<1> QED
  BY <1>2, <1>3, <1>4, <1>5, <1>6 DEF ProvenanceInv

-------------------------------------------------------------------------------
(* What a fault costs                                                        *)

\* The connections the server has dropped: each will fail the next write, for a
\* fault that has been counted.
Dead == {s \in Sessions : store[s].conn = "dead"}

FaultInv ==
  /\ faults \in Nat
  /\ IsFiniteSet(FailedTraces) /\ IsFiniteSet(Dead)
  /\ cfg.driver => Cardinality(FailedTraces) + Cardinality(Dead) <= faults

\* The file ends in a torn line, on which the next record would be lost.
TornTail == IF file # <<>> /\ file[Len(file)].part = "torn" THEN 1 ELSE 0

Part == [record : Sessions \X Nat, part : {"line", "torn"}]

\* A record of one of the traces the stores have counted.
Numbered(stores, r) == r \in Sessions \X Nat /\ r[2] <= stores[r[1]].traced

AllNumbered ==
  /\ file \in Seq(Part) /\ \A i \in DOMAIN file : Numbered(store, file[i].record)
  /\ \A r \in rows : Numbered(store, r)

WrittenInv ==
  /\ AllNumbered
  /\ IsFiniteSet(WrittenTraces) /\ IsFiniteSet(Readable) /\ IsFiniteSet(Torn)
  /\ Cardinality(WrittenTraces) + TornTail <= Cardinality(Readable) + Cardinality(Torn)

\* One trace more.
LEMMA CountedOneMore ==
  ASSUME NEW c, NEW d, NEW s \in DOMAIN d, DOMAIN d = DOMAIN c \cup {s},
         \A r \in DOMAIN c \ {s} : d[r] = c[r],
         s \in DOMAIN c => c[s] \in Nat /\ d[s] = c[s] + 1,
         s \notin DOMAIN c => d[s] = 1,
         IsFiniteSet(CountedBy(c))
  PROVE  /\ IsFiniteSet(CountedBy(d))
         /\ Cardinality(CountedBy(d)) = Cardinality(CountedBy(c)) + 1
<1>1. \A x : x \in CountedBy(c) <=> \E r \in DOMAIN c : x \in {r} \X (1..c[r])
  BY DEF CountedBy
<1>2. \A x : x \in CountedBy(d) <=> \E r \in DOMAIN d : x \in {r} \X (1..d[r])
  BY DEF CountedBy
<1>3. \A r, n, x : x \in {r} \X (1..n) <=> \E k \in 1..n : x = <<r, k>>
  OBVIOUS
<1> DEFINE new == <<s, d[s]>>
<1>4. new \notin CountedBy(c)
  <2> SUFFICES ASSUME NEW r \in DOMAIN c, NEW k \in 1..c[r], new = <<r, k>>
               PROVE  FALSE
    BY <1>1, <1>3
  <2>1. r = s /\ k = d[s]
    OBVIOUS
  <2> QED
    BY <2>1
<1>5. CountedBy(d) = CountedBy(c) \cup {new}
  <2>1. ASSUME NEW x \in CountedBy(c)
        PROVE  x \in CountedBy(d)
    <3>1. PICK r \in DOMAIN c : x \in {r} \X (1..c[r])
      BY <1>1
    <3>2. PICK k \in 1..c[r] : x = <<r, k>>
      BY <1>3, <3>1
    <3>3. k \in 1..d[r] /\ r \in DOMAIN d
      <4>1. CASE r = s
        BY <4>1
      <4>2. CASE r # s
        BY <4>2
      <4> QED
        BY <4>1, <4>2
    <3> QED
      BY <1>2, <1>3, <3>2, <3>3
  <2>2. ASSUME NEW x \in CountedBy(d), x # new
        PROVE  x \in CountedBy(c)
    <3>1. PICK r \in DOMAIN d : x \in {r} \X (1..d[r])
      BY <1>2
    <3>2. PICK k \in 1..d[r] : x = <<r, k>>
      BY <1>3, <3>1
    <3>3. r \in DOMAIN c /\ k \in 1..c[r]
      <4>1. CASE r = s
        <5>1. k # d[s]
          BY <2>2, <3>2, <4>1
        <5> QED
          BY <4>1, <5>1
      <4>2. CASE r # s
        BY <4>2
      <4> QED
        BY <4>1, <4>2
    <3> QED
      BY <1>1, <1>3, <3>2, <3>3
  <2>3. new \in CountedBy(d)
    <3>1. d[s] \in 1..d[s]
      BY DEF CountedBy
    <3> QED
      BY <1>2, <1>3, <3>1
  <2> QED
    BY <2>1, <2>2, <2>3
<1> HIDE DEF new
<1> QED
  BY <1>4, <1>5, FS_AddElement

\* A store that changes leaves the others' connections as they are.
LEMMA DeadChange ==
  ASSUME Types, NEW s \in Sessions, NEW v \in StoreRecord, store' = [store EXCEPT ![s] = v]
  PROVE  /\ v.conn = "dead" => Dead' = Dead \cup {s}
         /\ v.conn # "dead" => Dead' = Dead \ {s}
<1>1. store'[s] = v /\ \A r \in Sessions \ {s} : store'[r] = store[r]
  BY DEF Types
<1> QED
  BY <1>1 DEF Dead

\* Nothing is counted as failed that was not.
LEMMA SameFailed ==
  ASSUME Types, NEW s \in Sessions, NEW v \in StoreRecord, store' = [store EXCEPT ![s] = v],
         v.warned = store[s].warned, v.warned => v.failures = store[s].failures
  PROVE  FailedTraces' = FailedTraces
<1>1. store'[s] = v /\ \A r \in Sessions \ {s} : store'[r] = store[r]
  BY DEF Types
<1>2. \A r \in Sessions : /\ store'[r].warned = store[r].warned
                          /\ store[r].warned => store'[r].failures = store[r].failures
  BY <1>1
<1>3. [r \in {t \in Sessions : store[t].warned} |-> store[r].failures]'
        = [r \in {t \in Sessions : store[t].warned} |-> store[r].failures]
  BY <1>2
<1> QED
  BY <1>3 DEF FailedTraces

\* One trace more is counted as failed, and announced.
LEMMA OneMoreFailed ==
  ASSUME Types, NEW s \in Sessions, NEW v \in StoreRecord, store' = [store EXCEPT ![s] = v],
         v.warned, v.failures = store[s].failures + 1,
         store[s].failures > 0 => store[s].warned,
         IsFiniteSet(FailedTraces)
  PROVE  /\ IsFiniteSet(FailedTraces')
         /\ Cardinality(FailedTraces') = Cardinality(FailedTraces) + 1
<1>1. /\ store'[s] = v /\ \A r \in Sessions \ {s} : store'[r] = store[r]
      /\ \A r \in Sessions : store[r].failures \in Nat
  BY DEF Types, StoreRecord
<1> DEFINE c == [r \in {t \in Sessions : store[t].warned} |-> store[r].failures]
           d == [r \in {t \in Sessions : store'[t].warned} |-> store'[r].failures]
<1>2. FailedTraces = CountedBy(c) /\ FailedTraces' = CountedBy(d)
  BY DEF FailedTraces
<1>3. s \in DOMAIN d /\ DOMAIN d = DOMAIN c \cup {s}
  BY <1>1
<1>4. \A r \in DOMAIN c \ {s} : d[r] = c[r]
  BY <1>1
<1>5. /\ s \in DOMAIN c => c[s] \in Nat /\ d[s] = c[s] + 1
      /\ s \notin DOMAIN c => d[s] = 1
  BY <1>1
<1> HIDE DEF c, d
<1> QED
  BY <1>2, <1>3, <1>4, <1>5, CountedOneMore

\* The steps that change a store, its failures counted or not.
LEMMA FaultStep ==
  ASSUME Types, FaultInv, env' = env, NEW s \in Sessions, NEW v \in StoreRecord,
         store' = [store EXCEPT ![s] = v], faults' \in {faults, faults + 1},
         \/ /\ v.warned = store[s].warned /\ (v.warned => v.failures = store[s].failures)
            /\ v.conn \in {store[s].conn, "none", "open"} \/ faults' = faults + 1
         \/ /\ v.warned /\ v.failures = store[s].failures + 1
            /\ store[s].failures > 0 => store[s].warned
            /\ v.conn # "dead"
            /\ faults' = faults + 1 \/ store[s].conn = "dead" \/ ~cfg.driver
  PROVE  FaultInv'
<1>1. /\ faults \in Nat /\ faults' \in Nat /\ cfg' = cfg
      /\ IsFiniteSet(FailedTraces) /\ IsFiniteSet(Dead)
      /\ Cardinality(FailedTraces) \in Nat /\ Cardinality(Dead) \in Nat
  BY FS_CardinalityType DEF FaultInv, cfg
<1>2. IsFiniteSet(Dead \cup {s}) /\ IsFiniteSet(Dead \ {s})
  BY <1>1, FS_AddElement, FS_RemoveElement
<1>3. /\ s \in Dead => Cardinality(Dead \cup {s}) = Cardinality(Dead)
                       /\ Cardinality(Dead \ {s}) = Cardinality(Dead) - 1
      /\ s \notin Dead => Cardinality(Dead \cup {s}) = Cardinality(Dead) + 1
                          /\ Cardinality(Dead \ {s}) = Cardinality(Dead)
  BY <1>1, FS_AddElement, FS_RemoveElement
<1>4. s \in Dead <=> store[s].conn = "dead"
  BY DEF Dead
<1>5. /\ v.conn = "dead" => Dead' = Dead \cup {s}
      /\ v.conn # "dead" => Dead' = Dead \ {s}
  BY DeadChange
<1>6. IsFiniteSet(Dead') /\ Cardinality(Dead') \in Nat
  BY <1>2, <1>5, FS_CardinalityType
<1>7. CASE /\ v.warned = store[s].warned /\ (v.warned => v.failures = store[s].failures)
           /\ v.conn \in {store[s].conn, "none", "open"} \/ faults' = faults + 1
  <2>1. FailedTraces' = FailedTraces
    BY <1>7, SameFailed
  <2>2. Cardinality(Dead') <= Cardinality(Dead) + (faults' - faults)
    <3>1. faults' = faults \/ faults' = faults + 1
      OBVIOUS
    <3>2. Cardinality(Dead') = Cardinality(Dead) + 1 => faults' = faults + 1
      <4>1. CASE v.conn = "dead"
        <5>1. CASE s \in Dead
          <6>1. Dead' = Dead
            BY <1>5, <4>1, <5>1
          <6> QED
            BY <1>1, <6>1
        <5>2. CASE s \notin Dead
          BY <1>4, <1>7, <4>1, <5>2
        <5> QED
          BY <5>1, <5>2
      <4>2. CASE v.conn # "dead"
        <5>1. Dead' = Dead \ {s}
          BY <1>5, <4>2
        <5>2. Cardinality(Dead') # Cardinality(Dead) + 1
          BY <1>1, <1>3, <5>1
        <5> QED
          BY <5>2
      <4> QED
        BY <4>1, <4>2
    <3>3. Cardinality(Dead') \in {Cardinality(Dead) - 1, Cardinality(Dead), Cardinality(Dead) + 1}
      BY <1>3, <1>5
    <3> QED
      BY <1>1, <1>6, <3>1, <3>2, <3>3
  <2>3. cfg.driver => Cardinality(FailedTraces) + Cardinality(Dead) <= faults
    BY DEF FaultInv
  <2>4. cfg.driver => Cardinality(FailedTraces) + Cardinality(Dead') <= faults'
    BY <1>1, <1>6, <2>2, <2>3
  <2> QED
    BY <1>1, <1>6, <2>1, <2>4 DEF FaultInv
<1>8. CASE /\ v.warned /\ v.failures = store[s].failures + 1
           /\ store[s].failures > 0 => store[s].warned
           /\ v.conn # "dead"
           /\ faults' = faults + 1 \/ store[s].conn = "dead" \/ ~cfg.driver
  <2>1. /\ IsFiniteSet(FailedTraces')
        /\ Cardinality(FailedTraces') = Cardinality(FailedTraces) + 1
    BY <1>1, <1>8, OneMoreFailed
  <2>2. Dead' = Dead \ {s}
    BY <1>5, <1>8
  <2>3. cfg.driver => Cardinality(FailedTraces) + Cardinality(Dead) <= faults
    BY DEF FaultInv
  <2>4. ASSUME cfg.driver
        PROVE  Cardinality(FailedTraces') + Cardinality(Dead') <= faults'
    <3>1. faults' = faults + 1 \/ s \in Dead
      BY <1>4, <1>8, <2>4
    <3>2. CASE s \in Dead
      BY <1>1, <1>3, <2>1, <2>2, <2>3, <2>4, <3>2
    <3>3. CASE s \notin Dead
      BY <1>1, <1>3, <2>1, <2>2, <2>3, <2>4, <3>1, <3>3
    <3> QED
      BY <3>2, <3>3
  <2> QED
    BY <1>1, <1>6, <2>1, <2>4 DEF FaultInv
<1> QED
  BY <1>7, <1>8

\* A step of a session that changes its store changes it to another one.
LEMMA FaultKept ==
  ASSUME SessionInv, FaultInv, [Next]_vars
  PROVE  FaultInv'
<1>1. Types
  BY DEF SessionInv
<1>2. \A s \in Sessions : /\ store[s] \in StoreRecord /\ Accounted(s)
                          /\ store = [store EXCEPT ![s] = store[s]]
  BY DEF SessionInv, Types
<1>3. CASE UNCHANGED <<store, faults, env>>
  <2>1. FailedTraces' = FailedTraces /\ Dead' = Dead /\ cfg' = cfg /\ faults' = faults
    BY <1>3 DEF FailedTraces, Dead, cfg
  <2> QED
    BY <2>1 DEF FaultInv
<1>4. ASSUME NEW s \in Sessions, Raise(s)
      PROVE  FaultInv'
  <2>1. store' = [store EXCEPT ![s] = store[s]] /\ faults' = faults + 1 /\ env' = env
    BY <1>2, <1>4 DEF Raise, Fault, world
  <2> QED
    BY <1>1, <1>2, <2>1, FaultStep
<1>5. ASSUME NEW s \in Sessions, Open(s)
      PROVE  FaultInv'
  <2>1. store[s] = NoStore /\ faults' = faults /\ env' = env
    BY <1>2, <1>5 DEF Open, Accounted, world
  <2>2. CASE store' = store
    BY <1>3, <2>1, <2>2
  <2>3. CASE SettingsValid(env) /\ OpenStore(s, cfg)
    <3>1. PICK client \in BOOLEAN :
            store' = [store EXCEPT ![s] = [NoStore EXCEPT !.backend = cfg.backend, !.client = client]]
      BY <2>3 DEF OpenStore
    <3>2. cfg.backend \in Backends
      BY <2>3 DEF SettingsValid, TraceSettingsValid, cfg, SettingsOf, Backends
    <3> DEFINE v == [NoStore EXCEPT !.backend = cfg.backend, !.client = client]
    <3> HIDE DEF cfg
    <3>3. v \in StoreRecord /\ v.conn = "none" /\ v.warned = FALSE /\ v.failures = 0
      BY <3>2 DEF NoStore, StoreRecord
    <3>4. v.warned = store[s].warned /\ v.failures = store[s].failures
      BY <2>1, <3>3 DEF NoStore
    <3> HIDE DEF v
    <3>5. store' = [store EXCEPT ![s] = v]
      BY <3>1 DEF v
    <3> QED
      BY <1>1, <2>1, <3>3, <3>4, <3>5, FaultStep
  <2> QED
    BY <1>5, <2>2, <2>3 DEF Open
<1>6. ASSUME NEW s \in Sessions, Trace(s)
      PROVE  FaultInv'
  <2>1. pc[s] = "tracing" /\ WriteTrace(s, cfg.driver) /\ env' = env
    BY <1>6 DEF Trace, world
  <2>2. PICK v \in StoreRecord : Counts(s, v, cfg.driver)
    BY <1>1, <2>1, WriteEffect
  <2>3. /\ store' = [store EXCEPT ![s] = v]
        /\ v.backend = store[s].backend /\ v.client = store[s].client
    BY <2>2 DEF Counts
  <2>4. CASE AsWritten(s, v)
    <3>1. /\ v.warned = store[s].warned /\ v.failures = store[s].failures /\ faults' = faults
          /\ v.conn \in {"none", "open"}
      BY <2>4 DEF AsWritten, StoreRecord
    <3> QED
      BY <1>1, <2>1, <2>3, <3>1, FaultStep
  <2>5. CASE AsFailed(s, v, cfg.driver)
    <3>1. store[s].failures > 0 => store[s].warned
      BY <1>2, <2>3, <2>5 DEF Accounted, AsFailed
    <3>2. /\ v.warned /\ v.failures = store[s].failures + 1 /\ v.conn # "dead"
          /\ faults' \in {faults, faults + 1}
          /\ faults' = faults + 1 \/ store[s].conn = "dead" \/ ~cfg.driver
      BY <2>5 DEF AsFailed
    <3> QED
      BY <1>1, <2>1, <2>3, <3>1, <3>2, FaultStep
  <2>6. CASE AsUntold(s, v)
    <3>1. ~store[s].warned
      BY <1>2, <2>1, <2>3, <2>6 DEF Accounted, AsUntold, Working
    <3>2. v.warned = store[s].warned /\ v.conn = store[s].conn /\ faults' = faults
      BY <2>6 DEF AsUntold
    <3> QED
      BY <1>1, <2>1, <2>3, <3>1, <3>2, FaultStep
  <2> QED
    BY <2>2, <2>4, <2>5, <2>6 DEF Counts
<1>7. ASSUME NEW s \in Sessions, Close(s)
      PROVE  FaultInv'
  <2> DEFINE v == [store[s] EXCEPT !.client = FALSE, !.conn = "none"]
  <2>1. faults' = faults /\ env' = env
        /\ store' = [store EXCEPT ![s].client = FALSE, ![s].conn = "none"]
    BY <1>7 DEF Close, CloseStore, world
  <2>2. v \in StoreRecord /\ store' = [store EXCEPT ![s] = v]
    BY <1>1, <1>2, <2>1 DEF StoreRecord, Types
  <2>3. v.warned = store[s].warned /\ v.failures = store[s].failures /\ v.conn = "none"
    BY <1>2 DEF StoreRecord
  <2> HIDE DEF v
  <2> QED
    BY <1>1, <2>1, <2>2, <2>3, FaultStep
<1>8. ASSUME NEW s \in Sessions, Drop(s)
      PROVE  FaultInv'
  <2> DEFINE v == [store[s] EXCEPT !.conn = "dead"]
  <2>1. faults' = faults + 1 /\ env' = env /\ store' = [store EXCEPT ![s].conn = "dead"]
    BY <1>8 DEF Drop, ServerDrops, Fault, world
  <2>2. v \in StoreRecord /\ store' = [store EXCEPT ![s] = v]
    BY <1>1, <1>2, <2>1 DEF StoreRecord, Types
  <2>3. v.warned = store[s].warned /\ v.failures = store[s].failures
    BY <1>2 DEF StoreRecord
  <2> HIDE DEF v
  <2> QED
    BY <1>1, <2>1, <2>2, <2>3, FaultStep
<1>9. ASSUME NEW s \in Sessions, Build(s) \/ Investigate(s) \/ Advance(s)
      PROVE  FaultInv'
  BY <1>3, <1>9 DEF Build, Investigate, Advance, traceVars, world
<1>10. CASE EditPrompt \/ UNCHANGED vars
  BY <1>3, <1>10 DEF EditPrompt, traceVars, world, vars
<1> QED
  BY <1>4, <1>5, <1>6, <1>7, <1>8, <1>9, <1>10 DEF Next

LEMMA InitiallyFaultless == Init => FaultInv
<1> SUFFICES ASSUME Init PROVE FaultInv
  OBVIOUS
<1>1. \A s \in Sessions : ~store[s].warned /\ store[s].conn = "none"
  BY DEF Init, TraceInit, NoStore
<1>2. FailedTraces = {} /\ Dead = {} /\ faults = 0
  BY <1>1 DEF Init, TraceInit, FailedTraces, CountedBy, Dead
<1> QED
  BY <1>2, FS_EmptySet DEF FaultInv

-------------------------------------------------------------------------------
(* What can be read back                                                     *)

\* The parts of the file that can be read back.
Lines == {i \in DOMAIN file : /\ file[i].part = "line"
                              /\ i = 1 \/ file[i - 1].part = "line"}

LEMMA ReadableIs == Readable = rows \cup {file[i].record : i \in Lines}
  BY DEF Readable, Lines

\* A row is added: nothing of the file changes.
LEMMA RowAdded ==
  ASSUME NEW r, rows' = rows \cup {r}, file' = file
  PROVE  Readable' = Readable \cup {r} /\ Torn' = Torn /\ TornTail' = TornTail
<1>1. Torn' = Torn /\ TornTail' = TornTail
  BY DEF Torn, TornTail
<1> QED
  BY <1>1 DEF Readable

\* A part is appended to the file.
LEMMA PartAppended ==
  ASSUME file \in Seq(Part), NEW p \in Part, rows' = rows, file' = Append(file, p)
  PROVE  /\ p.part = "torn" => /\ Readable' = Readable /\ Torn' = Torn \cup {Len(file) + 1}
                               /\ TornTail' = 1
         /\ p.part = "line" => /\ Torn' = Torn /\ TornTail' = 0
                               /\ TornTail = 0 => Readable' = Readable \cup {p.record}
                               /\ TornTail = 1 => Readable' = Readable
<1> DEFINE n == Len(file) + 1
<1>1. /\ Len(file) \in Nat /\ n \in Nat /\ n # 0 /\ DOMAIN file = 1..Len(file)
      /\ DOMAIN file' = DOMAIN file \cup {n} /\ n \notin DOMAIN file
      /\ Len(file') = n /\ file'[n] = p /\ file' # <<>>
      /\ \A i \in DOMAIN file : file'[i] = file[i] /\ file[i] \in Part
  BY SMTT(30)
<1>2. p.part \in {"line", "torn"} /\ \A i \in DOMAIN file : file[i].part \in {"line", "torn"}
  BY <1>1 DEF Part
<1>3. Torn' = IF p.part = "torn" THEN Torn \cup {n} ELSE Torn
  BY <1>1 DEF Torn
<1>4. TornTail' = IF p.part = "torn" THEN 1 ELSE 0
  BY <1>1 DEF TornTail
<1>5. TornTail \in {0, 1} /\ (TornTail = 0 <=> n = 1 \/ file[n - 1].part = "line")
  BY <1>1, <1>2 DEF TornTail
<1>6. \A i \in DOMAIN file : i \in Lines' <=> i \in Lines
  <2> SUFFICES ASSUME NEW i \in DOMAIN file PROVE i \in Lines' <=> i \in Lines
    OBVIOUS
  <2>1. i # 1 => i - 1 \in DOMAIN file
    BY <1>1
  <2> QED
    BY <1>1, <2>1 DEF Lines
<1>7. n \in Lines' <=> p.part = "line" /\ TornTail = 0
  <2>1. n # 1 => n - 1 \in DOMAIN file
    BY <1>1
  <2> QED
    BY <1>1, <1>5, <2>1 DEF Lines
<1>8. /\ \A i \in Lines : i \in DOMAIN file
      /\ \A i \in Lines' : i \in DOMAIN file \cup {n}
  BY <1>1 DEF Lines
<1>9. Lines' = IF p.part = "line" /\ TornTail = 0 THEN Lines \cup {n} ELSE Lines
  <2>1. \A i \in Lines : i \in Lines'
    BY <1>6, <1>8
  <2>2. \A i \in Lines' : i \in Lines \/ i = n
    BY <1>6, <1>8
  <2> HIDE DEF n
  <2>3. CASE p.part = "line" /\ TornTail = 0
    <3>1. n \in Lines'
      BY <1>7, <2>3
    <3>2. Lines' = Lines \cup {n}
      BY <2>1, <2>2, <3>1
    <3> QED
      BY <2>3, <3>2
  <2>4. CASE ~(p.part = "line" /\ TornTail = 0)
    <3>1. n \notin Lines'
      BY <1>7, <2>4
    <3>2. Lines' = Lines
      BY <2>1, <2>2, <3>1
    <3> QED
      BY <2>4, <3>2
  <2> QED
    BY <2>3, <2>4
<1>10. \A i \in Lines : file'[i].record = file[i].record
  BY <1>1, <1>8
<1>11. Readable' = rows \cup {file'[i].record : i \in Lines'}
  BY DEF Readable, Lines
<1>12. Readable' = IF p.part = "line" /\ TornTail = 0 THEN Readable \cup {p.record} ELSE Readable
  <2>1. Readable = rows \cup {file[i].record : i \in Lines}
    BY ReadableIs
  <2>2. file'[n].record = p.record
    BY <1>1
  <2> HIDE DEF n
  <2>3. CASE p.part = "line" /\ TornTail = 0
    <3>1. Lines' = Lines \cup {n}
      BY <1>9, <2>3
    <3>2. {file'[i].record : i \in Lines'} = {file[i].record : i \in Lines} \cup {p.record}
      BY <1>10, <2>2, <3>1
    <3> QED
      BY <1>11, <2>1, <2>3, <3>2
  <2>4. CASE ~(p.part = "line" /\ TornTail = 0)
    <3>1. Lines' = Lines
      BY <1>9, <2>4
    <3>2. {file'[i].record : i \in Lines'} = {file[i].record : i \in Lines}
      BY <1>10, <3>1
    <3> QED
      BY <1>11, <2>1, <2>4, <3>2
  <2> QED
    BY <2>3, <2>4
<1> QED
  BY <1>2, <1>3, <1>4, <1>5, <1>12

\* What has been recorded keeps its number.
LEMMA StillNumbered ==
  ASSUME Types, NEW s \in Sessions, NEW v \in StoreRecord, store' = [store EXCEPT ![s] = v],
         v.traced >= store[s].traced, NEW r, Numbered(store, r)
  PROVE  Numbered(store', r)
<1>1. /\ store'[s] = v /\ \A t \in Sessions \ {s} : store'[t] = store[t]
      /\ store[s].traced \in Nat /\ v.traced \in Nat
  BY DEF Types, StoreRecord
<1>2. r \in Sessions \X Nat /\ r[1] \in Sessions /\ r[2] \in Nat /\ r[2] <= store[r[1]].traced
  BY DEF Numbered
<1>3. r[2] <= store'[r[1]].traced
  <2>1. CASE r[1] = s
    BY <1>1, <1>2, <2>1
  <2>2. CASE r[1] # s
    BY <1>1, <1>2, <2>2
  <2> QED
    BY <2>1, <2>2
<1> QED
  BY <1>2, <1>3 DEF Numbered

\* The records read back have been numbered: the next one is none of them.
LEMMA RecordIsNew ==
  ASSUME Types, WrittenInv, NEW s \in Sessions
  PROVE  Record(s) \notin Readable /\ Record(s) \in Sessions \X Nat
<1>1. store[s].traced \in Nat
  BY DEF Types, StoreRecord
<1>2. \A r \in Readable : Numbered(store, r)
  BY DEF WrittenInv, AllNumbered, Readable
<1>3. ~Numbered(store, Record(s))
  BY <1>1 DEF Numbered, Record
<1> QED
  BY <1>1, <1>2, <1>3 DEF Record

LEMMA SameWritten ==
  ASSUME Types, NEW s \in Sessions, NEW v \in StoreRecord, store' = [store EXCEPT ![s] = v],
         v.written = store[s].written
  PROVE  WrittenTraces' = WrittenTraces
<1>1. \A r \in Sessions : store'[r].written = store[r].written
  BY DEF Types
<1> QED
  BY <1>1 DEF WrittenTraces

LEMMA OneMoreWritten ==
  ASSUME Types, NEW s \in Sessions, NEW v \in StoreRecord, store' = [store EXCEPT ![s] = v],
         v.written = store[s].written + 1, IsFiniteSet(WrittenTraces)
  PROVE  /\ IsFiniteSet(WrittenTraces')
         /\ Cardinality(WrittenTraces') = Cardinality(WrittenTraces) + 1
<1>1. /\ store'[s] = v /\ \A r \in Sessions \ {s} : store'[r] = store[r]
      /\ \A r \in Sessions : store[r].written \in Nat
  BY DEF Types, StoreRecord
<1> DEFINE c == [r \in Sessions |-> store[r].written]
           d == [r \in Sessions |-> store'[r].written]
<1>2. WrittenTraces = CountedBy(c) /\ WrittenTraces' = CountedBy(d)
  BY DEF WrittenTraces
<1>3. s \in DOMAIN d /\ DOMAIN d = DOMAIN c \cup {s}
  OBVIOUS
<1>4. \A r \in DOMAIN c \ {s} : d[r] = c[r]
  BY <1>1
<1>5. s \in DOMAIN c /\ c[s] \in Nat /\ d[s] = c[s] + 1
  BY <1>1
<1> HIDE DEF c, d
<1> QED
  BY <1>2, <1>3, <1>4, <1>5, CountedOneMore

\* What was recorded before is numbered as before when a session records one more.
LEMMA StillAllNumbered ==
  ASSUME Types, AllNumbered, NEW s \in Sessions, NEW v \in StoreRecord,
         store' = [store EXCEPT ![s] = v],
         \/ v.traced >= store[s].traced /\ rows' = rows /\ file' = file
         \/ v.traced = store[s].traced + 1 /\ rows' \in {rows, rows \cup {Record(s)}} /\ file' = file
         \/ /\ v.traced = store[s].traced + 1 /\ rows' = rows
            /\ \E p \in {"line", "torn"} : Appended(s, p)
  PROVE  AllNumbered'
<1>1. /\ file \in Seq(Part) /\ \A i \in DOMAIN file : Numbered(store, file[i].record)
      /\ \A r \in rows : Numbered(store, r)
  BY DEF AllNumbered
<1>2. store'[s] = v /\ store[s].traced \in Nat /\ v.traced \in Nat
  BY DEF Types, StoreRecord
<1>3. ASSUME NEW r, Numbered(store, r)
      PROVE  Numbered(store', r)
  <2>1. v.traced >= store[s].traced
    BY <1>2
  <2> QED
    BY <1>3, <2>1, StillNumbered
<1>4. v.traced = store[s].traced + 1 => Numbered(store', Record(s))
  BY <1>2 DEF Numbered, Record
<1>5. \A r \in rows' : Numbered(store', r)
  <2>1. \/ rows' = rows
        \/ v.traced = store[s].traced + 1 /\ rows' = rows \cup {Record(s)}
    OBVIOUS
  <2> QED
    BY <1>1, <1>3, <1>4, <2>1
<1>6. CASE file' = file
  BY <1>1, <1>3, <1>5, <1>6 DEF AllNumbered
<1>7. ASSUME NEW p \in {"line", "torn"}, Appended(s, p), v.traced = store[s].traced + 1
      PROVE  AllNumbered'
  <2> DEFINE new == [record |-> Record(s), part |-> p]
  <2>1. new \in Part /\ new.record = Record(s)
    BY <1>2 DEF Part, Record
  <2>2. file' = Append(file, new)
    BY <1>7 DEF Appended
  <2> HIDE DEF new
  <2>3. /\ file' \in Seq(Part) /\ DOMAIN file' = DOMAIN file \cup {Len(file) + 1}
        /\ file'[Len(file) + 1] = new /\ \A i \in DOMAIN file : file'[i] = file[i]
    BY <1>1, <2>1, <2>2, SMTT(30)
  <2>4. Numbered(store', Record(s))
    BY <1>4, <1>7
  <2>5. ASSUME NEW i \in DOMAIN file'
        PROVE  Numbered(store', file'[i].record)
    <3>1. CASE i \in DOMAIN file
      BY <1>1, <1>3, <2>3, <3>1
    <3>2. CASE i = Len(file) + 1
      BY <2>1, <2>3, <2>4, <3>2
    <3> QED
      BY <2>3, <2>5, <3>1, <3>2
  <2> QED
    BY <1>5, <2>3, <2>5 DEF AllNumbered
<1> QED
  BY <1>6, <1>7

\* A trace is written, or is not: what is counted can be read, or lies behind a
\* torn line.
LEMMA WriteKept ==
  ASSUME Types, WrittenInv, NEW s \in Sessions, NEW v \in StoreRecord, NEW driver,
         Counts(s, v, driver)
  PROVE  WrittenInv'
<1>1. /\ file \in Seq(Part) /\ AllNumbered /\ store' = [store EXCEPT ![s] = v]
      /\ v.traced = store[s].traced + 1 /\ store[s].traced \in Nat /\ v.traced \in Nat
  BY DEF WrittenInv, AllNumbered, Counts, Types, StoreRecord
<1>2. /\ IsFiniteSet(WrittenTraces) /\ IsFiniteSet(Readable) /\ IsFiniteSet(Torn)
      /\ TornTail \in {0, 1}
      /\ Cardinality(WrittenTraces) + TornTail <= Cardinality(Readable) + Cardinality(Torn)
  BY DEF WrittenInv, TornTail
<1>3. PICK W \in Nat, R \in Nat, T \in Nat :
        /\ W = Cardinality(WrittenTraces) /\ R = Cardinality(Readable) /\ T = Cardinality(Torn)
        /\ W + TornTail <= R + T
  BY <1>2, FS_CardinalityType
<1>4. AllNumbered'
  <2>1. \/ rows' \in {rows, rows \cup {Record(s)}} /\ file' = file
        \/ rows' = rows /\ \E p \in {"line", "torn"} : Appended(s, p)
    BY DEF Counts, AsWritten, AsFailed, AsUntold
  <2> QED
    BY <1>1, <2>1, StillAllNumbered
<1>5. /\ IsFiniteSet(Readable \cup {Record(s)})
      /\ Cardinality(Readable \cup {Record(s)}) = R + 1
  BY <1>2, <1>3, RecordIsNew, FS_AddElement
<1>6. Len(file) + 1 \notin Torn
  BY <1>1 DEF Torn
<1>7. /\ IsFiniteSet(Torn \cup {Len(file) + 1})
      /\ Cardinality(Torn \cup {Len(file) + 1}) = T + 1
  BY <1>2, <1>3, <1>6, FS_AddElement
<1> DEFINE Gains(n) == /\ IsFiniteSet(Readable') /\ IsFiniteSet(Torn')
                       /\ Cardinality(Readable') + Cardinality(Torn') >= n + TornTail'
<1>8. rows' = rows /\ file' = file => Gains(W)
  <2> SUFFICES ASSUME rows' = rows, file' = file PROVE Gains(W)
    OBVIOUS
  <2>1. Readable' = Readable /\ Torn' = Torn /\ TornTail' = TornTail
    BY DEF Readable, Torn, TornTail
  <2> QED
    BY <1>2, <1>3, <2>1
<1>9. rows' = rows \cup {Record(s)} /\ file' = file => Gains(W + 1)
  <2> SUFFICES ASSUME rows' = rows \cup {Record(s)}, file' = file PROVE Gains(W + 1)
    OBVIOUS
  <2>1. Readable' = Readable \cup {Record(s)} /\ Torn' = Torn /\ TornTail' = TornTail
    BY RowAdded
  <2> QED
    BY <1>2, <1>3, <1>5, <2>1
<1>10. rows' = rows /\ Appended(s, "line") => Gains(W + 1)
  <2> SUFFICES ASSUME rows' = rows, Appended(s, "line") PROVE Gains(W + 1)
    OBVIOUS
  <2> DEFINE p == [record |-> Record(s), part |-> "line"]
  <2>1. p \in Part /\ p.part = "line" /\ p.record = Record(s) /\ file' = Append(file, p)
    BY RecordIsNew DEF Part, Appended
  <2> HIDE DEF p
  <2>2. /\ Torn' = Torn /\ TornTail' = 0
        /\ TornTail = 0 => Readable' = Readable \cup {Record(s)}
        /\ TornTail = 1 => Readable' = Readable
    <3>1. /\ Torn' = Torn /\ TornTail' = 0
          /\ TornTail = 0 => Readable' = Readable \cup {p.record}
          /\ TornTail = 1 => Readable' = Readable
      BY <1>1, <2>1, PartAppended
    <3> QED
      BY <2>1, <3>1
  <2>3. CASE TornTail = 0
    <3>1. IsFiniteSet(Readable') /\ Cardinality(Readable') = R + 1
      BY <1>5, <2>2, <2>3
    <3>2. IsFiniteSet(Torn') /\ Cardinality(Torn') = T /\ TornTail' = 0 /\ W <= R + T
      BY <1>2, <1>3, <2>2, <2>3
    <3> QED
      BY <3>1, <3>2
  <2>4. CASE TornTail = 1
    BY <1>2, <1>3, <2>2, <2>4
  <2> QED
    BY <1>2, <2>3, <2>4
<1>11. rows' = rows /\ Appended(s, "torn") => Gains(W)
  <2> SUFFICES ASSUME rows' = rows, Appended(s, "torn") PROVE Gains(W)
    OBVIOUS
  <2> DEFINE p == [record |-> Record(s), part |-> "torn"]
  <2>1. p \in Part /\ p.part = "torn" /\ file' = Append(file, p)
    BY RecordIsNew DEF Part, Appended
  <2> HIDE DEF p
  <2>2. Readable' = Readable /\ Torn' = Torn \cup {Len(file) + 1} /\ TornTail' = 1
    BY <1>1, <2>1, PartAppended
  <2> QED
    BY <1>2, <1>3, <1>7, <2>2
<1>12. Gains(W + 1) => Gains(W)
  BY <1>2, FS_CardinalityType DEF TornTail
<1>13. CASE AsWritten(s, v)
  <2>1. Gains(W + 1)
    BY <1>9, <1>10, <1>13 DEF AsWritten
  <2>2. /\ IsFiniteSet(WrittenTraces')
        /\ Cardinality(WrittenTraces') = W + 1
    BY <1>1, <1>2, <1>3, <1>13, OneMoreWritten DEF AsWritten
  <2> QED
    BY <1>4, <2>1, <2>2 DEF WrittenInv
<1>14. CASE AsFailed(s, v, driver) \/ AsUntold(s, v)
  <2>1. Gains(W)
    BY <1>8, <1>9, <1>11, <1>12, <1>14 DEF AsFailed, AsUntold
  <2>2. WrittenTraces' = WrittenTraces
    BY <1>1, <1>14, SameWritten DEF AsFailed, AsUntold
  <2> QED
    BY <1>2, <1>3, <1>4, <2>1, <2>2 DEF WrittenInv
<1> QED
  BY <1>13, <1>14 DEF Counts

\* Other steps record nothing.
LEMMA NothingWritten ==
  ASSUME Types, WrittenInv, NEW s \in Sessions, NEW v \in StoreRecord,
         store' = [store EXCEPT ![s] = v], rows' = rows, file' = file,
         v.traced = store[s].traced, v.written = store[s].written
  PROVE  WrittenInv'
<1>1. v.traced >= store[s].traced
  BY DEF Types, StoreRecord
<1>2. AllNumbered'
  <2>1. AllNumbered
    BY DEF WrittenInv
  <2> QED
    BY <1>1, <2>1, StillAllNumbered
<1>3. WrittenTraces' = WrittenTraces
  BY SameWritten
<1>4. Readable' = Readable /\ Torn' = Torn /\ TornTail' = TornTail
  BY DEF Readable, Torn, TornTail
<1> QED
  BY <1>2, <1>3, <1>4 DEF WrittenInv

LEMMA WrittenKept ==
  ASSUME SessionInv, WrittenInv, [Next]_vars
  PROVE  WrittenInv'
<1>1. Types
  BY DEF SessionInv
<1>2. \A s \in Sessions : store[s] \in StoreRecord /\ Accounted(s)
  BY DEF SessionInv, Types
<1>3. CASE UNCHANGED <<store, rows, file>>
  <2>1. /\ WrittenTraces' = WrittenTraces /\ Readable' = Readable /\ Torn' = Torn
        /\ TornTail' = TornTail
    BY <1>3 DEF WrittenTraces, Readable, Torn, TornTail
  <2>2. AllNumbered'
    BY <1>3 DEF WrittenInv, AllNumbered
  <2> QED
    BY <2>1, <2>2 DEF WrittenInv
<1>4. ASSUME NEW s \in Sessions, Open(s)
      PROVE  WrittenInv'
  <2>1. store[s] = NoStore /\ rows' = rows /\ file' = file
    BY <1>2, <1>4 DEF Open, Accounted
  <2>2. CASE store' = store
    BY <1>3, <2>1, <2>2
  <2>3. CASE SettingsValid(env) /\ OpenStore(s, cfg)
    <3>1. PICK client \in BOOLEAN :
            store' = [store EXCEPT ![s] = [NoStore EXCEPT !.backend = cfg.backend, !.client = client]]
      BY <2>3 DEF OpenStore
    <3>2. cfg.backend \in Backends
      BY <2>3 DEF SettingsValid, TraceSettingsValid, cfg, SettingsOf, Backends
    <3> DEFINE v == [NoStore EXCEPT !.backend = cfg.backend, !.client = client]
    <3> HIDE DEF cfg
    <3>3. v \in StoreRecord /\ v.traced = 0 /\ v.written = 0
      BY <3>2 DEF NoStore, StoreRecord
    <3>4. v.traced = store[s].traced /\ v.written = store[s].written
      BY <2>1, <3>3 DEF NoStore
    <3> HIDE DEF v
    <3>5. store' = [store EXCEPT ![s] = v]
      BY <3>1 DEF v
    <3> QED
      BY <1>1, <2>1, <3>3, <3>4, <3>5, NothingWritten
  <2> QED
    BY <1>4, <2>2, <2>3 DEF Open
<1>5. ASSUME NEW s \in Sessions, Trace(s)
      PROVE  WrittenInv'
  <2>1. WriteTrace(s, cfg.driver)
    BY <1>5 DEF Trace
  <2> QED
    BY <1>1, <2>1, WriteEffect, WriteKept
<1>6. ASSUME NEW s \in Sessions, Close(s)
      PROVE  WrittenInv'
  <2> DEFINE v == [store[s] EXCEPT !.client = FALSE, !.conn = "none"]
  <2>1. rows' = rows /\ file' = file
        /\ store' = [store EXCEPT ![s].client = FALSE, ![s].conn = "none"]
    BY <1>6 DEF Close, CloseStore
  <2>2. v \in StoreRecord /\ store' = [store EXCEPT ![s] = v]
    BY <1>1, <1>2, <2>1 DEF StoreRecord, Types
  <2>3. v.traced = store[s].traced /\ v.written = store[s].written
    BY <1>2 DEF StoreRecord
  <2> HIDE DEF v
  <2> QED
    BY <1>1, <2>1, <2>2, <2>3, NothingWritten
<1>7. ASSUME NEW s \in Sessions, Drop(s)
      PROVE  WrittenInv'
  <2> DEFINE v == [store[s] EXCEPT !.conn = "dead"]
  <2>1. rows' = rows /\ file' = file /\ store' = [store EXCEPT ![s].conn = "dead"]
    BY <1>7 DEF Drop, ServerDrops
  <2>2. v \in StoreRecord /\ store' = [store EXCEPT ![s] = v]
    BY <1>1, <1>2, <2>1 DEF StoreRecord, Types
  <2>3. v.traced = store[s].traced /\ v.written = store[s].written
    BY <1>2 DEF StoreRecord
  <2> HIDE DEF v
  <2> QED
    BY <1>1, <2>1, <2>2, <2>3, NothingWritten
<1>8. ASSUME NEW s \in Sessions, Build(s) \/ Investigate(s) \/ Raise(s) \/ Advance(s)
      PROVE  WrittenInv'
  BY <1>3, <1>8 DEF Build, Investigate, Raise, Advance, traceVars
<1>9. CASE EditPrompt \/ UNCHANGED vars
  BY <1>3, <1>9 DEF EditPrompt, traceVars, vars
<1> QED
  BY <1>4, <1>5, <1>6, <1>7, <1>8, <1>9 DEF Next

LEMMA InitiallyNothingWritten == Init => WrittenInv
<1> SUFFICES ASSUME Init PROVE WrittenInv
  OBVIOUS
<1>1. \A s \in Sessions : store[s].written = 0
  BY DEF Init, TraceInit, NoStore
<1>2. rows = {} /\ file = <<>>
  BY DEF Init, TraceInit
<1>3. WrittenTraces = {} /\ Readable = {} /\ Torn = {} /\ TornTail = 0
  BY <1>1, <1>2 DEF WrittenTraces, CountedBy, Readable, Torn, TornTail
<1>4. AllNumbered
  BY <1>2 DEF AllNumbered
<1> QED
  BY <1>3, <1>4, FS_EmptySet DEF WrittenInv

-------------------------------------------------------------------------------
(* What an agent remembers                                                   *)

\* The episodes behind a fact.
Behind(m, f) ==
  {e \in m.memories : e.kind = "episodic" /\ e.pattern = f.pattern /\ e.seq < f.seq}

\* A memory whose facts are backed.
Backed(m) ==
  /\ m.seq \in Nat /\ IsFiniteSet(m.memories)
  /\ \A e \in m.memories : e.kind \in {"episodic", "semantic"} /\ e.seq \in Nat /\ e.seq <= m.seq
  /\ \A e, f \in m.memories : e.seq = f.seq => e = f
  /\ \A f \in m.memories : f.kind = "semantic" =>
       /\ f.pattern # 0
       /\ f.support = Cardinality(Behind(m, f)) /\ f.support >= MinSupport
       /\ \A g \in m.memories : g.kind = "semantic" /\ g.pattern = f.pattern => g = f

\* An episode is later than every fact, and backs none.
LEMMA RememberBacked ==
  ASSUME NEW m, Backed(m), NEW pattern
  PROVE  Backed(Remember(m, pattern))
<1> DEFINE new == [kind |-> "episodic", pattern |-> pattern, seq |-> m.seq + 1, support |-> 1]
           n == Remember(m, pattern)
<1>1. n.seq = m.seq + 1 /\ n.memories = m.memories \cup {new}
  BY DEF Remember
<1>2. new.kind = "episodic" /\ new.seq = m.seq + 1
  OBVIOUS
<1> HIDE DEF new, n
<1>3. /\ m.seq \in Nat /\ IsFiniteSet(m.memories)
      /\ \A e \in m.memories : e.kind \in {"episodic", "semantic"} /\ e.seq \in Nat /\ e.seq <= m.seq
      /\ \A e, f \in m.memories : e.seq = f.seq => e = f
  BY DEF Backed
<1>4. n.seq \in Nat /\ IsFiniteSet(n.memories)
  BY <1>1, <1>3, FS_AddElement
<1>5. \A e \in n.memories : e.kind \in {"episodic", "semantic"} /\ e.seq \in Nat /\ e.seq <= n.seq
  BY <1>1, <1>2, <1>3
<1>6. \A e, f \in n.memories : e.seq = f.seq => e = f
  BY <1>1, <1>2, <1>3
<1>7. ASSUME NEW f \in n.memories, f.kind = "semantic"
      PROVE  /\ f.pattern # 0
             /\ f.support = Cardinality(Behind(n, f)) /\ f.support >= MinSupport
             /\ \A g \in n.memories : g.kind = "semantic" /\ g.pattern = f.pattern => g = f
  <2>1. f \in m.memories /\ f.seq <= m.seq /\ f.seq \in Nat
    BY <1>1, <1>2, <1>3, <1>7
  <2>2. ~(new.seq < f.seq)
    BY <1>2, <1>3, <2>1
  <2>3. Behind(n, f) = Behind(m, f)
    BY <1>1, <2>2 DEF Behind
  <2>4. \A g \in n.memories : g.kind = "semantic" => g \in m.memories
    BY <1>1, <1>2
  <2> QED
    BY <1>7, <2>1, <2>3, <2>4 DEF Backed
<1> QED
  BY <1>4, <1>5, <1>6, <1>7 DEF Backed, n

\* Facts are numbered apart, from the last number of the memory on.
LEMMA NumbersApart ==
  ASSUME NEW m, m.seq \in Nat
  PROVE  /\ IsFiniteSet(Promoted(m)) /\ Cardinality(Promoted(m)) \in Nat
         /\ \A p \in Promoted(m) : /\ Number(m, p) \in Nat /\ Number(m, p) > m.seq
                                   /\ Number(m, p) <= m.seq + Cardinality(Promoted(m))
         /\ \A p, q \in Promoted(m) : p < q => Number(m, p) < Number(m, q)
<1> DEFINE Upto(p) == {r \in Promoted(m) : r <= p}
<1>1. IsFiniteSet(Promoted(m)) /\ Promoted(m) \subseteq Nat
  <2>1. 1 \in Int /\ Patterns \in Int /\ Promoted(m) \in SUBSET (1..Patterns)
    BY MemoryAssumption DEF Promoted
  <2>2. IsFiniteSet(1..Patterns)
    BY <2>1, FS_Interval
  <2>3. IsFiniteSet(Promoted(m))
    BY <2>1, <2>2, FS_Subset
  <2>4. Promoted(m) \subseteq Nat
    BY <2>1
  <2> QED
    BY <2>3, <2>4
<1>2. Cardinality(Promoted(m)) \in Nat
  BY <1>1, FS_CardinalityType
<1>3. ASSUME NEW p
      PROVE  /\ IsFiniteSet(Upto(p)) /\ Cardinality(Upto(p)) \in Nat
             /\ Cardinality(Upto(p)) <= Cardinality(Promoted(m))
  <2>1. Upto(p) \in SUBSET Promoted(m)
    OBVIOUS
  <2> QED
    BY <1>1, <2>1, FS_Subset, FS_CardinalityType
<1>4. ASSUME NEW p \in Promoted(m)
      PROVE  Cardinality(Upto(p)) > 0
  <2>1. p \in Upto(p)
    BY <1>1
  <2> HIDE DEF Upto
  <2>2. Cardinality(Upto(p)) # 0
    BY <1>3, <2>1, FS_EmptySet
  <2> QED
    BY <1>3, <2>2
<1>5. ASSUME NEW p \in Promoted(m), NEW q \in Promoted(m), p < q
      PROVE  Cardinality(Upto(p)) < Cardinality(Upto(q))
  <2>1. Upto(p) \in SUBSET Upto(q) /\ q \in Upto(q) /\ q \notin Upto(p)
    BY <1>1, <1>5
  <2> HIDE DEF Upto
  <2>2. /\ Cardinality(Upto(p)) <= Cardinality(Upto(q))
        /\ Cardinality(Upto(p)) # Cardinality(Upto(q))
    BY <1>3, <2>1, FS_Subset
  <2> QED
    BY <1>3, <2>2
<1>6. \A p : Number(m, p) = m.seq + Cardinality(Upto(p))
  BY DEF Number
<1> HIDE DEF Upto
<1> QED
  BY <1>1, <1>2, <1>3, <1>4, <1>5, <1>6

\* Rebuilt facts have the episodes behind them, and no other fact of their pattern.
LEMMA ConsolidateBacked ==
  ASSUME NEW m, Backed(m)
  PROVE  Backed(Consolidate(m))
<1> DEFINE n == Consolidate(m)
           Fact(p) == [kind |-> "semantic", pattern |-> p, seq |-> Number(m, p), support |-> Support(m, p)]
<1>1. n.seq = m.seq + Cardinality(Promoted(m)) /\ n.memories = Episodes(m) \cup Facts(m)
  BY DEF Consolidate
<1>2. Facts(m) = {Fact(p) : p \in Promoted(m)}
  BY DEF Facts
<1>3. \A p : /\ Fact(p).kind = "semantic" /\ Fact(p).pattern = p
             /\ Fact(p).seq = Number(m, p) /\ Fact(p).support = Support(m, p)
  OBVIOUS
<1> HIDE DEF n, Fact
<1>4. /\ m.seq \in Nat /\ IsFiniteSet(m.memories)
      /\ \A e \in m.memories : e.kind \in {"episodic", "semantic"} /\ e.seq \in Nat /\ e.seq <= m.seq
      /\ \A e, f \in m.memories : e.seq = f.seq => e = f
  BY DEF Backed
<1>5. /\ IsFiniteSet(Promoted(m)) /\ Cardinality(Promoted(m)) \in Nat
      /\ \A p \in Promoted(m) : /\ Number(m, p) \in Nat /\ Number(m, p) > m.seq
                                /\ Number(m, p) <= m.seq + Cardinality(Promoted(m))
      /\ \A p, q \in Promoted(m) : p < q => Number(m, p) < Number(m, q)
  BY <1>4, NumbersApart
<1>6. \A e \in Episodes(m) : e \in m.memories /\ e.kind = "episodic" /\ e.seq \in Nat /\ e.seq <= m.seq
  BY <1>4 DEF Episodes
<1>7. \A p \in Promoted(m) : p \in Nat /\ p # 0 /\ Support(m, p) >= MinSupport
  BY MemoryAssumption DEF Promoted
<1>8. IsFiniteSet(n.memories)
  <2>1. IsFiniteSet(Episodes(m))
    <3>1. Episodes(m) \in SUBSET m.memories
      BY DEF Episodes
    <3> QED
      BY <1>4, <3>1, FS_Subset
  <2>2. IsFiniteSet(Facts(m))
    <3> DEFINE F == [p \in Promoted(m) |-> Fact(p)]
    <3>1. F \in Surjection(Promoted(m), Facts(m))
      BY <1>2 DEF Surjection
    <3> QED
      BY <1>5, <3>1, FS_Surjection
  <2>3. IsFiniteSet(Episodes(m) \cup Facts(m))
    BY <2>1, <2>2, FS_Union
  <2> QED
    BY <1>1, <2>3
<1>9. \A e \in n.memories : /\ e.kind \in {"episodic", "semantic"}
                            /\ e.seq \in Nat /\ e.seq <= n.seq
  BY <1>1, <1>2, <1>3, <1>4, <1>5, <1>6
<1>10. \A p, q \in Promoted(m) : Number(m, p) = Number(m, q) => p = q
  BY <1>5, <1>7
<1>11. \A e, f \in n.memories : e.seq = f.seq => e = f
  BY <1>1, <1>2, <1>3, <1>4, <1>5, <1>6, <1>10
<1>12. ASSUME NEW f \in n.memories, f.kind = "semantic"
       PROVE  /\ f.pattern # 0
              /\ f.support = Cardinality(Behind(n, f)) /\ f.support >= MinSupport
              /\ \A g \in n.memories : g.kind = "semantic" /\ g.pattern = f.pattern => g = f
  <2>1. \A g \in n.memories : g.kind = "semantic" => g \in Facts(m)
    BY <1>1, <1>6
  <2>2. PICK p \in Promoted(m) : f = Fact(p)
    BY <1>2, <1>12, <2>1
  <2>3. Behind(n, f) = EpisodesOf(m, p)
    <3>1. \A e \in Episodes(m) : e.seq < f.seq
      BY <1>3, <1>4, <1>5, <1>6, <2>2
    <3>2. \A e \in n.memories : e.kind = "episodic" => e \in Episodes(m)
      BY <1>1, <1>2, <1>3
    <3>3. f.pattern = p
      BY <1>3, <2>2
    <3> QED
      BY <1>1, <1>6, <3>1, <3>2, <3>3 DEF Behind, EpisodesOf
  <2>4. \A g \in Facts(m) : g.pattern = f.pattern => g = f
    BY <1>2, <1>3, <2>2
  <2> QED
    BY <1>3, <1>7, <2>1, <2>2, <2>3, <2>4 DEF Support
<1>13. n.seq \in Nat
  BY <1>1, <1>4, <1>5
<1> QED
  BY <1>8, <1>9, <1>11, <1>12, <1>13 DEF Backed, n

LEMMA NewMemoryBacked == Backed(NewMemory)
  BY FS_EmptySet DEF Backed, NewMemory

MemoryInv == \A s \in Sessions : Backed(memory[s])

LEMMA MemoryKept ==
  ASSUME MemoryInv, memory = [s \in Sessions |-> memory[s]], [Next]_vars
  PROVE  MemoryInv' /\ memory' = [s \in Sessions |-> memory'[s]]
<1>1. ASSUME NEW s \in Sessions, NEW m, Backed(m), memory' = [memory EXCEPT ![s] = m]
      PROVE  MemoryInv' /\ memory' = [r \in Sessions |-> memory'[r]]
  <2>1. memory'[s] = m /\ \A r \in Sessions \ {s} : memory'[r] = memory[r]
    BY <1>1
  <2> QED
    BY <1>1, <2>1 DEF MemoryInv
<1>2. \A s \in Sessions : Backed(memory[s])
  BY DEF MemoryInv
<1>3. CASE memory' = memory
  BY <1>3 DEF MemoryInv
<1>4. ASSUME NEW s \in Sessions, Build(s)
      PROVE  MemoryInv' /\ memory' = [r \in Sessions |-> memory'[r]]
  <2>1. memory' = memory \/ memory' = [memory EXCEPT ![s] = NewMemory]
    BY <1>4 DEF Build
  <2> QED
    BY <1>1, <1>3, <2>1, NewMemoryBacked
<1>5. ASSUME NEW s \in Sessions, Investigate(s)
      PROVE  MemoryInv' /\ memory' = [r \in Sessions |-> memory'[r]]
  <2>1. \/ memory' = memory
        \/ \E pattern \in 0..Patterns : memory' = [memory EXCEPT ![s] = Remember(memory[s], pattern)]
    BY <1>5 DEF Investigate
  <2> QED
    BY <1>1, <1>2, <1>3, <2>1, RememberBacked
<1>6. ASSUME NEW s \in Sessions, Advance(s)
      PROVE  MemoryInv' /\ memory' = [r \in Sessions |-> memory'[r]]
  <2>1. memory' = memory \/ memory' = [memory EXCEPT ![s] = Consolidate(memory[s])]
    BY <1>6 DEF Advance
  <2> QED
    BY <1>1, <1>2, <1>3, <2>1, ConsolidateBacked
<1>7. ASSUME NEW s \in Sessions, Close(s)
      PROVE  MemoryInv' /\ memory' = [r \in Sessions |-> memory'[r]]
  BY <1>1, <1>7, NewMemoryBacked DEF Close
<1>8. ASSUME NEW s \in Sessions, Open(s) \/ Raise(s) \/ Trace(s) \/ Drop(s)
      PROVE  memory' = memory
  BY <1>8 DEF Open, Raise, Trace, Drop, sessionVars
<1>9. CASE EditPrompt \/ UNCHANGED vars
  BY <1>3, <1>9 DEF EditPrompt, vars, sessionVars
<1> QED
  BY <1>3, <1>4, <1>5, <1>6, <1>7, <1>8, <1>9 DEF Next

-------------------------------------------------------------------------------
(* Theorems                                                                  *)

LEMMA Invariants == Spec => [](SessionInv /\ ProvenanceInv)
<1>1. SessionInv /\ ProvenanceInv /\ [Next]_vars => (SessionInv /\ ProvenanceInv)'
  BY SessionKept, ProvenanceKept
<1> QED
  BY <1>1, InitiallyInv, InitiallyGenuine, PTL DEF Spec

\* No investigation goes missing between the loop and the counters of its trace
\* store, and its failure is announced unless there never was a Langfuse client.
THEOREM Accounts == Spec => []InvestigationsAccounted
<1>1. SessionInv => InvestigationsAccounted
  BY DEF SessionInv, Accounted, Counted, InvestigationsAccounted
<1> QED
  BY <1>1, Invariants, PTL

\* A request that is answered, and a script that closes its store, leave neither
\* a connection nor a client behind.
THEOREM StoresAreClosed == Spec => []NothingLeftOpen
<1>1. SessionInv => NothingLeftOpen
  BY DEF SessionInv, Shut, NothingLeftOpen
<1> QED
  BY <1>1, Invariants, PTL

\* A record of a prompt from the registry, of a pinned commit, or of a hash that
\* its backend keeps is of the text of every record that says the same, however
\* often the hosted prompt is edited between them.
THEOREM TextIsIdentified == Spec => []ProvenanceSuffices
<1>1. ProvenanceInv => ProvenanceSuffices
  <2> SUFFICES ASSUME ProvenanceInv, NEW e \in log, Traceable(e), NEW f \in log,
                      e.recorded = f.recorded
               PROVE  e.prompt.text = f.prompt.text
    BY DEF ProvenanceSuffices, SameText
  <2> DEFINE p == e.prompt
             q == f.prompt
  <2>1. Genuine(cfg, p) /\ Genuine(cfg, q) /\ Recorded(p) = Recorded(q)
    BY DEF ProvenanceInv
  <2>2. p.version = q.version /\ (cfg.backend # "langfuse" => p.commit = q.commit)
    BY <2>1 DEF Recorded
  <2> HIDE DEF p, q
  <2>3. CASE \E key : p = FromRegistry(key)
    <3>1. PICK key : p = FromRegistry(key)
      BY <2>3
    <3>2. PICK other : q = FromRegistry(other)
      BY <2>1, <2>2, <3>1 DEF Genuine, FromRegistry
    <3>3. key = other
      BY <2>2, <3>1, <3>2 DEF FromRegistry
    <3> QED
      BY <3>1, <3>2, <3>3 DEF p, q
  <2>4. CASE p.source = "langsmith"
    <3>1. PICK commit :
            /\ commit # 0 /\ (cfg.commit # 0 => commit = cfg.commit)
            /\ p.version = <<"langsmith", p.identifier>>
            /\ p.commit = IF p.hashed THEN commit ELSE cfg.commit
            /\ p.text = <<p.identifier, commit, ExtractSystemText(Manifests[commit])>>
      BY <2>1, <2>4 DEF Genuine, FromRegistry
    <3>2. ASSUME NEW key
          PROVE  q # FromRegistry(key)
      <4>1. p.version # <<key>>
        BY <3>1
      <4> QED
        BY <2>2, <4>1 DEF FromRegistry
    <3>3. PICK other :
            /\ other # 0 /\ (cfg.commit # 0 => other = cfg.commit)
            /\ q.version = <<"langsmith", q.identifier>>
            /\ q.commit = IF q.hashed THEN other ELSE cfg.commit
            /\ q.text = <<q.identifier, other, ExtractSystemText(Manifests[other])>>
      BY <2>1, <3>2 DEF Genuine
    <3>4. p.identifier = q.identifier
      <4>1. <<"langsmith", p.identifier>> = <<"langsmith", q.identifier>>
        BY <2>2, <3>1, <3>3
      <4> QED
        BY <4>1
    <3>5. cfg.commit # 0 \/ (p.hashed /\ cfg.backend # "langfuse")
      BY <2>4 DEF Traceable, p
    <3>6. commit = other
      BY <2>2, <3>1, <3>3, <3>5
    <3> QED
      BY <3>1, <3>3, <3>4, <3>6 DEF p, q
  <2> QED
    BY <2>1, <2>3, <2>4 DEF Genuine
<1> QED
  BY <1>1, Invariants, PTL

\* A fault costs the trace it hits and, in a file, at most the one appended
\* after it, whichever sessions share the file and the server.
THEOREM FaultsAreContained == Spec => []FaultCostsOneTrace
<1>1. FaultInv => (cfg.driver => Cardinality(FailedTraces) <= faults)
  <2>1. FaultInv => Cardinality(FailedTraces) \in Nat /\ Cardinality(Dead) \in Nat
    BY FS_CardinalityType DEF FaultInv
  <2> QED
    BY <2>1 DEF FaultInv
<1>2. WrittenInv => Cardinality(WrittenTraces) <= Cardinality(Readable) + Cardinality(Torn)
  <2> SUFFICES ASSUME WrittenInv
               PROVE  Cardinality(WrittenTraces) <= Cardinality(Readable) + Cardinality(Torn)
    OBVIOUS
  <2>1. /\ Cardinality(WrittenTraces) \in Nat /\ Cardinality(Readable) \in Nat
        /\ Cardinality(Torn) \in Nat /\ TornTail \in {0, 1}
    BY FS_CardinalityType DEF WrittenInv, TornTail
  <2> QED
    BY <2>1 DEF WrittenInv
<1>3. FaultInv /\ WrittenInv => FaultCostsOneTrace
  BY <1>1, <1>2 DEF FaultCostsOneTrace
<1>4. Init => SessionInv /\ FaultInv /\ WrittenInv
  BY InitiallyInv, InitiallyFaultless, InitiallyNothingWritten
<1>5. SessionInv /\ FaultInv /\ WrittenInv /\ [Next]_vars => (SessionInv /\ FaultInv /\ WrittenInv)'
  BY SessionKept, FaultKept, WrittenKept
<1> QED
  BY <1>3, <1>4, <1>5, PTL DEF Spec

\* No fact outlives the episodes it was derived from, or claims more of them than
\* there are, however often a memory is consolidated and added to in between.
THEOREM FactsAreBacked == Spec => []SemanticBacked
<1>1. MemoryInv => SemanticBacked
  BY DEF MemoryInv, Backed, Behind, SemanticBacked
<1>2. Init => MemoryInv /\ memory = [s \in Sessions |-> memory[s]]
  BY NewMemoryBacked DEF Init, MemoryInv
<1>3. MemoryInv /\ memory = [s \in Sessions |-> memory[s]] /\ [Next]_vars
        => (MemoryInv /\ memory = [s \in Sessions |-> memory[s]])'
  BY MemoryKept
<1> QED
  BY <1>1, <1>2, <1>3, PTL DEF Spec

===============================================================================
