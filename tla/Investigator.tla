----------------------------- MODULE Investigator -----------------------------
(***************************************************************************)
(* One investigation after another, in every program that runs them        *)
(* (src/agent/investigator.py): resolve the prompt, recall, run the loop,  *)
(* remember, trace.  A session is a run of one such program with its       *)
(* TraceStore:                                                             *)
(*                                                                         *)
(*   service    POST /investigate (service/api.py), a thread per request   *)
(*   single     run_investigation.py                                       *)
(*   eval       run_evals.py: three arms of evals/harness.run_arm          *)
(*   closeloop  close_loop.py                                              *)
(*   compare    contextual_vs_agent.py, which traces nothing               *)
(*                                                                         *)
(* Sessions share the environment, the trace backend and the hosted        *)
(* prompt.  What the loop does inside is AgentLoop; what memory it recalls *)
(* only changes the words of the brief.                                    *)
(***************************************************************************)
EXTENDS TraceStore, MemoryStore, PromptSource, SequencesExt

CONSTANTS
  Programs,      \* what the sessions may be: functions from session to program
  Arms,          \* run_evals: the prompt version and the memory of each arm
  Passes, Cases, \* bounds: passes of an arm, cases of a pass
  Volumes,       \* bound: volumes of traffic compared
  Environments   \* what the variables may be

AllPrograms == {"service", "single", "eval", "closeloop", "compare"}

ASSUME InvestigatorAssumption ==
  /\ Programs \subseteq [Sessions -> AllPrograms]
  /\ {Passes, Cases, Volumes} \subseteq Nat \ {0}

VARIABLES
  env,      \* the environment, read once
  kind,     \* session -> the program it runs
  pc,       \* session -> what it does next
  at,       \* session -> which investigation of its plan
  memory,   \* session -> its MemoryStore
  prompt,   \* session -> what its Investigator resolved
  log       \* of the records that can be read: what they say of the prompt, and the
            \* prompt behind them (auxiliary)

vars == <<traceVars, live, env, kind, pc, at, memory, prompt, log>>

cfg == SettingsOf(env)

NoPrompt == [version |-> Unset]

Item(version, remembers, fresh, last) ==
  [version |-> version, remembers |-> remembers, fresh |-> fresh, consolidates |-> last]

\* run_arm: one memory for all passes, consolidated after each.
Arm(a) ==
  [k \in 1..Passes * Cases |-> Item(a.version, a.memory, k = 1, a.memory /\ k % Cases = 0)]

\* The investigations a session makes: of one request, of one case without
\* --prompt or --memory, of every arm, of one incident in the closed loop, of
\* that incident at each volume of traffic.
ServicePlan == << Item(Unset, TRUE, TRUE, FALSE) >>

SinglePlan == << Item(Unset, FALSE, TRUE, FALSE) >>

EvalPlan == FlattenSeq([i \in DOMAIN Arms |-> Arm(Arms[i])])

CloseLoopPlan == << Item(Unset, TRUE, TRUE, FALSE) >>

ComparePlan == [v \in 1..Volumes |-> Item(Unset, TRUE, TRUE, FALSE)]

Plan(s) ==
  CASE kind[s] = "service"   -> ServicePlan
    [] kind[s] = "single"    -> SinglePlan
    [] kind[s] = "eval"      -> EvalPlan
    [] kind[s] = "closeloop" -> CloseLoopPlan
    [] kind[s] = "compare"   -> ComparePlan

Current(s) == Plan(s)[at[s]]

Traces(s) == kind[s] # "compare"

\* close_loop.py leaves its store as it is.
Closes(s) == kind[s] \notin {"closeloop", "compare"}

Init ==
  /\ TraceInit
  /\ live = 1
  /\ env \in Environments
  /\ kind \in Programs
  /\ pc = [s \in Sessions |-> "idle"]
  /\ at = [s \in Sessions |-> 1]
  /\ memory = [s \in Sessions |-> NewMemory]
  /\ prompt = [s \in Sessions |-> NoPrompt]
  /\ log = {}

Goto(s, where) == pc' = [pc EXCEPT ![s] = where]

world == <<env, kind>>

sessionVars == <<at, memory, prompt>>

\* settings() and TraceStore(settings().traces).
Open(s) ==
  /\ pc[s] = "idle"
  /\ IF SettingsValid(env)
     THEN (IF Traces(s) THEN OpenStore(s, cfg) ELSE UNCHANGED store) /\ Goto(s, "building")
     ELSE Goto(s, "failed") /\ UNCHANGED store
  /\ UNCHANGED <<rows, file, faults, live, world, sessionVars, log>>

\* Investigator.__init__: a prompt source of its own resolves the prompt, which
\* raises KeyError for a version nobody knows.
Build(s) ==
  /\ pc[s] = "building"
  /\ \E reached, hashed \in BOOLEAN :
       LET key      == Opt(Current(s).version, Opt(cfg.version, DEFAULT_VERSION))
           resolved == Resolve(cfg, Current(s).version, reached, hashed)
       IN IF resolved.source = "registry" /\ ~Known(key)
          THEN Goto(s, "failed") /\ UNCHANGED prompt
          ELSE Goto(s, "investigating") /\ prompt' = [prompt EXCEPT ![s] = resolved]
  /\ memory' = IF Current(s).fresh THEN [memory EXCEPT ![s] = NewMemory] ELSE memory
  /\ UNCHANGED <<traceVars, live, world, at, log>>

\* The loop ends with a diagnosis, which is remembered, or without one.
Investigate(s) ==
  /\ pc[s] = "investigating"
  /\ \/ /\ Current(s).remembers
        /\ \E pattern \in 0..Patterns :
             memory' = [memory EXCEPT ![s] = Remember(memory[s], pattern)]
     \/ UNCHANGED memory
  /\ Goto(s, IF store[s].backend = "none" THEN "next" ELSE "tracing")
  /\ UNCHANGED <<traceVars, live, world, at, prompt, log>>

\* Mutant: /investigate closes its store only when the investigation returns.
RaiseUnclosed(s) ==
  /\ pc[s] = "investigating"
  /\ Fault
  /\ Goto(s, "failed")
  /\ UNCHANGED <<store, rows, file, live, world, sessionVars, log>>

\* A tool raises what dispatch does not catch.  Only /investigate closes its
\* store on the way out.
Raise(s) ==
  /\ pc[s] = "investigating"
  /\ Fault
  /\ Goto(s, IF kind[s] = "service" THEN "closing" ELSE "failed")
  /\ UNCHANGED <<store, rows, file, live, world, sessionVars, log>>

\* What is left of the prompt in a record: Langfuse is sent its version only,
\* the other backends keep all of describe().
Recorded(p) ==
  IF cfg.backend = "langfuse" THEN [version |-> p.version]
  ELSE [ version |-> p.version, source |-> p.source, identifier |-> p.identifier,
         commit |-> p.commit ]

\* build_record takes the provenance of the prompt along.
Trace(s) ==
  /\ pc[s] = "tracing"
  /\ WriteTrace(s, cfg.driver)
  /\ log' = IF Readable' = Readable THEN log
            ELSE log \cup {[recorded |-> Recorded(prompt[s]), prompt |-> prompt[s]]}
  /\ Goto(s, "next")
  /\ UNCHANGED <<live, world, sessionVars>>

\* On to the next case, or out.
Advance(s) ==
  /\ pc[s] = "next"
  /\ prompt' = [prompt EXCEPT ![s] = NoPrompt]
  /\ memory' = IF Current(s).consolidates
               THEN [memory EXCEPT ![s] = Consolidate(memory[s])] ELSE memory
  /\ \/ at[s] < Len(Plan(s)) /\ at' = [at EXCEPT ![s] = @ + 1] /\ Goto(s, "building")
     \/ at[s] = Len(Plan(s)) /\ UNCHANGED at /\ Goto(s, IF Closes(s) THEN "closing" ELSE "done")
  /\ UNCHANGED <<traceVars, live, world, log>>

\* The memory goes with the request or the process: nobody saves it.
Close(s) ==
  /\ pc[s] = "closing"
  /\ CloseStore(s)
  /\ memory' = [memory EXCEPT ![s] = NewMemory]
  /\ Goto(s, "done")
  /\ UNCHANGED <<live, world, at, prompt, log>>

Drop(s) == ServerDrops(s) /\ UNCHANGED <<live, world, pc, sessionVars, log>>

EditPrompt == Edit /\ UNCHANGED <<traceVars, world, pc, sessionVars, log>>

Next ==
  \/ \E s \in Sessions : \/ Open(s) \/ Build(s) \/ Investigate(s) \/ Raise(s) \/ Trace(s)
                         \/ Advance(s) \/ Close(s) \/ Drop(s)
  \/ EditPrompt

Spec == Init /\ [][Next]_vars

-------------------------------------------------------------------------------
\* No investigation goes missing: each that came to its trace is counted once,
\* as written or as failed, and a failure was announced once -- unless the
\* Langfuse client is missing, when nobody announces it (traces.write,
\* langfuse_sink.write).
InvestigationsAccounted ==
  \A s \in Sessions : store[s].backend # "none" =>
    LET counted == store[s].written + store[s].failures IN
    /\ counted \in {at[s] - 1, at[s]}
    /\ pc[s] = "next" => counted = at[s]
    /\ pc[s] \in {"building", "investigating", "tracing"} => counted = at[s] - 1
    /\ store[s].failures > 0 /\ ~store[s].warned => store[s].written = 0

\* The traces counted: the first count[s] of each session s.
CountedBy(count) == UNION {{s} \X (1..count[s]) : s \in DOMAIN count}

WrittenTraces == CountedBy([s \in Sessions |-> store[s].written])

\* Those of which the operator was told.
FailedTraces == CountedBy([s \in {t \in Sessions : store[t].warned} |-> store[s].failures])

\* A fault costs the trace it hits and, in a file, at most the one appended
\* after it: a write leaves the store ready for the next (_write_postgres), and
\* what was counted as written can be read back.
FaultCostsOneTrace ==
  /\ cfg.driver => Cardinality(FailedTraces) <= faults
  /\ Cardinality(WrittenTraces) <= Cardinality(Readable) + Cardinality(Torn)

SameText(e, f) == e.recorded = f.recorded => e.prompt.text = f.prompt.text

\* The prompt is from the registry, or pinned, or came with a hash that the
\* backend keeps.
Traceable(e) ==
  \/ e.prompt.source = "registry"
  \/ cfg.commit # 0
  \/ e.prompt.hashed /\ cfg.backend # "langfuse"

\* A record of a traceable prompt is mistaken for no other: those that say the
\* same of theirs are of the same text, however the hosted prompt is edited and
\* whichever pulls fail meanwhile (ResolvedPrompt.describe, build_record).  Two
\* of prompts that are not traceable may be, although a run is "always" to say
\* which text produced it (prompt_source.py:23).
ProvenanceSuffices == \A e \in log : Traceable(e) => \A f \in log : SameText(e, f)

\* A semantic memory never outlives or overstates the episodes behind it: there
\* is one per pattern, of enough episodes, all of them older, and memories are
\* numbered without repetition (memory.consolidate).
SemanticBacked ==
  \A s \in Sessions :
    LET m == memory[s].memories
        Older(f) == {e \in m : /\ e.kind = "episodic" /\ e.pattern = f.pattern
                               /\ e.seq < f.seq}
    IN /\ \A e, f \in m : e.seq = f.seq => e = f
       /\ \A e \in m : e.seq <= memory[s].seq
       /\ \A f \in m : f.kind = "semantic" =>
            /\ f.pattern # 0
            /\ f.support = Cardinality(Older(f)) /\ f.support >= MinSupport
            /\ \A g \in m : g.kind = "semantic" /\ g.pattern = f.pattern => g = f

\* Whatever a request to /investigate ends with once its Investigator is built,
\* its connection and its Langfuse client are gone when it is answered, and so
\* they are after the scripts that close their store (api.investigate's finally,
\* TraceStore.close).
NothingLeftOpen ==
  \A s \in Sessions :
    \/ pc[s] = "done" /\ Closes(s)
    \/ pc[s] = "failed" /\ kind[s] = "service" /\ prompt[s] # NoPrompt
    => store[s].conn = "none" /\ ~store[s].client

===============================================================================
