# A TLA+ development of the payment routing optimizer

The repository routes card payments over five gateways with a bandit, investigates drops in
conversion with a language-model agent, and turns what the agent finds into constraints the
router honours. These modules model its state machines, TLC checks them on small instances
(`tlc -workers 2 -config X.cfg M.tla`), and TLAPS proves the properties that matter most for every
value of the constants (`tlapm M_proofs.tla`). Paths below are relative to the repository
(`service/`, `src/agent/`, ...); `PROJECT.json` gives the lines every definition models.

## The system

| part | state | operations | talks to |
|---|---|---|---|
| Router service, `service/api.py` | posterior, five history lists, decision counter, clock offset; one lock | `/route`, `/outcome`, `/investigate`, `/constraints`, start and stop | everything below |
| Thompson router, `src/routers/` | discounted successes and failures per gateway | `decide`, `update` | called under the service's lock |
| Constraint layer, `src/agent/constraints.py` | a list of expiring constraints, an RNG | `from_diagnosis`, `add`, `active`, `blocked` | asked by each `/route`, added to by `/investigate` |
| Shared constraints, `service/state.py` | the same list, when it was last refreshed; keys in Redis | `add` + SETEX, `_refresh` | peers, through Redis |
| Posterior snapshot, `service/state.py` | time of the last write; one key in Redis | `maybe_save`, `restore` | the posterior, without its lock |
| Event pipeline, `service/events.py` | a buffer and four counters, no lock | `publish`, `flush` | Kafka, ClickHouse |
| Agent loop, `src/agent/loop.py` | budgets used, calls seen, errors in a row, repairs, conversation | `run` | the provider, the tools |
| Investigator, `src/agent/investigator.py` | a memory, a prompt | `investigate`, from five programs | everything in the next row |
| Memory, traces, prompts, settings, `src/agent/` | episodes and the facts derived from them; counters and a connection; the process's settings | `remember_investigation`, `consolidate`, `write`, `close`, `resolve`, `from_env` | files, Postgres, Langfuse, LangSmith |
| Telemetry, tools and the baseline agent, `src/agent/` | none: arrays and the transcript are given | three of the tools, `dispatch`, `BaselinePolicyClient.create` | the log of payments |
| Other routers, `src/routers/` | estimates or counts | `select`, `update` | called like Thompson's |
| Closed loop and simulator, `src/closed_loop.py`, `src/simulator.py` | the log so far, detection points, a constraint store | `run_closed_loop`, `run_once` | routers, gateways, the agent |
| Demo, `service/demo.py` | injected incidents, the clock offset; one lock | `/simulate/*` | the service, which it can replace |
| Checkout, `checkout/app.py` | none | `/pay`, three calls in turn | the service and the demo, over HTTP |
| Constraint DSL, `dsl/` | none | parse, validate | produces the same constraints in Haskell |
| Off-policy evaluation, grading, scripts, metrics | arrays, counters | batch computations | files |

The handlers of FastAPI are ordinary functions: each request runs on a thread of a pool, against
one `RouterService`. Only the posterior update, the history and the counter are under its lock.
`blocked()`, the refresh from Redis, `events.publish` and `snapshot.maybe_save` run outside it, on
the threads of the requests; the last two, and the constraint list, have no lock of their own.
That is where the hard behaviours are, next to the clocks: constraints are expressed in minutes
since a process started, keys in Redis in seconds, refreshes and snapshots in monotonic seconds.
The demo adds a lock of its own, which payments do not take, and a reset that replaces the service
under handlers that hold on to the old one. The investigator is sequential, but each of its steps
talks to something that fails, and what it found has to be accounted for all the same. The closed
loop is sequential and feeds back: what the agent concludes from the log changes the log.

## Modules

| module | models | abstracts |
|---|---|---|
| `OutcomeLog` | what recording and reading the history promise: atomic, bounded, in order | abstract |
| `RouterService` | `route`, `record`, `_append_history`, `history` and the lock | the posterior is the outcomes credited and the number of decays; `decide` picks any gateway not blocked |
| `Investigation` | what the agent loop promises: so many turns, one that must answer, an ending | abstract |
| `AgentLoop` | `AgentLoop.run` and its helpers, every branch | a response is: refused or not, calls, parses or not, tokens; an investigation has late and not late |
| `Constraints` | `RoutingConstraint`, `from_diagnosis` | confidence is above or below the minimum; an issuer is a spelling |
| `ConstraintStore` | `ConstraintStore` between investigations and decisions | the RNG is a free choice per roll |
| `SharedConstraints` | `RedisConstraintStore` on several replicas | a list is the set of its members; `blocked` on top of it is `ConstraintStore`; each process has a clock of its own |
| `Handlers` | threads, their next statement, a bound on faults | |
| `EventPipeline` | both sinks of `events.py` | an event is the number of its outcome |
| `PosteriorSnapshot` | `PosteriorSnapshot` | an array of counts is the set of outcomes it has absorbed |
| `RecordTail` | what follows the lock in `record`, `lifespan`, crash and restart: composes the two above | one outcome absorbed is one step (`RouterService` has the halves) |
| `Settings` | `Settings.from_env`, what it rejects included | a variable that is only a number is valid or not |
| `MemoryStore` | `remember_investigation`, `consolidate` | scope, gateway and issuer are one pattern |
| `PromptSource` | `resolve`, `_extract_system_text` and the registry, a pull with or without a hash | a text is where it came from |
| `TraceStore` | both trace modules, every backend, its failures | a record is its number |
| `Investigator` | building and investigating, from five programs: composes the four above | the loop is one step with or without a diagnosis (`AgentLoop` has the turns) |
| `Telemetry` | three tools and `dispatch` | a rate is a pair of counts, compared exactly |
| `BaselinePolicy` | `BaselinePolicyClient.create` | confidence is above or below the minimum; evidence is left out |
| `Routers` | the gateways each strategy may select when some are blocked | what was learned is any ranking |
| `ClosedLoop` | `run_closed_loop`, `run_once`: composes the three above and `ConstraintStore` | a rate between 0.001 and 0.999 is any outcome |
| `Checkout` | `/pay` and its three calls | |
| `Demo` | `/simulate/*` over the service, `_DEMO_LOCK`, payments beside it: composes `Checkout` | a row is whose it is and its minute; a service is its clock, events and rows |

`MC*.tla` give the constants their values, `*_proofs.tla` hold the theorems.

**Grain.** A step is what no other thread can interrupt. `RouterService` is finer than that
(every statement that touches shared state is a step) because there the lock alone has to carry
the properties, and some mutants take the lock away. In `EventPipeline`, `PosteriorSnapshot` and
`SharedConstraints` there is no lock and the grain decides what is true, so steps end where
CPython (3.11 to 3.13, what CI and the Dockerfile run) may switch threads: at calls that block or
run Python code, and in the loops of comprehensions, never between `rows = self.buffer` and
`self.buffer = []`. Where a version switches less often the model has more behaviours than it.

**`RouterService`** has `pc[t]`, the next statement of thread `t`, and for each handler the actions
`Route*` (`blocked`, decide, read and write the counter), `Outcome*`/`Record*`/`AppendColumn`/
`TrimColumn` (404, decay, credit, five appends, five deletes, publish) and `Copy*`. The blocked
set is any proper subset of the gateways: `blocked()` returns none where it would return all. What
follows `RecordPublish` is `RecordTail`'s.

**`AgentLoop`** goes through `check`, `create`, `tools` and `done`; the transcript and the kinds
of the messages are kept whole. A tool returns a result or an error, as `dispatch` makes of
`KeyError`, `ValueError` and `TypeError`; other exceptions, of a tool or of the parser, are not modelled
(they would leave `run` without a result).

**`ConstraintStore`** keeps, beside the list, every diagnosis and when it was reached, so that a
block can be related to the finding it rests on. `Decide` may use the previous tick: `route` reads
its tick before it asks.

**`SharedConstraints`** has a handler's `active(tick)` as `Ask`, `Fetch`, `Prune`, `Rebind`,
`Merge`, `Filter` and `add` as `Add`, `SetEx`. The comprehension of line 126 is two steps: it takes
hold of the bound list, later binds what it kept; `replaced[t]` is the list thread `t` goes through
when another has bound a new one in between. `Merge` is one step although it appends in a loop:
between two appends the list has a part of what it will have, and no handler that does not
itself merge takes notice of a part. The second `active()` of `/route`, for a gauge, is another `Ask`.
`started[r]` is `time.time()` in `RouterService.__init__`: replicas start at different times, and `TickAt` counts
from a replica's own start. That splits what the module's text promises in two. By the clock of the
process that applies it a constraint governs for a TTL and is seen once it may be (`GovernsByOwnClock`,
`VisibleByOwnClock`); in seconds since it was installed it does not expire everywhere.
And a refresh stamps the window before it asks Redis: a request that arrives meanwhile is answered from the list as it was. What holds
for any number of handlers holds when no handler of the replica is in a refresh and none has been for longer than the
window (`Settled`), which would let a second refresh overlap it. `slow` has the replicas where that happened.

**`RecordTail`**: `Record`, then the steps of `EventPipeline` up to `CountWrite` and those of
`PosteriorSnapshot` up to `Set`, per thread; `Shutdown` is the flush and forced save of `lifespan`,
entered when every request has been answered (the server drains them); `Crash` and `Restart` start
a process that restores the key. `lists` holds every list the buffer was bound to, so that
a row appended to one that was taken stays visible.

**`Investigator`** has sessions that share the environment, the trace backend and the hosted prompt.
Each runs one program: a request to `/investigate`, `run_investigation.py`, `run_evals.py`,
`close_loop.py` or `contextual_vs_agent.py`. `Plan(s)` lists the investigations the program makes, with the
prompt asked for, whether it remembers and when a memory is new or consolidated. `Open`
is `settings()` and `TraceStore()`, `Build` is `Investigator.__init__`, `Investigate` or `Raise` the
loop, `Trace` the record and its write, `Advance` the programs' loops, `Close` their last line. What memory is recalled
changes the words of the brief and nothing else, so `recall` is left out. A write is one step, with
one disjunct per outcome: `_write_postgres` may find no server, be refused, lose the connection before or after the
commit, or find a connection the server has dropped; the Langfuse sink may have no client; a line goes
to its file in one `write(2)`, of which a full disk may take a part. `Recorded` is what a backend keeps of
a prompt's provenance: Langfuse is sent the version only, the others all of `describe()`.

**`ClosedLoop`** has the payments routed so far (`rows`), the detection points left, the store's list and the
investigation under way. `Wake`, `Ask` and `Conclude` are the investigation, a turn of it per step;
`Route` is the rest of the body of the loop, with the constraint layer asked as `ConstraintStore`
has it and the strategy as `Routers` has it. In the "open" program (`run_once`) nobody is woken while payments
are made; the finished log is a case of the evaluation, which `OpenCase` investigates. The agent is the baseline
one; what a language model may answer is `AgentLoop`'s nondeterminism. Any payment may go through or fail:
base rates, the diurnal swing, noise and degradation events only weigh the outcomes. So `DiagnosesFitWindow` says that a diagnosis
fits the payments of its window, and not that it is right of the fleet. It is not: in the case `diurnal_trough`
the baseline agent blames a gateway that is in its daily trough, and a test expects it to (`evals/cases.py:230-242`,
`tests/test_agent_evals.py:285-292`). What could go wrong, and does not, is that the window is not that of the alert, that rows routed
later, or kept off a gateway by an earlier finding, change what was found, or that the script of calls draws its conclusion from a
result that is missing or of another gateway.

**`Demo`** splits what `_generate_traffic` does per transaction into `ReadClock`, `AdvanceClock` and
`RouteAndRecord`, what `_inject_incident` does into `Filter` and `AppendEvent`, and goes through
`_clear_incidents` gateway by gateway, all between `Enter` and `Leave`: the lock alone keeps them
together, and the mutants take it away. `own[x]` is the service a call found; `SetService` makes
another one live. `Pay` are the calls of a payment, which take no lock and go to the service that is
live when they arrive; filing a row (`File`) reads that service's clock.

## What the runs check

| run | states | checks |
|---|---|---|
| `RouterService` | 200,518 | whenever the lock is free the five lists show the last outcomes credited, row by row; ticks in order; copies whole; decisions see whole updates; no decision uncounted; each outcome published once; `OutcomeLog` is implemented; each request is answered |
| `AgentLoop` | 274,595 | the real bounds of the loop; no call dispatched twice; errors in a row break it; the conversation alternates; never ends on a budget; `Investigation` is implemented, its ending included |
| `ConstraintStore` | 46,440 | a block rests on a live confident finding about that issuer; a live finding is honoured but for the canary, or where all gateways are spoken against |
| `SharedConstraints` | 4,084,636 | two handlers on one replica, one on another, any start times: governs for a TTL by the clock of whoever applies it; seen, and its key known, a window after it was written, once no refresh is under way; kept where it was added unless a refresh outlasts the window; all through restarts |
| `RecordTail` | 3,921,401 | no row sent twice; no full batch left when nobody runs; counters never exceed what was published; the snapshot lags by at most an interval and a save; complete after an orderly stop |
| `Investigator` | 4,694,818 | each investigation that comes to its trace is counted once, as written or as failed; a fault costs its own trace; what a record keeps of a prompt that is registered, pinned or (but for Langfuse) hashed determines the text the model was given; a derived fact is backed by the episodes that support it; nothing is left open |
| `Demo` | 642,345 | the simulated clock keeps pace with the transactions of the batches and rows are filed in order; never two faults on a gateway; a payment is filed at most once over all services, and exactly once if the shopper was told the result |
| `ClosedLoop` | 1,929,146 | what the agent concludes fits the payments of the minutes its alert is about, then and later; what was concluded governs every later payment, whichever strategy routes it, as long as the strategy has a gateway left |

Four more runs check one property each that the repository states and the code violates:

| run | property | the disagreement |
|---|---|---|
| `ConstraintCanary` | `ReleasedReachesGateway` | "leaks a small `canary_rate`" (`constraints.py:16`): with two constraints on a gateway, one roll each, it leaks the product |
| `SharedConstraintsLost` | `AddedIsKept` | "keep serving from the in-process copy" (`state.py:104`): overlapping refreshes of one replica drop what was added between them |
| `SharedConstraintsRestart` | `SurvivesRestart` | "constraints ... survive a restart" (`README.md:994`): ticks restart at zero |
| `RecordTailRow` | `NothingDropped` | "both count failures" (`events.py:25`): a row appended to a list a flush has taken is lost, though nothing failed |

### Other disagreements

Met while modelling; each is a sentence of the repository beside what the code does. Where a property is
stated around one, the property's comment says so. The first three are violations of a property one would like to state instead.

* A constraint "must be visible to every replica within seconds" (`state.py:11`). `_refresh` stamps the window
  before it asks Redis (`state.py:109-111`): a request that arrives while another of its replica is still waiting, for up to the two seconds of
  `socket_timeout`, finds the window fresh and is answered from the list as it was. Two handlers on one replica and
  one on another are enough, with equal clocks and no fault: the third writes a key, a window later the first begins to refresh, the second
  asks and misses it. After an idle hour the key may be an hour old. `KeysReachEveryReplica` and `VisibleByOwnClock` are about
  replicas with no refresh under way.
* "Always expiring ... When it expires, traffic returns" (`constraints.py:22`). A replica whose process started k minutes
  later than the one that installed a constraint (`api.py:82`) applies it until k minutes after its TTL, without any restart or fault: one of
  two replicas has run for two minutes and installs a constraint of two; three minutes on it still governs on the other.
  `GovernsByOwnClock` is the exact statement, proved; `SharedConstraintsRestart` shows the other side, a constraint in force too late.
* "The resolved source, identifier and commit hash go into every trace, so a stored run always says which prompt text
  produced it" (`prompt_source.py:23`). `LangfuseSink._emit` sends the version and drops `record.extra` (`langfuse_sink.py:110-132`):
  with an unpinned hosted prompt that is edited between two investigations, the two traces say the same and are of different texts.
  `ProvenanceSuffices` leaves out what no record can tell.
* `docs/TRACE_QUERIES.md` and a test list `budget_steps` as a stop reason to look for;
  `NeverEndsOnBudget` is proved, so no trace ever has it. The "hard ceilings" of `loop.py:47` can be
  overrun, by the rest of a batch and by the forced answer; `Bounded`, proved, says by how much.
* "Nothing in it can block on Redis" (`README.md:984`, `api.py:9`): `blocked()` refreshes inline.
* `prompt_source.py:109` describes a cache per process; every `Investigator` has a source of its own and it
  is never hit. The arms of an evaluation that differ in prompt version use the same text when
  `AGENT_PROMPT_IDENTIFIER` is set, and without a pinned commit it may change within an arm.
* `api.py` closes the trace store in a `finally`, "leaking one per investigation" otherwise, but opens it before
  the `try`: a prompt version nobody knows raises in between. `NothingLeftOpen` starts where the `try` does.
* A missing Langfuse client fails every write with no warning, though `traces.write` leaves the warning to
  the sink. `InvestigationsAccounted` excepts it.
* `docs/INVESTIGATION_AGENT.md:145` says the cold pass has nothing to remember; memory is written within
  pass 0, and its second case recalls the first.
* `/investigate` ignores the `AGENT_MEMORY_*` variables and those of the loop: it uses a new `MemoryStore()` and a default
  `InvestigatorConfig()`. Its window leaves out the current minute and is empty at tick 0, when the first
  tool call is an error and the answer "no_incident".
* `demo.attempt` (`demo.py:197`) reads `spec.events` without the lock on the ground that it is replaced as a whole;
  `_inject_incident` rebinds it and then appends in place. `demo.reset` promises "no constraints"
  (`demo.py:353`); with Redis the new service pulls the old ones.
* `close_loop.py` never closes its trace store, which `traces.py:279` asks for.
* `run_evals.py --save-baseline --gate` compares a baseline with itself; a run that produced nothing has a Brier score of 0.
* `static_weighted.py` falls back to blocked gateways whenever all those with weight are blocked, which
  `base.py:86` forbids while another is open. `BlocksHonoured` excepts it, which its proof asked for: as it was first
  written, without the exception, it holds only when every gateway has weight, as in the programs of the repository.
* `PIDThompsonRouter` inherits `decide`, which neither inflates nor sets the prediction `update` wants.
* The baseline agent says "fleet-wide" when one gateway is rated and unhealthy, and "single gateway" when none is
  rated healthy but the fleet is; `DiagnosesFitWindow` asks only what fits the gateways with traffic enough.
* A hosted prompt pulled without a `commit_hash` and not pinned has no commit (`prompt_source.py:188`), in any backend;
  `ProvenanceSuffices` excepts it.
* The loop counts failures in a row across batches and looks at the count between turns (`loop.py:139`): a limit passed
  within a batch and made up for by a success is let pass. `RepeatedErrorsBreakTheLoop` is about the transcript a turn ends with.
* `/route` can report a propensity of 0, which `LoggedData` (`ope.py:78`) rejects; only `run_ope.py` floors it.

### Bounds

* `RouterService`: two threads, three requests, two gateways, a history of two rows, so that trimming,
  reordering and a copy between two writers all occur; a report from an unknown gateway and one
  from an unknown issuer.
* `AgentLoop`: three steps, three calls, four tokens, batches of two, responses of zero, one or three
  tokens: each ceiling can be the first hit and each be overrun; two errors in a row; one repair.
* `ConstraintStore`: two gateways (so that two findings can block the fleet), two issuers, one with
  two spellings, a diagnosis for each gate that declines, TTL two, five ticks: overlap, expiry, renewal.
* `SharedConstraints`: two handlers on one replica, so that one asks while the other refreshes and refreshes overlap,
  and one on another; either replica may have run for a minute longer (`MaxHeadStart`). One constraint with a TTL of two minutes, one fault, an
  outage or a restart; a minute and a refresh window are a second, so that the clock goes past both and past the key's end.
  Two constraints for one path, and keys that go long before their constraints, as in production
  (360 seconds against 360 minutes), are the proofs' alone: they hold for any bounds. The violation
  runs have no fault but the restart one is about.
* `RecordTail`: two threads, batches of two, three outcomes, an interval of three seconds and saves
  of up to one; one fault of any kind at any point (a call that fails, one that fails after it was
  applied, one that raises, a crash, a peer's write). Two threads suffice for two flushes and two
  saves at once. Threads are interchangeable: `SYMMETRY`, with no temporal property in that run.
* `Investigator`: a request beside a session of any of the five programs; a prompt edited once, two faults of any kind, one
  pattern and "no incident", promoted from two episodes, three passes of one case, so that a fact is
  derived, rebuilt and outlives nothing; two volumes of traffic. Thirteen environments: every backend, with and without
  its driver or client, the prompt from the registry, hosted, pinned or unusable, and those `from_env` rejects. A pull may fail or come
  without a hash.
* `Demo`: two gateways, two handlers, one payment, a minute per two transactions, batches of up to three (so that one batch
  ends within a minute and the next goes on), three requests, one minute of wall clock, one failed call. Gateways
  and handlers are interchangeable: `SYMMETRY`, no temporal property.
* `ClosedLoop`: two gateways, two issuers, six payments in five minutes (two of them in the first), a window of three, a TTL of three, the agent woken before
  there is anything to see, after three minutes and a minute later, so that windows overlap, the last leaves the first minute out and its
  constraint overlaps the one before; a case that asks about all minutes but the first; one of the two has a weight, so that the static split falls back. One payment suffices for a rate, so that the thresholds decide and
  not the sample size; a window with no payment to a gateway still gives no rate. Every outcome and every strategy's choice is allowed, and
  each of the four diagnoses is reached.

`MaxRequests`, `MaxTick`, `MaxClock`, `MaxHeadStart`, `MaxAdds`, `MaxFaults`, `MaxOutcomes`, `MaxInvestigations`, `MaxEdits`,
`MaxMinutes`, `MaxCount` (the size of a batch), `Patterns` (what may be diagnosed), `Passes`, `Cases` and `Volumes` are
guards of arrivals, of inputs, of time and of faults, never of the code's own steps. Deadlock is
checked in the runs whose system never stops by itself and off where the bounds end it.

### Fairness

`RouterService!FairSpec` asks weak fairness of the steps of a handler that has started: threads are
scheduled, and the lock's critical sections do no I/O. Clients are under no obligation.
`AgentLoop!FairSpec` asks it of the loop: the provider's client has a timeout and the tools are
computations. The other modules state safety only and have no fairness.

## What is proved

For every number of threads, replicas, handlers, gateways, issuers, budget, TTL and batch:

* `RouterService_proofs`: types, `NoDecisionLost`, `DecisionsSeeWholeUpdates`, `CopiesAreWhole`,
  `TicksInOrder`. The inductive invariant says that a thread between two statements of a critical
  section holds the lock, so that at most one is (`Alone`); then, per column, how long a list is
  given where its writer stands, that the stamp a writer took is not below the last tick nor above
  the clock, and that what a reader has copied is a prefix of the columns at one length.
  `HistoryMatchesPosterior`, `PublishedExactlyOnce` and the whole of `ImplementsOutcomeLog`, for any limit on the
  history, need more: per column, how many outcomes the list is behind the posterior where its writer stands (`Lag`);
  the row of an outcome is then found by counting from the end, whether or not the list was trimmed; the newest tick is
  the writer's stamp; and an outcome is published or held by the one handler that will publish it. They assume that
  None is not a copy of the five columns.
* `AgentLoop_proofs`: all six invariants and the safety half of `ImplementsInvestigation`. The
  strengthening relates the phase to what is pending, the counters to the ceilings before and after
  the forced turn (that is why the overrun is one batch, not two), `seen` to the transcript, and
  `errors` to the length of the run of failures at the transcript's end.
* `ConstraintStore_proofs`: types and both properties, `EveryFindingHonoured` as an action property. The
  invariant: the list is, in order, what `from_diagnosis` makes of the accepted findings.
* `SharedConstraints_proofs`: `GovernsByOwnClock`, `KeptUnlessSlow`, `KeysReachEveryReplica` and `VisibleByOwnClock`, for any
  number of replicas and handlers and any start times. Each constraint anywhere (list, key, a handler's hands) was added by
  some process at a tick of its own clock (`SourceInv`), and division relates ticks to seconds. A replica where no refresh has outlasted the
  window has at most one under way, the one that set the stamp, and no list that was replaced in another's
  hands (`RefreshInv`): that is why nothing added is lost there, and `SharedConstraintsLost` shows that it is needed. How far that one refresh
  is says which keys are in the list, in its hands or still to be read (`ReachInv`).
* `Demo_proofs`: `OneFaultPerGateway`, `PaymentFiledOnce` and `ClockKeepsPace`, for any number of handlers,
  payments, gateways, batches and resets. A handler that is not idle
  holds the lock (`Locked`), so between `Filter` and `AppendEvent` the gateway it deals with has no
  injected event; where a payment stands says whether a row of it is filed, and its rows are at most one
  over all services; and between `ReadClock` and `AdvanceClock` the offset read is still the service's,
  so no tick goes back and a row is filed no earlier than those before it. That the clock has moved by every
  `TX_PER_TICK`-th transaction is an equality of two numbers only when nobody is in a batch: the invariant (`PaceInv`)
  says for the one batch under way which of its transactions the clock and the rows already have.
* `RecordTail_proofs`: `NoRowTwice`, `FullBatchIsSent`, `CleanStopKeepsAll`, `SnapshotKeepsUp` and `CountedOnce`, for any number of threads, outcomes
  and faults and any size of batch. An outcome is with one thread that is about to append it, or in one list once, or
  in the table; a list one of whose rows was sent is neither the buffer nor held by a sender; a full buffer has a
  thread that is about to look at it or to flush it; after the shutdown one thread runs the flush and the forced save,
  and how far it is says what the table and the key hold. For `SnapshotKeepsUp`: a save takes
  at most `SaveSeconds`; a stamp that keeps others from saving is that of a save under way or is about as old as the
  key; so a handler that finds no save due leaves nothing older than an interval and a save outside the key
  (`KeepInv`). Both assume that None is not a snapshot. `CountedOnce` is an inequality because increments that race
  are lost: the invariant (`CountInv`) names the sets behind the numbers, the outcomes announced, those settled as sent
  or failed and those in the buffer, which are apart.
* `Investigator_proofs`: all five invariants, for any sessions of any programs in any environment. How far a session has come gives the sum of its store's two counters; a
  failure nobody was told of is one of a Langfuse store without a client, which has then written nothing.
  `ProvenanceSuffices` is inductive with what a prompt is (`Genuine`): its text is that of the registry, or of
  the commit it was pulled at, which it names if pinned or hashed. `FaultCostsOneTrace` needs to know what is still owed: a connection the server has dropped is a fault that has not yet
  cost its trace (`FaultInv`), a file that ends in a torn line one that will swallow the next record (`WrittenInv`),
  and a session's next record is one nobody has recorded. `SemanticBacked` is inductive with its types: an episode is
  numbered after every fact, and facts are rebuilt with the numbers that follow.

* `ClosedLoop_proofs`: `DiagnosesFitWindow` and `BlocksHonoured`, for any finite fleet and issuers, any outcomes, thresholds, windows,
  weights and ascending detection points. The agent has asked the calls of its script and got what the rows say; a
  window is past once it is asked about, so that later payments change nothing found and no constraint governs a payment
  routed before it (`LoopInv`). The rest is arithmetic: the gateway it looks into is of the lowest rate, so that all reach what
  that one reaches, and an issuer below 0.6 of the average of the others is below 0.6. The lowest rate
  exists because being lower, or as low and earlier, is a strict order on finitely many gateways. The average of the
  others' rates is stated as a share of the ways to pick an issuer and a payment of each: a sum over a set is recursive.

The assumptions are those on the constants, named in the modules and evaluated by TLC.

**Only model-checked**: liveness (`EveryRequestAnswered`, the liveness half of `ImplementsInvestigation`), which
with `ENABLED` is out of the prover's reach. Every other property of a passing run has a theorem.

## Not modelled

* `src/ope.py`: estimators over floating-point weights of a finished log. Nothing interleaves, and rationals
  with the propensities of a real log are beyond TLC.
* The Haskell DSL: a parser and a validator of a file format, without state; nothing in the Python program
  reads its output. Its `ZeroCanaryWithoutOverride` is never raised.
* The service's metrics, regret, latency and cost: numbers nothing reads back.
* Grading and the reports of the evaluation harness, benchmarks, sweeps, plots, static pages: arithmetic or
  output on the result of what is modelled.
* The draws and estimates of the routers, and what the simulator makes of probabilities (base rates, diurnal swing,
  noise, degradation events): any ranking and any outcome stand for them. Whether the baseline agent is right of the fleet is
  a matter of those rates, which the repository's evaluation grades.
* `MemoryStore.save` and `load`: no program gives a memory a file; `recall`, which changes words.
* What Redis restores to the service `demo.reset` builds: `SharedConstraints` and `RecordTail`
  have a restart, `Demo` begins services afresh.
