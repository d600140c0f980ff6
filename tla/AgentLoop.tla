------------------------------- MODULE AgentLoop -------------------------------
(***************************************************************************)
(* One investigation (agent/loop.py, AgentLoop.run): the loop that asks    *)
(* the model for a response, runs the tools it calls, repairs an answer    *)
(* that does not parse, and demands a conclusion when a budget runs out.   *)
(*                                                                         *)
(* The provider and the tools are the environment: a response is any       *)
(* record of Responses, a dispatched tool succeeds or fails.  Text, names  *)
(* and arguments are abstracted to whether an answer parses and to the     *)
(* signature of a call; wall-clock time to whether the limit has passed.   *)
(***************************************************************************)
EXTENDS Integers, Sequences

CONSTANTS MaxSteps, MaxToolCalls, MaxOutputTokens, \* LoopBudget
          MaxConsecutiveErrors, RepairAttempts,
          Signatures,   \* name and arguments of a tool call
          MaxParallel,  \* most tool calls the provider puts in a response
          TokenCosts,   \* output tokens a response may use
          MaxCost,      \* the largest of them
          None

Budgets == {"budget_steps", "budget_tool_calls", "budget_tokens", "budget_time"}
StopReasons == Budgets \cup
  {"provider_error", "refusal", "tool_error_limit", "invalid_output", "completed"}

ASSUME BudgetAssumption ==
  /\ MaxSteps \in Nat \ {0} /\ MaxToolCalls \in Nat \ {0}
  /\ MaxOutputTokens \in Nat \ {0} /\ MaxConsecutiveErrors \in Nat \ {0}
  /\ RepairAttempts \in Nat
  /\ MaxParallel \in Nat \ {0}
  /\ MaxCost \in Nat /\ TokenCosts \subseteq 0..MaxCost
  /\ None \notin StopReasons

VARIABLES
  phase,      \* next statement of run: "check", "create", "tools" or "done"
  steps,      \* len(steps)
  toolCalls,  \* usage.tool_calls
  tokens,     \* usage.output_tokens
  late,       \* wall_seconds have elapsed
  seen,       \* seen_calls
  errors,     \* consecutive_errors
  repairs,    \* repairs_used
  forced,
  pending,    \* calls of the current response that have not run
  transcript, \* the tool calls of all the steps, in order
  messages,   \* the conversation, by kind of message
  stopReason  \* result.stop_reason, None while the loop runs

vars == <<phase, steps, toolCalls, tokens, late, seen, errors, repairs, forced,
          pending, transcript, messages, stopReason>>

\* A response: refused or not, the calls it makes, whether its text is a
\* diagnosis from_json accepts, the tokens it used.
Responses ==
  [ refused : BOOLEAN,
    calls   : UNION {[1..n -> Signatures] : n \in 0..MaxParallel},
    parses  : BOOLEAN,
    tokens  : TokenCosts ]

Init ==
  /\ phase = "check"
  /\ steps = 0 /\ toolCalls = 0 /\ tokens = 0
  /\ late = FALSE
  /\ seen = {}
  /\ errors = 0 /\ repairs = 0
  /\ forced = FALSE
  /\ pending = <<>>
  /\ transcript = <<>>
  /\ messages = <<"brief">>
  /\ stopReason = None

\* _budget_exceeded: the first ceiling that is hit.  Mutant: steps are not counted.
BudgetWithoutSteps ==
  IF toolCalls >= MaxToolCalls THEN "budget_tool_calls" ELSE IF late THEN "budget_time" ELSE None

BudgetExceeded ==
  CASE steps >= MaxSteps                                     -> "budget_steps"
    [] steps < MaxSteps /\ toolCalls >= MaxToolCalls         -> "budget_tool_calls"
    [] steps < MaxSteps /\ toolCalls < MaxToolCalls
         /\ tokens >= MaxOutputTokens                        -> "budget_tokens"
    [] steps < MaxSteps /\ toolCalls < MaxToolCalls
         /\ tokens < MaxOutputTokens /\ late                 -> "budget_time"
    [] OTHER                                                 -> None

\* Mutant: the reason is not recorded.
FinishSilently(reason) == phase' = "done" /\ UNCHANGED stopReason
Finish(reason) == phase' = "done" /\ stopReason' = reason

\* The top of the loop.  A ceiling hit for the first time asks for an answer.
CheckBudget ==
  /\ phase = "check"
  /\ IF BudgetExceeded # None /\ forced
     THEN /\ Finish(BudgetExceeded)
          /\ UNCHANGED <<forced, messages>>
     ELSE /\ phase' = "create"
          /\ forced' = (BudgetExceeded # None)
          /\ messages' = IF forced' THEN Append(messages, "force") ELSE messages
          /\ UNCHANGED stopReason
  /\ UNCHANGED <<steps, toolCalls, tokens, late, seen, errors, repairs, pending, transcript>>

ProviderFails ==
  /\ phase = "create"
  /\ Finish("provider_error")
  /\ UNCHANGED <<steps, toolCalls, tokens, late, seen, errors, repairs, forced, pending,
                 transcript, messages>>

Refused(r) ==
  /\ phase = "create" /\ r.refused
  /\ tokens' = tokens + r.tokens
  /\ steps' = steps + 1
  /\ Finish("refusal")
  /\ UNCHANGED <<toolCalls, late, seen, errors, repairs, forced, pending, transcript,
                 messages>>

\* The response calls tools, and the loop still runs them.
\* Mutant: it always does.
RunsAllTools(r) == r.calls # <<>>
RunsTools(r) == r.calls # <<>> /\ ~forced

ToolTurn(r) ==
  /\ phase = "create" /\ ~r.refused /\ RunsTools(r)
  /\ tokens' = tokens + r.tokens
  /\ pending' = r.calls
  /\ messages' = Append(messages, "tool_use")
  /\ phase' = "tools"
  /\ UNCHANGED <<steps, toolCalls, late, seen, errors, repairs, forced, transcript,
                 stopReason>>

\* One call of the batch.  A signature seen before is not dispatched: it gets
\* the nudge, which is not an error even where the call it repeats failed.
\* Mutants: every call is dispatched; a success does not reset the count.
AlwaysDispatched(call) == {"ok", "error"}
OutcomesOf(call) == IF call \in seen THEN {"duplicate"} ELSE {"ok", "error"}
TotalErrors(outcome) == IF outcome = "error" THEN errors + 1 ELSE errors
ErrorsAfter(outcome) == IF outcome = "error" THEN errors + 1 ELSE 0

ExecuteTool ==
  /\ phase = "tools" /\ pending # <<>>
  /\ \E outcome \in OutcomesOf(Head(pending)) :
       /\ transcript' = Append(transcript, [call |-> Head(pending), outcome |-> outcome])
       /\ errors' = ErrorsAfter(outcome)
  /\ seen' = seen \cup {Head(pending)}
  /\ toolCalls' = toolCalls + 1
  /\ pending' = Tail(pending)
  /\ UNCHANGED <<phase, steps, tokens, late, repairs, forced, messages, stopReason>>

\* All results go back in one message; the error limit is looked at only now.
ToolTurnEnds ==
  /\ phase = "tools" /\ pending = <<>>
  /\ messages' = Append(messages, "tool_results")
  /\ steps' = steps + 1
  /\ IF errors >= MaxConsecutiveErrors
     THEN Finish("tool_error_limit")
     ELSE phase' = "check" /\ UNCHANGED stopReason
  /\ UNCHANGED <<toolCalls, tokens, late, seen, errors, repairs, forced, pending, transcript>>

\* No tools to run, or none allowed any more: the text is the answer.
FinalAnswer(r) ==
  /\ phase = "create" /\ ~r.refused /\ ~RunsTools(r)
  /\ r.parses
  /\ tokens' = tokens + r.tokens
  /\ steps' = steps + 1
  /\ Finish("completed")
  /\ UNCHANGED <<toolCalls, late, seen, errors, repairs, forced, pending, transcript,
                 messages>>

\* What follows an answer that does not parse.  Mutant: the answer is not kept.
RepairOnly == <<"repair">>
RepairTurns == <<"answer", "repair">>

InvalidAnswer(r) ==
  /\ phase = "create" /\ ~r.refused /\ ~RunsTools(r)
  /\ ~r.parses
  /\ tokens' = tokens + r.tokens
  /\ steps' = steps + 1
  /\ IF repairs < RepairAttempts /\ ~forced
     THEN /\ repairs' = repairs + 1
          /\ messages' = messages \o RepairTurns
          /\ phase' = "check"
          /\ UNCHANGED stopReason
     ELSE /\ Finish("invalid_output")
          /\ UNCHANGED <<repairs, messages>>
  /\ UNCHANGED <<toolCalls, late, seen, errors, forced, pending, transcript>>

Elapse ==
  /\ phase # "done" /\ ~late
  /\ late' = TRUE
  /\ UNCHANGED <<phase, steps, toolCalls, tokens, seen, errors, repairs, forced, pending,
                 transcript, messages, stopReason>>

Respond == \E r \in Responses : Refused(r) \/ ToolTurn(r) \/ FinalAnswer(r) \/ InvalidAnswer(r)

Loop == CheckBudget \/ ProviderFails \/ Respond \/ ExecuteTool \/ ToolTurnEnds

Returned == phase = "done" /\ UNCHANGED vars

Next == Loop \/ Elapse \/ Returned

Spec == Init /\ [][Next]_vars

\* The loop runs on: a provider call returns or raises (the clients carry
\* timeouts), a tool returns.
FairSpec == Spec /\ WF_vars(Loop)

-------------------------------------------------------------------------------
(* Properties                                                                *)

MessageKinds == {"brief", "force", "tool_use", "tool_results", "answer", "repair"}
Calls == [call : Signatures, outcome : {"ok", "error", "duplicate"}]

Typed ==
  /\ phase \in {"check", "create", "tools", "done"}
  /\ steps \in Nat /\ toolCalls \in Nat /\ tokens \in Nat
  /\ errors \in Nat /\ repairs \in Nat
  /\ late \in BOOLEAN /\ forced \in BOOLEAN
  /\ seen \in SUBSET Signatures
  /\ pending \in Seq(Signatures)
  /\ transcript \in Seq(Calls)
  /\ messages \in Seq(MessageKinds)
  /\ stopReason \in StopReasons \cup {None}

\* Every variable has its type, and a reason is given when the loop returns, not
\* before.
TypeOK == Typed /\ (phase = "done" <=> stopReason # None)

\* "Bounded" (loop.py:13): what the ceilings really bound.  A turn in progress
\* is never cut short and one more response is asked for, so steps overrun by
\* one, tool calls by one batch less a call, tokens by two responses less one.
Bounded ==
  /\ steps <= MaxSteps + 1
  /\ toolCalls <= MaxToolCalls - 1 + MaxParallel
  /\ tokens <= MaxOutputTokens - 1 + 2 * MaxCost

\* "Non-repeating" (loop.py:18): no call is dispatched twice in an
\* investigation, within a batch or across turns and repairs.
NonRepeating ==
  \A i, j \in DOMAIN transcript :
    i < j /\ transcript[i].call = transcript[j].call => transcript[j].outcome = "duplicate"

\* The last n calls all failed.
TrailingErrors(n) ==
  /\ Len(transcript) >= n
  /\ \A i \in Len(transcript) - n + 1 .. Len(transcript) : transcript[i].outcome = "error"

\* "Only repeated errors break the loop" (loop.py:16): the model is never asked
\* again after MaxConsecutiveErrors failures in a row, and the loop blames
\* tool errors only when there were that many.
RepeatedErrorsBreakTheLoop ==
  /\ phase = "create" => ~TrailingErrors(MaxConsecutiveErrors)
  /\ stopReason = "tool_error_limit" => TrailingErrors(MaxConsecutiveErrors)

AssistantTurn == {"tool_use", "answer"}

\* The conversation sent to the provider is one it accepts: it ends with a user
\* turn, tool results come right after the turn that called the tools, and
\* nowhere else, and nothing follows the demand for a conclusion.
ConversationWellFormed ==
  phase = "create" =>
    /\ messages[Len(messages)] \notin AssistantTurn
    /\ \A i \in 1..Len(messages) - 1 :
         /\ messages[i] = "tool_use" <=> messages[i + 1] = "tool_results"
         /\ messages[i] = "answer" <=> messages[i + 1] = "repair"
         /\ messages[i] # "force"

\* "Answer-forcing" (loop.py:21): no investigation is returned for lack of
\* budget, the model has always been asked for a conclusion first.
NeverEndsOnBudget == stopReason \notin Budgets

-------------------------------------------------------------------------------
(* The loop implements Investigation: a turn is one iteration of it.         *)

Contract == INSTANCE Investigation WITH
  MaxTurns <- MaxSteps,
  Endings  <- StopReasons \ Budgets,
  Open     <- None,
  stage    <- IF phase = "done" THEN "ended"
              ELSE IF forced THEN "answering" ELSE "investigating",
  turns    <- steps,
  ending   <- stopReason

\* "Terminating" and "Answer-forcing" (loop.py:14, 21): at most MaxSteps turns,
\* then at most one more that must answer, and the loop always ends, with a
\* reason that is never the budget.
ImplementsInvestigation == Contract!Spec

===============================================================================
