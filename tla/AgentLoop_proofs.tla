---------------------------- MODULE AgentLoop_proofs ----------------------------
(***************************************************************************)
(* Proofs about AgentLoop, for every budget, every set of signatures and   *)
(* every size of batch: the invariants its runs check, and that each step  *)
(* of the loop is a step of Investigation or changes nothing it sees.      *)
(***************************************************************************)
EXTENDS AgentLoop, TLAPS

-------------------------------------------------------------------------------
(* The inductive invariant                                                   *)

\* What is known of the loop's control at each phase.
ControlInv ==
  /\ phase \in {"check", "tools"} => ~forced
  /\ phase # "done" <=> stopReason = None
  /\ stopReason \notin Budgets

\* How far each counter can be from its ceiling at each phase.
StepsInv ==
  /\ steps <= MaxSteps + 1
  /\ phase # "done" => steps <= MaxSteps
  /\ phase = "tools" => steps < MaxSteps
  /\ phase = "create" /\ ~forced => steps < MaxSteps

ToolCallsInv ==
  /\ toolCalls + Len(pending) <= MaxToolCalls - 1 + MaxParallel
  /\ phase = "create" /\ ~forced => toolCalls < MaxToolCalls
  /\ phase # "tools" => pending = <<>>

TokensInv ==
  /\ tokens <= MaxOutputTokens - 1 + 2 * MaxCost
  /\ phase # "done" => tokens <= MaxOutputTokens - 1 + MaxCost
  /\ phase = "create" /\ ~forced => tokens < MaxOutputTokens

\* seen_calls holds every call of the transcript.
SeenInv ==
  /\ \A i \in DOMAIN transcript : transcript[i].call \in seen
  /\ NonRepeating

\* consecutive_errors is the length of the failed run the transcript ends with.
ErrorRun ==
  /\ errors <= Len(transcript)
  /\ \A i \in Len(transcript) - errors + 1 .. Len(transcript) :
       transcript[i].outcome = "error"
  /\ errors < Len(transcript) => transcript[Len(transcript) - errors].outcome # "error"

\* The loop goes on only below the limit, and stops for errors only at it.
ErrorsInv ==
  /\ phase \in {"check", "create"} => errors < MaxConsecutiveErrors
  /\ stopReason = "tool_error_limit" => errors >= MaxConsecutiveErrors

Last == messages[Len(messages)]

PairsOK ==
  \A i \in 1..Len(messages) - 1 :
    /\ messages[i] = "tool_use" <=> messages[i + 1] = "tool_results"
    /\ messages[i] = "answer" <=> messages[i + 1] = "repair"
    /\ messages[i] # "force"

MessagesInv ==
  phase # "done" =>
    /\ Len(messages) >= 1
    /\ PairsOK
    /\ phase = "check" => Last \notin AssistantTurn \cup {"force"}
    /\ phase = "tools" => Last = "tool_use"
    /\ phase = "create" => Last \notin AssistantTurn /\ (Last = "force" => forced)

IInv ==
  /\ Typed /\ ControlInv
  /\ StepsInv /\ ToolCallsInv /\ TokensInv
  /\ SeenInv /\ ErrorRun /\ ErrorsInv /\ MessagesInv

-------------------------------------------------------------------------------
(* Lemmas                                                                    *)

\* What is used of a response.
LEMMA ResponseFacts ==
  ASSUME NEW r \in Responses
  PROVE  /\ r.refused \in BOOLEAN /\ r.parses \in BOOLEAN
         /\ r.calls \in Seq(Signatures)
         /\ Len(r.calls) \in Nat /\ Len(r.calls) <= MaxParallel
         /\ r.tokens \in Nat /\ r.tokens <= MaxCost
<1>1. PICK n \in 0..MaxParallel : r.calls \in [1..n -> Signatures]
  BY DEF Responses
<1>2. r.calls \in Seq(Signatures) /\ Len(r.calls) = n
  BY <1>1, BudgetAssumption
<1>3. r.tokens \in 0..MaxCost
  BY BudgetAssumption DEF Responses
<1>4. r.refused \in BOOLEAN /\ r.parses \in BOOLEAN
  BY DEF Responses
<1> QED
  BY <1>2, <1>3, <1>4, BudgetAssumption

\* The budget is within its ceilings exactly when none is reported.
LEMMA BudgetFacts ==
  ASSUME Typed
  PROVE  /\ BudgetExceeded \in Budgets \cup {None}
         /\ BudgetExceeded = None =>
              steps < MaxSteps /\ toolCalls < MaxToolCalls /\ tokens < MaxOutputTokens
<1> DEFINE S == steps >= MaxSteps  C == toolCalls >= MaxToolCalls
           T == tokens >= MaxOutputTokens
<1>1. /\ S <=> ~(steps < MaxSteps)
      /\ C <=> ~(toolCalls < MaxToolCalls)
      /\ T <=> ~(tokens < MaxOutputTokens)
  BY BudgetAssumption DEF Typed
<1>2. "budget_steps" # None /\ "budget_tool_calls" # None /\ "budget_tokens" # None
      /\ "budget_time" # None
  BY BudgetAssumption DEF StopReasons, Budgets
<1>3. BudgetExceeded \in Budgets \cup {None}
  BY <1>1 DEF BudgetExceeded, Budgets, Typed
<1>4. BudgetExceeded = None => ~S /\ ~C /\ ~T
  BY <1>1, <1>2 DEF BudgetExceeded
<1> QED
  BY <1>1, <1>3, <1>4

\* Types are preserved.
LEMMA TypeStep == ASSUME Typed, [Next]_vars PROVE Typed'
<1> USE DEF Finish, RunsTools, OutcomesOf, ErrorsAfter, RepairTurns
<1>1. CASE CheckBudget
  <2>1. BudgetExceeded \in Budgets \cup {None}
    BY BudgetFacts
  <2>2. messages \in Seq(MessageKinds) /\ "force" \in MessageKinds
    BY DEF Typed, MessageKinds
  <2>3. Append(messages, "force") \in Seq(MessageKinds)
    BY <2>2
  <2>4. messages' \in Seq(MessageKinds)
    BY <1>1, <2>2, <2>3 DEF CheckBudget
  <2>5. stopReason' \in StopReasons \cup {None}
    BY <1>1, <2>1 DEF CheckBudget, Typed, StopReasons
  <2>6. phase' \in {"create", "done"} /\ forced' \in BOOLEAN
    BY <1>1 DEF CheckBudget, Typed
  <2> QED
    BY <1>1, <2>4, <2>5, <2>6 DEF CheckBudget, Typed
<1>2. CASE ProviderFails
  BY <1>2 DEF ProviderFails, Typed, StopReasons
<1>3. ASSUME NEW r \in Responses, Refused(r) PROVE Typed'
  BY <1>3, ResponseFacts DEF Refused, Typed, StopReasons
<1>4. ASSUME NEW r \in Responses, ToolTurn(r) PROVE Typed'
  BY <1>4, ResponseFacts DEF ToolTurn, Typed, MessageKinds
<1>5. ASSUME NEW r \in Responses, FinalAnswer(r) PROVE Typed'
  BY <1>5, ResponseFacts DEF FinalAnswer, Typed, StopReasons
<1>6. ASSUME NEW r \in Responses, InvalidAnswer(r) PROVE Typed'
  <2>1. <<"answer", "repair">> \in Seq(MessageKinds)
    BY DEF MessageKinds
  <2>2. messages \o <<"answer", "repair">> \in Seq(MessageKinds)
    BY <2>1 DEF Typed
  <2>3. messages' \in Seq(MessageKinds)
    BY <1>6, <2>2 DEF InvalidAnswer, Typed
  <2>4. stopReason' \in StopReasons \cup {None} /\ phase' \in {"check", "done"}
    BY <1>6 DEF InvalidAnswer, Typed, StopReasons
  <2>5. tokens' \in Nat /\ steps' \in Nat /\ repairs' \in Nat
    BY SMTT(30), <1>6, ResponseFacts DEF InvalidAnswer, Typed
  <2> QED
    BY <1>6, <2>3, <2>4, <2>5 DEF InvalidAnswer, Typed
<1>7. CASE ExecuteTool
  <2>1. pending # <<>> /\ pending \in Seq(Signatures)
    BY <1>7 DEF ExecuteTool, Typed
  <2>2. Head(pending) \in Signatures /\ Tail(pending) \in Seq(Signatures)
    BY <2>1
  <2>3. PICK outcome \in {"ok", "error", "duplicate"} :
          /\ transcript' = Append(transcript, [call |-> Head(pending), outcome |-> outcome])
          /\ errors' = IF outcome = "error" THEN errors + 1 ELSE 0
    BY <1>7 DEF ExecuteTool
  <2>4. [call |-> Head(pending), outcome |-> outcome] \in Calls
    BY <2>2 DEF Calls
  <2>5. transcript' \in Seq(Calls)
    BY <2>3, <2>4 DEF Typed
  <2> QED
    BY <1>7, <2>2, <2>3, <2>5 DEF ExecuteTool, Typed
<1>8. CASE ToolTurnEnds
  BY <1>8 DEF ToolTurnEnds, Typed, StopReasons, MessageKinds
<1>9. CASE Elapse
  BY <1>9 DEF Elapse, Typed
<1>10. CASE UNCHANGED vars
  BY <1>10 DEF vars, Typed
<1> QED
  BY <1>1, <1>2, <1>3, <1>4, <1>5, <1>6, <1>7, <1>8, <1>9, <1>10
  DEF Next, Loop, Respond, Returned

\* The control invariant is preserved.
LEMMA ControlStep == ASSUME Typed, ControlInv, [Next]_vars PROVE ControlInv'
<1> USE DEF Finish, RunsTools, OutcomesOf, ErrorsAfter, RepairTurns
<1>0. None \notin StopReasons
  BY BudgetAssumption
<1>1. CASE CheckBudget
  <2>1. ~forced /\ phase = "check"
    BY <1>1 DEF CheckBudget, ControlInv
  <2>2. phase' = "create" /\ UNCHANGED stopReason
    BY <1>1, <2>1 DEF CheckBudget
  <2> QED
    BY <2>1, <2>2 DEF ControlInv
<1>2. CASE ProviderFails
  BY <1>0, <1>2 DEF ProviderFails, ControlInv, StopReasons, Budgets
<1>3. ASSUME NEW r \in Responses, Refused(r) PROVE ControlInv'
  BY <1>0, <1>3 DEF Refused, ControlInv, StopReasons, Budgets
<1>4. ASSUME NEW r \in Responses, ToolTurn(r) PROVE ControlInv'
  BY <1>4 DEF ToolTurn, ControlInv
<1>5. ASSUME NEW r \in Responses, FinalAnswer(r) PROVE ControlInv'
  BY <1>0, <1>5 DEF FinalAnswer, ControlInv, StopReasons, Budgets
<1>6. ASSUME NEW r \in Responses, InvalidAnswer(r) PROVE ControlInv'
  BY <1>0, <1>6 DEF InvalidAnswer, ControlInv, StopReasons, Budgets
<1>7. CASE ExecuteTool
  BY <1>7 DEF ExecuteTool, ControlInv
<1>8. CASE ToolTurnEnds
  BY <1>0, <1>8 DEF ToolTurnEnds, ControlInv, StopReasons, Budgets
<1>9. CASE Elapse
  BY <1>9 DEF Elapse, ControlInv
<1>10. CASE UNCHANGED vars
  BY <1>10 DEF vars, ControlInv
<1> QED
  BY <1>1, <1>2, <1>3, <1>4, <1>5, <1>6, <1>7, <1>8, <1>9, <1>10
  DEF Next, Loop, Respond, Returned

\* Steps stay under their ceiling.
LEMMA StepsStep ==
  ASSUME Typed, ControlInv, StepsInv, [Next]_vars
  PROVE  StepsInv'
<1> USE DEF Finish, RunsTools, OutcomesOf, ErrorsAfter, RepairTurns
<1>0. steps \in Nat /\ toolCalls \in Nat /\ tokens \in Nat
  BY DEF Typed
<1>1. CASE CheckBudget
  <2>1. phase' = "create" /\ UNCHANGED <<steps, toolCalls, tokens, pending>>
    BY <1>1 DEF CheckBudget, ControlInv
  <2>2. ~forced' => steps < MaxSteps /\ toolCalls < MaxToolCalls /\ tokens < MaxOutputTokens
    BY <1>1, BudgetFacts DEF CheckBudget, ControlInv
  <2> QED
    BY <1>1, <2>1, <2>2, <1>0, BudgetAssumption DEF CheckBudget, StepsInv
<1>2. CASE ProviderFails
  BY <1>2, <1>0, BudgetAssumption DEF ProviderFails, ControlInv, StepsInv
<1>3. ASSUME NEW r \in Responses, Refused(r) PROVE StepsInv'
  BY <1>3, ResponseFacts, <1>0, BudgetAssumption DEF Refused, ControlInv, StepsInv
<1>4. ASSUME NEW r \in Responses, ToolTurn(r) PROVE StepsInv'
  BY <1>4, ResponseFacts, <1>0, BudgetAssumption DEF ToolTurn, ControlInv, StepsInv
<1>5. ASSUME NEW r \in Responses, FinalAnswer(r) PROVE StepsInv'
  BY <1>5, ResponseFacts, <1>0, BudgetAssumption DEF FinalAnswer, ControlInv, StepsInv
<1>6. ASSUME NEW r \in Responses, InvalidAnswer(r) PROVE StepsInv'
  BY <1>6, ResponseFacts, <1>0, BudgetAssumption DEF InvalidAnswer, ControlInv, StepsInv
<1>7. CASE ExecuteTool
  BY <1>7, <1>0, BudgetAssumption DEF ExecuteTool, ControlInv, StepsInv
<1>8. CASE ToolTurnEnds
  BY <1>8, <1>0, BudgetAssumption DEF ToolTurnEnds, ControlInv, StepsInv
<1>9. CASE Elapse
  BY <1>9, <1>0, BudgetAssumption DEF Elapse, ControlInv, StepsInv
<1>10. CASE UNCHANGED vars
  BY <1>10, <1>0, BudgetAssumption DEF vars, ControlInv, StepsInv
<1> QED
  BY <1>1, <1>2, <1>3, <1>4, <1>5, <1>6, <1>7, <1>8, <1>9, <1>10
  DEF Next, Loop, Respond, Returned

\* Tool calls stay under their ceiling.
LEMMA ToolCallsStep ==
  ASSUME Typed, ControlInv, ToolCallsInv, [Next]_vars
  PROVE  ToolCallsInv'
<1> USE DEF Finish, RunsTools, OutcomesOf, ErrorsAfter, RepairTurns
<1>0. steps \in Nat /\ toolCalls \in Nat /\ tokens \in Nat
  BY DEF Typed
<1>1. CASE CheckBudget
  <2>1. phase' = "create" /\ UNCHANGED <<steps, toolCalls, tokens, pending>>
    BY <1>1 DEF CheckBudget, ControlInv
  <2>2. ~forced' => steps < MaxSteps /\ toolCalls < MaxToolCalls /\ tokens < MaxOutputTokens
    BY <1>1, BudgetFacts DEF CheckBudget, ControlInv
  <2> QED
    BY <1>1, <2>1, <2>2, <1>0, BudgetAssumption DEF CheckBudget, ToolCallsInv
<1>2. CASE ProviderFails
  BY <1>2, <1>0, BudgetAssumption DEF ProviderFails, ControlInv, ToolCallsInv
<1>3. ASSUME NEW r \in Responses, Refused(r) PROVE ToolCallsInv'
  BY <1>3, ResponseFacts, <1>0, BudgetAssumption DEF Refused, ControlInv, ToolCallsInv
<1>4. ASSUME NEW r \in Responses, ToolTurn(r) PROVE ToolCallsInv'
  <2>1. toolCalls < MaxToolCalls /\ pending' = r.calls /\ toolCalls' = toolCalls
        /\ phase' = "tools"
    BY <1>4 DEF ToolTurn, ToolCallsInv
  <2>2. Len(pending') \in Nat /\ Len(pending') <= MaxParallel
    BY <2>1, ResponseFacts
  <2> QED
    BY <2>1, <2>2, <1>0, BudgetAssumption DEF ToolCallsInv
<1>5. ASSUME NEW r \in Responses, FinalAnswer(r) PROVE ToolCallsInv'
  BY <1>5, ResponseFacts, <1>0, BudgetAssumption DEF FinalAnswer, ControlInv, ToolCallsInv
<1>6. ASSUME NEW r \in Responses, InvalidAnswer(r) PROVE ToolCallsInv'
  BY <1>6, ResponseFacts, <1>0, BudgetAssumption DEF InvalidAnswer, ControlInv, ToolCallsInv
<1>7. CASE ExecuteTool
  <2>1. pending \in Seq(Signatures) /\ pending # <<>>
    BY <1>7 DEF ExecuteTool, Typed
  <2>2. Len(pending) \in Nat /\ Len(Tail(pending)) = Len(pending) - 1
    BY <2>1
  <2>3. toolCalls' + Len(pending') = toolCalls + Len(pending)
    BY <1>7, <1>0, <2>2 DEF ExecuteTool
  <2> QED
    BY <1>7, <2>3 DEF ExecuteTool, ToolCallsInv
<1>8. CASE ToolTurnEnds
  BY <1>8, <1>0, BudgetAssumption DEF ToolTurnEnds, ControlInv, ToolCallsInv
<1>9. CASE Elapse
  BY <1>9, <1>0, BudgetAssumption DEF Elapse, ControlInv, ToolCallsInv
<1>10. CASE UNCHANGED vars
  BY <1>10, <1>0, BudgetAssumption DEF vars, ControlInv, ToolCallsInv
<1> QED
  BY <1>1, <1>2, <1>3, <1>4, <1>5, <1>6, <1>7, <1>8, <1>9, <1>10
  DEF Next, Loop, Respond, Returned

\* Tokens stay under their ceiling.
LEMMA TokensStep ==
  ASSUME Typed, ControlInv, TokensInv, [Next]_vars
  PROVE  TokensInv'
<1> USE DEF Finish, RunsTools, OutcomesOf, ErrorsAfter, RepairTurns
<1>0. steps \in Nat /\ toolCalls \in Nat /\ tokens \in Nat
  BY DEF Typed
<1>1. CASE CheckBudget
  <2>1. phase' = "create" /\ UNCHANGED <<steps, toolCalls, tokens, pending>>
    BY <1>1 DEF CheckBudget, ControlInv
  <2>2. ~forced' => steps < MaxSteps /\ toolCalls < MaxToolCalls /\ tokens < MaxOutputTokens
    BY <1>1, BudgetFacts DEF CheckBudget, ControlInv
  <2> QED
    BY <1>1, <2>1, <2>2, <1>0, BudgetAssumption DEF CheckBudget, TokensInv
<1>2. CASE ProviderFails
  BY <1>2, <1>0, BudgetAssumption DEF ProviderFails, ControlInv, TokensInv
<1>3. ASSUME NEW r \in Responses, Refused(r) PROVE TokensInv'
  BY <1>3, ResponseFacts, <1>0, BudgetAssumption DEF Refused, ControlInv, TokensInv
<1>4. ASSUME NEW r \in Responses, ToolTurn(r) PROVE TokensInv'
  BY <1>4, ResponseFacts, <1>0, BudgetAssumption DEF ToolTurn, ControlInv, TokensInv
<1>5. ASSUME NEW r \in Responses, FinalAnswer(r) PROVE TokensInv'
  BY <1>5, ResponseFacts, <1>0, BudgetAssumption DEF FinalAnswer, ControlInv, TokensInv
<1>6. ASSUME NEW r \in Responses, InvalidAnswer(r) PROVE TokensInv'
  BY <1>6, ResponseFacts, <1>0, BudgetAssumption DEF InvalidAnswer, ControlInv, TokensInv
<1>7. CASE ExecuteTool
  BY <1>7, <1>0, BudgetAssumption DEF ExecuteTool, ControlInv, TokensInv
<1>8. CASE ToolTurnEnds
  BY <1>8, <1>0, BudgetAssumption DEF ToolTurnEnds, ControlInv, TokensInv
<1>9. CASE Elapse
  BY <1>9, <1>0, BudgetAssumption DEF Elapse, ControlInv, TokensInv
<1>10. CASE UNCHANGED vars
  BY <1>10, <1>0, BudgetAssumption DEF vars, ControlInv, TokensInv
<1> QED
  BY <1>1, <1>2, <1>3, <1>4, <1>5, <1>6, <1>7, <1>8, <1>9, <1>10
  DEF Next, Loop, Respond, Returned

\* What running one call does to the transcript and to the error counter.
LEMMA ExecuteToolFacts ==
  ASSUME Typed, ExecuteTool,
         NEW n, n = Len(transcript)
  PROVE  /\ n \in Nat /\ Len(transcript') = n + 1
         /\ \A i \in 1..n : transcript'[i] = transcript[i]
         /\ seen' = seen \cup {transcript'[n + 1].call}
         /\ transcript'[n + 1].call \in seen => transcript'[n + 1].outcome = "duplicate"
         /\ errors' = IF transcript'[n + 1].outcome = "error" THEN errors + 1 ELSE 0
<1>1. PICK outcome \in IF Head(pending) \in seen THEN {"duplicate"} ELSE {"ok", "error"} :
        /\ transcript' = Append(transcript, [call |-> Head(pending), outcome |-> outcome])
        /\ errors' = IF outcome = "error" THEN errors + 1 ELSE 0
  BY DEF ExecuteTool, OutcomesOf, ErrorsAfter
<1>2. pending \in Seq(Signatures) /\ pending # <<>>
  BY DEF ExecuteTool, Typed, OutcomesOf, ErrorsAfter
<1>3. Head(pending) \in Signatures
  BY <1>2
<1>4. [call |-> Head(pending), outcome |-> outcome] \in Calls
  BY <1>1, <1>3 DEF Calls
<1>5. transcript \in Seq(Calls)
  BY DEF Typed
<1>6. /\ n \in Nat /\ Len(transcript') = n + 1
      /\ \A i \in 1..n : transcript'[i] = transcript[i]
      /\ transcript'[n + 1] = [call |-> Head(pending), outcome |-> outcome]
  BY <1>1, <1>4, <1>5
<1>7. seen' = seen \cup {Head(pending)}
  BY DEF ExecuteTool, OutcomesOf, ErrorsAfter
<1> QED
  BY <1>1, <1>6, <1>7

\* Every other step leaves the transcript and seen_calls alone.
LEMMA OnlyToolsExtendTranscript ==
  ASSUME [Next]_vars, ~ExecuteTool
  PROVE  UNCHANGED <<transcript, seen, errors>>
BY DEF Next, Loop, Respond, Returned, vars, CheckBudget, ProviderFails, Refused, ToolTurn,
       FinalAnswer, InvalidAnswer, ToolTurnEnds, Elapse

\* No call is dispatched twice, and seen_calls remembers all of them.
LEMMA SeenStep ==
  ASSUME Typed, SeenInv, [Next]_vars
  PROVE  SeenInv'
<1>1. CASE ~ExecuteTool
  BY <1>1, OnlyToolsExtendTranscript DEF SeenInv, NonRepeating
<1>2. CASE ExecuteTool
  <2> DEFINE n == Len(transcript)
  <2>1. /\ n \in Nat /\ Len(transcript') = n + 1
        /\ \A i \in 1..n : transcript'[i] = transcript[i]
        /\ seen' = seen \cup {transcript'[n + 1].call}
        /\ transcript'[n + 1].call \in seen => transcript'[n + 1].outcome = "duplicate"
    BY <1>2, ExecuteToolFacts
  <2>2. DOMAIN transcript = 1..n /\ DOMAIN transcript' = 1..(n + 1)
    <3>1. transcript \in Seq(Calls) /\ transcript' \in Seq(Calls)
      BY TypeStep DEF Typed
    <3> QED
      BY <3>1, <2>1
  <2> HIDE DEF n
  <2>3. \A i \in 1..n : transcript[i].call \in seen
    BY <2>2 DEF SeenInv
  <2>4. \A i \in 1..(n + 1) : transcript'[i].call \in seen'
    BY <2>1, <2>3
  <2>5. ASSUME NEW i \in 1..(n + 1), NEW j \in 1..(n + 1), i < j,
               transcript'[i].call = transcript'[j].call
        PROVE  transcript'[j].outcome = "duplicate"
    <3>1. CASE j \in 1..n
      <4>1. i \in 1..n
        BY <2>1, <2>5, <3>1
      <4> QED
        BY <2>1, <2>2, <2>5, <3>1, <4>1 DEF SeenInv, NonRepeating
    <3>2. CASE j = n + 1
      <4>1. i \in 1..n
        BY <2>1, <2>5, <3>2
      <4>2. transcript'[i].call \in seen
        BY <2>1, <2>3, <4>1
      <4> QED
        BY <2>1, <2>5, <3>2, <4>2
    <3> QED
      BY <2>1, <3>1, <3>2
  <2> QED
    BY <2>2, <2>4, <2>5 DEF SeenInv, NonRepeating
<1> QED
  BY <1>1, <1>2

\* The error counter follows the failed run the transcript ends with.
LEMMA ErrorRunStep ==
  ASSUME Typed, ErrorRun, [Next]_vars
  PROVE  ErrorRun'
<1>1. CASE ~ExecuteTool
  BY <1>1, OnlyToolsExtendTranscript DEF ErrorRun
<1>2. CASE ExecuteTool
  <2> DEFINE n == Len(transcript)
  <2>1. /\ n \in Nat /\ Len(transcript') = n + 1
        /\ \A i \in 1..n : transcript'[i] = transcript[i]
        /\ errors' = IF transcript'[n + 1].outcome = "error" THEN errors + 1 ELSE 0
    BY <1>2, ExecuteToolFacts
  <2>2. errors \in Nat /\ errors' \in Nat
    BY <2>1 DEF Typed
  <2>3. /\ errors <= n
        /\ \A i \in n - errors + 1 .. n : transcript[i].outcome = "error"
        /\ errors < n => transcript[n - errors].outcome # "error"
    BY DEF ErrorRun
  <2> HIDE DEF n
  <2>4. CASE transcript'[n + 1].outcome = "error"
    <3>1. errors' = errors + 1 /\ errors' <= n + 1
      BY <2>1, <2>2, <2>3, <2>4
    <3>2. ASSUME NEW i \in n + 1 - errors' + 1 .. n + 1
          PROVE  transcript'[i].outcome = "error"
      <4>1. i = n + 1 \/ (i \in n - errors + 1 .. n /\ i \in 1..n)
        BY <2>1, <2>2, <2>3, <3>1, <3>2
      <4> QED
        BY <2>1, <2>3, <2>4, <4>1
    <3>3. ASSUME errors' < n + 1
          PROVE  transcript'[n + 1 - errors'].outcome # "error"
      <4>1. n + 1 - errors' = n - errors /\ errors < n /\ n - errors \in 1..n
        BY <2>1, <2>2, <3>1, <3>3
      <4> QED
        BY <2>1, <2>3, <4>1
    <3> QED
      BY <2>1, <3>1, <3>2, <3>3 DEF ErrorRun
  <2>5. CASE transcript'[n + 1].outcome # "error"
    <3>1. errors' = 0 /\ n + 1 - 0 = n + 1 /\ ~(\E i \in n + 1 - 0 + 1 .. n + 1 : TRUE)
      BY <2>1, <2>2, <2>5
    <3> QED
      BY <2>1, <2>5, <3>1 DEF ErrorRun
  <2> QED
    BY <2>4, <2>5
<1> QED
  BY <1>1, <1>2

\* The loop goes on only below the error limit.
LEMMA ErrorsStep ==
  ASSUME Typed, ControlInv, ErrorsInv, [Next]_vars
  PROVE  ErrorsInv'
<1> USE DEF Finish, RunsTools, OutcomesOf, ErrorsAfter, RepairTurns
<1>0. errors \in Nat /\ errors' \in Nat
  BY TypeStep DEF Typed
<1>1. CASE CheckBudget
  <2>1. phase = "check" /\ UNCHANGED <<errors, stopReason>>
    BY <1>1 DEF CheckBudget, ControlInv
  <2> QED
    BY <2>1 DEF ErrorsInv
<1>2. CASE ProviderFails
  BY <1>2 DEF ProviderFails, ErrorsInv
<1>3. ASSUME NEW r \in Responses, Refused(r) PROVE ErrorsInv'
  BY <1>3 DEF Refused, ErrorsInv
<1>4. ASSUME NEW r \in Responses, ToolTurn(r) PROVE ErrorsInv'
  BY <1>4 DEF ToolTurn, ErrorsInv
<1>5. ASSUME NEW r \in Responses, FinalAnswer(r) PROVE ErrorsInv'
  BY <1>5 DEF FinalAnswer, ErrorsInv
<1>6. ASSUME NEW r \in Responses, InvalidAnswer(r) PROVE ErrorsInv'
  BY <1>6 DEF InvalidAnswer, ErrorsInv
<1>7. CASE ExecuteTool
  <2>1. phase = "tools" /\ phase' = "tools" /\ stopReason' = stopReason /\ stopReason = None
    BY <1>7 DEF ExecuteTool, ControlInv
  <2>2. None # "tool_error_limit"
    BY BudgetAssumption DEF StopReasons
  <2> QED
    BY <2>1, <2>2 DEF ErrorsInv
<1>8. CASE ToolTurnEnds
  <2>1. errors' = errors
    BY <1>8 DEF ToolTurnEnds
  <2>2. CASE errors >= MaxConsecutiveErrors
    BY <1>8, <2>1, <2>2 DEF ToolTurnEnds, ErrorsInv
  <2>3. CASE ~(errors >= MaxConsecutiveErrors)
    <3>1. phase = "tools" /\ phase' = "check" /\ stopReason' = stopReason
      BY <1>8, <2>3 DEF ToolTurnEnds
    <3>2. errors < MaxConsecutiveErrors
      BY <1>0, <2>3, BudgetAssumption
    <3> QED
      BY <2>1, <3>1, <3>2 DEF ErrorsInv
  <2> QED
    BY <2>2, <2>3
<1>9. CASE Elapse
  BY <1>9 DEF Elapse, ErrorsInv
<1>10. CASE UNCHANGED vars
  BY <1>10 DEF vars, ErrorsInv
<1> QED
  BY <1>1, <1>2, <1>3, <1>4, <1>5, <1>6, <1>7, <1>8, <1>9, <1>10
  DEF Next, Loop, Respond, Returned

\* Appending a message that answers no turn, to a conversation whose last
\* message waits for none, keeps its turns paired.
LEMMA PairsAppend ==
  ASSUME messages \in Seq(MessageKinds), Len(messages) >= 1, PairsOK,
         NEW m \in MessageKinds, messages' = Append(messages, m),
         Last = "tool_use" <=> m = "tool_results",
         Last = "answer" <=> m = "repair",
         Last # "force"
  PROVE  PairsOK' /\ Len(messages') >= 1 /\ Last' = m
<1> DEFINE n == Len(messages)
<1>1. n \in Nat /\ Len(messages') = n + 1 /\ messages'[n + 1] = m
      /\ \A i \in 1..n : messages'[i] = messages[i]
  OBVIOUS
<1>2. Last = messages[n]
  BY DEF Last
<1>3. \A i \in 1..n - 1 :
        /\ messages[i] = "tool_use" <=> messages[i + 1] = "tool_results"
        /\ messages[i] = "answer" <=> messages[i + 1] = "repair"
        /\ messages[i] # "force"
  BY DEF PairsOK
<1>4. n >= 1
  OBVIOUS
<1> HIDE DEF n
<1>5. ASSUME NEW i \in 1..n
      PROVE  /\ messages'[i] = "tool_use" <=> messages'[i + 1] = "tool_results"
             /\ messages'[i] = "answer" <=> messages'[i + 1] = "repair"
             /\ messages'[i] # "force"
  <2>1. CASE i = n
    BY <1>1, <1>2, <1>4, <2>1
  <2>2. CASE i # n
    <3>1. i \in 1..n - 1 /\ i + 1 \in 1..n
      BY <1>1, <2>2
    <3> QED
      BY <1>1, <1>3, <3>1
  <2> QED
    BY <2>1, <2>2
<1>6. Len(messages') - 1 = n /\ Len(messages') >= 1
  BY <1>1, <1>4
<1>7. Last' = m
  BY <1>1 DEF Last
<1> QED
  BY <1>5, <1>6, <1>7 DEF PairsOK

\* The same for an answer and the demand to repair it.
LEMMA PairsRepair ==
  ASSUME messages \in Seq(MessageKinds), Len(messages) >= 1, PairsOK,
         messages' = messages \o <<"answer", "repair">>,
         Last \notin {"tool_use", "answer", "force"}
  PROVE  PairsOK' /\ Len(messages') >= 1 /\ Last' = "repair"
<1> DEFINE n == Len(messages)
<1>1. n \in Nat /\ Len(messages') = n + 2 /\ messages'[n + 1] = "answer"
      /\ messages'[n + 2] = "repair" /\ \A i \in 1..n : messages'[i] = messages[i]
  OBVIOUS
<1>2. Last = messages[n]
  BY DEF Last
<1>3. \A i \in 1..n - 1 :
        /\ messages[i] = "tool_use" <=> messages[i + 1] = "tool_results"
        /\ messages[i] = "answer" <=> messages[i + 1] = "repair"
        /\ messages[i] # "force"
  BY DEF PairsOK
<1>4. n >= 1
  OBVIOUS
<1> HIDE DEF n
<1>5. ASSUME NEW i \in 1..n + 1
      PROVE  /\ messages'[i] = "tool_use" <=> messages'[i + 1] = "tool_results"
             /\ messages'[i] = "answer" <=> messages'[i + 1] = "repair"
             /\ messages'[i] # "force"
  <2>1. CASE i = n + 1
    <3>1. messages'[i] = "answer" /\ messages'[i + 1] = "repair"
      <4>1. i + 1 = n + 2
        BY <1>1, <2>1
      <4> QED
        BY <1>1, <2>1, <4>1
    <3> QED
      BY <3>1
  <2>2. CASE i = n
    <3>1. messages'[i] = Last /\ messages'[i + 1] = "answer"
      BY <1>1, <1>2, <1>4, <2>2
    <3> QED
      BY <3>1
  <2>3. CASE i # n /\ i # n + 1
    <3>1. i \in 1..n - 1 /\ i + 1 \in 1..n /\ i \in 1..n
      BY <1>1, <2>3
    <3> QED
      BY <1>1, <1>3, <3>1
  <2> QED
    BY <2>1, <2>2, <2>3
<1>6. Len(messages') - 1 = n + 1 /\ Len(messages') >= 1
  BY <1>1, <1>4
<1>7. Last' = "repair"
  BY <1>1 DEF Last
<1> QED
  BY <1>5, <1>6, <1>7 DEF PairsOK

\* The conversation stays well formed.
LEMMA MessagesStep ==
  ASSUME Typed, ControlInv, MessagesInv, [Next]_vars
  PROVE  MessagesInv'
<1> USE DEF Finish, RunsTools, OutcomesOf, ErrorsAfter, RepairTurns
<1>0. messages \in Seq(MessageKinds) /\ phase \in {"check", "create", "tools", "done"}
  BY DEF Typed
<1>a. UNCHANGED messages => UNCHANGED <<Len(messages), PairsOK, Last>>
  BY DEF PairsOK, Last
<1>1. CASE CheckBudget
  <2>1. phase = "check" /\ phase' = "create" /\ ~forced
        /\ (IF forced' THEN messages' = Append(messages, "force") ELSE messages' = messages)
    BY <1>1 DEF CheckBudget, ControlInv
  <2>2. Len(messages) >= 1 /\ PairsOK /\ Last \notin {"tool_use", "answer", "force"}
    BY <2>1 DEF MessagesInv, AssistantTurn
  <2>3. CASE forced'
    <3>1. "force" \in MessageKinds /\ messages' = Append(messages, "force")
      BY <2>1, <2>3 DEF MessageKinds
    <3>2. PairsOK' /\ Len(messages') >= 1 /\ Last' = "force"
      BY <1>0, <2>2, <3>1, PairsAppend
    <3> QED
      BY <2>1, <2>3, <3>2 DEF MessagesInv, AssistantTurn
  <2>4. CASE ~forced'
    BY <1>a, <2>1, <2>2, <2>4 DEF MessagesInv, AssistantTurn
  <2> QED
    BY <2>3, <2>4
<1>2. CASE ProviderFails
  BY <1>2 DEF ProviderFails, MessagesInv
<1>3. ASSUME NEW r \in Responses, Refused(r) PROVE MessagesInv'
  BY <1>3 DEF Refused, MessagesInv
<1>4. ASSUME NEW r \in Responses, ToolTurn(r) PROVE MessagesInv'
  <2>1. phase = "create" /\ ~forced /\ phase' = "tools"
        /\ messages' = Append(messages, "tool_use")
    BY <1>4 DEF ToolTurn
  <2>2. Len(messages) >= 1 /\ PairsOK /\ Last \notin {"tool_use", "answer", "force"}
    BY <2>1 DEF MessagesInv, AssistantTurn
  <2>3. "tool_use" \in MessageKinds
    BY DEF MessageKinds
  <2>4. PairsOK' /\ Len(messages') >= 1 /\ Last' = "tool_use"
    BY <1>0, <2>1, <2>2, <2>3, PairsAppend
  <2> QED
    BY <2>1, <2>4 DEF MessagesInv
<1>5. ASSUME NEW r \in Responses, FinalAnswer(r) PROVE MessagesInv'
  BY <1>5 DEF FinalAnswer, MessagesInv
<1>6. ASSUME NEW r \in Responses, InvalidAnswer(r) PROVE MessagesInv'
  <2>1. CASE phase' = "done"
    BY <2>1 DEF MessagesInv
  <2>2. CASE phase' # "done"
    <3>1. phase = "create" /\ ~forced /\ phase' = "check"
          /\ messages' = messages \o <<"answer", "repair">>
      BY <1>6, <2>2 DEF InvalidAnswer
    <3>2. Len(messages) >= 1 /\ PairsOK /\ Last \notin {"tool_use", "answer", "force"}
      BY <3>1 DEF MessagesInv, AssistantTurn
    <3>3. PairsOK' /\ Len(messages') >= 1 /\ Last' = "repair"
      BY <1>0, <3>1, <3>2, PairsRepair
    <3> QED
      BY <3>1, <3>3 DEF MessagesInv, AssistantTurn
  <2> QED
    BY <2>1, <2>2
<1>7. CASE ExecuteTool
  BY <1>7, <1>a DEF ExecuteTool, MessagesInv
<1>8. CASE ToolTurnEnds
  <2>1. phase = "tools" /\ phase' \in {"check", "done"}
        /\ messages' = Append(messages, "tool_results")
    BY <1>8 DEF ToolTurnEnds
  <2>2. Len(messages) >= 1 /\ PairsOK /\ Last = "tool_use"
    BY <2>1 DEF MessagesInv
  <2>3. "tool_results" \in MessageKinds
    BY DEF MessageKinds
  <2>4. PairsOK' /\ Len(messages') >= 1 /\ Last' = "tool_results"
    BY <1>0, <2>1, <2>2, <2>3, PairsAppend
  <2> QED
    BY <2>1, <2>4 DEF MessagesInv, AssistantTurn
<1>9. CASE Elapse
  BY <1>9, <1>a DEF Elapse, MessagesInv
<1>10. CASE UNCHANGED vars
  BY <1>10, <1>a DEF vars, MessagesInv
<1> QED
  BY <1>1, <1>2, <1>3, <1>4, <1>5, <1>6, <1>7, <1>8, <1>9, <1>10
  DEF Next, Loop, Respond, Returned

-------------------------------------------------------------------------------
(* Theorems                                                                  *)

LEMMA InitIInv == Init => IInv
<1> SUFFICES ASSUME Init PROVE IInv
  OBVIOUS
<1>1. None \notin StopReasons
  BY BudgetAssumption
<1>2. transcript = <<>> /\ pending = <<>> /\ messages = <<"brief">> /\ stopReason = None
      /\ phase = "check" /\ steps = 0 /\ toolCalls = 0 /\ tokens = 0 /\ errors = 0
      /\ ~forced
  BY DEF Init
<1>3. Typed
  <2>1. "brief" \in MessageKinds
    BY DEF MessageKinds
  <2>2. <<"brief">> \in Seq(MessageKinds)
    BY <2>1
  <2>3. <<>> \in Seq(Signatures) /\ <<>> \in Seq(Calls)
    OBVIOUS
  <2>4. pending \in Seq(Signatures) /\ transcript \in Seq(Calls) /\ messages \in Seq(MessageKinds)
    BY <1>2, <2>2, <2>3, Zenon
  <2>5. /\ late \in BOOLEAN /\ forced \in BOOLEAN
        /\ seen \in SUBSET Signatures
        /\ stopReason \in StopReasons \cup {None}
    BY DEF Init
  <2>6. /\ steps \in Nat /\ toolCalls \in Nat /\ tokens \in Nat
        /\ errors \in Nat /\ repairs \in Nat
        /\ phase \in {"check", "create", "tools", "done"}
    BY DEF Init
  <2> QED
    BY <2>4, <2>5, <2>6, Zenon DEF Typed
<1>4. ControlInv
  BY <1>1, <1>2 DEF ControlInv, StopReasons
<1>5. StepsInv /\ ToolCallsInv /\ TokensInv
  BY <1>2, BudgetAssumption DEF StepsInv, ToolCallsInv, TokensInv
<1>6. SeenInv
  BY <1>2 DEF SeenInv, NonRepeating
<1>7. ErrorRun /\ ErrorsInv
  <2>1. "tool_error_limit" # None
    BY <1>1 DEF StopReasons
  <2> QED
    BY <1>2, <2>1, BudgetAssumption DEF ErrorRun, ErrorsInv
<1>8. MessagesInv
  BY <1>2 DEF MessagesInv, PairsOK, Last, AssistantTurn
<1> QED
  BY <1>3, <1>4, <1>5, <1>6, <1>7, <1>8 DEF IInv

LEMMA NextIInv == IInv /\ [Next]_vars => IInv'
BY TypeStep, ControlStep, StepsStep, ToolCallsStep, TokensStep, SeenStep, ErrorRunStep,
   ErrorsStep, MessagesStep DEF IInv

LEMMA Invariance == Spec => []IInv
BY InitIInv, NextIInv, PTL DEF Spec

\* Every variable keeps its type, whatever the budget.
THEOREM TypeCorrect == Spec => []TypeOK
<1>1. IInv => TypeOK
  BY DEF IInv, ControlInv, TypeOK
<1> QED
  BY <1>1, Invariance, PTL

\* Steps, tool calls and tokens never pass their ceilings by more than one
\* forced turn, one batch, and two responses.
THEOREM LoopIsBounded == Spec => []Bounded
<1>1. IInv => Bounded
  <2> SUFFICES ASSUME IInv PROVE Bounded
    OBVIOUS
  <2>1. pending \in Seq(Signatures) /\ toolCalls \in Nat
    BY DEF IInv, Typed
  <2>2. Len(pending) \in Nat
    BY <2>1
  <2> QED
    BY <2>1, <2>2, BudgetAssumption DEF IInv, StepsInv, ToolCallsInv, TokensInv, Bounded
<1> QED
  BY <1>1, Invariance, PTL

\* No tool call is dispatched twice in an investigation.
THEOREM NoCallRepeats == Spec => []NonRepeating
<1>1. IInv => NonRepeating
  BY DEF IInv, SeenInv
<1> QED
  BY <1>1, Invariance, PTL

\* The loop stops for tool errors exactly when the limit of failures in a row
\* is reached at the end of a turn.
THEOREM ErrorsBreakTheLoop == Spec => []RepeatedErrorsBreakTheLoop
<1>1. IInv => RepeatedErrorsBreakTheLoop
  <2> SUFFICES ASSUME IInv PROVE RepeatedErrorsBreakTheLoop
    OBVIOUS
  <2> DEFINE n == Len(transcript)  k == MaxConsecutiveErrors
  <2>1. transcript \in Seq(Calls) /\ errors \in Nat
    BY DEF IInv, Typed
  <2>2. n \in Nat /\ k \in Nat \ {0}
    BY <2>1, BudgetAssumption
  <2>3. /\ errors <= n
        /\ \A i \in n - errors + 1 .. n : transcript[i].outcome = "error"
        /\ errors < n => transcript[n - errors].outcome # "error"
    BY DEF IInv, ErrorRun
  <2>4. TrailingErrors(k) <=> n >= k /\ \A i \in n - k + 1 .. n : transcript[i].outcome = "error"
    BY DEF TrailingErrors
  <2>5. /\ phase = "create" => errors < k
        /\ stopReason = "tool_error_limit" => errors >= k
    BY DEF IInv, ErrorsInv
  <2> HIDE DEF n, k
  <2>6. ASSUME errors >= k PROVE TrailingErrors(k)
    <3>1. \A i \in n - k + 1 .. n : i \in n - errors + 1 .. n
      BY <2>1, <2>2, <2>6
    <3> QED
      BY <2>1, <2>2, <2>3, <2>4, <2>6, <3>1
  <2>7. ASSUME errors < k, TrailingErrors(k) PROVE FALSE
    <3>1. errors < n /\ n - errors \in n - k + 1 .. n
      BY <2>1, <2>2, <2>4, <2>7
    <3> QED
      BY <2>3, <2>4, <2>7, <3>1
  <2> QED
    BY <2>5, <2>6, <2>7 DEF RepeatedErrorsBreakTheLoop, k
<1> QED
  BY <1>1, Invariance, PTL

\* Every conversation sent to the provider is one it accepts.
THEOREM ConversationAccepted == Spec => []ConversationWellFormed
<1>1. IInv => ConversationWellFormed
  BY DEF IInv, MessagesInv, PairsOK, Last, ConversationWellFormed
<1> QED
  BY <1>1, Invariance, PTL

\* No investigation is returned for lack of budget.
THEOREM AnswerIsForced == Spec => []NeverEndsOnBudget
<1>1. IInv => NeverEndsOnBudget
  BY DEF IInv, ControlInv, NeverEndsOnBudget
<1> QED
  BY <1>1, Invariance, PTL

-------------------------------------------------------------------------------
(* The safety half of ImplementsInvestigation                                *)

\* A step of the loop that ends it is an End, from either earlier stage.
LEMMA FinishMapsToEnd ==
  ASSUME IInv, NEW reason \in StopReasons \ Budgets, Finish(reason),
         phase # "done", steps' \in {steps, steps + 1}
  PROVE  Contract!End
<1>1. phase' = "done" /\ stopReason' = reason
  BY DEF Finish
<1> QED
  BY <1>1 DEF Contract!End

\* Each step of the loop maps to a step of Investigation or to a stutter.
LEMMA StepRefines == IInv /\ [Next]_vars => [Contract!Next]_(Contract!vars)
<1> SUFFICES ASSUME IInv, [Next]_vars PROVE [Contract!Next]_(Contract!vars)
  OBVIOUS
<1> USE DEF Contract!Next, Contract!vars
<1>0. /\ "provider_error" \in StopReasons \ Budgets /\ "refusal" \in StopReasons \ Budgets
      /\ "tool_error_limit" \in StopReasons \ Budgets
      /\ "invalid_output" \in StopReasons \ Budgets /\ "completed" \in StopReasons \ Budgets
  BY DEF StopReasons, Budgets
<1>c. ControlInv
  BY DEF IInv
<1>1. CASE CheckBudget
  <2>1. phase = "check" /\ phase' = "create" /\ ~forced
        /\ UNCHANGED <<steps, stopReason>>
    BY <1>1, <1>c DEF CheckBudget, ControlInv
  <2>2. CASE forced'
    BY <2>1, <2>2 DEF Contract!MustAnswer
  <2>3. CASE ~forced'
    BY <2>1, <2>3
  <2> QED
    BY <2>2, <2>3
<1>2. CASE ProviderFails
  BY <1>0, <1>2, FinishMapsToEnd DEF ProviderFails
<1>3. ASSUME NEW r \in Responses, Refused(r) PROVE Contract!End
  BY <1>0, <1>3, FinishMapsToEnd DEF Refused
<1>4. ASSUME NEW r \in Responses, ToolTurn(r) PROVE UNCHANGED Contract!vars
  BY <1>4 DEF ToolTurn, RunsTools
<1>5. ASSUME NEW r \in Responses, FinalAnswer(r) PROVE Contract!End
  BY <1>0, <1>5, FinishMapsToEnd DEF FinalAnswer, RunsTools
<1>6. ASSUME NEW r \in Responses, InvalidAnswer(r) PROVE Contract!Next
  <2>1. CASE phase' = "done"
    <3>1. Finish("invalid_output") /\ phase = "create" /\ steps' = steps + 1
      BY <1>6, <2>1 DEF InvalidAnswer, RunsTools
    <3> QED
      BY <1>0, <3>1, FinishMapsToEnd
  <2>2. CASE phase' # "done"
    <3>1. phase = "create" /\ phase' = "check" /\ ~forced /\ ~forced'
          /\ steps' = steps + 1 /\ UNCHANGED stopReason
      BY <1>6, <2>2 DEF InvalidAnswer, Finish, RunsTools
    <3>2. steps < MaxSteps
      BY <3>1 DEF IInv, StepsInv
    <3> QED
      BY <3>1, <3>2 DEF Contract!Turn
  <2> QED
    BY <2>1, <2>2
<1>7. CASE ExecuteTool
  BY <1>7 DEF ExecuteTool
<1>8. CASE ToolTurnEnds
  <2>1. phase = "tools" /\ ~forced /\ ~forced' /\ steps' = steps + 1
    BY <1>8, <1>c DEF ToolTurnEnds, ControlInv
  <2>2. CASE errors >= MaxConsecutiveErrors
    BY <1>0, <1>8, <2>1, <2>2, FinishMapsToEnd DEF ToolTurnEnds
  <2>3. CASE ~(errors >= MaxConsecutiveErrors)
    <3>1. phase' = "check" /\ UNCHANGED stopReason
      BY <1>8, <2>3 DEF ToolTurnEnds
    <3>2. steps < MaxSteps
      BY <2>1 DEF IInv, StepsInv
    <3> QED
      BY <2>1, <3>1, <3>2 DEF Contract!Turn
  <2> QED
    BY <2>2, <2>3
<1>9. CASE Elapse
  BY <1>9 DEF Elapse
<1>10. CASE UNCHANGED vars
  BY <1>10 DEF vars
<1> QED
  BY <1>1, <1>2, <1>3, <1>4, <1>5, <1>6, <1>7, <1>8, <1>9, <1>10
  DEF Next, Loop, Respond, Returned

\* The loop is an investigation as Investigation describes it: at most MaxSteps
\* turns, one more once an answer is demanded, and an ending that is final and
\* never the budget.
THEOREM RefinesInvestigation ==
  Spec => Contract!Init /\ [][Contract!Next]_(Contract!vars)
<1>1. Init => Contract!Init
  BY DEF Init, Contract!Init
<1> QED
  BY <1>1, Invariance, StepRefines, PTL DEF Spec

=================================================================================
