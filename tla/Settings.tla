------------------------------- MODULE Settings -------------------------------
(***************************************************************************)
(* What the process makes of its environment (src/agent/config.py): an     *)
(* env is a record of the variables that decide something, and SettingsOf  *)
(* is Settings.from_env, resolved once per process by settings().          *)
(*                                                                         *)
(*   TRACE_BACKEND, AGENT_PROMPT_SOURCE, AGENT_PROMPT_IDENTIFIER,          *)
(*   AGENT_PROMPT_VERSION   a name, or Unset                               *)
(*   AGENT_PROMPT_COMMIT    a commit, or 0 when unset                      *)
(*   dsn, keys, apiKey      whether TRACE_DSN (or DATABASE_URL), both      *)
(*                          Langfuse keys, a LangSmith key are set         *)
(*   numbers                whether every numeric variable parses          *)
(*   driver                 whether psycopg, or langfuse, is installed     *)
(***************************************************************************)
EXTENDS Integers

\* An empty variable counts as unset.
Unset == "unset"

Opt(value, default) == IF value = Unset THEN default ELSE value

\* Langfuse keys, then a DSN, then local files.
Backend(env) ==
  Opt(env.TRACE_BACKEND,
      IF env.keys THEN "langfuse" ELSE IF env.dsn THEN "postgres" ELSE "jsonl")

TraceSettingsValid(env) ==
  /\ Backend(env) \in {"none", "jsonl", "postgres", "langfuse"}
  /\ Backend(env) = "postgres" => env.dsn
  /\ Backend(env) = "langfuse" => env.keys

PromptOrigin(env) ==
  Opt(env.AGENT_PROMPT_SOURCE,
      IF env.apiKey /\ env.AGENT_PROMPT_IDENTIFIER # Unset THEN "langsmith" ELSE "registry")

\* What from_env raises ValueError for is no setting at all.
SettingsValid(env) ==
  /\ env.numbers
  /\ TraceSettingsValid(env)
  /\ PromptOrigin(env) \in {"registry", "langsmith"}

SettingsOf(env) ==
  [ backend    |-> Backend(env),
    driver     |-> env.driver,
    source     |-> PromptOrigin(env),
    apiKey     |-> env.apiKey,
    identifier |-> env.AGENT_PROMPT_IDENTIFIER,
    commit     |-> env.AGENT_PROMPT_COMMIT,
    version    |-> env.AGENT_PROMPT_VERSION ]

===============================================================================
