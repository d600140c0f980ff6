---------------------------- MODULE MCInvestigator ----------------------------
(***************************************************************************)
(* A request to /investigate beside another program.  The eval has the arm *)
(* that remembers, three passes over one case: with one pattern or another *)
(* an episode, a fact derived from two and the same fact derived again.    *)
(***************************************************************************)
EXTENDS Investigator

CONSTANTS request, other

MCSessions == {request, other}

MCPrograms ==
  {(request :> "service") @@ (other :> k) : k \in AllPrograms}

MCArms == << [version |-> "v1", memory |-> TRUE] >>

Message(system) == [system |-> system, template |-> TRUE]

Chat(messages) == [kind |-> "dict", messages |-> messages, template |-> FALSE]

MCManifests ==
  << Chat(<<Message(FALSE), Message(TRUE)>>),
     [kind |-> "dict", messages |-> <<>>, template |-> TRUE],
     Chat(<<Message(FALSE), Message(FALSE)>>) >>

Default ==
  [ TRACE_BACKEND |-> Unset, dsn |-> FALSE, keys |-> FALSE, driver |-> TRUE,
    AGENT_PROMPT_SOURCE |-> Unset, AGENT_PROMPT_IDENTIFIER |-> Unset,
    AGENT_PROMPT_VERSION |-> Unset, AGENT_PROMPT_COMMIT |-> 0,
    apiKey |-> FALSE, numbers |-> TRUE ]

LangSmith == [Default EXCEPT !.apiKey = TRUE, !.AGENT_PROMPT_IDENTIFIER = "hosted"]

\* Every backend by default and by name, with its library and without, the
\* hosted prompt live, pinned and unnamed, and what from_env or the registry refuse.
MCEnvironments ==
  { Default,
    [Default EXCEPT !.dsn = TRUE],
    [Default EXCEPT !.TRACE_BACKEND = "postgres", !.dsn = TRUE, !.driver = FALSE],
    [LangSmith EXCEPT !.keys = TRUE, !.dsn = TRUE],
    [Default EXCEPT !.keys = TRUE, !.driver = FALSE],
    [LangSmith EXCEPT !.TRACE_BACKEND = "none", !.AGENT_PROMPT_COMMIT = 1],
    [LangSmith EXCEPT !.AGENT_PROMPT_COMMIT = 3],
    [LangSmith EXCEPT !.AGENT_PROMPT_SOURCE = "registry"],
    [Default EXCEPT !.AGENT_PROMPT_SOURCE = "langsmith", !.apiKey = TRUE],
    [Default EXCEPT !.AGENT_PROMPT_VERSION = "v9"],
    [Default EXCEPT !.TRACE_BACKEND = "postgres"],
    [Default EXCEPT !.TRACE_BACKEND = "other"],
    [Default EXCEPT !.numbers = FALSE] }

===============================================================================
