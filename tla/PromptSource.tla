----------------------------- MODULE PromptSource -----------------------------
(***************************************************************************)
(* Where a system prompt comes from (src/agent/prompt_source.py): the      *)
(* registry in the code (src/agent/prompts.py), or a prompt hosted at      *)
(* LangSmith that somebody may edit at any time.  Every failure on the way *)
(* to LangSmith falls back to the registry.                                *)
(***************************************************************************)
EXTENDS Settings, Sequences, FiniteSetsExt

CONSTANTS
  Registry,         \* REGISTRY: the versions in the code
  DEFAULT_VERSION,  \* one of them
  Manifests,        \* commit -> what LangSmith returns for it
  MaxEdits          \* bound: commits pushed while the processes run

ASSUME PromptAssumption ==
  /\ DEFAULT_VERSION \in Registry
  /\ MaxEdits \in Nat
  /\ 1..MaxEdits + 1 \subseteq DOMAIN Manifests

VARIABLE live \* the commit an unpinned pull returns

NoText == "no text"

\* _extract_system_text: of a chat prompt the first system message that has a
\* template, or the only message; else a template of the prompt itself.
ExtractSystemText(m) ==
  LET Usable == {i \in DOMAIN m.messages :
                   m.messages[i].template /\ (m.messages[i].system \/ Len(m.messages) = 1)}
  IN CASE m.kind = "nothing"  -> NoText
       [] m.kind = "string"   -> "manifest"
       [] Usable # {}         -> <<"message", Min(Usable)>>
       [] m.template          -> "template"
       [] OTHER               -> NoText

\* prompts.get
Known(key) == key \in Registry

\* A ResolvedPrompt, less the reason of a fallback.  hashed says whether the
\* manifest came with its commit_hash (auxiliary).
FromRegistry(key) ==
  [ version |-> <<key>>, source |-> "registry", identifier |-> Unset, commit |-> 0,
    hashed |-> FALSE, text |-> <<key>> ]

PulledCommit(cfg) == IF cfg.commit # 0 THEN cfg.commit ELSE live

HostedText(cfg, name) ==
  << name, PulledCommit(cfg), ExtractSystemText(Manifests[PulledCommit(cfg)]) >>

\* Mutant: of the commit only the pin is recorded, never the hash.
HostedByName(cfg, name, hashed) ==
  [ version |-> <<"langsmith", name>>, source |-> "langsmith", identifier |-> name,
    commit |-> cfg.commit, hashed |-> hashed, text |-> HostedText(cfg, name) ]

\* A manifest without a hash leaves the pinned commit, if there is one.
Hosted(cfg, name, hashed) ==
  [ version |-> <<"langsmith", name>>, source |-> "langsmith", identifier |-> name,
    commit |-> IF hashed THEN PulledCommit(cfg) ELSE cfg.commit,
    hashed |-> hashed, text |-> HostedText(cfg, name) ]

\* resolve in a PromptSource of its own, whose cache is empty: reached says
\* whether there is a client and its pull succeeds, hashed whether the commit
\* it returns has a commit_hash.
Resolve(cfg, requested, reached, hashed) ==
  LET key  == Opt(requested, Opt(cfg.version, DEFAULT_VERSION))
      name == Opt(cfg.identifier, key)
      hosted == /\ cfg.source = "langsmith" /\ cfg.apiKey /\ reached
                /\ ExtractSystemText(Manifests[PulledCommit(cfg)]) # NoText
  IN IF hosted THEN Hosted(cfg, name, hashed)
     ELSE FromRegistry(key)

\* Somebody edits the hosted prompt.
Edit ==
  /\ live <= MaxEdits
  /\ live' = live + 1

===============================================================================
