---------------------------- MODULE ConstraintStore ----------------------------
(***************************************************************************)
(* The in-process constraint store (agent/constraints.py, ConstraintStore) *)
(* between the investigations that install constraints and the decisions   *)
(* that must honour them (service/api.py, closed_loop.py).                 *)
(*                                                                         *)
(* `self.rng` is a free choice: with a canary rate between 0 and 1 each    *)
(* constraint that governs a transaction may or may not let it through.    *)
(***************************************************************************)
EXTENDS Constraints, Sequences

CONSTANTS Diagnoses, \* what investigations may conclude
          Canary,    \* the rolls canary_rate allows: a set of BOOLEAN
          MaxTick,   \* bound: ticks that pass
          MaxInvestigations \* bound: investigations that end

ASSUME StoreAssumption ==
  /\ \A d \in Diagnoses : IsDiagnosis(d)
  /\ Canary \subseteq BOOLEAN /\ Canary # {}
  /\ MaxTick \in Nat /\ MaxInvestigations \in Nat
  /\ Gateways # {}

Finding == [diagnosis : Diagnoses, at : 0..MaxTick]
Answer == [issuer : Issuers, tick : 0..MaxTick,
           blocked : SUBSET Gateways, released : SUBSET Gateways]

ASSUME NoAnswerAssumption == Absent \notin Answer

VARIABLES
  tick,
  constraints, \* self.constraints
  findings,    \* every diagnosis reached and when, oldest first (auxiliary)
  answer       \* the last decision: what it asked and was told (auxiliary)

vars == <<tick, constraints, findings, answer>>

Init ==
  /\ tick = 0
  /\ constraints = <<>>
  /\ findings = <<>>
  /\ answer = Absent

\* POST /investigate, or the closed loop, with the diagnosis it came to.
Investigate(d) ==
  /\ Len(findings) < MaxInvestigations
  /\ findings' = Append(findings, [diagnosis |-> d, at |-> tick])
  /\ constraints' = IF Accepts(d) THEN Append(constraints, FromDiagnosis(d, tick))
                    ELSE constraints
  /\ UNCHANGED <<tick, answer>>

\* The constraints that govern a transaction.
Governing(issuer, now) ==
  {n \in DOMAIN constraints : Active(constraints[n], now) /\ Matches(constraints[n], issuer)}

\* The canary rolls: which of these constraints let the transaction through.
Rolls(governing) == {n \in SUBSET governing : \A m \in governing : (m \in n) \in Canary}

\* blocked(): every governing constraint that does not release the transaction
\* blocks its gateway, unless that would leave none.
Blocked(ns) ==
  LET gateways == {constraints[n].gateway : n \in ns}
  IN IF gateways = Gateways THEN {} ELSE gateways

\* A decision for an issuer at the tick its context read: the minute may turn
\* before the store is asked.
Decide(issuer, now) ==
  /\ now \in {tick - 1, tick} \cap Nat
  /\ LET governing == Governing(issuer, now)
     IN \E released \in Rolls(governing) :
          answer' = [ issuer   |-> issuer,
                      tick     |-> now,
                      blocked  |-> Blocked(governing \ released),
                      released |-> {constraints[n].gateway : n \in released} ]
  /\ UNCHANGED <<tick, constraints, findings>>

Tick ==
  /\ tick < MaxTick
  /\ tick' = tick + 1
  /\ UNCHANGED <<constraints, findings, answer>>

Next ==
  \/ \E d \in Diagnoses : Investigate(d)
  \/ \E issuer \in Issuers, now \in 0..MaxTick : Decide(issuer, now)
  \/ Tick

Spec == Init /\ [][Next]_vars

-------------------------------------------------------------------------------
(* Properties                                                                *)

\* Every variable has its type.
TypeOK ==
  /\ tick \in 0..MaxTick
  /\ constraints \in Seq(Constraint)
  /\ findings \in Seq(Finding)
  /\ answer \in Answer \cup {Absent}

\* A finding speaks for avoiding g for an issuer at a tick: it is sure of
\* itself, names that gateway of the fleet alone or with that issuer, and is
\* younger than the TTL.  Stated from the module's text (constraints.py:10-26),
\* not from the code that builds and matches constraints.
SpeaksFor(f, g, issuer, now) ==
  /\ f.diagnosis.confident
  /\ f.diagnosis.gateway = g
  /\ f.at <= now /\ now - f.at < Ttl
  /\ \/ f.diagnosis.scope = "single_gateway"
     \/ /\ f.diagnosis.scope = "issuer_specific"
        /\ f.diagnosis.issuer # Absent
        /\ Canonical[f.diagnosis.issuer] = issuer

Condemned(issuer, now) ==
  {g \in Gateways : \E n \in DOMAIN findings : SpeaksFor(findings[n], g, issuer, now)}

\* "Scoped, not blunt" and "Always expiring": no transaction is kept from a
\* gateway unless a finding no older than the TTL speaks against that gateway
\* for that issuer.
EveryBlockJustified ==
  answer # Absent => answer.blocked \subseteq Condemned(answer.issuer, answer.tick)

\* A confirmed finding becomes a constraint the router honours: a transaction
\* reaches a gateway a live finding speaks against only if a canary let it
\* through, or if every gateway was to be avoided.
EveryFindingHonoured ==
  [][\A issuer \in Issuers, now \in 0..MaxTick :
       Decide(issuer, now) =>
         Condemned(issuer, now) \subseteq
           answer'.blocked \cup answer'.released \cup
           (IF answer'.blocked = {} /\ Condemned(issuer, now) = Gateways THEN Gateways ELSE {})
    ]_vars

\* The canary roll lets a share of traffic through so that a recovered gateway
\* can prove it (constraints.py:142): a transaction released is not blocked.
ReleasedReachesGateway ==
  answer # Absent => answer.released \cap answer.blocked = {}

===============================================================================
