------------------------------ MODULE Constraints ------------------------------
(***************************************************************************)
(* Routing constraints (agent/constraints.py): the record, when it is in   *)
(* force, what it governs, and which diagnoses become one.                 *)
(*                                                                         *)
(* An issuer is written by a model in any case and with stray blanks: a    *)
(* spelling, of which only the canonical form is compared.  Confidence is  *)
(* abstracted to whether it reaches min_confidence.                        *)
(***************************************************************************)
EXTENDS Integers

CONSTANTS Gateways,   \* fleet_names
          Issuers,    \* canonical issuers, i.strip().lower()
          Spellings,  \* what a diagnosis may write for an issuer
          Canonical,  \* the canonical form of a spelling
          Ttl,        \* ttl_minutes
          Absent      \* None: no gateway, no issuer, no constraint

Scopes == {"single_gateway", "issuer_specific", "fleet_wide", "no_incident"}
ActionableScopes == {"single_gateway", "issuer_specific"}

\* Any gateway the model may name: unknown ones included, hence no upper bound.
IsDiagnosis(d) ==
  /\ DOMAIN d = {"scope", "gateway", "issuer", "confident"}
  /\ d.scope \in Scopes
  /\ d.issuer \in Spellings \cup {Absent}
  /\ d.confident \in BOOLEAN

ASSUME ConstraintAssumption ==
  /\ Ttl \in Nat
  /\ Canonical \in [Spellings -> Issuers]
  /\ Absent \notin Gateways \cup Spellings \cup Issuers

Constraint ==
  [gateway : Gateways, issuer : Spellings \cup {Absent}, created : Nat, expires : Nat]

Active(c, tick) == c.created <= tick /\ tick < c.expires

\* A constraint without an issuer governs all traffic.
\* Mutant: the issuer is compared as the model wrote it.
MatchesVerbatim(c, issuer) == c.issuer # Absent => c.issuer = issuer
Matches(c, issuer) == c.issuer # Absent => Canonical[c.issuer] = issuer

\* from_diagnosis declines unless every gate is passed.
\* Mutants: without the confidence gate; without the check of the fleet.
AcceptsUnsure(d) ==
  /\ d.scope \in ActionableScopes /\ d.gateway \in Gateways
  /\ d.scope = "issuer_specific" => d.issuer # Absent
AcceptsUnknown(d) ==
  /\ d.scope \in ActionableScopes /\ d.confident
  /\ d.scope = "issuer_specific" => d.issuer # Absent
Accepts(d) ==
  /\ d.scope \in ActionableScopes
  /\ d.confident
  /\ d.gateway \in Gateways
  /\ d.scope = "issuer_specific" => d.issuer # Absent

FromDiagnosis(d, tick) ==
  [ gateway |-> d.gateway,
    issuer  |-> IF d.scope = "issuer_specific" THEN d.issuer ELSE Absent,
    created |-> tick,
    expires |-> tick + Ttl ]

===============================================================================
