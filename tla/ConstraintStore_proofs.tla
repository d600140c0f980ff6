------------------------- MODULE ConstraintStore_proofs -------------------------
(***************************************************************************)
(* Proofs about ConstraintStore, for every fleet, every TTL, every canary  *)
(* rate and every set of diagnoses: blocks are exactly what live findings  *)
(* ask for, less the canary and never the whole fleet.                     *)
(***************************************************************************)
EXTENDS ConstraintStore, TLAPS

-------------------------------------------------------------------------------
(* The inductive invariant: constraints and accepted findings correspond     *)

Installed(c, f) == Accepts(f.diagnosis) /\ c = FromDiagnosis(f.diagnosis, f.at)

\* Every constraint was installed by a finding.
Sound ==
  \A n \in DOMAIN constraints : \E m \in DOMAIN findings : Installed(constraints[n], findings[m])

\* Every finding that passes the gates left its constraint.
Complete ==
  \A m \in DOMAIN findings : Accepts(findings[m].diagnosis) =>
    \E n \in DOMAIN constraints : Installed(constraints[n], findings[m])

IInv == TypeOK /\ Sound /\ Complete

-------------------------------------------------------------------------------
(* Lemmas                                                                    *)

LEMMA DiagnosisFacts ==
  ASSUME NEW d \in Diagnoses
  PROVE  /\ d.scope \in Scopes
         /\ d.issuer \in Spellings \cup {Absent}
         /\ d.confident \in BOOLEAN
BY StoreAssumption DEF IsDiagnosis

\* from_diagnosis returns a constraint.
LEMMA FromDiagnosisType ==
  ASSUME NEW d \in Diagnoses, Accepts(d), NEW t \in Nat
  PROVE  FromDiagnosis(d, t) \in Constraint
<1>1. d.gateway \in Gateways /\ d.issuer \in Spellings \cup {Absent}
  BY DiagnosisFacts DEF Accepts
<1>2. t + Ttl \in Nat
  BY ConstraintAssumption
<1> QED
  BY <1>1, <1>2 DEF FromDiagnosis, Constraint

\* A constraint governs a transaction exactly when the finding that installed
\* it speaks against its gateway for that issuer.
LEMMA GovernsIffSpeaks ==
  ASSUME NEW f \in Finding, NEW c, Installed(c, f), NEW issuer \in Issuers, NEW now \in Nat
  PROVE  /\ c.gateway \in Gateways /\ c.gateway = f.diagnosis.gateway
         /\ Active(c, now) /\ Matches(c, issuer) <=> SpeaksFor(f, c.gateway, issuer, now)
<1> DEFINE d == f.diagnosis
<1>1. d \in Diagnoses /\ f.at \in Nat /\ Ttl \in Nat
  BY ConstraintAssumption, StoreAssumption DEF Finding
<1>2. Accepts(d) /\ c = FromDiagnosis(d, f.at)
  BY DEF Installed
<1>3. /\ c.gateway = d.gateway /\ c.created = f.at /\ c.expires = f.at + Ttl
      /\ c.issuer = IF d.scope = "issuer_specific" THEN d.issuer ELSE Absent
  BY <1>2 DEF FromDiagnosis
<1>4. /\ d.scope \in {"single_gateway", "issuer_specific"}
      /\ d.gateway \in Gateways /\ d.confident
      /\ d.scope = "issuer_specific" => d.issuer # Absent
  BY <1>2 DEF Accepts, ActionableScopes
<1>5. Active(c, now) <=> f.at <= now /\ now - f.at < Ttl
  BY <1>1, <1>3 DEF Active
<1>6. Matches(c, issuer) <=>
        \/ d.scope = "single_gateway"
        \/ d.scope = "issuer_specific" /\ d.issuer # Absent /\ Canonical[d.issuer] = issuer
  BY <1>3, <1>4 DEF Matches
<1> QED
  BY <1>3, <1>4, <1>5, <1>6 DEF SpeaksFor

\* A finding that speaks against a gateway of the fleet passed the gates.
LEMMA SpeakersAreAccepted ==
  ASSUME NEW f \in Finding, NEW g \in Gateways, NEW issuer, NEW now, SpeaksFor(f, g, issuer, now)
  PROVE  Accepts(f.diagnosis)
BY DEF SpeaksFor, Accepts, ActionableScopes

\* The gateways of the governing constraints are those the findings condemn.
LEMMA GoverningIsCondemned ==
  ASSUME IInv, NEW issuer \in Issuers, NEW now \in Nat
  PROVE  {constraints[n].gateway : n \in Governing(issuer, now)} = Condemned(issuer, now)
<1>1. findings \in Seq(Finding)
  BY DEF IInv, TypeOK
<1>2. ASSUME NEW n \in Governing(issuer, now)
      PROVE  constraints[n].gateway \in Condemned(issuer, now)
  <2>1. n \in DOMAIN constraints /\ Active(constraints[n], now)
        /\ Matches(constraints[n], issuer)
    BY DEF Governing
  <2>2. PICK m \in DOMAIN findings : Installed(constraints[n], findings[m])
    BY <2>1 DEF IInv, Sound
  <2>3. findings[m] \in Finding
    BY <1>1, <2>2
  <2> QED
    BY <2>1, <2>2, <2>3, GovernsIffSpeaks DEF Condemned
<1>3. ASSUME NEW g \in Condemned(issuer, now)
      PROVE  \E n \in Governing(issuer, now) : g = constraints[n].gateway
  <2>1. g \in Gateways
    BY DEF Condemned
  <2>2. PICK m \in DOMAIN findings : SpeaksFor(findings[m], g, issuer, now)
    BY DEF Condemned
  <2>3. findings[m] \in Finding
    BY <1>1, <2>2
  <2>4. Accepts(findings[m].diagnosis)
    BY <2>1, <2>2, <2>3, SpeakersAreAccepted
  <2>5. PICK n \in DOMAIN constraints : Installed(constraints[n], findings[m])
    BY <2>4 DEF IInv, Complete
  <2>6. g = findings[m].diagnosis.gateway
    BY <2>2 DEF SpeaksFor
  <2>7. g = constraints[n].gateway
    BY <2>3, <2>5, <2>6, GovernsIffSpeaks
  <2>8. Active(constraints[n], now) /\ Matches(constraints[n], issuer)
    BY <2>2, <2>3, <2>5, <2>7, GovernsIffSpeaks
  <2> QED
    BY <2>5, <2>7, <2>8 DEF Governing
<1> QED
  BY <1>2, <1>3

-------------------------------------------------------------------------------
(* Every step preserves the invariant                                        *)

LEMMA InitIInv == Init => IInv
<1> SUFFICES ASSUME Init PROVE IInv
  OBVIOUS
<1>1. tick \in 0..MaxTick /\ answer \in Answer \cup {Absent}
  BY StoreAssumption DEF Init
<1>2. constraints = <<>> /\ findings = <<>>
  BY DEF Init
<1>3. constraints \in Seq(Constraint) /\ findings \in Seq(Finding)
  BY <1>2
<1>4. Sound /\ Complete
  BY <1>2 DEF Sound, Complete
<1> QED
  BY <1>1, <1>3, <1>4 DEF IInv, TypeOK

LEMMA InvestigateStep ==
  ASSUME IInv, NEW d \in Diagnoses, Investigate(d)
  PROVE  IInv'
<1> DEFINE f == [diagnosis |-> d, at |-> tick]  c == FromDiagnosis(d, tick)
<1>1. tick \in 0..MaxTick /\ tick \in Nat /\ constraints \in Seq(Constraint)
      /\ findings \in Seq(Finding) /\ answer \in Answer \cup {Absent}
  BY StoreAssumption DEF IInv, TypeOK
<1>2. f \in Finding /\ findings' = Append(findings, f) /\ f.diagnosis = d /\ f.at = tick
  BY <1>1 DEF Investigate, Finding
<1> DEFINE k == Len(findings) + 1
<1>3. /\ findings' \in Seq(Finding)
      /\ \A m \in DOMAIN findings : m \in DOMAIN findings' /\ findings'[m] = findings[m]
      /\ k \in DOMAIN findings' /\ findings'[k] = f
      /\ \A m \in DOMAIN findings' : m \in DOMAIN findings \/ m = k
  BY <1>1, <1>2
<1> HIDE DEF f, k
<1>4. CASE Accepts(d)
  <2>1. constraints' = Append(constraints, c) /\ c \in Constraint
    BY <1>1, <1>4, FromDiagnosisType DEF Investigate
  <2>2. Installed(c, f)
    BY <1>2, <1>4 DEF Installed
  <2> HIDE DEF c
  <2> DEFINE j == Len(constraints) + 1
  <2>3. /\ constraints' \in Seq(Constraint)
        /\ \A n \in DOMAIN constraints :
             n \in DOMAIN constraints' /\ constraints'[n] = constraints[n]
        /\ j \in DOMAIN constraints' /\ constraints'[j] = c
        /\ \A n \in DOMAIN constraints' : n \in DOMAIN constraints \/ n = j
    BY <1>1, <2>1
  <2> HIDE DEF j
  <2>4. Sound'
    <3> SUFFICES ASSUME NEW n \in DOMAIN constraints'
                 PROVE  \E m \in DOMAIN findings' : Installed(constraints'[n], findings'[m])
      BY DEF Sound, Installed
    <3>1. CASE n \in DOMAIN constraints
      <4>1. PICK m \in DOMAIN findings : Installed(constraints[n], findings[m])
        BY <3>1 DEF IInv, Sound
      <4> QED
        BY <1>3, <2>3, <3>1, <4>1
    <3>2. CASE n = j
      BY <1>3, <2>2, <2>3, <3>2
    <3> QED
      BY <2>3, <3>1, <3>2
  <2>5. Complete'
    <3> SUFFICES ASSUME NEW m \in DOMAIN findings', Accepts(findings'[m].diagnosis)
                 PROVE  \E n \in DOMAIN constraints' : Installed(constraints'[n], findings'[m])
      BY DEF Complete, Installed
    <3>1. CASE m \in DOMAIN findings
      <4>1. PICK n \in DOMAIN constraints : Installed(constraints[n], findings[m])
        BY <1>3, <3>1 DEF IInv, Complete
      <4> QED
        BY <1>3, <2>3, <3>1, <4>1
    <3>2. CASE m = k
      BY <1>3, <2>2, <2>3, <3>2
    <3> QED
      BY <1>3, <3>1, <3>2
  <2> QED
    BY <1>1, <1>3, <2>3, <2>4, <2>5 DEF IInv, TypeOK, Investigate
<1>5. CASE ~Accepts(d)
  <2>1. constraints' = constraints
    BY <1>5 DEF Investigate
  <2>2. Sound'
    <3> SUFFICES ASSUME NEW n \in DOMAIN constraints
                 PROVE  \E m \in DOMAIN findings' : Installed(constraints[n], findings'[m])
      BY <2>1 DEF Sound, Installed
    <3>1. PICK m \in DOMAIN findings : Installed(constraints[n], findings[m])
      BY DEF IInv, Sound
    <3> QED
      BY <1>3, <3>1
  <2>3. Complete'
    <3> SUFFICES ASSUME NEW m \in DOMAIN findings', Accepts(findings'[m].diagnosis)
                 PROVE  \E n \in DOMAIN constraints : Installed(constraints[n], findings'[m])
      BY <2>1 DEF Complete, Installed
    <3>1. m \in DOMAIN findings
      BY <1>2, <1>3, <1>5
    <3> QED
      BY <1>3, <3>1 DEF IInv, Complete
  <2> QED
    BY <1>1, <1>3, <2>1, <2>2, <2>3 DEF IInv, TypeOK, Investigate
<1> QED
  BY <1>4, <1>5

\* What a decision answers.
LEMMA DecideFacts ==
  ASSUME IInv, NEW issuer \in Issuers, NEW now \in 0..MaxTick, Decide(issuer, now)
  PROVE  \E released \in SUBSET Governing(issuer, now) :
           /\ answer' = [ issuer   |-> issuer,
                          tick     |-> now,
                          blocked  |-> Blocked(Governing(issuer, now) \ released),
                          released |-> {constraints[n].gateway : n \in released} ]
           /\ answer' \in Answer /\ answer' # Absent
           /\ answer'.blocked \subseteq Condemned(issuer, now)
           /\ answer'.blocked # Gateways
<1> DEFINE gov == Governing(issuer, now)
<1>1. PICK released \in Rolls(gov) :
        answer' = [ issuer   |-> issuer,
                    tick     |-> now,
                    blocked  |-> Blocked(gov \ released),
                    released |-> {constraints[n].gateway : n \in released} ]
  BY DEF Decide
<1>2. released \in SUBSET gov
  BY DEF Rolls
<1>3. {constraints[n].gateway : n \in gov} = Condemned(issuer, now)
  BY StoreAssumption, GoverningIsCondemned
<1>4. Condemned(issuer, now) \subseteq Gateways
  BY DEF Condemned
<1> HIDE DEF gov
<1>5. {constraints[n].gateway : n \in gov \ released} \subseteq Condemned(issuer, now)
      /\ {constraints[n].gateway : n \in released} \subseteq Gateways
  BY <1>2, <1>3, <1>4
<1>6. Blocked(gov \ released) \subseteq Condemned(issuer, now)
      /\ Blocked(gov \ released) # Gateways
  BY <1>5, StoreAssumption DEF Blocked
<1>7. answer' \in Answer
  BY <1>1, <1>4, <1>5, <1>6 DEF Answer
<1>8. answer' # Absent
  BY <1>7, NoAnswerAssumption
<1> QED
  BY <1>1, <1>2, <1>6, <1>7, <1>8 DEF gov

LEMMA NextIInv == IInv /\ [Next]_vars => IInv'
<1> SUFFICES ASSUME IInv, [Next]_vars PROVE IInv'
  OBVIOUS
<1>1. ASSUME NEW d \in Diagnoses, Investigate(d) PROVE IInv'
  BY <1>1, InvestigateStep
<1>2. ASSUME UNCHANGED <<constraints, findings>>, tick' \in 0..MaxTick,
             answer' \in Answer \cup {Absent}
      PROVE  IInv'
  BY <1>2 DEF IInv, TypeOK, Sound, Complete
<1>3. ASSUME NEW issuer \in Issuers, NEW now \in 0..MaxTick, Decide(issuer, now) PROVE IInv'
  <2>1. answer' \in Answer
    BY <1>3, DecideFacts
  <2>2. UNCHANGED <<tick, constraints, findings>>
    BY <1>3 DEF Decide
  <2> QED
    BY <1>2, <2>1, <2>2 DEF IInv, TypeOK
<1>4. CASE Tick
  <2>1. tick' \in 0..MaxTick /\ UNCHANGED <<constraints, findings, answer>>
    BY <1>4, StoreAssumption DEF Tick, IInv, TypeOK
  <2> QED
    BY <1>2, <2>1 DEF IInv, TypeOK
<1>5. CASE UNCHANGED vars
  BY <1>2, <1>5 DEF vars, IInv, TypeOK
<1> QED
  BY <1>1, <1>3, <1>4, <1>5 DEF Next

LEMMA Invariance == Spec => []IInv
BY InitIInv, NextIInv, PTL DEF Spec

-------------------------------------------------------------------------------
(* Theorems                                                                  *)

\* Every variable keeps its type; in particular only well-formed constraints
\* are ever installed.
THEOREM TypeCorrect == Spec => []TypeOK
<1>1. IInv => TypeOK
  BY DEF IInv
<1> QED
  BY <1>1, Invariance, PTL

\* No decision keeps a transaction from a gateway no live finding speaks
\* against for its issuer.
THEOREM BlocksAreJustified == Spec => []EveryBlockJustified
<1>1. Init => EveryBlockJustified
  BY DEF Init, EveryBlockJustified
<1>2. IInv /\ EveryBlockJustified /\ [Next]_vars => EveryBlockJustified'
  <2> SUFFICES ASSUME IInv, EveryBlockJustified, [Next]_vars PROVE EveryBlockJustified'
    OBVIOUS
  <2>1. ASSUME NEW d \in Diagnoses, Investigate(d) PROVE EveryBlockJustified'
    <3>1. findings \in Seq(Finding) /\ [diagnosis |-> d, at |-> tick] \in Finding
      BY DEF IInv, TypeOK, Finding
    <3>2. findings' = Append(findings, [diagnosis |-> d, at |-> tick]) /\ answer' = answer
      BY <2>1 DEF Investigate
    <3>3. \A m \in DOMAIN findings : m \in DOMAIN findings' /\ findings'[m] = findings[m]
      BY <3>1, <3>2
    <3> SUFFICES ASSUME answer # Absent, NEW g \in answer.blocked
                 PROVE  /\ g \in Gateways
                        /\ \E m \in DOMAIN findings' :
                             SpeaksFor(findings'[m], g, answer.issuer, answer.tick)
      BY <3>2 DEF EveryBlockJustified, Condemned, SpeaksFor
    <3>4. g \in Gateways /\ \E m \in DOMAIN findings :
                               SpeaksFor(findings[m], g, answer.issuer, answer.tick)
      BY DEF EveryBlockJustified, Condemned
    <3> QED
      BY <3>3, <3>4
  <2>2. ASSUME NEW issuer \in Issuers, NEW now \in 0..MaxTick, Decide(issuer, now)
        PROVE  EveryBlockJustified'
    <3>0. PICK released \in SUBSET Governing(issuer, now) :
            /\ answer' = [ issuer   |-> issuer,
                           tick     |-> now,
                           blocked  |-> Blocked(Governing(issuer, now) \ released),
                           released |-> {constraints[n].gateway : n \in released} ]
            /\ answer'.blocked \subseteq Condemned(issuer, now)
      BY <2>2, DecideFacts
    <3>1. answer'.blocked \subseteq Condemned(issuer, now)
          /\ answer'.issuer = issuer /\ answer'.tick = now
      BY <3>0
    <3>2. findings' = findings
      BY <2>2 DEF Decide
    <3> QED
      BY <3>1, <3>2 DEF EveryBlockJustified, Condemned, SpeaksFor
  <2>3. CASE UNCHANGED <<findings, answer>>
    BY <2>3 DEF EveryBlockJustified, Condemned, SpeaksFor
  <2> QED
    BY <2>1, <2>2, <2>3 DEF Next, Tick, vars
<1> QED
  BY <1>1, <1>2, Invariance, PTL DEF Spec

\* Every decision avoids every gateway a live finding speaks against, but for
\* the canary and the case where that is the whole fleet.
THEOREM FindingsAreHonoured == Spec => EveryFindingHonoured
<1> DEFINE Honoured ==
      \A issuer \in Issuers, now \in 0..MaxTick :
        Decide(issuer, now) =>
          Condemned(issuer, now) \subseteq
            answer'.blocked \cup answer'.released \cup
            (IF answer'.blocked = {} /\ Condemned(issuer, now) = Gateways THEN Gateways ELSE {})
<1>1. IInv => Honoured
  <2>0. \A issuer, now : Condemned(issuer, now) \subseteq Gateways
    BY DEF Condemned
  <2> SUFFICES ASSUME IInv, NEW issuer \in Issuers, NEW now \in 0..MaxTick, Decide(issuer, now),
                      NEW g \in Condemned(issuer, now),
                      g \notin answer'.released
               PROVE  \/ g \in answer'.blocked
                      \/ answer'.blocked = {} /\ Condemned(issuer, now) = Gateways
    BY <2>0
  <2> DEFINE gov == Governing(issuer, now)
  <2>1. PICK released \in SUBSET gov :
          answer' = [ issuer   |-> issuer,
                      tick     |-> now,
                      blocked  |-> Blocked(gov \ released),
                      released |-> {constraints[n].gateway : n \in released} ]
    BY DecideFacts
  <2>2. {constraints[n].gateway : n \in gov} = Condemned(issuer, now)
        /\ Condemned(issuer, now) \subseteq Gateways
    BY StoreAssumption, GoverningIsCondemned DEF Condemned
  <2> HIDE DEF gov
  <2>3. g \in {constraints[n].gateway : n \in gov \ released}
        /\ {constraints[n].gateway : n \in gov \ released} \subseteq Condemned(issuer, now)
    BY <2>1, <2>2
  <2>4. answer'.blocked = Blocked(gov \ released)
    BY <2>1
  <2> QED
    BY <2>2, <2>3, <2>4 DEF Blocked
<1>2. IInv /\ [Next]_vars => [Honoured]_vars
  BY <1>1
<1> QED
  BY <1>2, Invariance, PTL DEF Spec, EveryFindingHonoured

===============================================================================
