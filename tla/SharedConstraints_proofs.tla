------------------------ MODULE SharedConstraints_proofs ------------------------
(***************************************************************************)
(* Proofs about SharedConstraints, for any replicas, threads, paths and    *)
(* lengths of a minute, of the TTL and of the refresh window.              *)
(*                                                                         *)
(* However many handlers a replica has and however they interleave, whoever *)
(* started when: constraints govern by the clock of the replica that applies *)
(* them; and as long as no refresh of a replica outlasts the window, what is *)
(* added to it is kept and the keys of its peers reach it.                 *)
(***************************************************************************)
EXTENDS SharedConstraints, TLAPS

-------------------------------------------------------------------------------
(* The inductive invariants                                                  *)

\* The steps of a handler in active(tick).
Asking == {"fetch", "prune", "rebind", "merge", "filter"}

\* Nothing is dated later than now, nor before the process it happened in.
ClockInv ==
  /\ \A r \in Replicas : started[r] <= clock /\ fetchedAt[r] <= clock
  /\ \A t \in Threads : /\ asked[t] <= clock
                        /\ pc[t] \in Asking => started[Home[t]] <= asked[t]
  /\ \A n \in DOMAIN added : /\ added[n].since <= added[n].at /\ added[n].at <= clock
                             /\ added[n].since <= started[added[n].by]
  /\ outages = 0 => up

\* A constraint lives Ttl ticks from the tick of the replica that added it.
AddedInv ==
  \A n \in DOMAIN added :
    /\ added[n].constraint.expires = added[n].constraint.created + Ttl
    /\ added[n].constraint.created = (added[n].at - added[n].since) \div SecondsPerTick

Installed(c) == \E n \in DOMAIN added : added[n].constraint = c

\* Wherever a constraint is found, some investigation added it.
SourceInv ==
  /\ \A r \in Replicas : \A c \in held[r] : Installed(c)
  /\ \A t \in Threads : \A c \in fetched[t] : Installed(c)
  /\ \A t \in Threads : replaced[t] # Nothing => \A c \in replaced[t] : Installed(c)
  /\ \A t \in Threads : pc[t] = "setex" => Installed(adding[t])
  /\ \A p \in Paths : redis[p] # Nothing =>
       /\ redis[p].constraint.path = p
       /\ \E n \in DOMAIN added :
            added[n].constraint = redis[p].constraint /\ added[n].at <= redis[p].at

IInv == TypeOK /\ ClockInv /\ AddedInv /\ SourceInv

-------------------------------------------------------------------------------
(* Lemmas about ticks                                                        *)

LEMMA DivFacts ==
  ASSUME NEW a \in Nat
  PROVE  /\ a \div SecondsPerTick \in Nat
         /\ a \div SecondsPerTick <= a
         /\ SecondsPerTick * (a \div SecondsPerTick) <= a
         /\ a < SecondsPerTick * (a \div SecondsPerTick) + SecondsPerTick
BY SharedAssumption

\* Multiplication by the length of a tick is monotone.
LEMMA TimesMonotone ==
  ASSUME NEW m \in Int, NEW n \in Int, m <= n
  PROVE  SecondsPerTick * m <= SecondsPerTick * n
BY SharedAssumption

\* A later second is not an earlier tick.
LEMMA TickMonotone ==
  ASSUME NEW a \in Nat, NEW b \in Nat, a <= b
  PROVE  a \div SecondsPerTick <= b \div SecondsPerTick
<1> DEFINE S == SecondsPerTick  qa == a \div S  qb == b \div S
<1>1. S \in Nat \ {0} /\ qa \in Nat /\ qb \in Nat
  BY DivFacts, SharedAssumption
<1>2. S * qa <= a /\ b < S * qb + S
  BY DivFacts
<1>3. SUFFICES ASSUME qb + 1 <= qa PROVE FALSE
  BY <1>1
<1>4. S * (qb + 1) <= S * qa
  BY <1>1, <1>3, TimesMonotone
<1>5. S * (qb + 1) = S * qb + S
  BY <1>1
<1> QED
  BY <1>1, <1>2, <1>4, <1>5

\* Less than Ttl ticks are less than Ttl times the seconds of one.
LEMMA TicksToSeconds ==
  ASSUME NEW a \in Nat, NEW b \in Nat,
         a \div SecondsPerTick < b \div SecondsPerTick + Ttl
  PROVE  a - b < Ttl * SecondsPerTick
<1> DEFINE S == SecondsPerTick  qa == a \div S  qb == b \div S
<1>1. S \in Nat \ {0} /\ Ttl \in Nat /\ qa \in Nat /\ qb \in Nat
  BY DivFacts, SharedAssumption
<1>2. a < S * qa + S /\ S * qb <= b
  BY DivFacts
<1>3. S * (qa + 1) <= S * (qb + Ttl)
  BY <1>1, TimesMonotone
<1>4. S * (qa + 1) = S * qa + S /\ S * (qb + Ttl) = S * qb + Ttl * S
  BY <1>1
<1>5. S * qa \in Int /\ S * qb \in Int /\ Ttl * S \in Int
  BY <1>1
<1> HIDE DEF qa, qb
<1> QED
  BY <1>1, <1>2, <1>3, <1>4, <1>5

\* A tick that has not begun is less than a tick away.
LEMMA TicksNotBegun ==
  ASSUME NEW a \in Nat, NEW b \in Nat,
         b \div SecondsPerTick <= a \div SecondsPerTick
  PROVE  -SecondsPerTick < a - b
<1> DEFINE S == SecondsPerTick  qa == a \div S  qb == b \div S
<1>1. S \in Nat \ {0} /\ qa \in Nat /\ qb \in Nat
  BY DivFacts, SharedAssumption
<1>2. S * qa <= a /\ b < S * qb + S
  BY DivFacts
<1>3. S * qb <= S * qa
  BY <1>1, TimesMonotone
<1>4. S * qa \in Int /\ S * qb \in Int
  BY <1>1
<1> HIDE DEF qa, qb
<1> QED
  BY <1>1, <1>2, <1>3, <1>4

\* And the other way round.
LEMMA SecondsToTicks ==
  ASSUME NEW a \in Nat, NEW b \in Nat,
         a - b <= (Ttl - 1) * SecondsPerTick
  PROVE  a \div SecondsPerTick < b \div SecondsPerTick + Ttl
<1> DEFINE S == SecondsPerTick  qa == a \div S  qb == b \div S
<1>1. S \in Nat \ {0} /\ Ttl \in Nat \ {0} /\ qa \in Nat /\ qb \in Nat
  BY DivFacts, SharedAssumption
<1>2. S * qa <= a /\ b < S * qb + S
  BY DivFacts
<1>3. SUFFICES ASSUME qb + Ttl <= qa PROVE FALSE
  BY <1>1
<1>4. S * (qb + Ttl) <= S * qa
  BY <1>1, <1>3, TimesMonotone
<1>5. S * (qb + Ttl) = S * qb + S + (Ttl - 1) * S
  BY <1>1
<1>6. S * qa \in Int /\ S * qb \in Int /\ (Ttl - 1) * S \in Int
  BY <1>1
<1> HIDE DEF qa, qb
<1> QED
  BY <1>1, <1>2, <1>4, <1>5, <1>6

-------------------------------------------------------------------------------
(* What a step does to the additions                                         *)

Additions == [constraint : Constraints, by : Replicas, since : Seconds, at : 0..MaxClock]

LEMMA AdditionFacts ==
  ASSUME TypeOK
  PROVE  /\ added \in Seq(Additions)
         /\ \A n \in DOMAIN added :
              /\ added[n].constraint \in Constraints /\ added[n].by \in Replicas
              /\ added[n].since \in Int /\ added[n].at \in Nat
<1>1. added \in Seq(Additions)
  BY DEF TypeOK, Additions
<1>2. \A n \in DOMAIN added : added[n] \in Additions
  BY <1>1
<1>3. Seconds \subseteq Int /\ 0..MaxClock \subseteq Nat
  BY SharedAssumption DEF Seconds
<1> QED
  BY <1>1, <1>2, <1>3 DEF Additions

\* The seconds a replica has run count as ticks that a constraint may carry.
LEMMA TickFacts ==
  ASSUME TypeOK, ClockInv, NEW r \in Replicas
  PROVE  /\ started[r] \in Int /\ clock - started[r] \in Nat
         /\ TickAt(r, clock) \in 0..MaxHeadStart + MaxClock
<1>1. /\ clock \in 0..MaxClock /\ MaxClock \in Nat /\ MaxHeadStart \in Nat
      /\ started[r] \in (-MaxHeadStart)..MaxClock /\ started[r] <= clock
  BY SharedAssumption DEF TypeOK, ClockInv, Seconds
<1>2. clock - started[r] \in Nat /\ clock - started[r] <= MaxHeadStart + MaxClock
  BY <1>1
<1> QED
  BY <1>1, <1>2, DivFacts DEF TickAt

\* What add() records of constraint c.
Entry(t, c) == [constraint |-> c, by |-> Home[t], since |-> started[Home[t]], at |-> clock]

LEMMA AddFacts ==
  ASSUME TypeOK, ClockInv, NEW t \in Threads, NEW p \in Paths, Add(t, p)
  PROVE  \E c \in Constraints :
           /\ c.path = p
           /\ c.created = TickAt(Home[t], clock) /\ c.expires = c.created + Ttl
           /\ held' = [held EXCEPT ![Home[t]] = @ \cup {c}]
           /\ adding' = [adding EXCEPT ![t] = c]
           /\ added' = Append(added, Entry(t, c))
           /\ Entry(t, c) \in Additions
<1> DEFINE tick == TickAt(Home[t], clock)
           c == [path |-> p, created |-> tick, expires |-> tick + Ttl]
<1>1. /\ Home[t] \in Replicas /\ clock \in 0..MaxClock /\ MaxClock \in Nat
      /\ MaxHeadStart \in Nat /\ Ttl \in Nat
  BY SharedAssumption DEF TypeOK
<1>2. started[Home[t]] \in Seconds
  BY <1>1 DEF TypeOK
<1>3. tick \in 0..MaxHeadStart + MaxClock
  BY <1>1, TickFacts
<1> HIDE DEF tick
<1>4. c \in Constraints
  BY <1>1, <1>3 DEF Constraints
<1>5. Entry(t, c) \in Additions
  BY <1>1, <1>2, <1>4 DEF Additions, Entry
<1> QED
  BY <1>4, <1>5 DEF Add, Entry, tick

LEMMA OnlyAddAdds ==
  ASSUME [Next]_vars, \A t \in Threads, p \in Paths : ~Add(t, p)
  PROVE  added' = added
BY DEF Next, vars, Ask, Fetch, Prune, Rebind, Merge, Filter, SetEx, Second, Outage,
       Recovery, Restart

\* Additions are never forgotten.
LEMMA AdditionsStay ==
  ASSUME TypeOK, ClockInv, [Next]_vars
  PROVE  \A n \in DOMAIN added : n \in DOMAIN added' /\ added'[n] = added[n]
<1>1. CASE \A t \in Threads, p \in Paths : ~Add(t, p)
  BY <1>1, OnlyAddAdds
<1>2. ASSUME NEW t \in Threads, NEW p \in Paths, Add(t, p)
      PROVE  \A n \in DOMAIN added : n \in DOMAIN added' /\ added'[n] = added[n]
  <2>1. added \in Seq(Additions)
    BY DEF TypeOK, Additions
  <2>2. PICK e \in Additions : added' = Append(added, e)
    BY <1>2, AddFacts
  <2> QED
    BY <2>1, <2>2
<1> QED
  BY <1>1, <1>2

LEMMA InstalledStays ==
  ASSUME TypeOK, ClockInv, [Next]_vars, NEW c, Installed(c)
  PROVE  \E n \in DOMAIN added' : added'[n].constraint = c
BY AdditionsStay DEF Installed

-------------------------------------------------------------------------------
(* The invariants are preserved                                              *)

\* A key is set for as long as its constraint lives, which is not nothing.
LEMMA SetExFacts ==
  ASSUME TypeOK, ClockInv, AddedInv, SourceInv, NEW t \in Threads, pc[t] = "setex"
  PROVE  /\ adding[t] \in Constraints
         /\ adding[t].expires - adding[t].created = Ttl
         /\ \E n \in DOMAIN added : added[n].constraint = adding[t] /\ added[n].at <= clock
<1>1. PICK n \in DOMAIN added : added[n].constraint = adding[t]
  BY DEF SourceInv, Installed
<1>2. added \in Seq(Additions)
  BY DEF TypeOK, Additions
<1>3. added[n] \in Additions
  BY <1>1, <1>2
<1>4. adding[t] \in Constraints
  BY <1>1, <1>3 DEF Additions
<1>5. adding[t] \in Constraints /\ adding[t].expires \in Int /\ adding[t].created \in Int
  BY <1>4, SharedAssumption DEF Constraints
<1>6. adding[t].expires = adding[t].created + Ttl /\ added[n].at <= clock
  BY <1>1 DEF AddedInv, ClockInv
<1> QED
  BY <1>1, <1>5, <1>6, SharedAssumption

LEMMA TypeStep ==
  ASSUME TypeOK, ClockInv, AddedInv, SourceInv, [Next]_vars
  PROVE  TypeOK'
<1>0. /\ Home \in [Threads -> Replicas] /\ MaxClock \in Nat /\ Ttl \in Nat \ {0}
      /\ MaxHeadStart \in Nat
  BY SharedAssumption
<1>1. ASSUME NEW t \in Threads, Ask(t) PROVE TypeOK'
  <2>1. fetchedAt' \in [Replicas -> 0..MaxClock \cup {LongAgo}]
    BY <1>1 DEF Ask, TypeOK
  <2>2. pc' \in [Threads -> {"idle", "fetch", "prune", "rebind", "merge", "filter", "setex"}]
    <3>1. \/ pc' = [pc EXCEPT ![t] = "fetch"] \/ pc' = [pc EXCEPT ![t] = "filter"] \/ pc' = pc
      BY <1>1 DEF Ask, Goto
    <3> QED
      BY <3>1 DEF TypeOK
  <2>3. asked' \in [Threads -> 0..MaxClock]
    BY <1>1 DEF Ask, TypeOK
  <2> QED
    BY <1>1, <2>1, <2>2, <2>3 DEF Ask, TypeOK, redisVars
<1>2. ASSUME NEW t \in Threads, Fetch(t) PROVE TypeOK'
  <2>1. \A p \in Paths : Alive(p) => redis[p].constraint \in Constraints
    BY DEF TypeOK, Alive
  <2>2. fetched' \in [Threads -> SUBSET Constraints]
    <3>1. {redis[p].constraint : p \in {q \in Paths : Alive(q)}} \in SUBSET Constraints
      BY <2>1
    <3>2. fetched \in [Threads -> SUBSET Constraints]
      BY DEF TypeOK
    <3> QED
      BY <1>2, <3>1, <3>2 DEF Fetch
  <2> QED
    BY <1>0, <1>2, <2>2 DEF Fetch, Goto, TypeOK, redisVars
<1>3. ASSUME NEW t \in Threads, Prune(t) PROVE TypeOK'
  BY <1>0, <1>3 DEF Prune, Goto, TypeOK, redisVars
<1>4. ASSUME NEW t \in Threads, Rebind(t) PROVE TypeOK'
  <2>1. Unexpired(t) \in SUBSET Constraints
    BY <1>0 DEF Unexpired, TypeOK
  <2>2. held' \in [Replicas -> SUBSET Constraints]
    BY <1>4, <2>1 DEF Rebind, TypeOK
  <2>3. replaced' \in [Threads -> (SUBSET Constraints) \cup {Nothing}]
    BY <1>0, <1>4 DEF Rebind, TypeOK
  <2> QED
    BY <1>0, <1>4, <2>2, <2>3 DEF Rebind, Goto, TypeOK, redisVars
<1>5. ASSUME NEW t \in Threads, Merge(t) PROVE TypeOK'
  <2>1. held' \in [Replicas -> SUBSET Constraints]
    BY <1>0, <1>5 DEF Merge, TypeOK
  <2>2. fetched' \in [Threads -> SUBSET Constraints]
    BY <1>5 DEF Merge, TypeOK
  <2> QED
    BY <1>0, <1>5, <2>1, <2>2 DEF Merge, Goto, TypeOK, redisVars
<1>6. ASSUME NEW t \in Threads, Filter(t) PROVE TypeOK'
  BY <1>0, <1>6 DEF Filter, Goto, TypeOK, redisVars
<1>7. ASSUME NEW t \in Threads, NEW p \in Paths, Add(t, p) PROVE TypeOK'
  <2>1. PICK c \in Constraints :
          /\ held' = [held EXCEPT ![Home[t]] = @ \cup {c}]
          /\ adding' = [adding EXCEPT ![t] = c]
          /\ added' = Append(added, Entry(t, c))
          /\ Entry(t, c) \in Additions
    BY <1>7, AddFacts
  <2>2. held' \in [Replicas -> SUBSET Constraints]
    BY <2>1 DEF TypeOK
  <2>3. adding' \in [Threads -> Constraints \cup {Nothing}]
    BY <2>1 DEF TypeOK
  <2>4. added' \in Seq([constraint : Constraints, by : Replicas, since : Seconds, at : 0..MaxClock])
    BY <2>1 DEF TypeOK, Additions
  <2> QED
    BY <1>0, <1>7, <2>2, <2>3, <2>4 DEF Add, Goto, TypeOK, redisVars
<1>8. ASSUME NEW t \in Threads, SetEx(t) PROVE TypeOK'
  <2>1. adding[t] \in Constraints /\ adding[t].expires - adding[t].created = Ttl
    BY <1>8, SetExFacts DEF SetEx
  <2>2. LET until == clock + adding[t].expires - adding[t].created
        IN  clock \in Nat /\ until \in Nat /\ clock < until
    BY <1>0, <2>1 DEF TypeOK, Constraints
  <2>3. \A p \in Paths : redis'[p] # Nothing =>
          /\ redis'[p].constraint \in Constraints
          /\ redis'[p].at \in Nat /\ redis'[p].until \in Nat /\ redis'[p].at < redis'[p].until
    <3> SUFFICES ASSUME NEW p \in Paths, redis'[p] # Nothing, redis'[p] # redis[p]
                 PROVE  /\ redis'[p].constraint \in Constraints
                        /\ redis'[p].at \in Nat /\ redis'[p].until \in Nat
                        /\ redis'[p].at < redis'[p].until
      BY DEF TypeOK
    <3>1. redis'[p] = [ constraint |-> adding[t], at |-> clock,
                        until |-> clock + adding[t].expires - adding[t].created ]
      BY <1>8 DEF SetEx
    <3> QED
      BY <2>1, <2>2, <3>1
  <2>4. adding' \in [Threads -> Constraints \cup {Nothing}]
    BY <1>8 DEF SetEx, TypeOK
  <2> QED
    BY <1>0, <1>8, <2>3, <2>4 DEF SetEx, Goto, TypeOK
<1>9. CASE Second
  BY <1>0, <1>9 DEF Second, TypeOK, redisVars, threadVars
<1>10. CASE Outage
  <2>1. outages \in Nat
    BY DEF TypeOK
  <2>2. outages' = outages + 1
    BY <1>10 DEF Outage
  <2>3. outages' \in Nat
    BY <2>1, <2>2
  <2>4. up' \in BOOLEAN
    BY <1>10 DEF Outage
  <2>5. UNCHANGED <<clock, started, held, fetchedAt, redis, pc, asked, fetched, replaced,
                    adding, added, slow, restarts>>
    BY <1>10 DEF Outage, threadVars
  <2> QED
    BY <2>3, <2>4, <2>5 DEF TypeOK
<1>11. CASE Recovery
  BY <1>0, <1>11 DEF Recovery, TypeOK, threadVars
<1>12. ASSUME NEW r \in Replicas, Restart(r) PROVE TypeOK'
  <2>1. pc' \in [Threads -> {"idle", "fetch", "prune", "rebind", "merge", "filter", "setex"}]
        /\ asked' \in [Threads -> 0..MaxClock]
    BY <1>0, <1>12 DEF Restart, TypeOK
  <2>2. fetched' \in [Threads -> SUBSET Constraints]
        /\ replaced' \in [Threads -> (SUBSET Constraints) \cup {Nothing}]
        /\ adding' \in [Threads -> Constraints \cup {Nothing}]
    BY <1>12 DEF Restart, TypeOK
  <2>3. started' \in [Replicas -> Seconds] /\ held' \in [Replicas -> SUBSET Constraints]
        /\ fetchedAt' \in [Replicas -> 0..MaxClock \cup {LongAgo}]
    <3>1. clock \in Seconds
      BY <1>0 DEF TypeOK, Seconds
    <3> QED
      BY <1>12, <3>1 DEF Restart, TypeOK
  <2> QED
    BY <1>0, <1>12, <2>1, <2>2, <2>3 DEF Restart, TypeOK, redisVars
<1>13. CASE UNCHANGED vars
  BY <1>13 DEF vars, TypeOK, redisVars, threadVars
<1> QED
  BY <1>1, <1>2, <1>3, <1>4, <1>5, <1>6, <1>7, <1>8, <1>9, <1>10, <1>11, <1>12, <1>13
  DEF Next

\* A handler is in active(tick) after a step only if it was before or has just asked.
LEMMA AskingFacts ==
  ASSUME TypeOK, [Next]_vars, \A t \in Threads : ~Ask(t)
  PROVE  \A t \in Threads : pc'[t] \in Asking =>
           pc[t] \in Asking /\ asked'[t] = asked[t] /\ started'[Home[t]] = started[Home[t]]
<1> SUFFICES ASSUME NEW u \in Threads, pc'[u] \in Asking
             PROVE  pc[u] \in Asking /\ asked'[u] = asked[u]
                    /\ started'[Home[u]] = started[Home[u]]
  OBVIOUS
<1>0. Home[u] \in Replicas
  BY SharedAssumption
<1> DEFINE Goal == pc[u] \in Asking /\ asked'[u] = asked[u] /\ started'[Home[u]] = started[Home[u]]
<1>1. ASSUME NEW t \in Threads, Fetch(t) \/ Prune(t) \/ Rebind(t) \/ Merge(t) PROVE Goal
  <2>1. UNCHANGED <<asked, started>> /\ pc[t] \in Asking
        /\ \E where \in Asking : pc' = [pc EXCEPT ![t] = where]
    BY <1>1 DEF Fetch, Prune, Rebind, Merge, Goto, Asking
  <2> QED
    BY <2>1 DEF TypeOK
<1>1a. ASSUME NEW t \in Threads, SetEx(t) \/ \E p \in Paths : Add(t, p) PROVE Goal
  <2>1. UNCHANGED <<asked, started>>
        /\ \E where \in {"setex", "idle"} : pc' = [pc EXCEPT ![t] = where]
    BY <1>1a DEF SetEx, Add, Goto
  <2> QED
    BY <2>1 DEF TypeOK, Asking
<1>2. CASE \E t \in Threads : Filter(t)
  BY <1>2 DEF Filter, Goto, TypeOK, Asking
<1>3. CASE Second \/ Outage \/ Recovery \/ UNCHANGED vars
  BY <1>3 DEF Second, Outage, Recovery, vars, threadVars
<1>4. CASE \E r \in Replicas : Restart(r)
  BY <1>0, <1>4 DEF Restart, TypeOK, Asking
<1> QED
  BY <1>1, <1>1a, <1>2, <1>3, <1>4 DEF Next

LEMMA ClockStep ==
  ASSUME TypeOK, ClockInv, [Next]_vars
  PROVE  ClockInv'
<1>0. /\ clock \in Nat /\ RefreshSeconds \in Nat /\ MaxClock \in Nat /\ MaxHeadStart \in Nat
      /\ Home \in [Threads -> Replicas]
      /\ started \in [Replicas -> Int]
      /\ fetchedAt \in [Replicas -> Int]
      /\ asked \in [Threads -> 0..MaxClock]
      /\ outages \in Nat
  <2>1. Seconds \subseteq Int /\ (0..MaxClock \cup {LongAgo}) \subseteq Int
    BY SharedAssumption DEF Seconds, LongAgo
  <2>2. started \in [Replicas -> Seconds] /\ fetchedAt \in [Replicas -> 0..MaxClock \cup {LongAgo}]
    BY DEF TypeOK
  <2>3. started \in [Replicas -> Int] /\ fetchedAt \in [Replicas -> Int]
    BY <2>1, <2>2
  <2> QED
    BY <2>3, SharedAssumption DEF TypeOK
<1>0a. \A n \in DOMAIN added :
         /\ added[n].by \in Replicas /\ added[n].since \in Int /\ added[n].at \in Nat
  BY AdditionFacts
<1>1. ASSUME NEW t \in Threads, Ask(t) PROVE ClockInv'
  <2>1. \A r \in Replicas : fetchedAt'[r] <= clock
    BY <1>0, <1>1 DEF Ask, ClockInv
  <2>2. \A u \in Threads : asked'[u] <= clock
    BY <1>0, <1>1 DEF Ask, ClockInv
  <2>3. \A u \in Threads : pc'[u] \in Asking => started[Home[u]] <= asked'[u]
    <3>1. started[Home[t]] <= asked'[t]
      BY <1>0, <1>1 DEF Ask, ClockInv
    <3>2. \A u \in Threads : u # t => pc'[u] = pc[u] /\ asked'[u] = asked[u]
      BY <1>1 DEF Ask, Goto, TypeOK
    <3> QED
      BY <3>1, <3>2 DEF ClockInv
  <2> QED
    BY <1>1, <2>1, <2>2, <2>3 DEF Ask, ClockInv, redisVars
<1> DEFINE ThreadsOK == \A t \in Threads : /\ asked'[t] <= clock'
                                           /\ pc'[t] \in Asking => started'[Home[t]] <= asked'[t]
<1>2. ASSUME \A t \in Threads : ~Ask(t), \A t \in Threads : asked'[t] <= clock' PROVE ThreadsOK
  BY <1>2, AskingFacts DEF ClockInv
<1>3. ASSUME NEW t \in Threads,
             Fetch(t) \/ Prune(t) \/ Rebind(t) \/ Merge(t) \/ SetEx(t) \/ Filter(t)
      PROVE  UNCHANGED <<clock, started, fetchedAt, added, outages, up>>
             /\ \A u \in Threads : asked'[u] <= clock'
  <2>1. UNCHANGED <<clock, started, fetchedAt, added, outages, up>>
    BY <1>3 DEF Fetch, Prune, Rebind, Merge, SetEx, Filter, redisVars
  <2>2. \A u \in Threads : asked'[u] <= clock
    BY <1>0, <1>3 DEF Fetch, Prune, Rebind, Merge, SetEx, Filter, ClockInv
  <2> QED
    BY <2>1, <2>2
<1>4. ASSUME NEW t \in Threads, NEW p \in Paths, Add(t, p) PROVE ClockInv'
  <2>1. PICK c \in Constraints : added' = Append(added, Entry(t, c)) /\ Entry(t, c) \in Additions
    BY <1>4, AddFacts
  <2>2. added \in Seq(Additions)
    BY DEF TypeOK, Additions
  <2> DEFINE e == Entry(t, c)
  <2>3. e.since = started[Home[t]] /\ e.at = clock /\ e.by = Home[t]
    BY DEF Entry
  <2>4. e \in Additions /\ added' = Append(added, e)
    BY <2>1
  <2> HIDE DEF e
  <2>5. ASSUME NEW n \in DOMAIN added'
        PROVE  (n \in DOMAIN added /\ added'[n] = added[n]) \/ added'[n] = e
    BY <2>2, <2>4
  <2>6. UNCHANGED <<clock, started, fetchedAt, asked, outages, up>>
    BY <1>4 DEF Add, redisVars
  <2>7. started[Home[t]] <= clock /\ started[Home[t]] \in Int
    BY <1>0 DEF ClockInv
  <2>8. e.since <= e.at /\ e.at <= clock /\ e.since <= started[e.by]
    BY <1>0, <2>3, <2>7
  <2>9. \A n \in DOMAIN added' : /\ added'[n].since <= added'[n].at /\ added'[n].at <= clock
                                 /\ added'[n].since <= started[added'[n].by]
    BY <2>5, <2>8 DEF ClockInv
  <2>10. ThreadsOK
    <3>1. \A u \in Threads : ~Ask(u)
      <4>1. added' # added
        BY <2>2, <2>4
      <4> QED
        BY <4>1 DEF Ask
    <3> QED
      BY <1>2, <2>6, <3>1 DEF ClockInv
  <2> QED
    BY <2>6, <2>9, <2>10 DEF ClockInv
<1>5. CASE Second
  <2>1. clock' = clock + 1 /\ UNCHANGED <<started, fetchedAt, asked, pc, added, outages, up>>
    BY <1>5 DEF Second, redisVars, threadVars
  <2>2. \A n \in DOMAIN added : added[n].at \in Nat /\ added[n].at <= clock
    BY AdditionFacts DEF ClockInv
  <2>3. \A r \in Replicas : started[r] <= clock' /\ fetchedAt[r] <= clock'
    BY <1>0, <2>1 DEF ClockInv
  <2>4. \A t \in Threads : asked[t] <= clock'
    BY <1>0, <2>1 DEF ClockInv
  <2>5. \A n \in DOMAIN added : added[n].at <= clock'
    BY <1>0, <2>1, <2>2
  <2> QED
    BY <2>1, <2>3, <2>4, <2>5 DEF ClockInv
<1>6. CASE Outage
  <2>1. outages' # 0
    BY <1>0, <1>6 DEF Outage
  <2>2. UNCHANGED <<clock, started, fetchedAt, asked, pc, added>>
    BY <1>6 DEF Outage, threadVars
  <2> QED
    BY <2>1, <2>2 DEF ClockInv
<1>7. CASE Recovery
  <2>1. UNCHANGED <<clock, started, fetchedAt, asked, pc, added, outages>> /\ up'
    BY <1>7 DEF Recovery, threadVars
  <2> QED
    BY <2>1 DEF ClockInv
<1>8. ASSUME NEW r \in Replicas, Restart(r) PROVE ClockInv'
  <2>1. \A q \in Replicas : started[q] <= started'[q] /\ started'[q] <= clock
    BY <1>0, <1>8 DEF Restart, ClockInv
  <2>2. \A q \in Replicas : fetchedAt'[q] <= clock
    BY <1>0, <1>8 DEF Restart, ClockInv, LongAgo
  <2>3. \A t \in Threads : asked'[t] <= clock
    BY <1>0, <1>8 DEF Restart, ClockInv
  <2>4. UNCHANGED <<clock, added, outages, up>> /\ \A q \in Replicas : started'[q] \in Int
    BY <1>0, <1>8 DEF Restart, redisVars
  <2>5. \A t \in Threads : ~Ask(t)
    <3>1. started'[r] # started[r]
      BY <1>0, <1>8 DEF Restart
    <3> QED
      BY <3>1 DEF Ask
  <2>6. ThreadsOK
    BY <1>2, <2>3, <2>4, <2>5
  <2>7. \A n \in DOMAIN added : added[n].since <= started'[added[n].by]
    <3> SUFFICES ASSUME NEW n \in DOMAIN added PROVE added[n].since <= started'[added[n].by]
      OBVIOUS
    <3>1. /\ added[n].since <= started[added[n].by]
          /\ started[added[n].by] <= started'[added[n].by]
          /\ added[n].since \in Int /\ started[added[n].by] \in Int
          /\ started'[added[n].by] \in Int
      BY <1>0, <1>0a, <2>1, <2>4 DEF ClockInv
    <3> QED
      BY <3>1
  <2> QED
    BY <2>1, <2>2, <2>4, <2>6, <2>7 DEF ClockInv
<1>9. CASE UNCHANGED vars
  BY <1>9 DEF vars, ClockInv, redisVars, threadVars
<1>10. CASE \E t \in Threads : Ask(t)
  BY <1>1, <1>10
<1>11. ASSUME \A t \in Threads : ~Ask(t), NEW t \in Threads,
              Fetch(t) \/ Prune(t) \/ Rebind(t) \/ Merge(t) \/ SetEx(t) \/ Filter(t)
       PROVE  ClockInv'
  BY <1>2, <1>3, <1>11 DEF ClockInv
<1> QED
  BY <1>4, <1>5, <1>6, <1>7, <1>8, <1>9, <1>10, <1>11 DEF Next

LEMMA AddedStep ==
  ASSUME TypeOK, ClockInv, AddedInv, [Next]_vars
  PROVE  AddedInv'
<1>1. CASE \A t \in Threads, p \in Paths : ~Add(t, p)
  BY <1>1, OnlyAddAdds DEF AddedInv
<1>2. ASSUME NEW t \in Threads, NEW p \in Paths, Add(t, p) PROVE AddedInv'
  <2>1. PICK c \in Constraints :
          /\ c.created = TickAt(Home[t], clock) /\ c.expires = c.created + Ttl
          /\ added' = Append(added, Entry(t, c))
          /\ Entry(t, c) \in Additions
    BY <1>2, AddFacts
  <2>2. added \in Seq(Additions)
    BY DEF TypeOK, Additions
  <2> DEFINE e == Entry(t, c)
  <2>3. e.constraint = c /\ e.at = clock /\ e.since = started[Home[t]]
    BY DEF Entry
  <2>4. e \in Additions /\ added' = Append(added, e)
    BY <2>1
  <2> HIDE DEF e
  <2>5. ASSUME NEW n \in DOMAIN added'
        PROVE  (n \in DOMAIN added /\ added'[n] = added[n]) \/ added'[n] = e
    BY <2>2, <2>4
  <2> QED
    BY <2>1, <2>3, <2>5 DEF AddedInv, TickAt
<1> QED
  BY <1>1, <1>2

LEMMA SourceStep ==
  ASSUME TypeOK, ClockInv, AddedInv, SourceInv, [Next]_vars
  PROVE  SourceInv'
<1> DEFINE Kept(c) == \E n \in DOMAIN added' : added'[n].constraint = c
           KeyInv(p) == /\ redis'[p].constraint.path = p
                        /\ \E n \in DOMAIN added' : /\ added'[n].constraint = redis'[p].constraint
                                                    /\ added'[n].at <= redis'[p].at
<1>0. Home \in [Threads -> Replicas]
  BY SharedAssumption
<1>1. ASSUME NEW c, Installed(c) PROVE Kept(c)
  BY <1>1, InstalledStays
<1>2. ASSUME NEW p \in Paths, redis[p] # Nothing, redis'[p] = redis[p] PROVE KeyInv(p)
  BY <1>2, AdditionsStay DEF SourceInv
<1>3. /\ \A r \in Replicas : \A c \in held[r] : Kept(c)
      /\ \A t \in Threads : \A c \in fetched[t] : Kept(c)
      /\ \A t \in Threads : replaced[t] # Nothing => \A c \in replaced[t] : Kept(c)
      /\ \A t \in Threads : pc[t] = "setex" => Kept(adding[t])
  BY <1>1 DEF SourceInv
<1> DEFINE HeldOK == \A r \in Replicas : \A c \in held'[r] : Kept(c)
           ThreadsOK == /\ \A t \in Threads : \A c \in fetched'[t] : Kept(c)
                        /\ \A t \in Threads : replaced'[t] # Nothing =>
                             \A c \in replaced'[t] : Kept(c)
                        /\ \A t \in Threads : pc'[t] = "setex" => Kept(adding'[t])
           RedisOK == \A p \in Paths : redis'[p] # Nothing => KeyInv(p)
<1>4. SUFFICES HeldOK /\ ThreadsOK /\ RedisOK
  BY DEF SourceInv, Installed
<1>5. redis' = redis => RedisOK
  BY <1>2
<1>6. held' = held => HeldOK
  BY <1>3
<1> HIDE DEF Kept, KeyInv
<1> USE DEF Goto
<1>7. ASSUME NEW t \in Threads, Ask(t) \/ Filter(t) PROVE HeldOK /\ ThreadsOK /\ RedisOK
  <2>1. UNCHANGED <<held, fetched, replaced, adding, redis>>
    BY <1>7 DEF Ask, Filter, redisVars
  <2>2. \A u \in Threads : pc'[u] = "setex" => pc[u] = "setex"
    BY <1>7 DEF Ask, Filter, TypeOK
  <2> QED
    BY <1>3, <1>5, <1>6, <2>1, <2>2
<1>8. ASSUME NEW t \in Threads, Fetch(t) PROVE HeldOK /\ ThreadsOK /\ RedisOK
  <2>1. \A p \in Paths : Alive(p) => Kept(redis[p].constraint)
    <3>1. \A p \in Paths : Alive(p) => Installed(redis[p].constraint)
      BY DEF SourceInv, Alive, Installed
    <3> QED
      BY <1>1, <3>1
  <2>2. UNCHANGED <<held, replaced, adding, redis>>
        /\ \A u \in Threads : pc'[u] = "setex" => pc[u] = "setex"
    BY <1>8 DEF Fetch, TypeOK, redisVars
  <2>3. \A u \in Threads : \A c \in fetched'[u] :
          c \in fetched[u] \/ \E p \in Paths : Alive(p) /\ c = redis[p].constraint
    <3> DEFINE All == {redis[p].constraint : p \in {q \in Paths : Alive(q)}}
    <3>1. fetched' = fetched \/ fetched' = [fetched EXCEPT ![t] = All]
      BY <1>8 DEF Fetch
    <3>2. \A c \in All : \E p \in Paths : Alive(p) /\ c = redis[p].constraint
      OBVIOUS
    <3> HIDE DEF All
    <3>3. DOMAIN fetched = Threads
      BY DEF TypeOK
    <3> QED
      BY <3>1, <3>2, <3>3
  <2> QED
    BY <1>3, <1>5, <1>6, <2>1, <2>2, <2>3
<1>9. ASSUME NEW t \in Threads, Prune(t) PROVE HeldOK /\ ThreadsOK /\ RedisOK
  <2>1. UNCHANGED <<held, fetched, replaced, adding, redis>>
        /\ \A u \in Threads : pc'[u] = "setex" => pc[u] = "setex"
    BY <1>9 DEF Prune, TypeOK, redisVars
  <2> QED
    BY <1>3, <1>5, <1>6, <2>1
<1>10. ASSUME NEW t \in Threads, Rebind(t) PROVE HeldOK /\ ThreadsOK /\ RedisOK
  <2>1. UNCHANGED <<adding, redis, fetched>>
        /\ \A u \in Threads : pc'[u] = "setex" => pc[u] = "setex"
    BY <1>10 DEF Rebind, TypeOK, redisVars
  <2>2. \A c \in Unexpired(t) : Kept(c)
    BY <1>0, <1>3 DEF Unexpired
  <2>3. \A r \in Replicas : held'[r] = held[r] \/ held'[r] = Unexpired(t)
    BY <1>10 DEF Rebind, TypeOK
  <2>4. \A u \in Threads : \/ replaced'[u] = Nothing \/ replaced'[u] = held[Home[t]]
                            \/ replaced'[u] = replaced[u]
    BY <1>10 DEF Rebind
  <2> QED
    BY <1>0, <1>3, <1>5, <2>1, <2>2, <2>3, <2>4
<1>10a. ASSUME NEW t \in Threads, Merge(t) PROVE HeldOK /\ ThreadsOK /\ RedisOK
  <2>1. UNCHANGED <<adding, redis, replaced>>
        /\ \A u \in Threads : pc'[u] = "setex" => pc[u] = "setex"
    BY <1>10a DEF Merge, TypeOK, redisVars
  <2>2. \A u \in Threads : fetched'[u] \subseteq fetched[u]
    BY <1>10a DEF Merge, TypeOK
  <2>3. \A r \in Replicas : held'[r] \subseteq held[r] \cup fetched[t]
    BY <1>10a DEF Merge, TypeOK
  <2> QED
    BY <1>3, <1>5, <2>1, <2>2, <2>3
<1>11. ASSUME NEW t \in Threads, NEW p \in Paths, Add(t, p)
       PROVE  HeldOK /\ ThreadsOK /\ RedisOK
  <2>1. PICK c \in Constraints :
          /\ held' = [held EXCEPT ![Home[t]] = @ \cup {c}]
          /\ adding' = [adding EXCEPT ![t] = c]
          /\ added' = Append(added, Entry(t, c))
    BY <1>11, AddFacts
  <2>2. Kept(c)
    <3>1. added \in Seq(Additions)
      BY AdditionFacts
    <3>2. added'[Len(added) + 1].constraint = c /\ Len(added) + 1 \in DOMAIN added'
      BY <2>1, <3>1 DEF Entry
    <3> QED
      BY <3>2 DEF Kept
  <2>3. UNCHANGED <<fetched, replaced, redis>>
        /\ \A u \in Threads : u # t => pc'[u] = pc[u] /\ adding'[u] = adding[u]
    BY <1>11, <2>1 DEF Add, TypeOK, redisVars
  <2>4. adding'[t] = c /\ \A r \in Replicas : \A d \in held'[r] : d \in held[r] \/ d = c
    BY <2>1 DEF TypeOK
  <2> QED
    BY <1>3, <1>5, <2>2, <2>3, <2>4
<1>12. ASSUME NEW t \in Threads, SetEx(t) PROVE HeldOK /\ ThreadsOK /\ RedisOK
  <2>1. /\ UNCHANGED <<held, fetched, replaced, added>>
        /\ pc[t] = "setex"
        /\ \A u \in Threads : pc'[u] = "setex" => pc[u] = "setex" /\ u # t
        /\ \A u \in Threads : u # t => adding'[u] = adding[u]
    BY <1>12 DEF SetEx, TypeOK
  <2>2. HeldOK /\ ThreadsOK
    BY <1>3, <1>6, <2>1
  <2>3. ASSUME NEW p \in Paths, redis'[p] # Nothing, redis'[p] # redis[p] PROVE KeyInv(p)
    <3>1. redis'[p].constraint = adding[t] /\ redis'[p].at = clock /\ adding[t].path = p
      BY <1>12, <2>3 DEF SetEx
    <3> QED
      BY <2>1, <3>1, SetExFacts DEF KeyInv
  <2> QED
    BY <1>2, <2>2, <2>3
<1>13. ASSUME Second \/ Outage \/ Recovery \/ UNCHANGED vars
       PROVE  HeldOK /\ ThreadsOK /\ RedisOK
  <2>1. UNCHANGED <<held, fetched, replaced, adding, pc, redis>>
    BY <1>13 DEF Second, Outage, Recovery, vars, redisVars, threadVars
  <2> QED
    BY <1>3, <1>5, <1>6, <2>1
<1>14. ASSUME NEW r \in Replicas, Restart(r) PROVE HeldOK /\ ThreadsOK /\ RedisOK
  <2>1. redis' = redis
    BY <1>14 DEF Restart, redisVars
  <2>2. \A q \in Replicas : held'[q] \subseteq held[q]
    BY <1>14 DEF Restart, TypeOK
  <2>3. \A u \in Threads : /\ fetched'[u] \subseteq fetched[u]
                           /\ replaced'[u] = Nothing \/ replaced'[u] = replaced[u]
    BY <1>14 DEF Restart, TypeOK
  <2>4. \A u \in Threads : pc'[u] = "setex" => pc[u] = "setex" /\ adding'[u] = adding[u]
    BY <1>14 DEF Restart, TypeOK
  <2>5. HeldOK
    BY <1>3, <2>2
  <2>6. ThreadsOK
    <3>1. \A u \in Threads : replaced'[u] # Nothing => replaced'[u] = replaced[u]
      BY <2>3
    <3>2. ASSUME NEW u \in Threads, replaced'[u] # Nothing
          PROVE  \A c \in replaced'[u] : Kept(c)
      <4>1. replaced[u] # Nothing /\ replaced'[u] = replaced[u]
        BY <3>1, <3>2
      <4>2. \A c \in replaced[u] : Kept(c)
        BY <1>3, <4>1
      <4> QED
        BY <4>1, <4>2, Zenon
    <3>3. ASSUME NEW u \in Threads, NEW c \in fetched'[u] PROVE Kept(c)
      <4>1. c \in fetched[u]
        BY <2>3, <3>3
      <4> QED
        BY <1>3, <4>1, Zenon
    <3>4. \A u \in Threads : pc'[u] = "setex" => Kept(adding'[u])
      <4>1. \A u \in Threads : pc[u] = "setex" => Kept(adding[u])
        BY <1>3
      <4> QED
        BY <2>4, <4>1
    <3> QED
      BY <3>2, <3>3, <3>4
  <2> QED
    BY <1>5, <2>1, <2>5, <2>6
<1> HIDE DEF HeldOK, ThreadsOK, RedisOK
<1> QED
  BY <1>7, <1>8, <1>9, <1>10, <1>11, <1>12, <1>13, <1>14, <1>10a DEF Next

-------------------------------------------------------------------------------
(* Ages: how long a process had run when something happened in it            *)

LEMMA AgeFacts ==
  ASSUME TypeOK, ClockInv, NEW t \in Threads, pc[t] \in Asking
  PROVE  /\ asked[t] \in Nat /\ asked[t] <= clock
         /\ asked[t] - started[Home[t]] \in Nat
<1>1. started[Home[t]] \in Int /\ asked[t] \in Nat
  BY TickFacts, SharedAssumption DEF TypeOK
<1>2. started[Home[t]] <= asked[t] /\ asked[t] <= clock
  BY DEF ClockInv
<1> QED
  BY <1>1, <1>2

LEMMA AdditionAges ==
  ASSUME TypeOK, ClockInv, NEW n \in DOMAIN added
  PROVE  added[n].at - added[n].since \in Nat
<1>1. added[n].since \in Int /\ added[n].at \in Nat /\ added[n].since <= added[n].at
  BY AdditionFacts DEF ClockInv
<1> QED
  BY <1>1

-------------------------------------------------------------------------------
(* Theorems                                                                  *)

LEMMA InitInv == Init => IInv
<1> SUFFICES ASSUME Init PROVE IInv
  OBVIOUS
<1>0. Home \in [Threads -> Replicas] /\ MaxClock \in Nat /\ RefreshSeconds \in Nat
  BY SharedAssumption
<1>1. TypeOK
  <2>1. started \in [Replicas -> Seconds]
    <3>1. (-MaxHeadStart)..0 \subseteq Seconds
      BY <1>0, SharedAssumption DEF Seconds
    <3> QED
      BY <3>1 DEF Init
  <2>2. clock \in 0..MaxClock /\ asked \in [Threads -> 0..MaxClock]
    BY <1>0 DEF Init
  <2>3. added \in Seq([constraint : Constraints, by : Replicas, since : Seconds, at : 0..MaxClock])
    BY DEF Init
  <2> QED
    BY <2>1, <2>2, <2>3 DEF Init, TypeOK
<1>2. ClockInv
  <2>1. started \in [Replicas -> (-MaxHeadStart)..0] /\ MaxHeadStart \in Nat
    BY SharedAssumption DEF Init
  <2>2. \A r \in Replicas : started[r] <= 0
    BY <2>1
  <2> QED
    BY <1>0, <2>2 DEF Init, ClockInv, LongAgo, Asking
<1>3. AddedInv
  BY DEF Init, AddedInv
<1>4. SourceInv
  BY DEF Init, SourceInv
<1> QED
  BY <1>1, <1>2, <1>3, <1>4 DEF IInv

LEMMA Invariance == Spec => []IInv
<1>1. IInv /\ [Next]_vars => IInv'
  BY TypeStep, ClockStep, AddedStep, SourceStep DEF IInv
<1> QED
  BY InitInv, <1>1, PTL DEF Spec

\* Every variable keeps its type.
THEOREM TypeCorrect == Spec => []TypeOK
<1>1. IInv => TypeOK
  BY DEF IInv
<1> QED
  BY <1>1, Invariance, PTL

\* "Always expiring" (constraints.py:22), by the clock of the replica that applies
\* a constraint, whichever replica installed it and whenever the two started: a
\* stale or late refresh revives nothing.
THEOREM ConstraintsGovernByOwnClock == Spec => []GovernsByOwnClock
<1>1. IInv => GovernsByOwnClock
  <2> SUFFICES ASSUME IInv, NEW t \in Threads, pc[t] = "filter", NEW c \in Result(t)
               PROVE  \E n \in AddsOf(c) : /\ -SecondsPerTick < Older(t, n)
                                           /\ Older(t, n) < Ttl * SecondsPerTick
    BY DEF GovernsByOwnClock
  <2>1. Home[t] \in Replicas
    BY SharedAssumption
  <2>2. PICK n \in DOMAIN added : added[n].constraint = c
    BY <2>1 DEF IInv, SourceInv, Installed, Result
  <2> DEFINE a == asked[t] - started[Home[t]]
             b == added[n].at - added[n].since
  <2>3. a \in Nat /\ b \in Nat
    BY <2>1, <2>2, AgeFacts, AdditionAges DEF IInv, Asking
  <2>4. c.created = b \div SecondsPerTick /\ c.expires = c.created + Ttl
    BY <2>2 DEF IInv, AddedInv
  <2>5. c.created <= a \div SecondsPerTick /\ a \div SecondsPerTick < c.expires
    BY DEF Result, Active, TickAt
  <2>6. a - b < Ttl * SecondsPerTick
    BY <2>3, <2>4, <2>5, TicksToSeconds
  <2>7. -SecondsPerTick < a - b
    BY <2>3, <2>4, <2>5, TicksNotBegun
  <2> QED
    BY <2>2, <2>6, <2>7 DEF AddsOf, Older
<1> QED
  BY <1>1, Invariance, PTL

-------------------------------------------------------------------------------
(* A replica whose refreshes stay within the window has one at a time        *)

\* As long as no refresh of a replica outlasts the window, at most one is under
\* way, the one that set the stamp, and no handler prunes a list no longer bound.
RefreshInv ==
  \A t \in Threads : Home[t] \notin slow =>
    /\ replaced[t] = Nothing
    /\ Refreshing(t) =>
         /\ fetchedAt[Home[t]] = asked[t] /\ clock - asked[t] < RefreshSeconds
         /\ \A u \in Threads : Home[u] = Home[t] /\ Refreshing(u) => u = t

\* A replica stops being slow only when its process is replaced.
LEMMA SlowFacts ==
  ASSUME [Next]_vars
  PROVE  \/ \E r \in Replicas : Restart(r)
         \/ slow \subseteq slow' /\ (Second \/ slow' = slow)
<1>1. CASE Second
  BY <1>1 DEF Second
<1>2. ASSUME ~Second, \A r \in Replicas : ~Restart(r) PROVE slow' = slow
  BY <1>2 DEF Next, vars, Ask, Fetch, Prune, Rebind, Merge, Filter, Add, SetEx, Outage, Recovery
<1> QED
  BY <1>1, <1>2

LEMMA RefreshStep ==
  ASSUME IInv, RefreshInv, [Next]_vars
  PROVE  RefreshInv'
<1>0. /\ TypeOK /\ ClockInv /\ Home \in [Threads -> Replicas] /\ RefreshSeconds \in Nat \ {0}
      /\ clock \in Nat /\ asked \in [Threads -> 0..MaxClock] /\ MaxClock \in Nat
      /\ DOMAIN fetchedAt = Replicas
  BY SharedAssumption DEF IInv, TypeOK
<1> DEFINE Alone(t) == /\ replaced[t] = Nothing
                       /\ Refreshing(t) =>
                            /\ fetchedAt[Home[t]] = asked[t] /\ clock - asked[t] < RefreshSeconds
                            /\ \A u \in Threads : Home[u] = Home[t] /\ Refreshing(u) => u = t
<1> SUFFICES ASSUME NEW t \in Threads, Home[t] \notin slow' PROVE Alone(t)'
  BY DEF RefreshInv
<1> USE DEF Refreshing
\* Steps after which no more handlers are refreshing than before.
<1>1. ASSUME UNCHANGED <<slow, clock, fetchedAt>>,
             \A u \in Threads : /\ Home[u] = Home[t] => replaced'[u] \in {replaced[u], Nothing}
                                /\ Refreshing(u)' => Refreshing(u) /\ asked'[u] = asked[u]
      PROVE  Alone(t)'
  BY <1>1 DEF RefreshInv
<1>2. ASSUME NEW u \in Threads, Ask(u) PROVE Alone(t)'
  <2>1. UNCHANGED <<slow, clock, replaced>> /\ asked'[u] = clock
        /\ \A v \in Threads : v # u => pc'[v] = pc[v] /\ asked'[v] = asked[v]
    BY <1>0, <1>2 DEF Ask, Goto, TypeOK
  <2>2. CASE Fresh(Home[u])
    <3>1. fetchedAt' = fetchedAt /\ pc'[u] = "filter"
      BY <1>0, <1>2, <2>2 DEF Ask, Goto, TypeOK
    <3> QED
      BY <1>1, <2>1, <3>1
  <2>3. CASE ~Fresh(Home[u])
    <3>1. fetchedAt' = [fetchedAt EXCEPT ![Home[u]] = clock]
      BY <1>2, <2>3 DEF Ask
    <3>2. CASE Home[t] = Home[u]
      <4>1. \A v \in Threads : Home[v] = Home[t] => ~Refreshing(v)
        BY <2>1, <2>3, <3>2 DEF RefreshInv, Fresh
      <4> QED
        BY <1>0, <2>1, <3>1, <3>2, <4>1 DEF RefreshInv
    <3>3. CASE Home[t] # Home[u]
      <4>1. fetchedAt'[Home[t]] = fetchedAt[Home[t]]
        BY <1>0, <3>1, <3>3
      <4> QED
        BY <2>1, <3>3, <4>1 DEF RefreshInv
    <3> QED
      BY <3>2, <3>3
  <2> QED
    BY <2>2, <2>3
<1>3. ASSUME NEW u \in Threads,
             \/ Fetch(u) \/ Prune(u) \/ Merge(u) \/ SetEx(u) \/ \E p \in Paths : Add(u, p)
      PROVE  Alone(t)'
  <2>1. UNCHANGED <<slow, clock, fetchedAt, replaced, asked>>
    BY <1>3 DEF Fetch, Prune, Merge, SetEx, Add
  <2>2. \A v \in Threads : v # u => pc'[v] = pc[v]
    BY <1>0, <1>3 DEF Fetch, Prune, Merge, SetEx, Add, Goto, TypeOK
  <2>3. Refreshing(u)' => Refreshing(u)
    <3>1. CASE Fetch(u) \/ Prune(u) \/ Merge(u)
      BY <3>1 DEF Fetch, Prune, Merge
    <3>2. CASE SetEx(u) \/ \E p \in Paths : Add(u, p)
      BY <1>0, <3>2 DEF SetEx, Add, Goto, TypeOK
    <3> QED
      BY <1>3, <3>1, <3>2
  <2> QED
    BY <1>1, <2>1, <2>2, <2>3
<1>4. ASSUME NEW u \in Threads, Filter(u) PROVE Alone(t)'
  <2>1. UNCHANGED <<slow, clock, fetchedAt, replaced>>
    BY <1>4 DEF Filter
  <2>2. \A v \in Threads : Refreshing(v)' => Refreshing(v) /\ asked'[v] = asked[v]
    BY <1>0, <1>4 DEF Filter, Goto, TypeOK
  <2> QED
    BY <1>1, <2>1, <2>2
<1>5. ASSUME NEW u \in Threads, Rebind(u) PROVE Alone(t)'
  <2>1. UNCHANGED <<slow, clock, fetchedAt, asked>>
        /\ \A v \in Threads : Refreshing(v)' => Refreshing(v)
    BY <1>5 DEF Rebind, Goto, TypeOK
  <2>2. \A v \in Threads : Home[v] = Home[t] => replaced'[v] \in {replaced[v], Nothing}
    <3> SUFFICES ASSUME NEW v \in Threads, Home[v] = Home[t], replaced'[v] # replaced[v],
                        replaced'[v] # Nothing
                 PROVE  FALSE
      OBVIOUS
    <3>1. v # u /\ Home[v] = Home[u] /\ pc[v] = "rebind" /\ pc[u] = "rebind"
      BY <1>5 DEF Rebind
    <3> QED
      BY <2>1, <3>1 DEF RefreshInv
  <2> QED
    BY <1>1, <2>1, <2>2
<1>6. CASE Second
  <2>1. clock' = clock + 1 /\ UNCHANGED <<fetchedAt, replaced, asked, pc>>
        /\ slow' = slow \cup {Home[u] : u \in {v \in Threads :
                                 Refreshing(v) /\ clock' - asked[v] >= RefreshSeconds}}
    BY <1>6 DEF Second, threadVars
  <2>2. Home[t] \notin slow /\ (Refreshing(t) => ~(clock' - asked[t] >= RefreshSeconds))
    BY <2>1
  <2>3. clock' - asked[t] \in Int
    BY <1>0, <2>1
  <2> QED
    BY <1>0, <2>1, <2>2, <2>3 DEF RefreshInv
<1>7. CASE Outage \/ Recovery \/ UNCHANGED vars
  <2>1. UNCHANGED <<slow, clock, fetchedAt, replaced, asked, pc>>
    BY <1>7 DEF Outage, Recovery, vars, threadVars
  <2> QED
    BY <1>1, <2>1
<1>8. ASSUME NEW r \in Replicas, Restart(r) PROVE Alone(t)'
  <2>1. clock' = clock /\ slow' = slow \ {r}
    BY <1>8 DEF Restart
  <2>2. CASE Home[t] = r
    BY <1>0, <1>8, <2>2 DEF Restart, TypeOK
  <2>3. CASE Home[t] # r
    <3>1. \A u \in Threads : Home[u] = Home[t] =>
            pc'[u] = pc[u] /\ asked'[u] = asked[u] /\ replaced'[u] = replaced[u]
      BY <1>0, <1>8, <2>3 DEF Restart, TypeOK
    <3>2. fetchedAt'[Home[t]] = fetchedAt[Home[t]]
      BY <1>0, <1>8, <2>3 DEF Restart, TypeOK
    <3> QED
      BY <2>1, <2>3, <3>1, <3>2 DEF RefreshInv
  <2> QED
    BY <2>2, <2>3
<1> HIDE DEF Alone
<1> QED
  BY <1>2, <1>3, <1>4, <1>5, <1>6, <1>7, <1>8 DEF Next

-------------------------------------------------------------------------------
(* What is added is kept                                                     *)

LEMMA KeptStep ==
  ASSUME IInv, RefreshInv, KeptUnlessSlow, [Next]_vars
  PROVE  KeptUnlessSlow'
<1>0. /\ TypeOK /\ ClockInv /\ Home \in [Threads -> Replicas] /\ clock \in Nat
      /\ \A n \in DOMAIN added : /\ added[n].by \in Replicas /\ added[n].since \in Int
                                 /\ added[n].constraint.expires \in Int
  <2>1. \A c \in Constraints : c.expires \in Int
    BY SharedAssumption DEF Constraints
  <2> QED
    BY <2>1, AdditionFacts, SharedAssumption DEF IInv, TypeOK
<1>1. \A r \in Replicas : started[r] \in Int /\ clock - started[r] \in Nat
  BY <1>0, TickFacts
<1>2. ASSUME NEW n \in DOMAIN added, added[n].by \notin slow PROVE IsKept(n)
  BY <1>2 DEF KeptUnlessSlow
<1>3. ASSUME UNCHANGED <<added, clock, started, slow>>,
             \A r \in Replicas : held[r] \subseteq held'[r]
      PROVE  KeptUnlessSlow'
  BY <1>0, <1>2, <1>3 DEF KeptUnlessSlow, IsKept, TickAt
<1>4. ASSUME NEW t \in Threads, Ask(t) \/ Fetch(t) \/ Prune(t) \/ Filter(t) \/ SetEx(t)
      PROVE  KeptUnlessSlow'
  <2>1. UNCHANGED <<added, clock, started, held, slow>>
    BY <1>4 DEF Ask, Fetch, Prune, Filter, SetEx
  <2> QED
    BY <1>3, <2>1
<1>5. ASSUME NEW t \in Threads, Rebind(t) PROVE KeptUnlessSlow'
  <2>1. /\ UNCHANGED <<added, clock, started, slow>> /\ pc[t] = "rebind"
        /\ held' = [held EXCEPT ![Home[t]] = Unexpired(t)]
    BY <1>5 DEF Rebind
  <2> SUFFICES ASSUME NEW n \in DOMAIN added, added[n].by \notin slow,
                      added[n].since = started[added[n].by],
                      TickAt(added[n].by, clock) < added[n].constraint.expires
               PROVE  added[n].constraint \in held'[added[n].by]
    BY <2>1 DEF KeptUnlessSlow, IsKept, TickAt
  <2>2. added[n].constraint \in held[added[n].by]
    BY <1>2 DEF IsKept
  <2>3. CASE Home[t] # added[n].by
    BY <1>0, <2>1, <2>2, <2>3 DEF TypeOK
  <2>4. CASE Home[t] = added[n].by
    <3>1. Unexpired(t) = {c \in held[Home[t]] : c.expires > TickAt(Home[t], asked[t])}
      BY <2>4 DEF Unexpired, RefreshInv
    <3>2. /\ asked[t] - started[Home[t]] \in Nat
          /\ asked[t] - started[Home[t]] <= clock - started[Home[t]]
      BY <1>0, <1>1, <2>1, AgeFacts DEF Asking
    <3>3. TickAt(Home[t], asked[t]) <= TickAt(Home[t], clock)
          /\ TickAt(Home[t], asked[t]) \in Nat /\ TickAt(Home[t], clock) \in Nat
      BY <1>0, <1>1, <3>2, TickMonotone, DivFacts DEF TickAt
    <3>4. added[n].constraint.expires > TickAt(Home[t], asked[t])
      BY <1>0, <2>4, <3>3
    <3> QED
      BY <1>0, <2>1, <2>2, <2>4, <3>1, <3>4 DEF TypeOK
  <2> QED
    BY <2>3, <2>4
<1>6. ASSUME NEW t \in Threads, Merge(t) PROVE KeptUnlessSlow'
  <2>1. UNCHANGED <<added, clock, started, slow>>
    BY <1>6 DEF Merge
  <2>2. \A r \in Replicas : held[r] \subseteq held'[r]
    BY <1>0, <1>6 DEF Merge, TypeOK
  <2> QED
    BY <1>3, <2>1, <2>2
<1>7. ASSUME NEW t \in Threads, NEW p \in Paths, Add(t, p) PROVE KeptUnlessSlow'
  <2>1. PICK c \in Constraints :
          /\ held' = [held EXCEPT ![Home[t]] = @ \cup {c}]
          /\ added' = Append(added, Entry(t, c))
          /\ Entry(t, c) \in Additions
    BY <1>0, <1>7, AddFacts
  <2> DEFINE e == Entry(t, c)
  <2>2. e.constraint = c /\ e.by = Home[t] /\ e \in Additions /\ added' = Append(added, e)
    BY <2>1 DEF Entry
  <2> HIDE DEF e
  <2>3. ASSUME NEW n \in DOMAIN added'
        PROVE  (n \in DOMAIN added /\ added'[n] = added[n]) \/ added'[n] = e
    <3>1. added \in Seq(Additions)
      BY <1>0, AdditionFacts
    <3> QED
      BY <2>2, <3>1
  <2>4. UNCHANGED <<clock, started, slow>>
    BY <1>7 DEF Add
  <2>5. c \in held'[Home[t]] /\ \A r \in Replicas : held[r] \subseteq held'[r]
    BY <1>0, <2>1 DEF TypeOK
  <2>6. \A n \in DOMAIN added' : added'[n].by \notin slow' => IsKept(n)'
    BY <1>0, <1>2, <2>2, <2>3, <2>4, <2>5 DEF IsKept, TickAt
  <2> QED
    BY <2>6 DEF KeptUnlessSlow
<1>8. CASE Second
  <2>1. UNCHANGED <<added, started, held>> /\ clock' = clock + 1 /\ slow \subseteq slow'
    BY <1>8 DEF Second
  <2>2. \A r \in Replicas : TickAt(r, clock) \in Nat /\ TickAt(r, clock + 1) \in Nat
                            /\ TickAt(r, clock) <= TickAt(r, clock + 1)
    <3> SUFFICES ASSUME NEW r \in Replicas
                 PROVE  TickAt(r, clock) \in Nat /\ TickAt(r, clock + 1) \in Nat
                        /\ TickAt(r, clock) <= TickAt(r, clock + 1)
      OBVIOUS
    <3>1. /\ clock - started[r] \in Nat /\ (clock + 1) - started[r] \in Nat
          /\ clock - started[r] <= (clock + 1) - started[r]
      BY <1>0, <1>1
    <3>2. /\ (clock - started[r]) \div SecondsPerTick \in Nat
          /\ ((clock + 1) - started[r]) \div SecondsPerTick \in Nat
      BY <3>1, DivFacts
    <3>3. (clock - started[r]) \div SecondsPerTick <= ((clock + 1) - started[r]) \div SecondsPerTick
      BY <3>1, TickMonotone
    <3> QED
      BY <3>2, <3>3 DEF TickAt
  <2> SUFFICES ASSUME NEW n \in DOMAIN added, added[n].by \notin slow',
                      added[n].since = started[added[n].by],
                      TickAt(added[n].by, clock + 1) < added[n].constraint.expires
               PROVE  added[n].constraint \in held[added[n].by]
    BY <2>1 DEF KeptUnlessSlow, IsKept, TickAt
  <2>3. TickAt(added[n].by, clock) < added[n].constraint.expires
    BY <1>0, <2>2
  <2> QED
    BY <1>2, <2>1, <2>3 DEF IsKept
<1>9. ASSUME Outage \/ Recovery \/ UNCHANGED vars PROVE KeptUnlessSlow'
  <2>1. UNCHANGED <<added, clock, started, held, slow>>
    BY <1>9 DEF Outage, Recovery, vars
  <2> QED
    BY <1>3, <2>1
<1>10. ASSUME NEW r \in Replicas, Restart(r) PROVE KeptUnlessSlow'
  <2>1. /\ UNCHANGED <<added, clock>> /\ slow' = slow \ {r} /\ started[r] < clock
        /\ started' = [started EXCEPT ![r] = clock] /\ held' = [held EXCEPT ![r] = {}]
    BY <1>10 DEF Restart
  <2> SUFFICES ASSUME NEW n \in DOMAIN added, added[n].by \notin slow \ {r} PROVE IsKept(n)'
    BY <2>1 DEF KeptUnlessSlow
  <2>2. CASE added[n].by = r
    <3>1. added[n].since <= started[r]
      BY <1>0, <2>2 DEF ClockInv
    <3>2. added[n].since # clock
      BY <1>0, <1>1, <2>1, <3>1
    <3>3. started'[r] = clock
      BY <2>1 DEF TypeOK, IInv
    <3> QED
      BY <2>1, <2>2, <3>2, <3>3 DEF IsKept
  <2>3. CASE added[n].by # r
    <3>1. started'[added[n].by] = started[added[n].by] /\ held'[added[n].by] = held[added[n].by]
      BY <1>0, <2>1, <2>3 DEF TypeOK
    <3> QED
      BY <1>2, <2>1, <2>3, <3>1 DEF IsKept, TickAt
  <2> QED
    BY <2>2, <2>3
<1> QED
  BY <1>4, <1>5, <1>6, <1>7, <1>8, <1>9, <1>10 DEF Next

\* What an investigation installs stays in force on its replica, whatever Redis
\* does (state.py:104), however many handlers run and add, as long as none of
\* them refreshes for longer than the window.
THEOREM NothingIsLost == Spec => []KeptUnlessSlow
<1>1. Init => RefreshInv /\ KeptUnlessSlow
  BY DEF Init, RefreshInv, KeptUnlessSlow, Refreshing
<1>2. IInv /\ RefreshInv /\ KeptUnlessSlow /\ [Next]_vars => (RefreshInv /\ KeptUnlessSlow)'
  BY RefreshStep, KeptStep
<1> QED
  BY <1>1, <1>2, Invariance, PTL DEF Spec

-------------------------------------------------------------------------------
(* Keys reach every replica                                                  *)

\* The stamp of its replica was less than a window old when the request of a
\* handler arrived, or is younger than the request.
WindowInv ==
  \A t \in Threads : pc[t] \in Asking => asked[t] - fetchedAt[Home[t]] < RefreshSeconds

\* A key older than the stamp of a replica whose refreshes stay within the window
\* has a constraint for its path in the list, or the one refresh under way is
\* fetching it or carries it.
Old(r, p) == Alive(p) /\ redis[p].at < fetchedAt[r]
HasPath(p, cs) == \E c \in cs : c.path = p

ReachInv ==
  outages = 0 =>
    \A r \in Replicas \ slow, p \in Paths : Old(r, p) =>
      /\ Settled(r) => HasPath(p, held[r])
      /\ \A t \in Threads : Home[t] = r /\ pc[t] \in {"prune", "rebind", "merge"} =>
           HasPath(p, fetched[t])

LEMMA WindowStep ==
  ASSUME TypeOK, ClockInv, WindowInv, [Next]_vars
  PROVE  WindowInv'
<1>0. /\ Home \in [Threads -> Replicas] /\ RefreshSeconds \in Nat \ {0} /\ clock \in Int
      /\ fetchedAt \in [Replicas -> Int] /\ asked \in [Threads -> Int]
  <2>1. (0..MaxClock \cup {LongAgo}) \subseteq Int
    BY SharedAssumption DEF LongAgo
  <2>2. fetchedAt \in [Replicas -> 0..MaxClock \cup {LongAgo}] /\ asked \in [Threads -> 0..MaxClock]
    BY DEF TypeOK
  <2>3. fetchedAt \in [Replicas -> Int] /\ asked \in [Threads -> Int]
    BY <2>1, <2>2, SharedAssumption
  <2> QED
    BY <2>3, SharedAssumption DEF TypeOK
<1>1. ASSUME NEW t \in Threads, Ask(t) PROVE WindowInv'
  <2>1. asked'[t] = clock /\ \A u \in Threads : u # t => asked'[u] = asked[u] /\ pc'[u] = pc[u]
    BY <1>0, <1>1 DEF Ask, Goto, TypeOK
  <2>2. CASE Fresh(Home[t])
    <3>1. fetchedAt' = fetchedAt /\ clock - fetchedAt[Home[t]] < RefreshSeconds
      BY <1>1, <2>2 DEF Ask, Fresh
    <3> QED
      BY <2>1, <3>1 DEF WindowInv
  <2>3. CASE ~Fresh(Home[t])
    <3>1. \A r \in Replicas : fetchedAt'[r] = IF r = Home[t] THEN clock ELSE fetchedAt[r]
      BY <1>0, <1>1, <2>3 DEF Ask
    <3>2. ASSUME NEW u \in Threads, u # t, pc[u] \in Asking
          PROVE  asked[u] - fetchedAt'[Home[u]] < RefreshSeconds
      <4>1. asked[u] - clock < RefreshSeconds
        BY <1>0, <3>2 DEF ClockInv
      <4> QED
        BY <1>0, <3>1, <3>2, <4>1 DEF WindowInv
    <3>3. clock - fetchedAt'[Home[t]] < RefreshSeconds
      BY <1>0, <3>1
    <3> QED
      BY <2>1, <3>2, <3>3 DEF WindowInv
  <2> QED
    BY <2>2, <2>3
<1>2. ASSUME \A t \in Threads : ~Ask(t), UNCHANGED fetchedAt PROVE WindowInv'
  BY <1>2, AskingFacts DEF WindowInv
<1>3. ASSUME NEW r \in Replicas, Restart(r) PROVE WindowInv'
  <2>1. \A u \in Threads :
          \/ pc'[u] = "idle"
          \/ /\ asked'[u] = asked[u] /\ pc'[u] = pc[u]
             /\ fetchedAt'[Home[u]] = fetchedAt[Home[u]]
    BY <1>0, <1>3 DEF Restart
  <2> QED
    BY <2>1 DEF WindowInv, Asking
<1>4. ASSUME \A t \in Threads : ~Ask(t), \A r \in Replicas : ~Restart(r) PROVE WindowInv'
  <2>1. fetchedAt' = fetchedAt
    BY <1>4 DEF Next, vars, Fetch, Prune, Rebind, Merge, Filter, SetEx, Add, Second, Outage,
                Recovery
  <2> QED
    BY <1>2, <1>4, <2>1
<1> QED
  BY <1>1, <1>3, <1>4

LEMMA ReachStep ==
  ASSUME IInv, RefreshInv, ReachInv, [Next]_vars
  PROVE  ReachInv'
<1>0. /\ TypeOK /\ ClockInv /\ SourceInv /\ Home \in [Threads -> Replicas]
      /\ clock \in Nat /\ MaxClock \in Nat /\ outages \in Nat
      /\ fetchedAt \in [Replicas -> Int]
  <2>1. (0..MaxClock \cup {LongAgo}) \subseteq Int
    BY SharedAssumption DEF LongAgo
  <2>2. fetchedAt \in [Replicas -> 0..MaxClock \cup {LongAgo}]
    BY DEF IInv, TypeOK
  <2>3. fetchedAt \in [Replicas -> Int]
    BY <2>1, <2>2
  <2> QED
    BY <2>3, SharedAssumption DEF IInv, TypeOK
<1> DEFINE Carried(r, p) == \A t \in Threads : Home[t] = r /\ pc[t] \in {"prune", "rebind", "merge"}
                              => HasPath(p, fetched[t])
           Reached(r, p) == (Settled(r) => HasPath(p, held[r])) /\ Carried(r, p)
<1>1. SUFFICES ASSUME outages = 0, outages' = 0,
                      NEW r \in Replicas, r \notin slow', NEW p \in Paths, Old(r, p)'
               PROVE  Reached(r, p)'
  <2>1. outages' = 0 => outages = 0
    <3>1. CASE Outage
      BY <1>0, <3>1 DEF Outage
    <3>2. CASE ~Outage
      BY <3>2 DEF Next, vars, Ask, Fetch, Prune, Rebind, Merge, Filter, Add, SetEx, Second,
                  Recovery, Restart
    <3> QED
      BY <3>1, <3>2
  <2> QED
    BY <2>1 DEF ReachInv
\* The key is no younger than it was, and the process is still the same.
<1>2. clock' \in Nat /\ clock <= clock' /\ redis'[p] = redis[p]
  <2>1. ASSUME NEW u \in Threads, SetEx(u) PROVE clock' = clock /\ redis'[p] = redis[p]
    <3>1. UNCHANGED <<clock, fetchedAt>>
      BY <2>1 DEF SetEx
    <3>2. redis'[p] = redis[p] \/ redis'[p].at = clock
      BY <2>1 DEF SetEx
    <3>3. redis'[p].at < fetchedAt[r] /\ fetchedAt[r] <= clock /\ fetchedAt[r] \in Int
      BY <1>0, <1>1, <3>1 DEF Old, ClockInv
    <3> QED
      BY <1>0, <3>1, <3>2, <3>3
  <2>2. ASSUME Second PROVE redis' = redis /\ clock' = clock + 1
    BY <2>2 DEF Second, redisVars
  <2>3. ASSUME ~Second, \A u \in Threads : ~SetEx(u) PROVE redis' = redis /\ clock' = clock
    BY <2>3 DEF Next, vars, redisVars, Ask, Fetch, Prune, Rebind, Merge, Filter, Add, Outage,
                Recovery, Restart
  <2> QED
    BY <1>0, <2>1, <2>2, <2>3
<1>3. Alive(p) /\ redis[p].at \in Nat /\ redis[p].at < fetchedAt'[r]
  BY <1>0, <1>1, <1>2 DEF Old, Alive, TypeOK
<1>4. ~Restart(r)
  <2> SUFFICES ASSUME Restart(r) PROVE FALSE
    OBVIOUS
  <2>1. fetchedAt'[r] = LongAgo
    BY <1>0 DEF Restart
  <2> QED
    BY <1>3, <2>1, SharedAssumption DEF LongAgo
<1>5. r \notin slow
  <2>1. ASSUME NEW q \in Replicas, Restart(q) PROVE r \notin slow
    BY <1>1, <1>4, <2>1 DEF Restart
  <2> QED
    BY <1>1, <2>1, SlowFacts
<1>6. ASSUME fetchedAt'[r] = fetchedAt[r] PROVE Reached(r, p)
  BY <1>1, <1>3, <1>5, <1>6 DEF ReachInv, Old
\* The handlers of r: at most one is refreshing.
<1>7. \A t, u \in Threads :
        Home[t] = r /\ Home[u] = r /\ Refreshing(t) /\ Refreshing(u) => t = u
  BY <1>5 DEF RefreshInv
\* A step of a handler elsewhere, or one that leaves the replica alone.
<1>8. ASSUME fetchedAt'[r] = fetchedAt[r], held[r] \subseteq held'[r],
             \A t \in Threads : Home[t] = r =>
               /\ fetched'[t] = fetched[t]
               /\ Refreshing(t)' <=> Refreshing(t)
               /\ pc'[t] \in {"prune", "rebind", "merge"} => pc[t] \in {"prune", "rebind", "merge"}
      PROVE  Reached(r, p)'
  <2>1. Reached(r, p)
    BY <1>6, <1>8
  <2>2. Settled(r)' => Settled(r)
    BY <1>5, <1>8 DEF Settled
  <2> QED
    BY <1>8, <2>1, <2>2 DEF HasPath
<1>9. ASSUME NEW u \in Threads, Home[u] # r,
             \/ Ask(u) \/ Fetch(u) \/ Prune(u) \/ Rebind(u) \/ Merge(u) \/ Filter(u)
             \/ SetEx(u) \/ \E q \in Paths : Add(u, q)
      PROVE  Reached(r, p)'
  <2>1. \A t \in Threads : Home[t] = r => pc'[t] = pc[t] /\ fetched'[t] = fetched[t]
    <3>1. \E where \in {"idle", "fetch", "prune", "rebind", "merge", "filter", "setex"} :
            pc' = [pc EXCEPT ![u] = where]
      BY <1>9 DEF Ask, Fetch, Prune, Rebind, Merge, Filter, SetEx, Add, Goto
    <3>2. fetched' = fetched \/ \E got : fetched' = [fetched EXCEPT ![u] = got]
      BY <1>9 DEF Ask, Fetch, Prune, Rebind, Merge, Filter, SetEx, Add
    <3> QED
      BY <1>0, <1>9, <3>1, <3>2 DEF TypeOK
  <2>2. fetchedAt'[r] = fetchedAt[r]
    <3>1. fetchedAt' = fetchedAt \/ fetchedAt' = [fetchedAt EXCEPT ![Home[u]] = clock]
      BY <1>9 DEF Ask, Fetch, Prune, Rebind, Merge, Filter, SetEx, Add
    <3> QED
      BY <1>0, <1>9, <3>1
  <2>3. held'[r] = held[r]
    <3>1. held' = held \/ \E list : held' = [held EXCEPT ![Home[u]] = list]
      <4>1. CASE Ask(u) \/ Fetch(u) \/ Prune(u) \/ Filter(u) \/ SetEx(u)
        BY <4>1 DEF Ask, Fetch, Prune, Filter, SetEx
      <4>2. CASE Rebind(u) \/ Merge(u) \/ \E q \in Paths : Add(u, q)
        BY <4>2 DEF Rebind, Merge, Add
      <4> QED
        BY <1>9, <4>1, <4>2
    <3> QED
      BY <1>0, <1>9, <3>1 DEF TypeOK
  <2> QED
    BY <1>8, <2>1, <2>2, <2>3 DEF Refreshing
<1>10. ASSUME NEW u \in Threads, Home[u] = r, Ask(u) PROVE Reached(r, p)'
  <2>1. held' = held /\ fetched' = fetched /\ pc[u] = "idle"
        /\ \A t \in Threads : t # u => pc'[t] = pc[t]
    BY <1>0, <1>10 DEF Ask, Goto, TypeOK
  <2>2. CASE Fresh(r)
    <3>1. fetchedAt' = fetchedAt /\ pc'[u] = "filter"
      BY <1>0, <1>10, <2>2 DEF Ask, Goto, TypeOK
    <3> QED
      BY <1>8, <2>1, <3>1 DEF Refreshing
  <2>3. CASE ~Fresh(r)
    <3>1. pc'[u] = "fetch"
      BY <1>0, <1>10, <2>3 DEF Ask, Goto, TypeOK
    <3>2. ~Settled(r)'
      BY <1>10, <3>1 DEF Settled, Refreshing
    <3>3. \A t \in Threads : Home[t] = r => ~Refreshing(t)
      BY <2>3, <1>5 DEF RefreshInv, Fresh
    <3> QED
      BY <2>1, <3>1, <3>2, <3>3 DEF Refreshing
  <2> QED
    BY <2>2, <2>3
<1>11. ASSUME NEW u \in Threads, Home[u] = r, Fetch(u) PROVE Reached(r, p)'
  <2>1. up /\ redis[p].constraint.path = p
    BY <1>0, <1>1, <1>3 DEF ClockInv, SourceInv, Alive
  <2> DEFINE All == {redis[q].constraint : q \in {x \in Paths : Alive(x)}}
  <2>2. HasPath(p, All)
    <3>1. redis[p].constraint \in All
      BY <1>3
    <3> QED
      BY <2>1, <3>1 DEF HasPath
  <2>3. fetched'[u] = All /\ pc'[u] = "prune" /\ pc[u] = "fetch"
        /\ \A t \in Threads : t # u => pc'[t] = pc[t] /\ fetched'[t] = fetched[t]
    BY <1>0, <1>11, <2>1 DEF Fetch, Goto, TypeOK
  <2> HIDE DEF All
  <2>4. ~Settled(r)'
    BY <1>11, <2>3 DEF Settled, Refreshing
  <2>5. \A t \in Threads : Home[t] = r /\ t # u => ~Refreshing(t)
    BY <1>7, <1>11, <2>3 DEF Refreshing
  <2> QED
    BY <2>2, <2>3, <2>4, <2>5 DEF Refreshing
<1>12. ASSUME NEW u \in Threads, Home[u] = r, Prune(u) \/ Rebind(u) PROVE Reached(r, p)'
  <2>1. /\ UNCHANGED <<fetched, fetchedAt>> /\ pc[u] \in {"prune", "rebind"}
        /\ pc'[u] \in {"rebind", "merge"} /\ \A t \in Threads : t # u => pc'[t] = pc[t]
    BY <1>0, <1>12 DEF Prune, Rebind, Goto, TypeOK
  <2>2. ~Settled(r)'
    BY <1>12, <2>1 DEF Settled, Refreshing
  <2>3. Carried(r, p)
    BY <1>6, <2>1
  <2> QED
    BY <1>12, <2>1, <2>2, <2>3
<1>13. ASSUME NEW u \in Threads, Home[u] = r, Merge(u) PROVE Reached(r, p)'
  <2>1. /\ fetchedAt' = fetchedAt /\ pc[u] = "merge" /\ pc'[u] = "filter"
        /\ held'[r] = held[r] \cup {c \in fetched[u] : c.path \notin Known(r)}
        /\ \A t \in Threads : t # u => pc'[t] = pc[t] /\ fetched'[t] = fetched[t]
    BY <1>0, <1>13 DEF Merge, Goto, TypeOK
  <2>2. PICK c \in fetched[u] : c.path = p
    BY <1>6, <1>13, <2>1 DEF HasPath
  <2>3. p \in Known(r) => \E d \in held[r] : d.path = p
    BY DEF Known
  <2>4. HasPath(p, held'[r])
    BY <2>1, <2>2, <2>3 DEF HasPath
  <2>5. Carried(r, p)
    BY <1>6, <2>1
  <2>6. Carried(r, p)'
    BY <2>1, <2>5
  <2> QED
    BY <2>4, <2>6
<1>14. ASSUME NEW u \in Threads, Home[u] = r,
              Filter(u) \/ SetEx(u) \/ \E q \in Paths : Add(u, q)
       PROVE  Reached(r, p)'
  <2>1. /\ UNCHANGED <<fetchedAt, fetched>> /\ pc[u] \in {"filter", "setex", "idle"}
        /\ pc'[u] \in {"idle", "setex"} /\ \A t \in Threads : t # u => pc'[t] = pc[t]
    BY <1>0, <1>14 DEF Filter, SetEx, Add, Goto, TypeOK
  <2>2. held[r] \subseteq held'[r]
    <3>1. ASSUME NEW q \in Paths, Add(u, q) PROVE held[r] \subseteq held'[r]
      <4>1. \E c \in Constraints : held' = [held EXCEPT ![r] = @ \cup {c}]
        BY <1>0, <1>14, <3>1, AddFacts
      <4> QED
        BY <1>0, <4>1 DEF TypeOK
    <3> QED
      BY <1>14, <3>1 DEF Filter, SetEx
  <2> QED
    BY <1>8, <2>1, <2>2 DEF Refreshing
<1>15. CASE Second \/ Outage \/ Recovery \/ UNCHANGED vars
  <2>1. UNCHANGED <<held, fetched, fetchedAt, pc>>
    BY <1>15 DEF Second, Outage, Recovery, vars, threadVars
  <2> QED
    BY <1>8, <2>1 DEF Refreshing
<1>16. ASSUME NEW q \in Replicas, Restart(q) PROVE Reached(r, p)'
  <2>1. q # r
    BY <1>4, <1>16
  <2>2. /\ \A t \in Threads : Home[t] = r => pc'[t] = pc[t] /\ fetched'[t] = fetched[t]
        /\ held'[r] = held[r] /\ fetchedAt'[r] = fetchedAt[r]
    BY <1>0, <1>16, <2>1 DEF Restart, TypeOK
  <2> QED
    BY <1>8, <2>2 DEF Refreshing
<1> HIDE DEF Reached
<1> QED
  BY <1>9, <1>10, <1>11, <1>12, <1>13, <1>14, <1>15, <1>16 DEF Next

LEMMA Reachability == Spec => [](IInv /\ RefreshInv /\ WindowInv /\ ReachInv)
<1>1. Init => RefreshInv /\ WindowInv /\ ReachInv
  BY DEF Init, RefreshInv, Refreshing, WindowInv, Asking, ReachInv, Old, Alive
<1>2. IInv /\ RefreshInv /\ WindowInv /\ ReachInv /\ [Next]_vars
        => (RefreshInv /\ WindowInv /\ ReachInv)'
  BY RefreshStep, WindowStep, ReachStep DEF IInv
<1> QED
  BY <1>1, <1>2, Invariance, PTL DEF Spec

LEMMA KeysReached ==
  ASSUME IInv, WindowInv, ReachInv
  PROVE  KeysReachEveryReplica
<1> SUFFICES ASSUME outages = 0, NEW t \in Threads, NEW p \in Paths,
                    WindowPassed(t, p), Alive(p), Settled(Home[t])
             PROVE  \E c \in held[Home[t]] : c.path = p
  BY DEF KeysReachEveryReplica
<1>1. /\ redis[p].at \in Nat /\ asked[t] \in Nat /\ fetchedAt[Home[t]] \in Int
      /\ RefreshSeconds \in Nat /\ Home[t] \in Replicas
  BY SharedAssumption DEF IInv, TypeOK, Alive, LongAgo
<1>2. pc[t] \in Asking /\ redis[p].at + RefreshSeconds <= asked[t]
  BY DEF WindowPassed, Asking
<1>3. asked[t] - fetchedAt[Home[t]] < RefreshSeconds
  BY <1>2 DEF WindowInv
<1>4. redis[p].at < fetchedAt[Home[t]]
  BY <1>1, <1>2, <1>3
<1>5. Home[t] \in Replicas \ slow
  BY <1>1 DEF Settled
<1>6. HasPath(p, held[Home[t]])
  BY <1>4, <1>5 DEF ReachInv, Old
<1> QED
  BY <1>6 DEF HasPath

\* A key that has been in Redis for a refresh window has its path in the list of
\* every replica that answers and is not refreshing, whatever their clocks say,
\* however many handlers they have and through restarts.
THEOREM KeysArrive == Spec => []KeysReachEveryReplica
<1>1. IInv /\ RefreshInv /\ WindowInv /\ ReachInv => KeysReachEveryReplica
  BY KeysReached
<1> QED
  BY <1>1, Reachability, PTL

\* A constraint "must be visible to every replica within seconds" (state.py:11): a
\* replica that is not refreshing applies it once a window has passed, when its
\* clock is where that of the replica that installed it was.
THEOREM ConstraintsAreVisible == Spec => []VisibleByOwnClock
<1>1. IInv /\ KeysReachEveryReplica => VisibleByOwnClock
  <2> SUFFICES ASSUME IInv, KeysReachEveryReplica, outages = 0,
                      NEW t \in Threads, NEW p \in Paths, NEW n \in DOMAIN added,
                      WindowPassed(t, p), Alive(p), Settled(Home[t]),
                      redis[p].constraint = added[n].constraint,
                      \A m \in DOMAIN added : added[m].constraint.path = p => m = n,
                      0 <= Older(t, n), Older(t, n) <= (Ttl - 1) * SecondsPerTick
               PROVE  redis[p].constraint \in Result(t)
    BY DEF VisibleByOwnClock
  <2>1. Home[t] \in Replicas /\ pc[t] \in Asking
    BY SharedAssumption DEF WindowPassed, Asking
  <2>2. PICK c \in held[Home[t]] : c.path = p
    BY DEF KeysReachEveryReplica
  <2>3. PICK m \in DOMAIN added : added[m].constraint = c
    BY <2>1 DEF IInv, SourceInv, Installed
  <2>4. c = added[n].constraint
    BY <2>2, <2>3
  <2> DEFINE a == asked[t] - started[Home[t]]
             b == added[n].at - added[n].since
  <2>5. a \in Nat /\ b \in Nat
    BY <2>1, AgeFacts, AdditionAges DEF IInv
  <2>6. c.created = b \div SecondsPerTick /\ c.expires = c.created + Ttl
    BY <2>4 DEF IInv, AddedInv
  <2>7. 0 <= a - b /\ a - b <= (Ttl - 1) * SecondsPerTick
    BY DEF Older
  <2>8. TickAt(Home[t], asked[t]) = a \div SecondsPerTick
    BY DEF TickAt
  <2> HIDE DEF a, b
  <2>9. c.created <= TickAt(Home[t], asked[t])
    BY <2>5, <2>6, <2>7, <2>8, TickMonotone
  <2>10. TickAt(Home[t], asked[t]) < c.expires
    BY <2>5, <2>6, <2>7, <2>8, SecondsToTicks
  <2> QED
    BY <2>4, <2>9, <2>10 DEF Result, Active
<1> QED
  BY <1>1, KeysArrive, Invariance, PTL

===============================================================================
