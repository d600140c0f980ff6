--------------------------- MODULE SharedConstraints ---------------------------
(***************************************************************************)
(* Constraints shared by replicas through Redis (service/state.py,         *)
(* RedisConstraintStore).  Each replica keeps a list of its own, adds what *)
(* its investigations find to the list and to Redis, and at most once per  *)
(* refresh window pulls in what its peers wrote.                           *)
(*                                                                         *)
(* Handlers run on the threads of a replica and the store has no lock:     *)
(* add and _refresh are several steps each, cut where the interpreter may  *)
(* switch threads (at a call of Redis and inside the loop that prunes).  A *)
(* constraint is its path (the gateway and issuer that form its key) and   *)
(* the two ticks it carries; a list is the set of its members, how often   *)
(* it holds one is left to ConstraintStore.  Time is in seconds; a         *)
(* replica's tick counts minutes from its own start, which is not that of  *)
(* another.                                                                *)
(***************************************************************************)
EXTENDS Integers, Sequences

CONSTANTS Replicas, Threads,
          Home,           \* the replica a thread belongs to
          Paths,          \* gateway and issuer: what a Redis key names
          Ttl,            \* ttl_minutes
          SecondsPerTick, \* 60 in production
          RefreshSeconds,
          Nothing,        \* no key, nothing to add
          MaxHeadStart,   \* bound: seconds a replica has run when the first request arrives
          MaxClock, MaxAdds, MaxFaults \* bounds: seconds, constraints, outages and restarts

ASSUME SharedAssumption ==
  /\ Home \in [Threads -> Replicas]
  /\ Ttl \in Nat \ {0} /\ SecondsPerTick \in Nat \ {0} /\ RefreshSeconds \in Nat \ {0}
  /\ MaxHeadStart \in Nat /\ MaxClock \in Nat /\ MaxAdds \in Nat /\ MaxFaults \in Nat

VARIABLES
  clock,     \* seconds
  started,   \* per replica, when its process started
  held,      \* per replica, self.constraints
  fetchedAt, \* per replica, self._fetched_at
  redis,     \* per path, the key: its constraint, when it was set, when it goes
  up,        \* Redis answers
  pc,        \* per thread, the next step of its handler
  asked,     \* per thread, when its request arrived
  fetched,   \* per thread, the constraints read from Redis
  replaced,  \* per thread, the list it prunes once that is no longer the bound one
  adding,    \* per thread, the constraint its investigation installs
  added,     \* every constraint added, by whom and when, in order (auxiliary)
  slow,      \* replicas of which a refresh has outlasted the window (auxiliary)
  outages, restarts

redisVars == <<redis, up>>
threadVars == <<pc, asked, fetched, replaced, adding>>
vars == <<clock, started, held, fetchedAt, redisVars, threadVars, added, slow, outages,
          restarts>>

-------------------------------------------------------------------------------

\* RouterService.tick of a replica, at a given second.  Mutant: the operands the wrong way round.
TickBackwards(r, second) == (started[r] - second) \div SecondsPerTick
TickAt(r, second) == (second - started[r]) \div SecondsPerTick

\* Mutants: in force only from the next tick; in force for ever.
ActiveLate(c, tick) == c.created < tick /\ tick < c.expires
ActiveForEver(c, tick) == c.created <= tick
Active(c, tick) == c.created <= tick /\ tick < c.expires

\* A key Redis has not dropped yet.
Alive(p) == redis[p] # Nothing /\ clock < redis[p].until

\* Less than a window has passed.  Mutant: the window's last second counts.
JustFetched(r) == clock - fetchedAt[r] <= RefreshSeconds
Fresh(r) == clock - fetchedAt[r] < RefreshSeconds

Refreshing(t) == pc[t] \in {"fetch", "prune", "rebind", "merge"}

Goto(t, where) == pc' = [pc EXCEPT ![t] = where]

\* now - self._fetched_at is large before the first refresh.
LongAgo == -RefreshSeconds

Init ==
  /\ clock = 0
  /\ started \in [Replicas -> (-MaxHeadStart)..0]
  /\ held = [r \in Replicas |-> {}]
  /\ fetchedAt = [r \in Replicas |-> LongAgo]
  /\ redis = [p \in Paths |-> Nothing]
  /\ up = TRUE
  /\ pc = [t \in Threads |-> "idle"]
  /\ asked = [t \in Threads |-> 0]
  /\ fetched = [t \in Threads |-> {}]
  /\ replaced = [t \in Threads |-> Nothing]
  /\ adding = [t \in Threads |-> Nothing]
  /\ added = <<>>
  /\ slow = {}
  /\ outages = 0 /\ restarts = 0

-------------------------------------------------------------------------------
(* active(tick): a refresh when the window has passed, then the filter       *)

\* /route, /constraints or /demo/state reads the tick and asks.  At most one
\* refresh per window; the stamp is set before anything is read.
Ask(t) ==
  LET r == Home[t]
  IN
  /\ pc[t] = "idle"
  /\ asked' = [asked EXCEPT ![t] = clock]
  /\ IF Fresh(r)
     THEN Goto(t, "filter") /\ UNCHANGED fetchedAt
     ELSE Goto(t, "fetch") /\ fetchedAt' = [fetchedAt EXCEPT ![r] = clock]
  /\ UNCHANGED <<clock, started, held, redisVars, fetched, replaced, adding, added, slow,
                 outages, restarts>>

\* SCAN and GET.  When Redis does not answer, the replica goes on with its list.
Fetch(t) ==
  /\ pc[t] = "fetch"
  /\ IF up
     THEN /\ fetched' = [fetched EXCEPT ![t] =
                          {redis[p].constraint : p \in {q \in Paths : Alive(q)}}]
          /\ Goto(t, "prune")
     ELSE Goto(t, "filter") /\ UNCHANGED fetched
  /\ UNCHANGED <<clock, started, held, fetchedAt, redisVars, asked, replaced, adding, added,
                 slow, outages, restarts>>

\* The comprehension takes hold of the list that is bound now and goes through
\* it, seeing what is appended to it meanwhile ...
Prune(t) ==
  /\ pc[t] = "prune"
  /\ Goto(t, "rebind")
  /\ UNCHANGED <<clock, started, held, fetchedAt, redisVars, asked, fetched, replaced, adding,
                 added, slow, outages, restarts>>

\* [c for c in self.constraints if c.expires_tick > tick]
\* Mutant: Redis replaces what is held.
FetchedOnly(t) == fetched[t]
Unexpired(t) ==
  {c \in IF replaced[t] = Nothing THEN held[Home[t]] ELSE replaced[t] :
     c.expires > TickAt(Home[t], asked[t])}

\* ... and what is left becomes self.constraints.  A handler that is going through
\* the list bound until now will not see what is added to the new one.
Rebind(t) ==
  LET r == Home[t]
      Overtaken(u) == u # t /\ Home[u] = r /\ pc[u] = "rebind" /\ replaced[u] = Nothing
  IN
  /\ pc[t] = "rebind"
  /\ held' = [held EXCEPT ![r] = Unexpired(t)]
  /\ replaced' = [u \in Threads |-> IF u = t THEN Nothing
                                    ELSE IF Overtaken(u) THEN held[r] ELSE replaced[u]]
  /\ Goto(t, "merge")
  /\ UNCHANGED <<clock, started, fetchedAt, redisVars, asked, fetched, adding, added,
                 slow, outages, restarts>>

\* What was fetched joins the list, unless a constraint for its path is known.
Known(r) == {c.path : c \in held[r]}

Merge(t) ==
  LET r == Home[t] IN
  /\ pc[t] = "merge"
  /\ held' = [held EXCEPT ![r] = @ \cup {c \in fetched[t] : c.path \notin Known(r)}]
  /\ fetched' = [fetched EXCEPT ![t] = {}]
  /\ Goto(t, "filter")
  /\ UNCHANGED <<clock, started, fetchedAt, redisVars, asked, replaced, adding, added,
                 slow, outages, restarts>>

Result(t) == {c \in held[Home[t]] : Active(c, TickAt(Home[t], asked[t]))}

\* active() returns Result(t) to its caller.
Filter(t) ==
  /\ pc[t] = "filter"
  /\ asked' = [asked EXCEPT ![t] = 0]
  /\ Goto(t, "idle")
  /\ UNCHANGED <<clock, started, held, fetchedAt, redisVars, fetched, replaced, adding, added,
                 slow, outages, restarts>>

-------------------------------------------------------------------------------
(* add(constraint), from POST /investigate                                   *)

\* super().add: the list first ...
Add(t, p) ==
  LET r == Home[t]
      tick == TickAt(r, clock)
      c == [path |-> p, created |-> tick, expires |-> tick + Ttl]
  IN
  /\ pc[t] = "idle" /\ Len(added) < MaxAdds
  /\ held' = [held EXCEPT ![r] = @ \cup {c}]
  /\ adding' = [adding EXCEPT ![t] = c]
  /\ added' = Append(added, [constraint |-> c, by |-> r, since |-> started[r], at |-> clock])
  /\ Goto(t, "setex")
  /\ UNCHANGED <<clock, started, fetchedAt, redisVars, asked, fetched, replaced, slow,
                 outages, restarts>>

\* ... then Redis, where the key goes after as many seconds as the constraint
\* has minutes.  A failure leaves the constraint in the list alone.
SetEx(t) ==
  /\ pc[t] = "setex"
  /\ redis' = IF up
              THEN [redis EXCEPT ![adding[t].path] =
                      [ constraint |-> adding[t], at |-> clock,
                        until |-> clock + adding[t].expires - adding[t].created ]]
              ELSE redis
  /\ adding' = [adding EXCEPT ![t] = Nothing]
  /\ Goto(t, "idle")
  /\ UNCHANGED <<clock, started, held, fetchedAt, up, asked, fetched, replaced, added,
                 slow, outages, restarts>>

-------------------------------------------------------------------------------
(* The environment                                                           *)

Second ==
  /\ clock < MaxClock
  /\ clock' = clock + 1
  /\ slow' = slow \cup {Home[t] : t \in {u \in Threads :
                        Refreshing(u) /\ clock' - asked[u] >= RefreshSeconds}}
  /\ UNCHANGED <<started, held, fetchedAt, redisVars, threadVars, added, outages, restarts>>

\* Redis stops answering, and answers again with its keys.
Outage ==
  /\ up /\ outages + restarts < MaxFaults
  /\ up' = FALSE
  /\ outages' = outages + 1
  /\ UNCHANGED <<clock, started, held, fetchedAt, redis, threadVars, added, slow, restarts>>

Recovery ==
  /\ ~up
  /\ up' = TRUE
  /\ UNCHANGED <<clock, started, held, fetchedAt, redis, threadVars, added, slow, outages,
                 restarts>>

\* A replica's process is replaced, one that has run for a second at least: its
\* list, its clock and its handlers are gone.
Restart(r) ==
  LET Reset(f, value) == [t \in Threads |-> IF Home[t] = r THEN value ELSE f[t]]
  IN
  /\ outages + restarts < MaxFaults /\ started[r] < clock
  /\ restarts' = restarts + 1
  /\ started' = [started EXCEPT ![r] = clock]
  /\ held' = [held EXCEPT ![r] = {}]
  /\ fetchedAt' = [fetchedAt EXCEPT ![r] = LongAgo]
  /\ pc' = Reset(pc, "idle")
  /\ asked' = Reset(asked, 0)
  /\ fetched' = Reset(fetched, {})
  /\ replaced' = Reset(replaced, Nothing)
  /\ adding' = Reset(adding, Nothing)
  /\ slow' = slow \ {r}
  /\ UNCHANGED <<clock, redisVars, added, outages>>

Next ==
  \/ \E t \in Threads :
       \/ Ask(t) \/ Fetch(t) \/ Prune(t) \/ Rebind(t) \/ Merge(t) \/ Filter(t)
       \/ \E p \in Paths : Add(t, p)
       \/ SetEx(t)
  \/ Second \/ Outage \/ Recovery
  \/ \E r \in Replicas : Restart(r)

Spec == Init /\ [][Next]_vars

-------------------------------------------------------------------------------
(* Properties                                                                *)

Seconds == (-MaxHeadStart)..MaxClock

Constraints ==
  [path : Paths, created : 0..MaxHeadStart + MaxClock, expires : 0..MaxHeadStart + MaxClock + Ttl]

\* Every variable has its type.
TypeOK ==
  /\ clock \in 0..MaxClock
  /\ started \in [Replicas -> Seconds]
  /\ held \in [Replicas -> SUBSET Constraints]
  /\ fetchedAt \in [Replicas -> 0..MaxClock \cup {LongAgo}]
  /\ \A p \in Paths : redis[p] # Nothing =>
       /\ redis[p].constraint \in Constraints
       /\ redis[p].at \in Nat /\ redis[p].until \in Nat /\ redis[p].at < redis[p].until
  /\ up \in BOOLEAN
  /\ pc \in [Threads -> {"idle", "fetch", "prune", "rebind", "merge", "filter", "setex"}]
  /\ asked \in [Threads -> 0..MaxClock]
  /\ fetched \in [Threads -> SUBSET Constraints]
  /\ replaced \in [Threads -> (SUBSET Constraints) \cup {Nothing}]
  /\ adding \in [Threads -> Constraints \cup {Nothing}]
  /\ added \in Seq([constraint : Constraints, by : Replicas, since : Seconds, at : 0..MaxClock])
  /\ slow \subseteq Replicas
  /\ outages \in Nat /\ restarts \in Nat

\* The entries of added that installed constraint c.
AddsOf(c) == {n \in DOMAIN added : added[n].constraint = c}

\* How much longer the process that answers t had run when t asked than the one
\* that made addition n when it made it.
Older(t, n) ==
  (asked[t] - started[Home[t]]) - (added[n].at - added[n].since)

\* A constraint governs by the clock of whoever applies it: on a replica that
\* started k seconds after the one that installed it, from less than a minute
\* before k seconds have passed until a TTL and k seconds after, whoever it came
\* from, however late Redis delivered it, and through restarts.  "When it expires,
\* traffic returns" (constraints.py:22) is thus true of each clock and not of time.
GovernsByOwnClock ==
  \A t \in Threads : pc[t] = "filter" =>
    \A c \in Result(t) : \E n \in AddsOf(c) :
      -SecondsPerTick < Older(t, n) /\ Older(t, n) < Ttl * SecondsPerTick

\* No handler of the replica is in the middle of a refresh, and none has been
\* for longer than the window, which would let the next overlap it.
Settled(r) == r \notin slow /\ \A t \in Threads : Home[t] = r => ~Refreshing(t)

\* The request of t arrived a refresh window or more after the key of p was written.
WindowPassed(t, p) ==
  /\ pc[t] = "filter" /\ redis[p] # Nothing
  /\ redis[p].at + RefreshSeconds <= asked[t]

\* A key that is a refresh window old has a constraint for its path in the list of
\* every replica that answers, whatever their clocks and however many handlers they
\* have, once no refresh is under way; as long as Redis answers, within the window.
\* A request that arrives during another's refresh is not waited for: the stamp is
\* set before anything is read (state.py:109-111), and the list may lack any key.
KeysReachEveryReplica ==
  outages = 0 =>
    \A t \in Threads, p \in Paths :
      WindowPassed(t, p) /\ Alive(p) /\ Settled(Home[t]) =>
        \E c \in held[Home[t]] : c.path = p

\* Under the same conditions a constraint that is the only one for its path is
\* applied by every replica as soon as its clock is where that of the one that
\* installed it was, and for a minute less than a TTL from then.
VisibleByOwnClock ==
  outages = 0 =>
    \A t \in Threads, p \in Paths, n \in DOMAIN added :
      /\ WindowPassed(t, p) /\ Alive(p) /\ Settled(Home[t])
      /\ redis[p].constraint = added[n].constraint
      /\ \A m \in DOMAIN added : added[m].constraint.path = p => m = n
      /\ 0 <= Older(t, n) /\ Older(t, n) <= (Ttl - 1) * SecondsPerTick
      => redis[p].constraint \in Result(t)

\* A failed write leaves the replica "serving from the in-process copy"
\* (state.py:104): what an investigation added to a process is in its list as
\* long as it is in force there, whatever becomes of Redis ...
IsKept(n) ==
  LET r == added[n].by IN
    added[n].since = started[r] /\ TickAt(r, clock) < added[n].constraint.expires
      => added[n].constraint \in held[r]

AddedIsKept == \A n \in DOMAIN added : IsKept(n)

\* ... and however many handlers add and refresh, as long as none of its refreshes
\* outlasts the window.
KeptUnlessSlow == \A n \in DOMAIN added : added[n].by \notin slow => IsKept(n)

\* A request is owed the constraint for p: the window has passed, the constraint
\* is the only one ever installed for p, and is a minute from its end at least.
Owed(t, p) ==
  /\ WindowPassed(t, p)
  /\ \A n \in DOMAIN added : added[n].constraint.path = p =>
       /\ AddsOf(redis[p].constraint) = {n}
       /\ clock - added[n].at <= (Ttl - 1) * SecondsPerTick

\* "Constraints and posteriors now survive a restart" (README.md:994): a replica
\* is owed what an earlier process of it installed.
SurvivesRestart ==
  outages = 0 =>
    \A t \in Threads, p \in Paths, n \in DOMAIN added :
      /\ Owed(t, p) /\ redis[p].constraint = added[n].constraint
      /\ added[n].by = Home[t] /\ added[n].since # started[Home[t]]
      => redis[p].constraint \in Result(t)

===============================================================================
