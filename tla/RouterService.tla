---------------------------- MODULE RouterService ----------------------------
(***************************************************************************)
(* The hot path of the service (service/api.py, class RouterService):      *)
(* POST /route, POST /outcome and the history copy POST /investigate reads *)
(* from, run by the threads of FastAPI's pool against one shared object.   *)
(*                                                                         *)
(* The grain is one statement that touches shared state.  Everything       *)
(* inside `with self._lock` is therefore several steps, so that the        *)
(* properties below depend on the lock and not on the grain:               *)
(*   route    blocked() | decide | read decisions | write decisions        *)
(*   record   decay | credit | five appends | five deletes | publish       *)
(*   history  five copies                                                  *)
(*                                                                         *)
(* The posterior is the sequence of outcomes credited to it plus the       *)
(* number of decays applied (DiscountedCounts is a function of the two).   *)
(***************************************************************************)
EXTENDS Integers, Sequences, FiniteSets

CONSTANTS Threads,       \* threads of the pool
          Gateways,      \* self.names
          Issuers,       \* gateways.ISSUERS
          DefaultIssuer, \* ISSUERS[0], what an unknown issuer is filed under
          Reports,       \* the OutcomeReports that may arrive
          HistoryLimit,  \* ROUTER_HISTORY_LIMIT
          Nobody,        \* the lock is free
          Nothing,       \* a thread-local that has no value yet
          MaxTick,       \* bound: ticks that pass
          MaxRequests    \* bound: requests that arrive

ASSUME ConstantsAssumption ==
  /\ DefaultIssuer \in Issuers
  /\ Nobody \notin Threads
  /\ HistoryLimit \in Nat \ {0}
  /\ MaxTick \in Nat /\ MaxRequests \in Nat
  /\ \A r \in Reports : DOMAIN r = {"gateway", "success", "latency", "issuer"}

VARIABLES
  tick,      \* RouterService.tick
  requests,  \* requests that have arrived (bounded by MaxRequests)
  lock,      \* self._lock: its holder, or Nobody
  pc,        \* per thread, the next statement it runs
  arg,       \* per thread, the request it serves
  col,       \* per thread, the history column it handles next
  drop,      \* per thread, the local `drop` of _append_history
  tmp,       \* per thread, a value read and not yet written back
  stamp,     \* per thread, the tick _append_history has read
  hist,      \* the five history lists, hist[TickCol] .. hist[IssuerCol]
  decays,    \* decays applied to self.router.counts
  credits,   \* the outcomes self.router.counts has been credited with, in order
  decisions, \* self.decisions
  answered,  \* /route requests whose count is written (auxiliary)
  blocked,   \* per thread, what constraints.blocked returned
  basis,     \* per thread, the posterior its last decision sampled (auxiliary)
  copy,      \* per thread, the columns history() has copied so far
  view,      \* per thread, what history() last returned
  published  \* positions of the outcomes handed to the event pipeline

local == <<arg, col, drop, tmp, stamp, blocked, basis, copy, view>>
vars == <<tick, requests, lock, pc, hist, decays, credits, decisions, answered,
          published, local>>

-------------------------------------------------------------------------------
(* Data                                                                      *)

Columns == 1..5
TickCol == 1
IssuerCol == 5

\* Mutant: the issuer as reported.
RawIssuer(r) == r.issuer
HistIssuer(r) == IF r.issuer \in Issuers THEN r.issuer ELSE DefaultIssuer

\* The five values _append_history appends for report r at tick now.
Row(r, now) == <<now, r.gateway, r.success, r.latency, HistIssuer(r)>>

\* None, which history() returns of an empty history, is no copy of one.
ASSUME NothingAssumption ==
  Nothing \notin [Columns -> Seq({Row(r, n)[c] : r \in Reports, n \in 0..MaxTick, c \in Columns})]

EmptyColumns == [c \in Columns |-> <<>>]

\* del s[:n].  Mutant: the newest go.
DropLast(s, n) == SubSeq(s, 1, Len(s) - n)
DropFirst(s, n) == SubSeq(s, n + 1, Len(s))

Waiting == {"idle", "blocked", "decide", "count", "update", "publish", "history"}
Critical == {"count_write", "credit", "append", "trim", "copy"}

Goto(t, where) == pc' = [pc EXCEPT ![t] = where]
\* The handler returns: its locals are gone, what it returned stays in view.
Return(t) ==
  /\ Goto(t, "idle")
  /\ arg' = [arg EXCEPT ![t] = Nothing]
  /\ col' = [col EXCEPT ![t] = 1]
  /\ drop' = [drop EXCEPT ![t] = 0]
  /\ tmp' = [tmp EXCEPT ![t] = 0]
  /\ stamp' = [stamp EXCEPT ![t] = 0]
  /\ blocked' = [blocked EXCEPT ![t] = {}]
  /\ basis' = [basis EXCEPT ![t] = Nothing]
  /\ copy' = [copy EXCEPT ![t] = EmptyColumns]

\* with self._lock.  Mutants: the statement is left out; an exit forgets to release.
Unlocked(t) == UNCHANGED lock
Acquire(t) == lock = Nobody /\ lock' = t
Unreleased == UNCHANGED lock
Release == lock' = Nobody

Init ==
  /\ tick = 0
  /\ requests = 0
  /\ lock = Nobody
  /\ pc = [t \in Threads |-> "idle"]
  /\ arg = [t \in Threads |-> Nothing]
  /\ col = [t \in Threads |-> 1]
  /\ drop = [t \in Threads |-> 0]
  /\ tmp = [t \in Threads |-> 0]
  /\ stamp = [t \in Threads |-> 0]
  /\ hist = EmptyColumns
  /\ decays = 0
  /\ credits = <<>>
  /\ decisions = 0
  /\ answered = 0
  /\ blocked = [t \in Threads |-> {}]
  /\ basis = [t \in Threads |-> Nothing]
  /\ copy = [t \in Threads |-> EmptyColumns]
  /\ view = [t \in Threads |-> Nothing]
  /\ published = <<>>

-------------------------------------------------------------------------------
(* POST /route                                                               *)

RouteArrives(t, i) ==
  /\ pc[t] = "idle" /\ requests < MaxRequests
  /\ requests' = requests + 1
  /\ arg' = [arg EXCEPT ![t] = i]
  /\ Goto(t, "blocked")
  /\ UNCHANGED <<tick, lock, col, drop, tmp, stamp, hist, decays, credits, decisions, answered,
                 blocked, basis, copy, view, published>>

\* self.constraints.blocked(context), outside the lock.  The store never blocks
\* the whole fleet (ConstraintStore), otherwise any answer is possible.
RouteBlocked(t) ==
  /\ pc[t] = "blocked"
  /\ \E b \in SUBSET Gateways \ {Gateways} : blocked' = [blocked EXCEPT ![t] = b]
  /\ Goto(t, "decide")
  /\ UNCHANGED <<tick, requests, lock, arg, col, drop, tmp, stamp, hist, decays, credits,
                 decisions, answered, basis, copy, view, published>>

\* The critical section that samples the posterior.  It writes nothing shared,
\* so taking the lock, deciding and releasing it is one step.
RouteDecide(t) ==
  /\ pc[t] = "decide"
  /\ lock = Nobody
  /\ \E g \in Gateways \ blocked[t] : arg' = [arg EXCEPT ![t] = g]
  /\ basis' = [basis EXCEPT ![t] = <<decays, Len(credits)>>]
  /\ Goto(t, "count")
  /\ UNCHANGED <<tick, requests, lock, col, drop, tmp, stamp, hist, decays, credits,
                 decisions, answered, blocked, copy, view, published>>

\* self.decisions += 1: the read ...
RouteCountRead(t) ==
  /\ pc[t] = "count"
  /\ Acquire(t)
  /\ tmp' = [tmp EXCEPT ![t] = decisions]
  /\ Goto(t, "count_write")
  /\ UNCHANGED <<tick, requests, arg, col, drop, stamp, hist, decays, credits, decisions,
                 answered, blocked, basis, copy, view, published>>

\* ... and the write, after which the response is returned.
RouteCountWrite(t) ==
  /\ pc[t] = "count_write"
  /\ decisions' = tmp[t] + 1
  /\ answered' = answered + 1
  /\ Release
  /\ Return(t)
  /\ UNCHANGED <<tick, requests, hist, decays, credits, view, published>>

-------------------------------------------------------------------------------
(* POST /outcome                                                             *)

\* names.index raises: 404, and nothing else happens.
OutcomeRejected(t, r) ==
  /\ pc[t] = "idle" /\ requests < MaxRequests
  /\ r.gateway \notin Gateways
  /\ requests' = requests + 1
  /\ UNCHANGED <<tick, lock, pc, hist, decays, credits, decisions, answered, published,
                 local>>

OutcomeArrives(t, r) ==
  /\ pc[t] = "idle" /\ requests < MaxRequests
  /\ r.gateway \in Gateways
  /\ requests' = requests + 1
  /\ arg' = [arg EXCEPT ![t] = r]
  /\ Goto(t, "update")
  /\ UNCHANGED <<tick, lock, col, drop, tmp, stamp, hist, decays, credits, decisions, answered,
                 blocked, basis, copy, view, published>>

\* router.update, first half: DiscountedCounts.update decays every arm.
RecordDecay(t) ==
  /\ pc[t] = "update"
  /\ Acquire(t)
  /\ decays' = decays + 1
  /\ Goto(t, "credit")
  /\ UNCHANGED <<tick, requests, arg, col, drop, tmp, stamp, hist, credits, decisions,
                 answered, blocked, basis, copy, view, published>>

\* router.update, second half: the observed arm is credited.  Before the first
\* append, _append_history reads the tick it is about to append.
RecordCredit(t) ==
  /\ pc[t] = "credit"
  /\ credits' = Append(credits, arg[t])
  /\ tmp' = [tmp EXCEPT ![t] = Len(credits) + 1]
  /\ stamp' = [stamp EXCEPT ![t] = tick]
  /\ col' = [col EXCEPT ![t] = 1]
  /\ Goto(t, "append")
  /\ UNCHANGED <<tick, requests, lock, arg, drop, hist, decays, decisions, answered,
                 blocked, basis, copy, view, published>>

\* One of the five appends of _append_history.
\* After the last, either the lists are trimmed or the lock is released.
AppendColumn(t) ==
  LET c == col[t]
      excess == Len(hist[TickCol]) - HistoryLimit
  IN
  /\ pc[t] = "append"
  /\ hist' = [hist EXCEPT ![c] = Append(@, Row(arg[t], stamp[t])[c])]
  /\ \/ /\ c < IssuerCol
        /\ col' = [col EXCEPT ![t] = c + 1]
        /\ UNCHANGED <<lock, pc, drop>>
     \/ /\ c = IssuerCol /\ excess > 0
        /\ col' = [col EXCEPT ![t] = 1]
        /\ drop' = [drop EXCEPT ![t] = excess]
        /\ Goto(t, "trim")
        /\ UNCHANGED lock
     \/ /\ c = IssuerCol /\ excess <= 0
        /\ col' = [col EXCEPT ![t] = 1]
        /\ Release
        /\ Goto(t, "publish")
        /\ UNCHANGED drop
  /\ UNCHANGED <<tick, requests, arg, tmp, stamp, decays, credits, decisions, answered,
                 blocked, basis, copy, view, published>>

\* One of the five `del lst[:drop]`.
TrimColumn(t) ==
  LET c == col[t] IN
  /\ pc[t] = "trim"
  /\ hist' = [hist EXCEPT ![c] = DropFirst(@, drop[t])]
  /\ \/ /\ c < IssuerCol
        /\ col' = [col EXCEPT ![t] = c + 1]
        /\ UNCHANGED <<lock, pc>>
     \/ /\ c = IssuerCol
        /\ col' = [col EXCEPT ![t] = 1]
        /\ Release
        /\ Goto(t, "publish")
  /\ UNCHANGED <<tick, requests, arg, drop, tmp, stamp, decays, credits, decisions, answered,
                 blocked, basis, copy, view, published>>

\* events.publish, outside the lock; the event is known by the position of its
\* outcome.  What publish and the snapshot after it do is RecordTail.
\* Mutant: the posterior is read again after the lock is released.
PublishLatest(t) ==
  /\ pc[t] = "publish"
  /\ published' = Append(published, Len(credits))
  /\ Return(t)
  /\ UNCHANGED <<tick, requests, lock, hist, decays, credits, decisions, answered, view>>

RecordPublish(t) ==
  /\ pc[t] = "publish"
  /\ published' = Append(published, tmp[t])
  /\ Return(t)
  /\ UNCHANGED <<tick, requests, lock, hist, decays, credits, decisions, answered, view>>

-------------------------------------------------------------------------------
(* RouterService.history, called by POST /investigate                        *)

HistoryRequested(t) ==
  /\ pc[t] = "idle" /\ requests < MaxRequests
  /\ requests' = requests + 1
  /\ Goto(t, "history")
  /\ UNCHANGED <<tick, lock, hist, decays, credits, decisions, answered, published, local>>

\* One of the five list copies; the first takes the lock ...
CopyFirst(t) ==
  /\ pc[t] = "history"
  /\ Acquire(t)
  /\ copy' = [copy EXCEPT ![t][TickCol] = hist[TickCol]]
  /\ col' = [col EXCEPT ![t] = TickCol + 1]
  /\ Goto(t, "copy")
  /\ UNCHANGED <<tick, requests, arg, drop, tmp, stamp, hist, decays, credits, decisions,
                 answered, blocked, basis, view, published>>

CopyNext(t) ==
  /\ pc[t] = "copy" /\ col[t] < IssuerCol
  /\ copy' = [copy EXCEPT ![t][col[t]] = hist[col[t]]]
  /\ col' = [col EXCEPT ![t] = @ + 1]
  /\ UNCHANGED <<tick, requests, lock, pc, arg, drop, tmp, stamp, hist, decays, credits,
                 decisions, answered, blocked, basis, view, published>>

\* ... and the last releases it and returns the copy, or None when there are
\* no rows (409).
CopyLast(t) ==
  LET got == [copy[t] EXCEPT ![IssuerCol] = hist[IssuerCol]] IN
  /\ pc[t] = "copy" /\ col[t] = IssuerCol
  /\ view' = [view EXCEPT ![t] = IF got[TickCol] = <<>> THEN Nothing ELSE got]
  /\ Release
  /\ Return(t)
  /\ UNCHANGED <<tick, requests, hist, decays, credits, decisions, answered, published>>

-------------------------------------------------------------------------------

\* A minute passes, or the demo advances clock_offset.
Tick ==
  /\ tick < MaxTick
  /\ tick' = tick + 1
  /\ UNCHANGED <<requests, lock, pc, hist, decays, credits, decisions, answered,
                 published, local>>

Serve(t) ==
  \/ RouteBlocked(t) \/ RouteDecide(t) \/ RouteCountRead(t) \/ RouteCountWrite(t)
  \/ RecordDecay(t) \/ RecordCredit(t) \/ AppendColumn(t) \/ TrimColumn(t)
  \/ RecordPublish(t)
  \/ CopyFirst(t) \/ CopyNext(t) \/ CopyLast(t)

Arrive(t) ==
  \/ \E i \in Issuers : RouteArrives(t, i)
  \/ \E r \in Reports : OutcomeRejected(t, r) \/ OutcomeArrives(t, r)
  \/ HistoryRequested(t)

\* The bounds are reached and every handler has returned.
Quiescent ==
  /\ tick = MaxTick /\ requests = MaxRequests
  /\ \A t \in Threads : pc[t] = "idle"
  /\ UNCHANGED vars

Next ==
  \/ Tick
  \/ \E t \in Threads : Arrive(t) \/ Serve(t)
  \/ Quiescent

Spec == Init /\ [][Next]_vars

\* A started handler runs to its end; nothing obliges clients to call.
FairSpec == Spec /\ \A t \in Threads : WF_vars(Serve(t))

-------------------------------------------------------------------------------
(* Properties                                                                *)

Outcomes == {r \in Reports : r.gateway \in Gateways}

\* Every variable has its type; in particular the issuer column holds only
\* issuers RunResult can index.
TypeOK ==
  /\ tick \in 0..MaxTick
  /\ requests \in 0..MaxRequests
  /\ lock \in Threads \cup {Nobody}
  /\ pc \in [Threads -> Waiting \cup Critical]
  /\ col \in [Threads -> Columns]
  /\ drop \in [Threads -> Nat]
  /\ tmp \in [Threads -> Nat]
  /\ stamp \in [Threads -> 0..MaxTick]
  /\ DOMAIN hist = Columns
  /\ hist[TickCol] \in Seq(0..MaxTick)
  /\ hist[IssuerCol] \in Seq(Issuers)
  /\ decays \in Nat
  /\ credits \in Seq(Outcomes)
  /\ decisions \in Nat
  /\ answered \in Nat
  /\ blocked \in [Threads -> SUBSET Gateways]
  /\ published \in Seq(Nat)

\* The comment at api.py:91-96: interleaved updates must not leave the history
\* lists at different lengths or mis-pair ticks with outcomes, and the posterior
\* must have absorbed exactly what the history shows.  Whenever the lock is
\* free, row i of the five lists is the i-th last outcome credited.
HistoryMatchesPosterior ==
  lock = Nobody =>
    LET n == Len(hist[TickCol])
    IN
    /\ n = IF Len(credits) < HistoryLimit THEN Len(credits) ELSE HistoryLimit
    /\ \A c \in Columns : Len(hist[c]) = n
    /\ \A i \in 1..n, c \in Columns \ {TickCol} :
         hist[c][i] = Row(credits[Len(credits) - n + i], 0)[c]

Sorted(s) == \A i, j \in DOMAIN s : i <= j => s[i] <= s[j]

\* telemetry.py slices a window with searchsorted, which is meaningless on
\* unsorted ticks: the ticks never decrease along the history, nor along any
\* copy an investigation works on, however the writers interleave.
TicksInOrder ==
  /\ Sorted(hist[TickCol])
  /\ \A t \in Threads : view[t] # Nothing => Sorted(view[t][TickCol])

\* The docstring of history(): a copy never has lists of different lengths.
CopiesAreWhole ==
  \A t \in Threads : view[t] # Nothing =>
    \A c \in Columns : Len(view[t][c]) = Len(view[t][TickCol])

\* A decision never samples a posterior that has been decayed for an outcome
\* that is not credited yet.
DecisionsSeeWholeUpdates ==
  \A t \in Threads : basis[t] # Nothing => basis[t][1] = basis[t][2]

\* The decision counter loses no increment to a concurrent request.
NoDecisionLost == decisions = answered

\* Every credited outcome reaches the event pipeline exactly once: it is either
\* published or still in the hands of the one thread that recorded it.
PublishedExactlyOnce ==
  \A p \in 1..Len(credits) :
    Cardinality({i \in DOMAIN published : published[i] = p})
      + Cardinality({t \in Threads : /\ pc[t] \in {"append", "trim", "publish"}
                                     /\ tmp[t] = p}) = 1

\* No handler waits for the lock for ever: each request that arrives is answered.
EveryRequestAnswered ==
  \A t \in Threads : pc[t] # "idle" ~> pc[t] = "idle"

-------------------------------------------------------------------------------
(* The service implements OutcomeLog: an outcome takes effect at the last of *)
(* its five appends, a read at the last of its five copies.                  *)

Log == INSTANCE OutcomeLog WITH
  Ticks    <- 0..MaxTick,
  Entries  <- Outcomes,
  log      <- LET n == Len(hist[IssuerCol])
                  Kept(c) == IF n > HistoryLimit
                             THEN DropFirst(hist[c], Len(hist[c]) - HistoryLimit)
                             ELSE hist[c]
              IN [i \in 1..(IF n > HistoryLimit THEN HistoryLimit ELSE n) |->
                    [c \in Columns |-> Kept(c)[i]]],
  credited <- IF \E t \in Threads : pc[t] = "append"
              THEN SubSeq(credits, 1, Len(credits) - 1)
              ELSE credits,
  seen     <- [t \in Threads |->
                 IF view[t] = Nothing THEN Nothing
                 ELSE [i \in DOMAIN view[t][IssuerCol] |->
                         [c \in Columns |-> view[t][c][i]]]]

\* Recording is atomic, rows are in tick order, and a copy is the log at one
\* instant, although both are five statements long.
ImplementsOutcomeLog == Log!Spec

===============================================================================
