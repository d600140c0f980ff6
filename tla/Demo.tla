--------------------------------- MODULE Demo ---------------------------------
(***************************************************************************)
(* The demo layer (service/demo.py) over the service it drives: batches of *)
(* simulated traffic, injected faults and the reset, one action at a time  *)
(* under _DEMO_LOCK, while the merchant's payments call the service        *)
(* without that lock.  A reset replaces the service; a handler keeps the   *)
(* one it found.  Which gateway a payment takes, and the posterior, are    *)
(* RouterService; here a row is whose it is and the minute it is filed     *)
(* under.                                                                  *)
(***************************************************************************)
EXTENDS Checkout, FiniteSets

CONSTANTS
  Gateways,
  Handlers,     \* threads that serve /simulate
  TX_PER_TICK,  \* transactions per simulated minute
  MaxCount,     \* bound: transactions of a batch
  MaxRequests,  \* bound: calls of /simulate
  MaxMinutes    \* bound: minutes of wall clock

Nobody == "nobody"

ASSUME DemoAssumption ==
  /\ TX_PER_TICK \in Nat \ {0}
  /\ {MaxCount, MaxRequests, MaxMinutes, MaxFaults} \subseteq Nat
  /\ Handlers \cap Payments = {} /\ Nobody \notin Handlers

VARIABLES
  SERVICE,   \* which of the services built so far is live
  service,   \* their clock_offset, injected events and history
  minutes,   \* since the process started
  lock,      \* who holds _DEMO_LOCK
  pc,        \* handler -> where it is
  count, i,  \* handler -> the transactions of its batch, and those routed
  offset,    \* handler -> clock_offset as read
  targets,   \* handler -> gateways it has yet to change
  own,       \* handler or payment -> the service its call works on
  requests,  \* calls of /simulate so far
  batches    \* the batches begun (auxiliary)

demoVars == <<SERVICE, service, minutes, lock, pc, count, i, offset, targets, own, requests, batches>>

vars == <<payVars, demoVars>>

world == <<SERVICE, minutes, own, requests, batches>>

\* RouterService.__init__, with events only as they are injected.
NewService ==
  [ started |-> minutes, clock_offset |-> 0, rows |-> <<>>,
    events |-> [g \in Gateways |-> <<>>] ]

Init ==
  /\ PayInit
  /\ minutes = 0
  /\ SERVICE = 1
  /\ service = << NewService >>
  /\ lock = Nobody
  /\ pc = [h \in Handlers |-> "idle"]
  /\ count = [h \in Handlers |-> 0]
  /\ targets = [h \in Handlers |-> {}]
  /\ i = [h \in Handlers |-> 0]
  /\ offset = [h \in Handlers |-> 0]
  /\ own = [x \in Handlers \cup Payments |-> 1]
  /\ requests = 0
  /\ batches = {}

\* RouterService.tick
Tick(s) == minutes - service[s].started + service[s].clock_offset

Goto(h, where) == pc' = [pc EXCEPT ![h] = where]

\* Mutant: _DEMO_LOCK is left out.
EnterUnlocked(h) == UNCHANGED lock

\* `with _DEMO_LOCK`
Enter(h) ==
  /\ lock = Nobody
  /\ lock' = h

Leave(h) ==
  /\ lock' = Nobody
  /\ Goto(h, "idle")

\* A request under the lock, which then looks up the live service.
Begin(h, where) ==
  /\ pc[h] = "idle" /\ requests < MaxRequests
  /\ Enter(h)
  /\ Goto(h, where)
  /\ own' = [own EXCEPT ![h] = SERVICE]
  /\ requests' = requests + 1
  /\ UNCHANGED <<payVars, SERVICE, service, minutes>>

GenerateTraffic(h) ==
  \E n \in 1..MaxCount :
    /\ Begin(h, "clock")
    /\ count' = [count EXCEPT ![h] = n]
    /\ i' = [i EXCEPT ![h] = 0]
    /\ batches' = batches \cup {[request |-> requests, count |-> n, service |-> SERVICE]}
    /\ UNCHANGED <<offset, targets>>

BeginChange(h, where, which) ==
  /\ Begin(h, where)
  /\ targets' = [targets EXCEPT ![h] = which]
  /\ UNCHANGED <<count, i, offset, batches>>

InjectIncident(h) == \E g \in Gateways : BeginChange(h, "filter", {g})

ClearIncidents(h) == BeginChange(h, "clear", Gateways)

Reset(h) == BeginChange(h, "reset", {})

\* clock_offset += (i + 1) // TX_PER_TICK - i // TX_PER_TICK, a read and a write.
ReadClock(h) ==
  /\ pc[h] = "clock"
  /\ offset' = [offset EXCEPT ![h] = service[own[h]].clock_offset]
  /\ Goto(h, "advance")
  /\ UNCHANGED <<payVars, world, service, lock, count, i, targets>>

AdvanceClock(h) ==
  /\ pc[h] = "advance"
  /\ service' = [service EXCEPT ![own[h]].clock_offset =
                   offset[h] + (i[h] + 1) \div TX_PER_TICK - i[h] \div TX_PER_TICK]
  /\ Goto(h, "record")
  /\ UNCHANGED <<payVars, world, lock, count, i, offset, targets>>

\* svc.record for a handler or a payment, at the tick of its service.
File(x) ==
  service' = [service EXCEPT ![own[x]].rows =
                Append(@, [whose |-> x, tick |-> Tick(own[x])])]

\* svc.route, the simulated gateway and svc.record, for the next of the batch.
RouteAndRecord(h) ==
  /\ pc[h] = "record"
  /\ File(h)
  /\ i' = [i EXCEPT ![h] = @ + 1]
  /\ IF i'[h] < count[h] THEN Goto(h, "clock") /\ UNCHANGED lock ELSE Leave(h)
  /\ UNCHANGED <<payVars, world, count, offset, targets>>

\* spec.events is rebound to the events that were not injected ...
Filter(h) ==
  /\ pc[h] = "filter"
  /\ \E g \in targets[h] : service' = [service EXCEPT ![own[h]].events[g] = <<>>]
  /\ Goto(h, "append")
  /\ UNCHANGED <<payVars, world, lock, count, i, offset, targets>>

\* ... and the new one appended to whatever spec.events is by then.
AppendEvent(h) ==
  /\ pc[h] = "append"
  /\ \E g \in targets[h] :
       service' = [service EXCEPT ![own[h]].events[g] = Append(@, Tick(own[h]))]
  /\ Leave(h)
  /\ UNCHANGED <<payVars, world, count, i, offset, targets>>

\* _clear_incidents goes from gateway to gateway.
Clear(h) ==
  /\ pc[h] = "clear"
  /\ \E g \in targets[h] :
       /\ service' = [service EXCEPT ![own[h]].events[g] = <<>>]
       /\ targets' = [targets EXCEPT ![h] = @ \ {g}]
  /\ IF targets'[h] = {} THEN Leave(h) ELSE UNCHANGED <<lock, pc>>
  /\ UNCHANGED <<payVars, world, count, i, offset>>

\* set_service(RouterService())
SetService(h) ==
  /\ pc[h] = "reset"
  /\ service' = Append(service, NewService)
  /\ SERVICE' = Len(service) + 1
  /\ Leave(h)
  /\ UNCHANGED <<payVars, minutes, count, i, offset, targets, own, requests, batches>>

Simulate(h) ==
  \/ GenerateTraffic(h) \/ InjectIncident(h) \/ ClearIncidents(h) \/ Reset(h)
  \/ ReadClock(h) \/ AdvanceClock(h) \/ RouteAndRecord(h)
  \/ Filter(h) \/ AppendEvent(h) \/ Clear(h) \/ SetService(h)

\* The calls of a payment, each on the service that is live when it arrives.
Pay(p) ==
  /\ UNCHANGED <<SERVICE, minutes, requests, batches, lock, pc, count, i, offset, targets>>
  /\ \/ (Undelivered(p) \/ RouteCall(p) \/ AttemptCall(p)) /\ UNCHANGED <<service, own>>
     \/ OutcomeCall(p) /\ own' = [own EXCEPT ![p] = SERVICE] /\ UNCHANGED service
     \/ Recorded(p) /\ File(p) /\ UNCHANGED own

Minute ==
  /\ minutes < MaxMinutes
  /\ minutes' = minutes + 1
  /\ UNCHANGED <<payVars, SERVICE, service, lock, pc, count, i, offset, targets, own, requests, batches>>

Next ==
  \/ \E h \in Handlers : Simulate(h)
  \/ \E p \in Payments : Pay(p)
  \/ Minute

Spec == Init /\ [][Next]_vars

-------------------------------------------------------------------------------
\* The transactions of the batches begun on a service.
TransactionsOn(s) ==
  {x \in batches \X (1..MaxCount) : x[1].service = s /\ x[2] <= x[1].count}

RowsOf(s, who) == {n \in DOMAIN service[s].rows : service[s].rows[n].whose \in who}

\* Rows are filed in the order of their minutes, by batches and payments alike.
RowsInOrder ==
  \A s \in DOMAIN service : \A m, n \in DOMAIN service[s].rows :
    m < n => service[s].rows[m].tick <= service[s].rows[n].tick

\* The simulated clock keeps pace with the transactions routed: whenever no
\* action is under way it has been moved by every TX_PER_TICK-th transaction of
\* each batch, rows are filed in the order of their minutes, and every transaction
\* of a batch has its row in the service the batch began on ("two batches
\* interleaving would advance the simulated clock by less than the transactions
\* they routed", demo.py).
ClockKeepsPace ==
  /\ RowsInOrder
  /\ (\A h \in Handlers : pc[h] = "idle") =>
       \A s \in DOMAIN service :
         /\ service[s].clock_offset
              = Cardinality({x \in TransactionsOn(s) : x[2] % TX_PER_TICK = 0})
         /\ Cardinality(RowsOf(s, Handlers)) = Cardinality(TransactionsOn(s))

\* A gateway never suffers two injected faults at once, whose severities would
\* multiply in true_sr and which the UI would show as one (_inject_incident).
OneFaultPerGateway ==
  \A s \in DOMAIN service : \A g \in Gateways : Len(service[s].events[g]) <= 1

\* However the calls of a payment fail and whenever the service is replaced, its
\* outcome is filed at most once over all services, never before the attempt,
\* and exactly once if the shopper was told how it went (checkout.pay).
PaymentFiledOnce ==
  \A p \in Payments :
    LET filed == {s \in DOMAIN service : RowsOf(s, {p}) # {}}
    IN /\ Cardinality(filed) <= 1
       /\ \A s \in filed : Cardinality(RowsOf(s, {p})) = 1
       /\ filed # {} => charged[p] # Undecided
       /\ step[p] = "paid" => filed # {}

===============================================================================
