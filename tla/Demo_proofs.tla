------------------------------ MODULE Demo_proofs ------------------------------
(***************************************************************************)
(* Proofs about Demo, for any number of gateways, handlers, payments and   *)
(* resets, and any rate of the simulated clock: what _DEMO_LOCK keeps      *)
(* apart, what the order of a payment's calls keeps single, and how far a  *)
(* batch that is under way has moved the clock.                            *)
(***************************************************************************)
EXTENDS Demo, FiniteSetTheorems, TLAPS

-------------------------------------------------------------------------------
(* Types                                                                     *)

Callers == Handlers \cup Payments

Service ==
  [ started : Int, clock_offset : Int,
    rows    : Seq([whose : Callers, tick : Int]),
    events  : [Gateways -> Seq(Int)] ]

Places == {"idle", "clock", "advance", "record", "filter", "append", "clear", "reset"}

Steps == {"route", "attempt", "outcome", "recording", "paid", "502"}

Types ==
  /\ service \in Seq(Service)
  /\ SERVICE \in DOMAIN service
  /\ minutes \in Int
  /\ pc \in [Handlers -> Places]
  /\ count \in [Handlers -> Nat]
  /\ i \in [Handlers -> Nat]
  /\ offset \in [Handlers -> Int]
  /\ targets \in [Handlers -> SUBSET Gateways]
  /\ own \in [Callers -> DOMAIN service]
  /\ step \in [Payments -> Steps]
  /\ charged \in [Payments -> {Undecided, "accepted", "declined"}]

-------------------------------------------------------------------------------
(* The inductive invariants                                                  *)

\* A handler that is anywhere in its request holds the lock.
Locked == \A h \in Handlers : pc[h] # "idle" => lock = h

\* An injection is about one gateway, which has none when it appends.
Aimed ==
  \A h \in Handlers :
    /\ pc[h] \in {"filter", "append"} => \E g \in Gateways : targets[h] = {g}
    /\ pc[h] = "append" => \A g \in targets[h] : service[own[h]].events[g] = <<>>

FaultInv == Types /\ Locked /\ Aimed /\ OneFaultPerGateway

-------------------------------------------------------------------------------
(* Lemmas                                                                    *)

\* One member of a sequence is replaced.
LEMMA Replaced ==
  ASSUME NEW S, NEW q \in Seq(S), NEW k \in DOMAIN q, NEW v \in S
  PROVE  /\ [q EXCEPT ![k] = v] \in Seq(S)
         /\ DOMAIN [q EXCEPT ![k] = v] = DOMAIN q
         /\ [q EXCEPT ![k] = v][k] = v
         /\ \A n \in DOMAIN q \ {k} : [q EXCEPT ![k] = v][n] = q[n]
OBVIOUS

LEMMA ServiceFacts ==
  ASSUME Types, NEW x \in Callers
  PROVE  /\ own[x] \in DOMAIN service
         /\ service \in Seq(Service)
         /\ service[own[x]] \in Service
         /\ Tick(own[x]) \in Int
<1>1. own[x] \in DOMAIN service /\ service \in Seq(Service) /\ minutes \in Int
  BY DEF Types
<1>2. service[own[x]] \in Service
  BY <1>1
<1>3. service[own[x]].started \in Int /\ service[own[x]].clock_offset \in Int
  BY <1>2 DEF Service
<1> QED
  BY <1>1, <1>2, <1>3 DEF Tick

\* Filing a row changes the rows of one service.
LEMMA FileTypes ==
  ASSUME Types, NEW x \in Callers, File(x)
  PROVE  /\ service' \in Seq(Service)
         /\ DOMAIN service' = DOMAIN service
         /\ \A s \in DOMAIN service \ {own[x]} : service'[s] = service[s]
         /\ service'[own[x]].events = service[own[x]].events
         /\ service'[own[x]].clock_offset = service[own[x]].clock_offset
         /\ service'[own[x]].started = service[own[x]].started
         /\ service'[own[x]].rows =
              Append(service[own[x]].rows, [whose |-> x, tick |-> Tick(own[x])])
<1> DEFINE k    == own[x]
           rows == Append(service[k].rows, [whose |-> x, tick |-> Tick(k)])
           v    == [service[k] EXCEPT !.rows = rows]
<1>1. k \in DOMAIN service /\ service \in Seq(Service) /\ service[k] \in Service /\ Tick(k) \in Int
  BY ServiceFacts
<1>2. rows \in Seq([whose : Callers, tick : Int])
  <2>1. [whose |-> x, tick |-> Tick(k)] \in [whose : Callers, tick : Int]
    BY <1>1
  <2>2. service[k].rows \in Seq([whose : Callers, tick : Int])
    BY <1>1 DEF Service
  <2> QED
    BY <2>1, <2>2
<1>3. service' = [service EXCEPT ![k] = v]
  BY <1>1 DEF File
<1> HIDE DEF rows
<1>4. /\ v \in Service
      /\ v.events = service[k].events /\ v.clock_offset = service[k].clock_offset
      /\ v.started = service[k].started /\ v.rows = rows
  BY <1>1, <1>2 DEF Service
<1> HIDE DEF v
<1>5. /\ service' \in Seq(Service) /\ DOMAIN service' = DOMAIN service /\ service'[k] = v
      /\ \A s \in DOMAIN service \ {k} : service'[s] = service[s]
  BY <1>1, <1>3, <1>4, Replaced
<1> QED
  BY <1>4, <1>5 DEF rows

\* Binding the events of a gateway changes nothing else.
LEMMA EventTypes ==
  ASSUME Types, NEW h \in Handlers, NEW g \in Gateways, NEW e \in Seq(Int),
         service' = [service EXCEPT ![own[h]].events[g] = e]
  PROVE  /\ service' \in Seq(Service)
         /\ DOMAIN service' = DOMAIN service
         /\ \A s \in DOMAIN service \ {own[h]} : service'[s] = service[s]
         /\ service'[own[h]].rows = service[own[h]].rows
         /\ service'[own[h]].clock_offset = service[own[h]].clock_offset
         /\ service'[own[h]].started = service[own[h]].started
         /\ \A k \in Gateways :
              service'[own[h]].events[k] = IF k = g THEN e ELSE service[own[h]].events[k]
<1> DEFINE n == own[h]
           events == [service[n].events EXCEPT ![g] = e]
           v      == [service[n] EXCEPT !.events = events]
<1>1. n \in DOMAIN service /\ service \in Seq(Service) /\ service[n] \in Service
  BY ServiceFacts DEF Callers
<1>2. events \in [Gateways -> Seq(Int)]
  BY <1>1 DEF Service
<1>3. \A k \in Gateways : events[k] = IF k = g THEN e ELSE service[n].events[k]
  BY <1>1 DEF Service
<1>4. service' = [service EXCEPT ![n] = v]
  BY <1>1
<1> HIDE DEF events
<1>5. /\ v \in Service
      /\ v.rows = service[n].rows /\ v.clock_offset = service[n].clock_offset
      /\ v.started = service[n].started /\ v.events = events
  BY <1>1, <1>2 DEF Service
<1> HIDE DEF v
<1>6. /\ service' \in Seq(Service) /\ DOMAIN service' = DOMAIN service /\ service'[n] = v
      /\ \A s \in DOMAIN service \ {n} : service'[s] = service[s]
  BY <1>1, <1>4, <1>5, Replaced
<1> QED
  BY <1>3, <1>5, <1>6

\* Minutes of the batch that the i-th transaction of it completes.
Elapsed(h) == (i[h] + 1) \div TX_PER_TICK - i[h] \div TX_PER_TICK

LEMMA ClockTypes ==
  ASSUME Types, NEW h \in Handlers, AdvanceClock(h)
  PROVE  /\ service' \in Seq(Service)
         /\ DOMAIN service' = DOMAIN service
         /\ \A s \in DOMAIN service \ {own[h]} : service'[s] = service[s]
         /\ service'[own[h]].rows = service[own[h]].rows
         /\ service'[own[h]].events = service[own[h]].events
         /\ service'[own[h]].started = service[own[h]].started
         /\ service'[own[h]].clock_offset = offset[h] + Elapsed(h)
<1> DEFINE n   == own[h]
           new == offset[h] + (i[h] + 1) \div TX_PER_TICK - i[h] \div TX_PER_TICK
           v   == [service[n] EXCEPT !.clock_offset = new]
<1>1. n \in DOMAIN service /\ service \in Seq(Service) /\ service[n] \in Service
  BY ServiceFacts DEF Callers
<1>2. new \in Int /\ new = offset[h] + Elapsed(h)
  <2>1. i[h] \in Nat /\ offset[h] \in Int /\ TX_PER_TICK \in Nat \ {0}
    BY DemoAssumption DEF Types
  <2>2. (i[h] + 1) \div TX_PER_TICK \in Int /\ i[h] \div TX_PER_TICK \in Int
    BY <2>1
  <2> QED
    BY <2>1, <2>2 DEF Elapsed
<1>3. service' = [service EXCEPT ![n] = v]
  BY <1>1 DEF AdvanceClock
<1> HIDE DEF new
<1>4. /\ v \in Service
      /\ v.rows = service[n].rows /\ v.events = service[n].events
      /\ v.started = service[n].started /\ v.clock_offset = new
  BY <1>1, <1>2 DEF Service
<1> HIDE DEF v
<1>5. /\ service' \in Seq(Service) /\ DOMAIN service' = DOMAIN service /\ service'[n] = v
      /\ \A s \in DOMAIN service \ {n} : service'[s] = service[s]
  BY <1>1, <1>3, <1>4, Replaced
<1> QED
  BY <1>2, <1>4, <1>5

\* A reset adds a service that nobody has called.
LEMMA NewServiceTypes ==
  ASSUME Types, NEW h \in Handlers, SetService(h)
  PROVE  /\ service' \in Seq(Service)
         /\ DOMAIN service' = DOMAIN service \cup {SERVICE'}
         /\ SERVICE' \notin DOMAIN service
         /\ \A s \in DOMAIN service : service'[s] = service[s]
         /\ service'[SERVICE'] = NewService
<1>1. NewService \in Service
  <2>1. <<>> \in Seq([whose : Callers, tick : Int]) /\ <<>> \in Seq(Int)
    OBVIOUS
  <2> QED
    BY <2>1 DEF NewService, Service, Types
<1> QED
  BY <1>1 DEF SetService, Types


-------------------------------------------------------------------------------
(* Types are kept                                                            *)

\* The steps of a handler; the first four take the lock.
LEMMA Cases ==
  ASSUME Next
  PROVE  \/ \E h \in Handlers :
              \/ GenerateTraffic(h) \/ InjectIncident(h) \/ ClearIncidents(h) \/ Reset(h)
              \/ ReadClock(h) \/ AdvanceClock(h) \/ RouteAndRecord(h)
              \/ Filter(h) \/ AppendEvent(h) \/ Clear(h) \/ SetService(h)
         \/ \E p \in Payments : Pay(p)
         \/ Minute
BY DEF Next, Simulate

LEMMA InitTypes ==
  ASSUME Init
  PROVE  Types
<1>1. NewService \in Service
  <2>1. <<>> \in Seq([whose : Callers, tick : Int]) /\ <<>> \in Seq(Int)
    OBVIOUS
  <2> QED
    BY <2>1 DEF Init, NewService, Service
<1>2. service \in Seq(Service) /\ DOMAIN service = {1}
  BY <1>1 DEF Init
<1> QED
  BY <1>2 DEF Init, PayInit, Types, Places, Steps, Callers

LEMMA PayTypes ==
  ASSUME Types, NEW p \in Payments, Pay(p)
  PROVE  /\ step' \in [Payments -> Steps]
         /\ charged' \in [Payments -> {Undecided, "accepted", "declined"}]
<1>1. step \in [Payments -> Steps] /\ charged \in [Payments -> {Undecided, "accepted", "declined"}]
  BY DEF Types
<1>2. CASE Undelivered(p)
  BY <1>1, <1>2 DEF Undelivered, Lost, To, Steps
<1>3. CASE RouteCall(p)
  BY <1>1, <1>3 DEF RouteCall, Answered, Lost, To, Steps
<1>4. CASE AttemptCall(p)
  BY <1>1, <1>4 DEF AttemptCall, Answered, Lost, To, Steps
<1>5. CASE OutcomeCall(p)
  BY <1>1, <1>5 DEF OutcomeCall, Answered, To, Steps
<1>6. CASE Recorded(p)
  BY <1>1, <1>6 DEF Recorded, Answered, Lost, To, Steps
<1> QED
  BY <1>2, <1>3, <1>4, <1>5, <1>6 DEF Pay

LEMMA TypesKept ==
  ASSUME Types, [Next]_vars
  PROVE  Types'
<1> USE DEF Callers
<1>1. CASE UNCHANGED vars
  BY <1>1 DEF vars, payVars, demoVars, Types, Service
<1>2. ASSUME NEW h \in Handlers, GenerateTraffic(h)
      PROVE  Types'
  BY <1>2, DemoAssumption DEF GenerateTraffic, Begin, Goto, payVars, Types, Places
<1>3. ASSUME NEW h \in Handlers, NEW where \in Places, NEW which \in SUBSET Gateways,
             BeginChange(h, where, which)
      PROVE  Types'
  BY <1>3 DEF BeginChange, Begin, Goto, payVars, Types
<1>4. ASSUME NEW h \in Handlers, InjectIncident(h) \/ ClearIncidents(h) \/ Reset(h)
      PROVE  Types'
  <2>1. CASE InjectIncident(h)
    <3>1. PICK g \in Gateways : BeginChange(h, "filter", {g})
      BY <2>1 DEF InjectIncident
    <3> QED
      BY <3>1, <1>3 DEF Places
  <2>2. CASE ClearIncidents(h)
    BY <2>2, <1>3 DEF ClearIncidents, Places
  <2>3. CASE Reset(h)
    BY <2>3, <1>3 DEF Reset, Places
  <2> QED
    BY <1>4, <2>1, <2>2, <2>3
<1>5. ASSUME NEW h \in Handlers, ReadClock(h)
      PROVE  Types'
  <2>1. service[own[h]].clock_offset \in Int
    BY ServiceFacts DEF Service
  <2> QED
    BY <1>5, <2>1 DEF ReadClock, Goto, payVars, world, Types, Places
<1>6. ASSUME NEW h \in Handlers, AdvanceClock(h)
      PROVE  Types'
  BY <1>6, ClockTypes DEF AdvanceClock, Goto, payVars, world, Types, Places
<1>7. ASSUME NEW h \in Handlers, RouteAndRecord(h)
      PROVE  Types'
  <2>1. File(h)
    BY <1>7 DEF RouteAndRecord
  <2>2. service' \in Seq(Service) /\ DOMAIN service' = DOMAIN service
    BY <2>1, FileTypes
  <2>3. pc' \in [Handlers -> Places] /\ i' \in [Handlers -> Nat]
    <3>1. i' = [i EXCEPT ![h] = i[h] + 1]
      BY <1>7 DEF RouteAndRecord
    <3>2. Goto(h, "clock") \/ Goto(h, "idle")
      BY <1>7 DEF RouteAndRecord, Leave
    <3>3. pc' \in [Handlers -> Places]
      BY <3>2 DEF Goto, Types, Places
    <3>4. i \in [Handlers -> Nat]
      BY DEF Types
    <3> QED
      BY <3>1, <3>3, <3>4
  <2> QED
    BY <1>7, <2>2, <2>3 DEF RouteAndRecord, payVars, world, Types
<1>8. ASSUME NEW h \in Handlers, Filter(h)
      PROVE  Types'
  <2>1. PICK g \in targets[h] : service' = [service EXCEPT ![own[h]].events[g] = <<>>]
    BY <1>8 DEF Filter
  <2>2. g \in Gateways /\ <<>> \in Seq(Int)
    BY DEF Types
  <2>3. service' \in Seq(Service) /\ DOMAIN service' = DOMAIN service
    BY <2>1, <2>2, EventTypes
  <2> QED
    BY <1>8, <2>3 DEF Filter, Goto, payVars, world, Types, Places
<1>9. ASSUME NEW h \in Handlers, AppendEvent(h)
      PROVE  Types'
  <2>1. PICK g \in targets[h] :
          service' = [service EXCEPT ![own[h]].events[g] =
                        Append(service[own[h]].events[g], Tick(own[h]))]
    BY <1>9 DEF AppendEvent
  <2>2. g \in Gateways /\ service[own[h]] \in Service /\ Tick(own[h]) \in Int
    BY ServiceFacts DEF Types
  <2>3. Append(service[own[h]].events[g], Tick(own[h])) \in Seq(Int)
    BY <2>2 DEF Service
  <2>4. service' \in Seq(Service) /\ DOMAIN service' = DOMAIN service
    BY <2>1, <2>2, <2>3, EventTypes
  <2> QED
    BY <1>9, <2>4 DEF AppendEvent, Leave, Goto, payVars, world, Types, Places
<1>10. ASSUME NEW h \in Handlers, Clear(h)
       PROVE  Types'
  <2>1. PICK g \in targets[h] :
          /\ service' = [service EXCEPT ![own[h]].events[g] = <<>>]
          /\ targets' = [targets EXCEPT ![h] = targets[h] \ {g}]
    BY <1>10 DEF Clear
  <2>2. g \in Gateways /\ <<>> \in Seq(Int)
    BY DEF Types
  <2>3. service' \in Seq(Service) /\ DOMAIN service' = DOMAIN service
    BY <2>1, <2>2, EventTypes
  <2>4. pc' \in [Handlers -> Places]
    <3>1. Goto(h, "idle") \/ UNCHANGED pc
      BY <1>10 DEF Clear, Leave
    <3> QED
      BY <3>1 DEF Goto, Types, Places
  <2> QED
    BY <1>10, <2>1, <2>3, <2>4 DEF Clear, payVars, world, Types
<1>11. ASSUME NEW h \in Handlers, SetService(h)
       PROVE  Types'
  BY <1>11, NewServiceTypes DEF SetService, Leave, Goto, payVars, Types, Places
<1>12. ASSUME NEW p \in Payments, Pay(p)
       PROVE  Types'
  <2>1. service' \in Seq(Service) /\ DOMAIN service' = DOMAIN service
    <3>1. CASE File(p)
      BY <3>1, FileTypes
    <3>2. CASE UNCHANGED service
      BY <3>2 DEF Types
    <3> QED
      BY <1>12, <3>1, <3>2 DEF Pay
  <2>2. own' \in [Callers -> DOMAIN service]
    BY <1>12 DEF Pay, Types
  <2> QED
    BY <1>12, <2>1, <2>2, PayTypes DEF Pay, Types
<1>13. CASE Minute
  BY <1>13 DEF Minute, payVars, Types, Service
<1> QED
  BY <1>1, <1>2, <1>4, <1>5, <1>6, <1>7, <1>8, <1>9, <1>10, <1>11, <1>12, <1>13, Cases

-------------------------------------------------------------------------------
(* One injected fault per gateway                                            *)

\* A handler that begins found the lock free, so no other is under way.
LEMMA BeginsAlone ==
  ASSUME Types, Locked, NEW h \in Handlers, NEW where \in Places, Begin(h, where)
  PROVE  /\ \A k \in Handlers : pc[k] = "idle"
         /\ pc' = [pc EXCEPT ![h] = where]
         /\ Locked'
<1>1. \A k \in Handlers : pc[k] = "idle"
  BY DemoAssumption DEF Locked, Begin, Enter
<1>2. pc' = [pc EXCEPT ![h] = where] /\ lock' = h
  BY DEF Begin, Enter, Goto
<1> QED
  BY <1>1, <1>2 DEF Locked, Types

\* A step of a handler on its way leaves the others idle.
LEMMA MovesAlone ==
  ASSUME Types, Locked, NEW h \in Handlers, pc[h] # "idle",
         NEW where \in Places,
         \/ pc' = [pc EXCEPT ![h] = where] /\ lock' = lock
         \/ pc' = [pc EXCEPT ![h] = "idle"] /\ lock' = Nobody
         \/ pc' = pc /\ lock' = lock
  PROVE  /\ \A k \in Handlers \ {h} : pc[k] = "idle" /\ pc'[k] = "idle"
         /\ Locked'
<1>1. lock = h
  BY DEF Locked
<1>2. \A k \in Handlers \ {h} : pc[k] = "idle"
  BY <1>1 DEF Locked
<1> QED
  BY <1>1, <1>2 DEF Locked, Types

LEMMA LockedKept ==
  ASSUME Types, Locked, [Next]_vars
  PROVE  Locked'
<1>1. CASE UNCHANGED vars
  BY <1>1 DEF vars, demoVars, Locked
<1>2. ASSUME NEW h \in Handlers, GenerateTraffic(h)
      PROVE  Locked'
  BY <1>2, BeginsAlone DEF GenerateTraffic, Places
<1>3. ASSUME NEW h \in Handlers, InjectIncident(h) \/ ClearIncidents(h) \/ Reset(h)
      PROVE  Locked'
  <2>1. \E where \in Places : Begin(h, where)
    BY <1>3 DEF InjectIncident, ClearIncidents, Reset, BeginChange, Places
  <2> QED
    BY <2>1, BeginsAlone
<1>4. ASSUME NEW h \in Handlers,
             \/ ReadClock(h) \/ AdvanceClock(h) \/ RouteAndRecord(h)
             \/ Filter(h) \/ AppendEvent(h) \/ Clear(h) \/ SetService(h)
      PROVE  Locked'
  <2>1. pc[h] # "idle"
    BY <1>4 DEF ReadClock, AdvanceClock, RouteAndRecord, Filter, AppendEvent, Clear, SetService
  <2>2. \/ \E where \in Places : pc' = [pc EXCEPT ![h] = where] /\ lock' = lock
        \/ pc' = [pc EXCEPT ![h] = "idle"] /\ lock' = Nobody
        \/ pc' = pc /\ lock' = lock
    BY <1>4 DEF ReadClock, AdvanceClock, RouteAndRecord, Filter, AppendEvent, Clear, SetService,
                Leave, Goto, Places
  <2> QED
    BY <2>1, <2>2, MovesAlone DEF Places
<1>5. ASSUME NEW p \in Payments, Pay(p)
      PROVE  Locked'
  BY <1>5 DEF Pay, Locked
<1>6. CASE Minute
  BY <1>6 DEF Minute, Locked
<1> QED
  BY <1>1, <1>2, <1>3, <1>4, <1>5, <1>6, Cases

\* Every event list is as short when no event is bound.
LEMMA EventsKept ==
  ASSUME Types, OneFaultPerGateway, DOMAIN service' = DOMAIN service,
         \A s \in DOMAIN service : service'[s].events = service[s].events
  PROVE  OneFaultPerGateway'
BY DEF OneFaultPerGateway

\* Events bound to at most one fault keep the rule.
LEMMA EventBound ==
  ASSUME Types, OneFaultPerGateway, NEW h \in Handlers, NEW g \in Gateways,
         NEW e \in Seq(Int), Len(e) <= 1,
         service' = [service EXCEPT ![own[h]].events[g] = e]
  PROVE  OneFaultPerGateway'
<1>1. own[h] \in DOMAIN service /\ DOMAIN service' = DOMAIN service
  BY ServiceFacts, EventTypes DEF Callers
<1>2. \A s \in DOMAIN service \ {own[h]} : service'[s] = service[s]
  BY EventTypes
<1>3. \A k \in Gateways :
        service'[own[h]].events[k] = IF k = g THEN e ELSE service[own[h]].events[k]
  BY EventTypes, ZenonT(30)
<1> QED
  BY <1>1, <1>2, <1>3 DEF OneFaultPerGateway

LEMMA FaultsKept ==
  ASSUME FaultInv, [Next]_vars
  PROVE  Aimed' /\ OneFaultPerGateway'
<1> USE DEF FaultInv
<1>1. CASE UNCHANGED vars
  BY <1>1 DEF vars, demoVars, Aimed, OneFaultPerGateway
<1>2. ASSUME NEW h \in Handlers, GenerateTraffic(h)
      PROVE  Aimed' /\ OneFaultPerGateway'
  <2>1. Begin(h, "clock") /\ "clock" \in Places
    BY <1>2 DEF GenerateTraffic, Places
  <2>2. \A k \in Handlers : pc'[k] \in {"idle", "clock"}
    BY <2>1, BeginsAlone DEF Types
  <2>3. UNCHANGED service
    BY <2>1 DEF Begin
  <2> QED
    BY <2>2, <2>3 DEF Aimed, OneFaultPerGateway
<1>3. ASSUME NEW h \in Handlers, NEW g \in Gateways, BeginChange(h, "filter", {g})
      PROVE  Aimed' /\ OneFaultPerGateway'
  <2>1. Begin(h, "filter") /\ "filter" \in Places
    BY <1>3 DEF BeginChange, Places
  <2>2. \A k \in Handlers : pc'[k] = IF k = h THEN "filter" ELSE "idle"
    BY <2>1, BeginsAlone DEF Types
  <2>3. targets'[h] = {g}
    BY <1>3 DEF BeginChange, Types
  <2>4. UNCHANGED service
    BY <2>1 DEF Begin
  <2> QED
    BY <2>2, <2>3, <2>4 DEF Aimed, OneFaultPerGateway
<1>4. ASSUME NEW h \in Handlers, ClearIncidents(h) \/ Reset(h)
      PROVE  Aimed' /\ OneFaultPerGateway'
  <2>1. PICK where \in {"clear", "reset"} : Begin(h, where)
    BY <1>4 DEF ClearIncidents, Reset, BeginChange
  <2>2. \A k \in Handlers : pc'[k] \in {"idle", "clear", "reset"}
    BY <2>1, BeginsAlone DEF Types, Places
  <2>3. UNCHANGED service
    BY <2>1 DEF Begin
  <2> QED
    BY <2>2, <2>3 DEF Aimed, OneFaultPerGateway
<1>5. ASSUME NEW h \in Handlers, ReadClock(h) \/ AdvanceClock(h) \/ RouteAndRecord(h)
      PROVE  Aimed' /\ OneFaultPerGateway'
  <2>1. \A k \in Handlers : pc'[k] \notin {"filter", "append"}
    <3>1. pc[h] # "idle"
      BY <1>5 DEF ReadClock, AdvanceClock, RouteAndRecord
    <3>2. \A k \in Handlers \ {h} : pc[k] = "idle"
      BY <3>1 DEF Locked
    <3> QED
      BY <1>5, <3>2 DEF ReadClock, AdvanceClock, RouteAndRecord, Leave, Goto, Types
  <2>2. DOMAIN service' = DOMAIN service
        /\ \A s \in DOMAIN service : service'[s].events = service[s].events
    <3>1. CASE ReadClock(h)
      BY <3>1 DEF ReadClock
    <3>2. CASE AdvanceClock(h)
      BY <3>2, ClockTypes
    <3>3. CASE RouteAndRecord(h)
      <4>1. File(h) /\ h \in Callers
        BY <3>3 DEF RouteAndRecord, Callers
      <4> QED
        BY <4>1, FileTypes
    <3> QED
      BY <1>5, <3>1, <3>2, <3>3
  <2> QED
    BY <2>1, <2>2, EventsKept DEF Aimed
<1>6. ASSUME NEW h \in Handlers, Filter(h)
      PROVE  Aimed' /\ OneFaultPerGateway'
  <2>1. PICK g \in Gateways : targets[h] = {g}
    BY <1>6 DEF Filter, Aimed
  <2>2. /\ service' = [service EXCEPT ![own[h]].events[g] = <<>>]
        /\ <<>> \in Seq(Int) /\ Len(<<>>) <= 1
    BY <1>6, <2>1 DEF Filter
  <2>3. service'[own[h]].events[g] = <<>>
    <3>1. \A k \in Gateways : service'[own[h]].events[k] =
                               IF k = g THEN <<>> ELSE service[own[h]].events[k]
      BY <2>2, EventTypes, ZenonT(30)
    <3> QED
      BY <3>1
  <2>4. /\ \A k \in Handlers \ {h} : pc'[k] = "idle"
        /\ targets'[h] = {g} /\ own'[h] = own[h]
    BY <1>6, <2>1 DEF Filter, Goto, world, Locked, Types
  <2>5. OneFaultPerGateway'
    BY <2>2, EventBound
  <2> QED
    BY <2>3, <2>4, <2>5 DEF Aimed
<1>7. ASSUME NEW h \in Handlers, AppendEvent(h)
      PROVE  Aimed' /\ OneFaultPerGateway'
  <2>1. PICK g \in Gateways : targets[h] = {g} /\ service[own[h]].events[g] = <<>>
    BY <1>7 DEF AppendEvent, Aimed
  <2>2. service' = [service EXCEPT ![own[h]].events[g] =
                      Append(service[own[h]].events[g], Tick(own[h]))]
    BY <1>7, <2>1 DEF AppendEvent
  <2>3. Append(service[own[h]].events[g], Tick(own[h])) = <<Tick(own[h])>>
        /\ <<Tick(own[h])>> \in Seq(Int) /\ Len(<<Tick(own[h])>>) <= 1
    BY <2>1, ServiceFacts DEF Callers
  <2>4. OneFaultPerGateway'
    BY <2>2, <2>3, EventBound
  <2>5. \A k \in Handlers : pc'[k] = "idle"
    BY <1>7 DEF AppendEvent, Leave, Goto, Locked, Types
  <2> QED
    BY <2>4, <2>5 DEF Aimed
<1>8. ASSUME NEW h \in Handlers, Clear(h)
      PROVE  Aimed' /\ OneFaultPerGateway'
  <2>1. PICK g \in targets[h] : service' = [service EXCEPT ![own[h]].events[g] = <<>>]
    BY <1>8 DEF Clear
  <2>2. g \in Gateways /\ <<>> \in Seq(Int) /\ Len(<<>>) <= 1
    BY DEF Types
  <2>3. OneFaultPerGateway'
    BY <2>1, <2>2, EventBound
  <2>4. \A k \in Handlers : pc'[k] \in {"idle", "clear"}
    <3>1. pc[h] = "clear"
      BY <1>8 DEF Clear
    <3>2. pc' = [pc EXCEPT ![h] = "idle"] \/ pc' = pc
      BY <1>8 DEF Clear, Leave, Goto
    <3>3. \A k \in Handlers \ {h} : pc[k] = "idle"
      BY <3>1 DEF Locked
    <3> QED
      BY <3>1, <3>2, <3>3 DEF Types
  <2> QED
    BY <2>3, <2>4 DEF Aimed
<1>9. ASSUME NEW h \in Handlers, SetService(h)
      PROVE  Aimed' /\ OneFaultPerGateway'
  <2>1. \A k \in Handlers : pc'[k] = "idle"
    BY <1>9 DEF SetService, Leave, Goto, Locked, Types
  <2>2. \A g \in Gateways : Len(NewService.events[g]) <= 1
    BY DEF NewService
  <2>3. OneFaultPerGateway'
    BY <1>9, <2>2, NewServiceTypes DEF OneFaultPerGateway
  <2> QED
    BY <2>1, <2>3 DEF Aimed
<1>10. ASSUME NEW p \in Payments, Pay(p)
       PROVE  Aimed' /\ OneFaultPerGateway'
  <2>1. DOMAIN service' = DOMAIN service
        /\ \A s \in DOMAIN service : service'[s].events = service[s].events
    <3>1. CASE UNCHANGED service
      BY <3>1
    <3>2. CASE File(p)
      BY <3>2, FileTypes DEF Callers
    <3> QED
      BY <1>10, <3>1, <3>2 DEF Pay
  <2>2. /\ UNCHANGED <<pc, targets>>
        /\ \A k \in Handlers : own'[k] = own[k]
    BY <1>10, DemoAssumption DEF Pay, Types, Callers
  <2>3. \A k \in Handlers : own[k] \in DOMAIN service
    BY ServiceFacts DEF Callers
  <2> QED
    BY <2>1, <2>2, <2>3, EventsKept DEF Aimed
<1>11. CASE Minute
  BY <1>11 DEF Minute, Aimed, OneFaultPerGateway
<1> QED
  <2>1. \A h \in Handlers : InjectIncident(h) => \E g \in Gateways : BeginChange(h, "filter", {g})
    BY DEF InjectIncident
  <2> QED
    BY <2>1, <1>1, <1>2, <1>3, <1>4, <1>5, <1>6, <1>7, <1>8, <1>9, <1>10, <1>11, Cases

\* Two injections never meet on one gateway (demo._inject_incident under
\* _DEMO_LOCK), for any number of handlers and resets.
THEOREM OneFault == Spec => []OneFaultPerGateway
<1>1. Init => FaultInv
  <2>1. ASSUME Init PROVE Locked /\ Aimed /\ OneFaultPerGateway
    BY <2>1 DEF Init, Locked, Aimed, OneFaultPerGateway, NewService
  <2> QED
    BY <2>1, InitTypes DEF FaultInv
<1>2. FaultInv /\ [Next]_vars => FaultInv'
  BY TypesKept, LockedKept, FaultsKept DEF FaultInv
<1>3. FaultInv => OneFaultPerGateway
  BY DEF FaultInv
<1> QED
  BY <1>1, <1>2, <1>3, PTL DEF Spec

-------------------------------------------------------------------------------
(* A payment is filed once                                                   *)

\* There is a row of the payment, in some service.
FiledFor(p) ==
  \E s \in DOMAIN service : \E n \in DOMAIN service[s].rows : service[s].rows[n].whose = p

\* There are no two.
Single(p) ==
  \A s1, s2 \in DOMAIN service :
    \A n1 \in DOMAIN service[s1].rows, n2 \in DOMAIN service[s2].rows :
      service[s1].rows[n1].whose = p /\ service[s2].rows[n2].whose = p => s1 = s2 /\ n1 = n2

\* Where a payment stands says whether it is filed and charged.
Stands(p) ==
  /\ Single(p)
  /\ step[p] \in {"route", "attempt", "outcome", "recording"} => ~FiledFor(p)
  /\ step[p] = "paid" => FiledFor(p)
  /\ step[p] \in {"outcome", "recording", "paid"} \/ FiledFor(p) => charged[p] # Undecided

PaymentInv == Types /\ \A p \in Payments : Stands(p)

\* One member is appended to a sequence.
LEMMA Appended ==
  ASSUME NEW S, NEW q \in Seq(S), NEW v \in S
  PROVE  /\ DOMAIN Append(q, v) = DOMAIN q \cup {Len(q) + 1}
         /\ Len(q) + 1 \notin DOMAIN q
         /\ \A n \in DOMAIN q : Append(q, v)[n] = q[n]
         /\ Append(q, v)[Len(q) + 1] = v
<1>1. Len(q) \in Nat /\ DOMAIN q = 1..Len(q)
  OBVIOUS
<1>2. DOMAIN Append(q, v) = 1..(Len(q) + 1)
  OBVIOUS
<1> QED
  BY <1>1, <1>2

\* Nothing is filed by a step that leaves every service its rows, be it one that
\* adds a service.
LEMMA NothingFiled ==
  ASSUME DOMAIN service \subseteq DOMAIN service',
         \A s \in DOMAIN service' :
           IF s \in DOMAIN service THEN service'[s].rows = service[s].rows
           ELSE service'[s].rows = <<>>,
         NEW p
  PROVE  (FiledFor(p)' <=> FiledFor(p)) /\ (Single(p) => Single(p)')
<1>1. \A s \in DOMAIN service' : \A n \in DOMAIN service'[s].rows :
        s \in DOMAIN service /\ n \in DOMAIN service[s].rows /\ service'[s].rows = service[s].rows
  OBVIOUS
<1> QED
  BY <1>1 DEF FiledFor, Single

\* Filing a row of x leaves those of others, and is the first of x if it had none.
LEMMA OneFiled ==
  ASSUME Types, NEW x \in Callers, File(x), NEW p
  PROVE  /\ p # x => (FiledFor(p)' <=> FiledFor(p)) /\ (Single(p) => Single(p)')
         /\ p = x => FiledFor(p)' /\ (~FiledFor(p) => Single(p)')
<1> DEFINE k   == own[x]
           r   == [whose |-> x, tick |-> Tick(k)]
           old == service[k].rows
<1>1. /\ k \in DOMAIN service /\ DOMAIN service' = DOMAIN service
      /\ \A s \in DOMAIN service \ {k} : service'[s] = service[s]
      /\ service'[k].rows = Append(old, r)
  BY ServiceFacts, FileTypes
<1>2. old \in Seq([whose : Callers, tick : Int])
  BY ServiceFacts DEF Service
<1>3. r \in [whose : Callers, tick : Int] /\ r.whose = x
  BY ServiceFacts
<1> HIDE DEF r, old
<1>4. /\ DOMAIN Append(old, r) = DOMAIN old \cup {Len(old) + 1}
      /\ Len(old) + 1 \notin DOMAIN old
      /\ \A n \in DOMAIN old : Append(old, r)[n] = old[n]
      /\ Append(old, r)[Len(old) + 1] = r
  BY <1>2, <1>3, Appended
<1>5. \A s \in DOMAIN service' : \A n \in DOMAIN service'[s].rows :
        \/ /\ n \in DOMAIN service[s].rows
           /\ service'[s].rows[n] = service[s].rows[n]
        \/ s = k /\ n = Len(old) + 1 /\ service'[s].rows[n].whose = x
  <2>1. \A n \in DOMAIN Append(old, r) :
          \/ n \in DOMAIN old /\ Append(old, r)[n] = old[n]
          \/ n = Len(old) + 1 /\ Append(old, r)[n].whose = x
    BY <1>3, <1>4
  <2>2. service[k].rows = old
    BY DEF old
  <2> QED
    BY <1>1, <2>1, <2>2
<1>6. \A s \in DOMAIN service : \A n \in DOMAIN service[s].rows :
        n \in DOMAIN service'[s].rows /\ service'[s].rows[n] = service[s].rows[n]
  BY <1>1, <1>4 DEF old
<1>7. k \in DOMAIN service' /\ Len(old) + 1 \in DOMAIN service'[k].rows
      /\ service'[k].rows[Len(old) + 1].whose = x
  BY <1>1, <1>3, <1>4
<1>8. DOMAIN service' = DOMAIN service
  BY <1>1
<1> HIDE DEF k
<1>9. ASSUME p # x
      PROVE  (FiledFor(p)' <=> FiledFor(p)) /\ (Single(p) => Single(p)')
  <2>1. \A s \in DOMAIN service : \A n \in DOMAIN service'[s].rows :
          service'[s].rows[n].whose = p =>
            n \in DOMAIN service[s].rows /\ service[s].rows[n].whose = p
    BY <1>5, <1>8, <1>9
  <2>2. FiledFor(p)' <=> FiledFor(p)
    BY <1>6, <1>8, <2>1 DEF FiledFor
  <2>3. Single(p) => Single(p)'
    BY <1>8, <2>1 DEF Single
  <2> QED
    BY <2>2, <2>3
<1>10. ASSUME p = x
       PROVE  FiledFor(p)' /\ (~FiledFor(p) => Single(p)')
  <2>1. FiledFor(p)'
    BY <1>7, <1>10 DEF FiledFor
  <2>2. ASSUME ~FiledFor(p) PROVE Single(p)'
    <3>1. \A s \in DOMAIN service' : \A n \in DOMAIN service'[s].rows :
            service'[s].rows[n].whose = p => s = k /\ n = Len(old) + 1
      BY <1>5, <1>8, <2>2 DEF FiledFor
    <3> QED
      BY <3>1 DEF Single
  <2> QED
    BY <2>1, <2>2
<1> QED
  BY <1>9, <1>10

\* Only the demo's batches, payments and a reset touch the rows.
LEMMA RowsKept ==
  ASSUME Types, [Next]_vars
  PROVE  \/ \E h \in Handlers : RouteAndRecord(h)
         \/ \E p \in Payments : Pay(p)
         \/ /\ UNCHANGED payVars
            /\ DOMAIN service \subseteq DOMAIN service'
            /\ \A s \in DOMAIN service' :
                 IF s \in DOMAIN service THEN service'[s].rows = service[s].rows
                 ELSE service'[s].rows = <<>>
<1>1. CASE UNCHANGED vars
  BY <1>1 DEF vars, demoVars
<1>2. ASSUME NEW h \in Handlers,
             \/ GenerateTraffic(h) \/ InjectIncident(h) \/ ClearIncidents(h) \/ Reset(h)
             \/ ReadClock(h)
      PROVE  UNCHANGED payVars /\ UNCHANGED service
  BY <1>2 DEF GenerateTraffic, InjectIncident, ClearIncidents, Reset, BeginChange, Begin, ReadClock
<1>3. ASSUME NEW h \in Handlers, AdvanceClock(h)
      PROVE  UNCHANGED payVars /\ DOMAIN service' = DOMAIN service
             /\ \A s \in DOMAIN service : service'[s].rows = service[s].rows
  BY <1>3, ClockTypes DEF AdvanceClock
<1>4. ASSUME NEW h \in Handlers, Filter(h) \/ Clear(h)
      PROVE  UNCHANGED payVars /\ DOMAIN service' = DOMAIN service
             /\ \A s \in DOMAIN service : service'[s].rows = service[s].rows
  <2>1. PICK g \in Gateways : service' = [service EXCEPT ![own[h]].events[g] = <<>>]
    BY <1>4 DEF Filter, Clear, Types
  <2>2. <<>> \in Seq(Int)
    OBVIOUS
  <2> QED
    BY <1>4, <2>1, <2>2, EventTypes DEF Filter, Clear
<1>5. ASSUME NEW h \in Handlers, AppendEvent(h)
      PROVE  UNCHANGED payVars /\ DOMAIN service' = DOMAIN service
             /\ \A s \in DOMAIN service : service'[s].rows = service[s].rows
  <2>1. PICK g \in Gateways :
          service' = [service EXCEPT ![own[h]].events[g] =
                        Append(service[own[h]].events[g], Tick(own[h]))]
    BY <1>5 DEF AppendEvent, Types
  <2>2. service[own[h]] \in Service /\ Tick(own[h]) \in Int
    BY ServiceFacts DEF Callers
  <2>3. Append(service[own[h]].events[g], Tick(own[h])) \in Seq(Int)
    BY <2>2 DEF Service
  <2> QED
    BY <1>5, <2>1, <2>3, EventTypes DEF AppendEvent
<1>6. ASSUME NEW h \in Handlers, SetService(h)
      PROVE  /\ UNCHANGED payVars
             /\ DOMAIN service \subseteq DOMAIN service'
             /\ \A s \in DOMAIN service' :
                  IF s \in DOMAIN service THEN service'[s].rows = service[s].rows
                  ELSE service'[s].rows = <<>>
  BY <1>6, NewServiceTypes DEF SetService, NewService
<1>7. CASE Minute
  BY <1>7 DEF Minute
<1> QED
  BY <1>1, <1>2, <1>3, <1>4, <1>5, <1>6, <1>7, Cases

LEMMA PaymentsKept ==
  ASSUME PaymentInv, [Next]_vars, NEW p \in Payments
  PROVE  Stands(p)'
<1>1. Types /\ Stands(p) /\ p \in Callers /\ p \notin Handlers
  BY DemoAssumption DEF PaymentInv, Callers
<1>2. CASE /\ UNCHANGED <<step, charged>>
           /\ FiledFor(p)' <=> FiledFor(p)
           /\ Single(p) => Single(p)'
  BY <1>1, <1>2 DEF Stands
<1>3. ASSUME NEW h \in Handlers, RouteAndRecord(h)
      PROVE  Stands(p)'
  <2>1. File(h) /\ UNCHANGED payVars /\ h \in Callers /\ p # h
    BY <1>1, <1>3 DEF RouteAndRecord, Callers
  <2> QED
    BY <1>1, <1>2, <2>1, OneFiled DEF payVars
<1>4. ASSUME NEW q \in Payments, Pay(q), q # p
      PROVE  Stands(p)'
  <2>1. step'[p] = step[p] /\ charged'[p] = charged[p]
    BY <1>1, <1>4 DEF Pay, Undelivered, RouteCall, AttemptCall, OutcomeCall, Recorded,
                     Answered, Lost, To, Types
  <2>2. (FiledFor(p)' <=> FiledFor(p)) /\ (Single(p) => Single(p)')
    <3>1. CASE UNCHANGED service
      BY <3>1 DEF FiledFor, Single
    <3>2. CASE File(q)
      BY <1>1, <1>4, <3>2, OneFiled DEF Callers
    <3> QED
      BY <1>4, <3>1, <3>2 DEF Pay
  <2> QED
    BY <1>1, <2>1, <2>2 DEF Stands
<1>5. ASSUME Pay(p), UNCHANGED service
      PROVE  Stands(p)'
  <2>1. (FiledFor(p)' <=> FiledFor(p)) /\ (Single(p)' <=> Single(p))
    BY <1>5 DEF FiledFor, Single
  <2>2. step[p] \in Steps /\ step \in [Payments -> Steps]
        /\ charged \in [Payments -> {Undecided, "accepted", "declined"}]
    BY <1>1 DEF Types
  <2>3. CASE Undelivered(p)
    BY <1>1, <2>1, <2>2, <2>3 DEF Undelivered, Lost, To, Stands
  <2>4. CASE RouteCall(p)
    BY <1>1, <2>1, <2>2, <2>4 DEF RouteCall, Answered, Lost, To, Stands
  <2>5. CASE AttemptCall(p)
    <3>1. charged'[p] # Undecided /\ step[p] = "attempt" /\ step'[p] \in {"outcome", "502"}
      BY <2>2, <2>5 DEF AttemptCall, Answered, Lost, To, Undecided
    <3> QED
      BY <1>1, <2>1, <3>1 DEF Stands
  <2>6. CASE OutcomeCall(p)
    BY <1>1, <2>1, <2>2, <2>6 DEF OutcomeCall, Answered, To, Stands
  <2>7. CASE Recorded(p) /\ File(p)
    <3>1. FALSE
      BY <1>1, <1>5, <2>7, OneFiled, <2>1 DEF Stands, Recorded
    <3> QED
      BY <3>1
  <2> QED
    BY <1>5, <2>3, <2>4, <2>5, <2>6, <2>7 DEF Pay
<1>6. ASSUME Recorded(p), File(p)
      PROVE  Stands(p)'
  <2>1. step[p] = "recording" /\ UNCHANGED charged /\ step'[p] \in {"paid", "502"}
    BY <1>1, <1>6 DEF Recorded, Answered, Lost, To, Types
  <2>2. ~FiledFor(p) /\ charged[p] # Undecided
    BY <1>1, <2>1 DEF Stands
  <2>3. FiledFor(p)' /\ Single(p)'
    BY <1>1, <1>6, <2>2, OneFiled
  <2> QED
    BY <2>1, <2>2, <2>3 DEF Stands
<1>7. ASSUME UNCHANGED payVars,
             DOMAIN service \subseteq DOMAIN service',
             \A s \in DOMAIN service' :
               IF s \in DOMAIN service THEN service'[s].rows = service[s].rows
               ELSE service'[s].rows = <<>>
      PROVE  Stands(p)'
  BY <1>2, <1>7, NothingFiled DEF payVars
<1>8. ASSUME NEW q \in Payments, Pay(q)
      PROVE  Stands(p)'
  <2>1. CASE q # p
    BY <1>4, <1>8, <2>1
  <2>2. CASE q = p
    BY <1>5, <1>6, <1>8, <2>2 DEF Pay
  <2> QED
    BY <2>1, <2>2
<1> QED
  BY <1>1, <1>3, <1>7, <1>8, RowsKept

LEMMA StandsOnce ==
  ASSUME PaymentInv, NEW p \in Payments
  PROVE  LET filed == {s \in DOMAIN service : RowsOf(s, {p}) # {}}
         IN /\ Cardinality(filed) <= 1
            /\ \A s \in filed : Cardinality(RowsOf(s, {p})) = 1
            /\ filed # {} => charged[p] # Undecided
            /\ step[p] = "paid" => filed # {}
<1> DEFINE filed == {s \in DOMAIN service : RowsOf(s, {p}) # {}}
<1>1. Stands(p)
  BY DEF PaymentInv
<1>2. filed # {} <=> FiledFor(p)
  BY DEF FiledFor, RowsOf
<1>3. ASSUME NEW s \in filed
      PROVE  filed = {s} /\ Cardinality(RowsOf(s, {p})) = 1
  <2>1. PICK n \in DOMAIN service[s].rows : service[s].rows[n].whose = p
    BY DEF RowsOf
  <2>2. filed = {s} /\ RowsOf(s, {p}) = {n}
    BY <1>1, <2>1 DEF Stands, Single, RowsOf
  <2> QED
    BY <2>2, FS_Singleton
<1>4. Cardinality(filed) <= 1
  <2>1. CASE filed = {}
    BY <2>1, FS_EmptySet
  <2>2. CASE filed # {}
    <3>1. PICK s \in filed : TRUE
      BY <2>2
    <3>2. Cardinality(filed) = 1
      BY <1>3, <3>1, FS_Singleton
    <3> QED
      BY <3>2
  <2> QED
    BY <2>1, <2>2
<1> QED
  BY <1>1, <1>2, <1>3, <1>4 DEF Stands

\* However its calls fail and whatever is reset meanwhile, the outcome of a
\* payment is filed at most once over all services, after the attempt, and
\* certainly if the shopper was told (checkout.pay).
THEOREM FiledOnce == Spec => []PaymentFiledOnce
<1>1. Init => PaymentInv
  <2>1. ASSUME Init, NEW p \in Payments PROVE Stands(p)
    BY <2>1 DEF Init, PayInit, NewService, Stands, FiledFor, Single
  <2> QED
    BY <2>1, InitTypes DEF PaymentInv
<1>2. PaymentInv /\ [Next]_vars => PaymentInv'
  <2> SUFFICES ASSUME PaymentInv, [Next]_vars PROVE PaymentInv'
    OBVIOUS
  <2>1. Types'
    BY TypesKept DEF PaymentInv
  <2> QED
    BY <2>1, PaymentsKept DEF PaymentInv
<1>3. PaymentInv => PaymentFiledOnce
  BY StandsOnce DEF PaymentFiledOnce
<1> QED
  BY <1>1, <1>2, <1>3, PTL DEF Spec

-------------------------------------------------------------------------------
(* Rows are filed in order                                                   *)

\* A handler about to write the clock has read what it still is.
ClockRead ==
  \A h \in Handlers : pc[h] = "advance" => offset[h] = service[own[h]].clock_offset

\* No row is ahead of its service.
RowsPast ==
  \A s \in DOMAIN service : \A n \in DOMAIN service[s].rows : service[s].rows[n].tick <= Tick(s)

ClockInv == Types /\ Locked /\ ClockRead /\ RowsInOrder /\ RowsPast

LEMMA Quotient ==
  ASSUME NEW a \in Nat
  PROVE  /\ a \div TX_PER_TICK \in Nat
         /\ TX_PER_TICK * (a \div TX_PER_TICK) <= a
         /\ a < TX_PER_TICK * (a \div TX_PER_TICK) + TX_PER_TICK
BY DemoAssumption

\* A transaction never turns the clock back.
LEMMA ElapsedIsNat ==
  ASSUME Types, NEW h \in Handlers
  PROVE  Elapsed(h) \in Nat
<1> DEFINE T == TX_PER_TICK  a == i[h]  qa == a \div T  qb == (a + 1) \div T
<1>1. a \in Nat /\ T \in Nat \ {0}
  BY DemoAssumption DEF Types
<1>2. qa \in Nat /\ qb \in Nat /\ T * qa <= a /\ a + 1 < T * qb + T
  BY <1>1, Quotient
<1>3. qa <= qb
  <2>1. SUFFICES ASSUME qb + 1 <= qa PROVE FALSE
    BY <1>2
  <2> HIDE DEF qa, qb
  <2>2. T * (qb + 1) <= T * qa
    BY <1>1, <1>2, <2>1
  <2>3. T * (qb + 1) = T * qb + T
    BY <1>1, <1>2
  <2>4. T * qb \in Int /\ T * qa \in Int
    BY <1>1, <1>2
  <2> QED
    BY <1>1, <1>2, <2>2, <2>3, <2>4
<1> QED
  BY <1>2, <1>3 DEF Elapsed

\* The tick of a service never decreases.
LEMMA TickGrows ==
  ASSUME ClockInv, [Next]_vars, NEW s \in DOMAIN service
  PROVE  s \in DOMAIN service' /\ Tick(s) \in Int /\ Tick(s)' \in Int /\ Tick(s) <= Tick(s)'
<1>1. Types /\ Types'
  BY TypesKept DEF ClockInv
<1>2. service[s].started \in Int /\ service[s].clock_offset \in Int /\ minutes \in Int
  <2>1. service \in Seq(Service) /\ minutes \in Int
    BY <1>1 DEF Types
  <2>2. service[s] \in Service
    BY <2>1
  <2> QED
    BY <2>1, <2>2 DEF Service
<1>3. ASSUME s \in DOMAIN service', NEW d \in Nat, minutes' \in {minutes, minutes + 1},
             service'[s].started = service[s].started,
             service'[s].clock_offset = service[s].clock_offset + d
      PROVE  Tick(s) \in Int /\ Tick(s)' \in Int /\ Tick(s) <= Tick(s)'
  BY <1>2, <1>3 DEF Tick
<1>4. CASE UNCHANGED <<service, minutes>>
  BY <1>2, <1>4 DEF Tick
<1>5. ASSUME DOMAIN service \subseteq DOMAIN service', minutes' = minutes,
             service'[s].started = service[s].started,
             service'[s].clock_offset = service[s].clock_offset
      PROVE  s \in DOMAIN service' /\ Tick(s) \in Int /\ Tick(s)' \in Int /\ Tick(s) <= Tick(s)'
  BY <1>2, <1>5 DEF Tick
<1>6. ASSUME NEW h \in Handlers, AdvanceClock(h)
      PROVE  s \in DOMAIN service' /\ Tick(s) \in Int /\ Tick(s)' \in Int /\ Tick(s) <= Tick(s)'
  <2>1. minutes' = minutes /\ DOMAIN service' = DOMAIN service
    BY <1>1, <1>6, ClockTypes DEF AdvanceClock, world
  <2>2. CASE s # own[h]
    BY <1>1, <1>5, <1>6, <2>1, <2>2, ClockTypes
  <2>3. CASE s = own[h]
    <3>1. offset[h] = service[s].clock_offset
      BY <1>6, <2>3 DEF AdvanceClock, ClockInv, ClockRead
    <3>2. service'[s].clock_offset = service[s].clock_offset + Elapsed(h)
          /\ service'[s].started = service[s].started
      BY <1>1, <1>6, <2>3, <3>1, ClockTypes
    <3> QED
      BY <1>1, <1>3, <2>1, <3>2, ElapsedIsNat
  <2> QED
    BY <2>2, <2>3
<1>7. ASSUME NEW x \in Callers, File(x), minutes' = minutes
      PROVE  s \in DOMAIN service' /\ Tick(s) \in Int /\ Tick(s)' \in Int /\ Tick(s) <= Tick(s)'
  BY <1>1, <1>5, <1>7, FileTypes
<1>8. ASSUME NEW h \in Handlers, NEW g \in Gateways, NEW e \in Seq(Int), minutes' = minutes,
             service' = [service EXCEPT ![own[h]].events[g] = e]
      PROVE  s \in DOMAIN service' /\ Tick(s) \in Int /\ Tick(s)' \in Int /\ Tick(s) <= Tick(s)'
  BY <1>1, <1>5, <1>8, EventTypes
<1>9. ASSUME NEW h \in Handlers, Filter(h) \/ AppendEvent(h) \/ Clear(h)
      PROVE  s \in DOMAIN service' /\ Tick(s) \in Int /\ Tick(s)' \in Int /\ Tick(s) <= Tick(s)'
  <2>1. minutes' = minutes
    BY <1>9 DEF Filter, AppendEvent, Clear, world
  <2>2. <<>> \in Seq(Int)
    OBVIOUS
  <2>3. CASE Filter(h) \/ Clear(h)
    <3>1. PICK g \in Gateways : service' = [service EXCEPT ![own[h]].events[g] = <<>>]
      BY <1>1, <2>3 DEF Filter, Clear, Types
    <3> QED
      BY <1>8, <2>1, <2>2, <3>1
  <2>4. CASE AppendEvent(h)
    <3>1. PICK g \in Gateways :
            service' = [service EXCEPT ![own[h]].events[g] =
                          Append(service[own[h]].events[g], Tick(own[h]))]
      BY <1>1, <2>4 DEF AppendEvent, Types
    <3>2. service[own[h]] \in Service /\ Tick(own[h]) \in Int
      BY <1>1, ServiceFacts DEF Callers
    <3>3. Append(service[own[h]].events[g], Tick(own[h])) \in Seq(Int)
      BY <3>2 DEF Service
    <3> QED
      BY <1>8, <2>1, <3>1, <3>3
  <2> QED
    BY <1>9, <2>3, <2>4
<1>10. ASSUME NEW h \in Handlers, SetService(h)
       PROVE  s \in DOMAIN service' /\ Tick(s) \in Int /\ Tick(s)' \in Int /\ Tick(s) <= Tick(s)'
  BY <1>1, <1>5, <1>10, NewServiceTypes DEF SetService
<1>11. CASE Minute
  BY <1>3, <1>2, <1>11 DEF Minute
<1>12. ASSUME NEW p \in Payments, Pay(p)
       PROVE  s \in DOMAIN service' /\ Tick(s) \in Int /\ Tick(s)' \in Int /\ Tick(s) <= Tick(s)'
  BY <1>4, <1>7, <1>12 DEF Pay, Callers
<1>13. ASSUME NEW h \in Handlers,
              \/ GenerateTraffic(h) \/ InjectIncident(h) \/ ClearIncidents(h) \/ Reset(h)
              \/ ReadClock(h)
       PROVE  UNCHANGED <<service, minutes>>
  BY <1>13 DEF GenerateTraffic, InjectIncident, ClearIncidents, Reset, BeginChange, Begin,
               ReadClock, world
<1>14. ASSUME NEW h \in Handlers, RouteAndRecord(h)
       PROVE  File(h) /\ minutes' = minutes
  BY <1>14 DEF RouteAndRecord, world
<1>15. CASE UNCHANGED vars
  BY <1>4, <1>15 DEF vars, demoVars
<1> QED
  BY <1>4, <1>6, <1>7, <1>9, <1>10, <1>11, <1>12, <1>13, <1>14, <1>15, Cases DEF Callers

LEMMA ClockReadKept ==
  ASSUME ClockInv, [Next]_vars
  PROVE  ClockRead'
<1>1. Types /\ Locked /\ ClockRead
  BY DEF ClockInv
<1>2. CASE UNCHANGED vars
  BY <1>1, <1>2 DEF vars, demoVars, ClockRead
<1>3. ASSUME NEW h \in Handlers, NEW where \in Places \ {"advance"}, Begin(h, where)
      PROVE  ClockRead'
  <2>1. \A k \in Handlers : pc'[k] # "advance"
    <3>1. /\ \A k \in Handlers : pc[k] = "idle"
          /\ pc' = [pc EXCEPT ![h] = where]
      BY <1>1, <1>3, BeginsAlone
    <3> QED
      BY <1>1, <3>1 DEF Types
  <2> QED
    BY <2>1 DEF ClockRead
<1>4. ASSUME NEW h \in Handlers,
             GenerateTraffic(h) \/ InjectIncident(h) \/ ClearIncidents(h) \/ Reset(h)
      PROVE  ClockRead'
  <2>1. \E where \in Places \ {"advance"} : Begin(h, where)
    BY <1>4 DEF GenerateTraffic, InjectIncident, ClearIncidents, Reset, BeginChange, Places
  <2> QED
    BY <1>3, <2>1
<1>5. ASSUME NEW h \in Handlers, ReadClock(h)
      PROVE  ClockRead'
  <2>1. /\ pc' = [pc EXCEPT ![h] = "advance"] /\ UNCHANGED <<service, own>>
        /\ offset' = [offset EXCEPT ![h] = service[own[h]].clock_offset]
        /\ pc[h] # "idle"
    BY <1>5 DEF ReadClock, Goto, world
  <2>2. \A k \in Handlers \ {h} : pc[k] = "idle"
    BY <1>1, <2>1 DEF Locked
  <2> QED
    BY <1>1, <2>1, <2>2 DEF ClockRead, Types
<1>6. ASSUME NEW h \in Handlers,
             \/ AdvanceClock(h) \/ RouteAndRecord(h) \/ Filter(h) \/ AppendEvent(h)
             \/ Clear(h) \/ SetService(h)
      PROVE  ClockRead'
  <2>1. pc[h] # "idle" /\ \A k \in Handlers \ {h} : pc'[k] = pc[k]
    BY <1>1, <1>6 DEF AdvanceClock, RouteAndRecord, Filter, AppendEvent, Clear, SetService,
                      Leave, Goto, Types
  <2>2. \A k \in Handlers \ {h} : pc[k] = "idle"
    BY <1>1, <2>1 DEF Locked
  <2>3. pc'[h] # "advance"
    BY <1>1, <1>6 DEF AdvanceClock, RouteAndRecord, Filter, AppendEvent, Clear, SetService,
                      Leave, Goto, Types
  <2> QED
    BY <2>1, <2>2, <2>3 DEF ClockRead
<1>7. ASSUME NEW p \in Payments, Pay(p)
      PROVE  ClockRead'
  <2>1. /\ UNCHANGED <<pc, offset>>
        /\ \A k \in Handlers : own'[k] = own[k] /\ own[k] \in DOMAIN service
    BY <1>1, <1>7, DemoAssumption DEF Pay, Types, Callers
  <2>2. \A s \in DOMAIN service : service'[s].clock_offset = service[s].clock_offset
    <3>1. CASE UNCHANGED service
      BY <3>1
    <3>2. CASE File(p)
      BY <1>1, <3>2, FileTypes DEF Callers
    <3> QED
      BY <1>7, <3>1, <3>2 DEF Pay
  <2> QED
    BY <1>1, <2>1, <2>2 DEF ClockRead
<1>8. CASE Minute
  BY <1>1, <1>8 DEF Minute, ClockRead
<1> QED
  BY <1>2, <1>4, <1>5, <1>6, <1>7, <1>8, Cases

LEMMA OrderKept ==
  ASSUME ClockInv, [Next]_vars
  PROVE  RowsInOrder' /\ RowsPast'
<1>1. Types /\ RowsInOrder /\ RowsPast
  BY DEF ClockInv
<1>2. \A s \in DOMAIN service :
        s \in DOMAIN service' /\ Tick(s) \in Int /\ Tick(s)' \in Int /\ Tick(s) <= Tick(s)'
  BY TickGrows
<1>3. \A s \in DOMAIN service : \A n \in DOMAIN service[s].rows : service[s].rows[n].tick \in Int
  <2> SUFFICES ASSUME NEW s \in DOMAIN service, NEW n \in DOMAIN service[s].rows
               PROVE  service[s].rows[n].tick \in Int
    OBVIOUS
  <2>1. service \in Seq(Service)
    BY <1>1 DEF Types
  <2>2. service[s] \in Service
    BY <2>1
  <2> DEFINE Row == [whose : Callers, tick : Int]
             old == service[s].rows
  <2>3. old \in Seq(Row)
    BY <2>2 DEF Service
  <2>4. old[n] \in Row
    <3> HIDE DEF Row, old
    <3>1. n \in DOMAIN old
      BY DEF old
    <3> QED
      BY <2>3, <3>1
  <2> QED
    BY <2>4
<1>4. ASSUME \A s \in DOMAIN service' :
               IF s \in DOMAIN service THEN service'[s].rows = service[s].rows
               ELSE service'[s].rows = <<>>
      PROVE  RowsInOrder' /\ RowsPast'
  <2>1. \A s \in DOMAIN service' : \A n \in DOMAIN service'[s].rows :
          /\ s \in DOMAIN service /\ n \in DOMAIN service[s].rows
          /\ service'[s].rows[n] = service[s].rows[n]
          /\ service[s].rows[n].tick <= Tick(s)'
    <3> SUFFICES ASSUME NEW s \in DOMAIN service', NEW n \in DOMAIN service'[s].rows
                 PROVE  /\ s \in DOMAIN service /\ n \in DOMAIN service[s].rows
                        /\ service'[s].rows[n] = service[s].rows[n]
                        /\ service[s].rows[n].tick <= Tick(s)'
      OBVIOUS
    <3>1. /\ s \in DOMAIN service /\ n \in DOMAIN service[s].rows
          /\ service'[s].rows[n] = service[s].rows[n]
      BY <1>4
    <3>2. service[s].rows[n].tick <= Tick(s)
      BY <1>1, <3>1 DEF RowsPast
    <3> QED
      BY <1>2, <1>3, <3>1, <3>2
  <2> QED
    BY <1>1, <2>1 DEF RowsInOrder, RowsPast
<1>5. ASSUME NEW x \in Callers, File(x)
      PROVE  RowsInOrder' /\ RowsPast'
  <2> DEFINE k   == own[x]
             r   == [whose |-> x, tick |-> Tick(k)]
             old == service[k].rows
  <2>1. /\ k \in DOMAIN service /\ DOMAIN service' = DOMAIN service
        /\ \A s \in DOMAIN service \ {k} : service'[s] = service[s]
        /\ service'[k].rows = Append(old, r)
    BY <1>1, <1>5, ServiceFacts, FileTypes
  <2>2. old \in Seq([whose : Callers, tick : Int])
    BY <1>1, ServiceFacts DEF Service
  <2>3. r \in [whose : Callers, tick : Int] /\ r.tick = Tick(k)
    BY <1>1, ServiceFacts
  <2> HIDE DEF r, old
  <2>4. /\ DOMAIN Append(old, r) = DOMAIN old \cup {Len(old) + 1}
        /\ \A n \in DOMAIN old : Append(old, r)[n] = old[n]
        /\ Append(old, r)[Len(old) + 1] = r
        /\ \A n \in DOMAIN old : n \in Int /\ n < Len(old) + 1
    BY <2>2, <2>3, Appended
  <2>5. \A s \in DOMAIN service' : \A n \in DOMAIN service'[s].rows :
          service'[s].rows[n].tick \in Int /\ service'[s].rows[n].tick <= Tick(s)'
    <3> SUFFICES ASSUME NEW s \in DOMAIN service', NEW n \in DOMAIN service'[s].rows
                 PROVE  service'[s].rows[n].tick \in Int /\ service'[s].rows[n].tick <= Tick(s)'
      OBVIOUS
    <3>1. Tick(s) \in Int /\ Tick(s)' \in Int /\ Tick(s) <= Tick(s)'
      BY <1>2, <2>1
    <3>2. CASE s = k /\ n = Len(old) + 1
      BY <2>1, <2>3, <2>4, <3>1, <3>2
    <3>3. CASE ~(s = k /\ n = Len(old) + 1)
      <4>1. n \in DOMAIN service[s].rows /\ service'[s].rows[n] = service[s].rows[n]
        BY <2>1, <2>4, <3>3 DEF old
      <4>2. service[s].rows[n].tick <= Tick(s) /\ service[s].rows[n].tick \in Int
        BY <1>1, <1>3, <2>1, <4>1 DEF RowsPast
      <4> QED
        BY <3>1, <4>1, <4>2
    <3> QED
      BY <3>2, <3>3
  <2>6. RowsPast'
    BY <2>5 DEF RowsPast
  <2>7. RowsInOrder'
    <3> SUFFICES ASSUME NEW s \in DOMAIN service',
                        NEW m \in DOMAIN service'[s].rows, NEW n \in DOMAIN service'[s].rows, m < n
                 PROVE  service'[s].rows[m].tick <= service'[s].rows[n].tick
      BY DEF RowsInOrder
    <3>1. CASE s # k
      BY <1>1, <2>1, <3>1 DEF RowsInOrder
    <3>2. CASE s = k /\ n = Len(old) + 1
      <4>1. m \in DOMAIN old
        BY <2>1, <2>4, <3>2
      <4>2. service'[s].rows[m] = service[s].rows[m] /\ m \in DOMAIN service[s].rows
        BY <2>1, <2>4, <3>2, <4>1 DEF old
      <4>3. service[s].rows[m].tick <= Tick(s)
        BY <1>1, <2>1, <3>2, <4>2 DEF RowsPast
      <4>4. service'[s].rows[n].tick = Tick(s)
        BY <2>1, <2>3, <2>4, <3>2
      <4> QED
        BY <4>2, <4>3, <4>4
    <3>3. CASE s = k /\ n # Len(old) + 1
      <4>1. n \in DOMAIN old /\ m \in DOMAIN old
        BY <2>1, <2>4, <3>3
      <4> QED
        BY <1>1, <2>1, <2>4, <3>3, <4>1 DEF RowsInOrder, old
    <3> QED
      BY <3>1, <3>2, <3>3
  <2> QED
    BY <2>6, <2>7
<1>6. ASSUME NEW h \in Handlers, RouteAndRecord(h)
      PROVE  RowsInOrder' /\ RowsPast'
  BY <1>5, <1>6 DEF RouteAndRecord, Callers
<1>7. ASSUME NEW p \in Payments, Pay(p)
      PROVE  RowsInOrder' /\ RowsPast'
  <2>1. CASE UNCHANGED service
    BY <1>4, <2>1
  <2>2. CASE File(p)
    BY <1>5, <2>2 DEF Callers
  <2> QED
    BY <1>7, <2>1, <2>2 DEF Pay
<1> QED
  BY <1>1, <1>4, <1>6, <1>7, RowsKept

LEMMA ClockInvariant == Spec => []ClockInv
<1>1. Init => ClockInv
  <2>1. ASSUME Init PROVE Locked /\ ClockRead /\ RowsInOrder /\ RowsPast
    BY <2>1 DEF Init, Locked, ClockRead, RowsInOrder, RowsPast, NewService
  <2> QED
    BY <2>1, InitTypes DEF ClockInv
<1>2. ClockInv /\ [Next]_vars => ClockInv'
  BY TypesKept, LockedKept, ClockReadKept, OrderKept DEF ClockInv
<1> QED
  BY <1>1, <1>2, PTL DEF Spec

\* The first half of ClockKeepsPace: whoever files them and whatever is reset,
\* the rows of a service are in the order of their minutes (searchsorted relies
\* on it); the clock is never turned back, for it is written by one handler.
THEOREM FiledInOrder == Spec => []RowsInOrder
<1>1. ClockInv => RowsInOrder
  BY DEF ClockInv
<1> QED
  BY <1>1, ClockInvariant, PTL

-------------------------------------------------------------------------------
(* The clock keeps pace                                                      *)

\* A handler with a batch under way, and the transactions of it that are routed,
\* and that have moved the clock.
Batching(h) == pc[h] \in {"clock", "advance", "record"}

Ahead(h) == IF pc[h] = "record" THEN i[h] + 1 ELSE i[h]

Routed(s) ==
  {x \in TransactionsOn(s) :
     \A h \in Handlers : Batching(h) /\ x[1].request = requests - 1 => x[2] <= i[h]}

Clocked(s) ==
  {x \in TransactionsOn(s) :
     /\ x[2] % TX_PER_TICK = 0
     /\ \A h \in Handlers : Batching(h) /\ x[1].request = requests - 1 => x[2] <= Ahead(h)}

Batch == [request : Nat, count : 1..MaxCount, service : DOMAIN service]

\* The batches so far, and that of a handler under way, which is the last.
BatchesKnown ==
  /\ requests \in Nat
  /\ IsFiniteSet(batches) /\ batches \subseteq Batch
  /\ \A b \in batches : b.request < requests
  /\ \A a, b \in batches : a.request = b.request => a = b
  /\ \A h \in Handlers : Batching(h) =>
       /\ i[h] < count[h]
       /\ [request |-> requests - 1, count |-> count[h], service |-> own[h]] \in batches

PaceInv ==
  /\ BatchesKnown
  /\ \A s \in DOMAIN service :
       /\ service[s].clock_offset = Cardinality(Clocked(s))
       /\ Cardinality(RowsOf(s, Handlers)) = Cardinality(Routed(s))

\* A natural number is its quotient times the divisor, and the remainder.
LEMMA Division ==
  ASSUME NEW a \in Nat, NEW d \in Nat \ {0}, NEW q, q = a \div d, NEW r, r = a % d
  PROVE  q \in Nat /\ r \in Nat /\ r < d /\ a = d * q + r
<1>1. q \in Nat
  OBVIOUS
<1>2. r \in Nat /\ r < d
  OBVIOUS
<1>3. a = d * q + r
  OBVIOUS
<1> QED
  BY <1>1, <1>2, <1>3

\* Every TX_PER_TICK-th transaction completes a minute.
LEMMA MinuteCompleted ==
  ASSUME Types, NEW h \in Handlers
  PROVE  Elapsed(h) = IF (i[h] + 1) % TX_PER_TICK = 0 THEN 1 ELSE 0
<1> DEFINE T == TX_PER_TICK  a == i[h]  qa == a \div T  qb == (a + 1) \div T
           ra == a % T  rb == (a + 1) % T
<1>1. a \in Nat /\ T \in Nat \ {0}
  BY DemoAssumption DEF Types
<1>2. /\ qa \in Nat /\ ra \in Nat /\ ra < T /\ a = T * qa + ra
      /\ qb \in Nat /\ rb \in Nat /\ rb < T /\ a + 1 = T * qb + rb
  <2>1. a + 1 \in Nat
    BY <1>1
  <2> HIDE DEF a, T
  <2> QED
    BY <1>1, <2>1, Division
<1>3. Elapsed(h) = qb - qa /\ qb - qa \in Nat
  BY ElapsedIsNat DEF Elapsed
<1> HIDE DEF qa, qb, ra, rb, T, a
<1>4. PICK d \in Nat : d = qb - qa /\ qb = qa + d
  BY <1>2, <1>3
<1>5. T * qb = T * qa + T * d /\ T * qa \in Nat /\ T * d \in Nat
  BY <1>1, <1>2, <1>4
<1>6. T * d = ra + 1 - rb
  BY <1>1, <1>2, <1>5
<1>7. d = 0 \/ d = 1
  <2>1. SUFFICES ASSUME d >= 2 PROVE FALSE
    BY <1>4
  <2>2. PICK e \in Nat : d = e + 2
    BY <1>4, <2>1
  <2>3. T * d = T * e + T + T /\ T * e \in Nat
    BY <1>1, <2>2
  <2> QED
    BY <1>1, <1>2, <1>6, <2>3
<1>8. CASE d = 0
  <2>1. T * d = 0
    BY <1>1, <1>8
  <2>2. rb # 0
    BY <1>2, <1>6, <2>1
  <2> QED
    BY <1>3, <1>4, <1>8, <2>2 DEF rb, T, a
<1>9. CASE d = 1
  <2>1. T * d = T
    BY <1>1, <1>9
  <2>2. rb = 0
    BY <1>1, <1>2, <1>6, <2>1
  <2> QED
    BY <1>3, <1>4, <1>9, <2>2 DEF rb, T, a
<1> QED
  BY <1>7, <1>8, <1>9

LEMMA TransactionsFinite ==
  ASSUME BatchesKnown, NEW s
  PROVE  IsFiniteSet(TransactionsOn(s)) /\ IsFiniteSet(Routed(s)) /\ IsFiniteSet(Clocked(s))
<1>1. IsFiniteSet(batches) /\ IsFiniteSet(1..MaxCount)
  BY DemoAssumption, FS_Interval DEF BatchesKnown
<1>2. IsFiniteSet(batches \X (1..MaxCount))
  BY <1>1, FS_Product
<1>3. TransactionsOn(s) \in SUBSET (batches \X (1..MaxCount))
  BY DEF TransactionsOn
<1>4. IsFiniteSet(TransactionsOn(s))
  BY <1>2, <1>3, FS_Subset
<1>5. Routed(s) \in SUBSET TransactionsOn(s) /\ Clocked(s) \in SUBSET TransactionsOn(s)
  BY DEF Routed, Clocked
<1> QED
  BY <1>4, <1>5, FS_Subset

\* A transaction is of a batch known.
LEMMA OfABatch ==
  ASSUME BatchesKnown, NEW s, NEW x \in TransactionsOn(s)
  PROVE  /\ x = <<x[1], x[2]>> /\ x[1] \in batches /\ x[1].service = s /\ s \in DOMAIN service
         /\ x[1].request \in Nat /\ x[1].request < requests
         /\ x[2] \in Nat \ {0} /\ x[2] <= x[1].count
<1>1. x \in batches \X (1..MaxCount) /\ x[1].service = s /\ x[2] <= x[1].count
  BY DEF TransactionsOn
<1>2. x[1] \in batches /\ x[2] \in 1..MaxCount /\ x = <<x[1], x[2]>>
  BY <1>1
<1>3. x[1] \in Batch /\ x[1].request < requests
  BY <1>2 DEF BatchesKnown
<1> QED
  BY <1>1, <1>2, <1>3, DemoAssumption DEF Batch

\* Of a step that routes nothing and moves no clock.
LEMMA PaceStays ==
  ASSUME PaceInv, UNCHANGED batches, requests' \in {requests, requests + 1},
         DOMAIN service \subseteq DOMAIN service',
         \A s \in DOMAIN service :
           /\ service'[s].clock_offset = service[s].clock_offset
           /\ RowsOf(s, Handlers)' = RowsOf(s, Handlers)
           /\ Routed(s)' = Routed(s) /\ Clocked(s)' = Clocked(s),
         \A s \in DOMAIN service' \ DOMAIN service :
           service'[s].clock_offset = 0 /\ RowsOf(s, Handlers)' = {},
         \A h \in Handlers : Batching(h)' =>
           /\ Batching(h) /\ requests' = requests
           /\ i'[h] = i[h] /\ count'[h] = count[h] /\ own'[h] = own[h]
  PROVE  PaceInv'
<1>1. BatchesKnown'
  <2>1. requests' \in Nat /\ \A b \in batches : b.request \in Nat /\ b.request < requests'
    BY DEF PaceInv, BatchesKnown, Batch
  <2>2. batches \subseteq Batch'
    BY DEF PaceInv, BatchesKnown, Batch
  <2>3. \A h \in Handlers : Batching(h)' =>
          /\ i'[h] < count'[h]
          /\ [request |-> requests' - 1, count |-> count'[h], service |-> own'[h]] \in batches
    BY DEF PaceInv, BatchesKnown
  <2> QED
    BY <2>1, <2>2, <2>3 DEF PaceInv, BatchesKnown
<1>2. \A s \in DOMAIN service' \ DOMAIN service : Routed(s)' = {} /\ Clocked(s)' = {}
  <2> SUFFICES ASSUME NEW s \in DOMAIN service' \ DOMAIN service
               PROVE  Routed(s)' = {} /\ Clocked(s)' = {}
    OBVIOUS
  <2>1. TransactionsOn(s)' = TransactionsOn(s)
    BY DEF TransactionsOn
  <2>2. TransactionsOn(s) = {}
    BY OfABatch DEF PaceInv
  <2> QED
    BY <2>1, <2>2 DEF Routed, Clocked
<1>3. Cardinality({}) = 0
  BY FS_EmptySet
<1>4. ASSUME NEW s \in DOMAIN service'
      PROVE  /\ service'[s].clock_offset = Cardinality(Clocked(s)')
             /\ Cardinality(RowsOf(s, Handlers)') = Cardinality(Routed(s)')
  <2>1. CASE s \in DOMAIN service
    BY <2>1 DEF PaceInv
  <2>2. CASE s \notin DOMAIN service
    BY <1>2, <1>3, <2>2
  <2> QED
    BY <2>1, <2>2
<1> QED
  BY <1>1, <1>4 DEF PaceInv

\* With no batch under way, every transaction is routed.
LEMMA NoneUnderWay ==
  ASSUME \A h \in Handlers : ~Batching(h), NEW s
  PROVE  /\ Routed(s) = TransactionsOn(s)
         /\ Clocked(s) = {x \in TransactionsOn(s) : x[2] % TX_PER_TICK = 0}
BY DEF Routed, Clocked

\* A batch begins.
LEMMA BatchBegins ==
  ASSUME Types, Locked, PaceInv, NEW h \in Handlers, GenerateTraffic(h)
  PROVE  PaceInv'
<1>1. PICK n \in 1..MaxCount :
        /\ Begin(h, "clock")
        /\ count' = [count EXCEPT ![h] = n]
        /\ i' = [i EXCEPT ![h] = 0]
        /\ batches' = batches \cup {[request |-> requests, count |-> n, service |-> SERVICE]}
  BY DEF GenerateTraffic
<1>2. PICK b : b = [request |-> requests, count |-> n, service |-> SERVICE]
  OBVIOUS
<1>3. /\ b.request = requests /\ b.count = n /\ b.service = SERVICE
      /\ batches' = batches \cup {b} /\ requests' = requests + 1
      /\ own' = [own EXCEPT ![h] = SERVICE] /\ UNCHANGED service
      /\ SERVICE \in DOMAIN service /\ requests \in Nat /\ requests' \in Nat
      /\ BatchesKnown
  BY <1>1, <1>2 DEF Begin, PaceInv, BatchesKnown, Types
<1>4. /\ \A k \in Handlers : pc[k] = "idle"
      /\ pc' = [pc EXCEPT ![h] = "clock"]
  BY <1>1, BeginsAlone DEF Places
<1>5. /\ pc'[h] = "clock" /\ i'[h] = 0 /\ count'[h] = n /\ own'[h] = SERVICE
      /\ \A k \in Handlers \ {h} : pc'[k] = "idle"
  BY <1>1, <1>3, <1>4 DEF Types, Callers
<1>6. \A k \in Handlers : ~Batching(k) /\ (Batching(k)' <=> k = h)
  BY <1>4, <1>5 DEF Batching
<1>7. b \in Batch /\ n \in Nat /\ 0 < n
  BY <1>1, <1>2, <1>3, DemoAssumption DEF Batch
<1>8. BatchesKnown'
  <2>1. IsFiniteSet(batches')
    BY <1>3, FS_AddElement DEF BatchesKnown
  <2>2. batches' \subseteq Batch'
    BY <1>3, <1>7 DEF BatchesKnown, Batch
  <2>3. \A a \in batches : a.request \in Nat /\ a.request < requests
    BY <1>3 DEF BatchesKnown, Batch
  <2>4. \A a \in batches' : a.request < requests'
    BY <1>3, <2>3
  <2>5. \A a, c \in batches' : a.request = c.request => a = c
    BY <1>3, <2>3 DEF BatchesKnown
  <2>6. \A k \in Handlers : Batching(k)' =>
          /\ i'[k] < count'[k]
          /\ [request |-> requests' - 1, count |-> count'[k], service |-> own'[k]] \in batches'
    BY <1>2, <1>3, <1>5, <1>6, <1>7
  <2> QED
    BY <1>3, <2>1, <2>2, <2>4, <2>5, <2>6 DEF BatchesKnown
<1>9. ASSUME NEW s
      PROVE  Routed(s)' = Routed(s) /\ Clocked(s)' = Clocked(s)
  <2>1. TransactionsOn(s) \subseteq TransactionsOn(s)'
    BY <1>3 DEF TransactionsOn
  <2>2. \A x \in TransactionsOn(s)' :
          \/ x \in TransactionsOn(s)
          \/ x[1].request = requests' - 1 /\ x[2] \in Nat /\ ~(x[2] <= 0)
    <3> SUFFICES ASSUME NEW x \in TransactionsOn(s)'
                 PROVE  \/ x \in TransactionsOn(s)
                        \/ x[1].request = requests' - 1 /\ x[2] \in Nat /\ ~(x[2] <= 0)
      OBVIOUS
    <3>1. x \in batches' \X (1..MaxCount) /\ x[1].service = s /\ x[2] <= x[1].count
      BY DEF TransactionsOn
    <3>2. x[2] \in 1..MaxCount /\ x = <<x[1], x[2]>> /\ x[1] \in batches'
      BY <3>1
    <3>3. CASE x[1] \in batches
      BY <3>1, <3>2, <3>3 DEF TransactionsOn
    <3>4. CASE x[1] = b
      BY <1>3, <3>2, <3>4, DemoAssumption
    <3> QED
      BY <1>3, <3>2, <3>3, <3>4
  <2>3. \A x \in TransactionsOn(s) : x[1].request # requests' - 1
    BY <1>3, OfABatch
  <2>4. Ahead(h)' = 0
    BY <1>5 DEF Ahead
  <2>5. Routed(s)' = TransactionsOn(s)
    BY <1>5, <1>6, <2>1, <2>2, <2>3 DEF Routed
  <2>6. Clocked(s)' = {x \in TransactionsOn(s) : x[2] % TX_PER_TICK = 0}
    BY <1>6, <2>1, <2>2, <2>3, <2>4 DEF Clocked
  <2> QED
    BY <1>6, <2>5, <2>6, NoneUnderWay
<1>10. \A s \in DOMAIN service : RowsOf(s, Handlers)' = RowsOf(s, Handlers)
  BY <1>3 DEF RowsOf
<1> QED
  BY <1>3, <1>8, <1>9, <1>10 DEF PaceInv

\* What is routed of the batch under way, which is the only one.
LEMMA OneUnderWay ==
  ASSUME Types, Locked, PaceInv, NEW h \in Handlers, Batching(h)
  PROVE  /\ own[h] \in DOMAIN service /\ i[h] \in Nat /\ i[h] < count[h] /\ count[h] \in 1..MaxCount
         /\ \A k \in Handlers \ {h} : pc[k] = "idle"
         /\ \E b \in batches :
              /\ b.request = requests - 1 /\ b.count = count[h] /\ b.service = own[h]
              /\ \A s : \A x \in TransactionsOn(s) : x[1].request = requests - 1 <=> x[1] = b
              /\ \A s : Routed(s) = {x \in TransactionsOn(s) : x[1] = b => x[2] <= i[h]}
              /\ \A s : Clocked(s) = {x \in TransactionsOn(s) :
                                        /\ x[2] % TX_PER_TICK = 0
                                        /\ x[1] = b => x[2] <= Ahead(h)}
<1>1. BatchesKnown
  BY DEF PaceInv
<1>2. PICK b \in batches : b = [request |-> requests - 1, count |-> count[h], service |-> own[h]]
  BY <1>1 DEF BatchesKnown
<1>3. b.request = requests - 1 /\ b.count = count[h] /\ b.service = own[h]
  BY <1>2
<1>4. \A s : \A x \in TransactionsOn(s) : x[1].request = requests - 1 <=> x[1] = b
  <2> SUFFICES ASSUME NEW s, NEW x \in TransactionsOn(s)
               PROVE  x[1].request = requests - 1 <=> x[1] = b
    OBVIOUS
  <2>1. x[1] \in batches
    BY <1>1, OfABatch
  <2> QED
    BY <1>1, <1>3, <2>1 DEF BatchesKnown
<1>5. \A k \in Handlers \ {h} : pc[k] = "idle" /\ ~Batching(k)
  BY DEF Locked, Batching
<1>6. /\ \A s : Routed(s) = {x \in TransactionsOn(s) : x[1] = b => x[2] <= i[h]}
      /\ \A s : Clocked(s) = {x \in TransactionsOn(s) :
                                 /\ x[2] % TX_PER_TICK = 0
                                 /\ x[1] = b => x[2] <= Ahead(h)}
  BY <1>4, <1>5 DEF Routed, Clocked
<1>7. own[h] \in DOMAIN service /\ i[h] \in Nat /\ i[h] < count[h] /\ count[h] \in 1..MaxCount
  BY <1>1, <1>2, <1>3 DEF Types, BatchesKnown, Batch, Callers
<1> QED
  BY <1>3, <1>4, <1>5, <1>6, <1>7

\* The next transaction of a batch.
LEMMA NextTransaction ==
  ASSUME BatchesKnown, NEW b \in batches, NEW a \in Nat, a < b.count
  PROVE  /\ <<b, a + 1>> \in TransactionsOn(b.service)
         /\ \A s : s # b.service => \A x \in TransactionsOn(s) : x[1] # b
         /\ \A s : \A x \in TransactionsOn(s) :
              x[1] = b => (x[2] <= a + 1 <=> x[2] <= a \/ x = <<b, a + 1>>)
<1>1. b \in Batch /\ b.count \in 1..MaxCount /\ MaxCount \in Nat
  BY DemoAssumption DEF BatchesKnown, Batch
<1>2. a + 1 \in 1..MaxCount /\ a + 1 <= b.count
  BY <1>1
<1>3. <<b, a + 1>> \in TransactionsOn(b.service)
  BY <1>2 DEF TransactionsOn
<1>4. \A s : s # b.service => \A x \in TransactionsOn(s) : x[1] # b
  BY DEF TransactionsOn
<1>5. ASSUME NEW s, NEW x \in TransactionsOn(s), x[1] = b
      PROVE  x[2] <= a + 1 <=> x[2] <= a \/ x = <<b, a + 1>>
  <2>1. x = <<x[1], x[2]>> /\ x[2] \in Nat
    BY OfABatch
  <2> QED
    BY <1>5, <2>1
<1> QED
  BY <1>3, <1>4, <1>5

\* A batch moves the clock by its next transaction.
LEMMA ClockAdvances ==
  ASSUME Types, Locked, ClockRead, PaceInv, NEW h \in Handlers, AdvanceClock(h)
  PROVE  PaceInv'
<1>1. /\ pc[h] = "advance" /\ pc' = [pc EXCEPT ![h] = "record"]
      /\ UNCHANGED <<batches, requests, own, i, count>>
  BY DEF AdvanceClock, Goto, world
<1>2. Batching(h) /\ Ahead(h) = i[h] /\ BatchesKnown
  BY <1>1 DEF Batching, Ahead, PaceInv
<1>3. /\ own[h] \in DOMAIN service /\ i[h] \in Nat /\ i[h] < count[h]
      /\ \A u \in Handlers \ {h} : pc[u] = "idle"
  BY <1>2, OneUnderWay
<1>0. PICK k : k = own[h]
  OBVIOUS
<1>4. PICK b \in batches :
        /\ b.request = requests - 1 /\ b.count = count[h] /\ b.service = k
        /\ \A s : \A x \in TransactionsOn(s) : x[1].request = requests - 1 <=> x[1] = b
        /\ \A s : Routed(s) = {x \in TransactionsOn(s) : x[1] = b => x[2] <= i[h]}
        /\ \A s : Clocked(s) = {x \in TransactionsOn(s) :
                                   /\ x[2] % TX_PER_TICK = 0
                                   /\ x[1] = b => x[2] <= i[h]}
  BY <1>0, <1>2, OneUnderWay
<1>5. /\ pc'[h] = "record" /\ \A u \in Handlers \ {h} : pc'[u] = "idle"
  BY <1>1, <1>3 DEF Types
<1>6. Batching(h)' /\ Ahead(h)' = i[h] + 1 /\ \A u \in Handlers \ {h} : ~Batching(u)'
  BY <1>1, <1>5 DEF Batching, Ahead
<1>7. \A s : TransactionsOn(s)' = TransactionsOn(s)
  BY <1>1 DEF TransactionsOn
<1>8. \A s : Routed(s)' = Routed(s)
  BY <1>1, <1>4, <1>6, <1>7 DEF Routed
<1>9. \A s : Clocked(s)' = {x \in TransactionsOn(s) :
                               /\ x[2] % TX_PER_TICK = 0
                               /\ x[1] = b => x[2] <= i[h] + 1}
  BY <1>1, <1>4, <1>6, <1>7 DEF Clocked
<1> DEFINE t == <<b, i[h] + 1>>
<1>10. /\ t \in TransactionsOn(k)
       /\ \A s : s # k => \A x \in TransactionsOn(s) : x[1] # b
       /\ \A s : \A x \in TransactionsOn(s) : x[1] = b => (x[2] <= i[h] + 1 <=> x[2] <= i[h] \/ x = t)
  BY <1>0, <1>2, <1>3, <1>4, NextTransaction
<1>11. \A s : s # k => Clocked(s)' = Clocked(s)
  BY <1>4, <1>9, <1>10
<1>12. Clocked(k)' =
         IF (i[h] + 1) % TX_PER_TICK = 0 THEN Clocked(k) \cup {t} ELSE Clocked(k)
  <2>1. t[1] = b /\ t[2] = i[h] + 1 /\ ~(t[2] <= i[h])
    BY <1>3
  <2>2. t \notin Clocked(k)
    BY <1>4, <2>1
  <2> HIDE DEF t
  <2>3. \A x \in TransactionsOn(k) :
          x \in Clocked(k)' <=> x \in Clocked(k) \/ (x = t /\ t[2] % TX_PER_TICK = 0)
    BY <1>4, <1>9, <1>10, <2>1
  <2>4. /\ Clocked(k)' \subseteq TransactionsOn(k)
        /\ Clocked(k) \subseteq TransactionsOn(k)
    BY <1>4, <1>9
  <2> QED
    BY <1>10, <2>1, <2>3, <2>4
<1>13. t \notin Clocked(k)
  <2>1. t[1] = b /\ ~(t[2] <= i[h])
    BY <1>3
  <2> QED
    BY <1>4, <2>1
<1>14. Cardinality(Clocked(k)') = Cardinality(Clocked(k)) + Elapsed(h)
  <2>1. IsFiniteSet(Clocked(k))
    BY <1>2, TransactionsFinite
  <2>2. Elapsed(h) = IF (i[h] + 1) % TX_PER_TICK = 0 THEN 1 ELSE 0
    BY MinuteCompleted
  <2>3. Cardinality(Clocked(k)) \in Nat
    BY <2>1, FS_CardinalityType
  <2>4. Cardinality(Clocked(k) \cup {t}) = Cardinality(Clocked(k)) + 1
    BY <1>13, <2>1, FS_AddElement
  <2> QED
    BY <1>12, <2>2, <2>3, <2>4
<1>15. /\ DOMAIN service' = DOMAIN service
       /\ \A s \in DOMAIN service \ {k} : service'[s] = service[s]
       /\ service'[k].rows = service[k].rows
       /\ service'[k].clock_offset = service[k].clock_offset + Elapsed(h)
  <2>1. offset[h] = service[k].clock_offset
    BY <1>0, <1>1 DEF ClockRead
  <2> QED
    BY <1>0, <2>1, ClockTypes
<1>16. BatchesKnown'
  <2>1. \A u \in Handlers : Batching(u)' => Batching(u)
    BY <1>2, <1>6
  <2> QED
    BY <1>1, <1>2, <1>15, <2>1 DEF BatchesKnown, Batch
<1>17. ASSUME NEW s \in DOMAIN service'
       PROVE  /\ service'[s].clock_offset = Cardinality(Clocked(s)')
              /\ Cardinality(RowsOf(s, Handlers)') = Cardinality(Routed(s)')
  <2>1. RowsOf(s, Handlers)' = RowsOf(s, Handlers)
    BY <1>15 DEF RowsOf
  <2>2. Cardinality(RowsOf(s, Handlers)') = Cardinality(Routed(s)')
    BY <1>8, <1>15, <2>1 DEF PaceInv
  <2>3. service'[s].clock_offset = Cardinality(Clocked(s)')
    <3>1. CASE s = k
      BY <1>0, <1>3, <1>14, <1>15, <3>1 DEF PaceInv
    <3>2. CASE s # k
      BY <1>11, <1>15, <3>2 DEF PaceInv
    <3> QED
      BY <3>1, <3>2
  <2> QED
    BY <2>2, <2>3
<1> QED
  BY <1>16, <1>17 DEF PaceInv

\* The rows of handlers when x files one.
LEMMA RowsGrow ==
  ASSUME Types, NEW x \in Callers, File(x), NEW s \in DOMAIN service
  PROVE  /\ ~(s = own[x] /\ x \in Handlers) => RowsOf(s, Handlers)' = RowsOf(s, Handlers)
         /\ s = own[x] /\ x \in Handlers =>
              Cardinality(RowsOf(s, Handlers)') = Cardinality(RowsOf(s, Handlers)) + 1
<1> DEFINE r   == [whose |-> x, tick |-> Tick(own[x])]
           old == service[own[x]].rows
<1>1. /\ own[x] \in DOMAIN service /\ DOMAIN service' = DOMAIN service
      /\ \A u \in DOMAIN service \ {own[x]} : service'[u] = service[u]
      /\ service'[own[x]].rows = Append(old, r)
  BY ServiceFacts, FileTypes
<1>2. old \in Seq([whose : Callers, tick : Int])
  BY ServiceFacts DEF Service
<1>3. r \in [whose : Callers, tick : Int] /\ r.whose = x
  BY ServiceFacts
<1>4. IsFiniteSet(DOMAIN old)
  <2>1. DOMAIN old = 1..Len(old) /\ Len(old) \in Nat
    BY <1>2
  <2> QED
    BY <2>1, FS_Interval
<1> HIDE DEF r, old
<1>5. /\ DOMAIN Append(old, r) = DOMAIN old \cup {Len(old) + 1}
      /\ Len(old) + 1 \notin DOMAIN old
      /\ \A n \in DOMAIN old : Append(old, r)[n] = old[n]
      /\ Append(old, r)[Len(old) + 1] = r
  BY <1>2, <1>3, Appended
<1>6. CASE s # own[x]
  BY <1>1, <1>6 DEF RowsOf
<1>7. CASE s = own[x] /\ x \notin Handlers
  <2>1. RowsOf(s, Handlers) = {n \in DOMAIN old : old[n].whose \in Handlers}
    BY <1>7 DEF RowsOf, old
  <2>2. RowsOf(s, Handlers)' =
          {n \in DOMAIN old \cup {Len(old) + 1} : Append(old, r)[n].whose \in Handlers}
    BY <1>1, <1>5, <1>7 DEF RowsOf
  <2> QED
    BY <1>3, <1>5, <1>7, <2>1, <2>2
<1>8. CASE s = own[x] /\ x \in Handlers
  <2>1. RowsOf(s, Handlers) = {n \in DOMAIN old : old[n].whose \in Handlers}
    BY <1>8 DEF RowsOf, old
  <2>2. RowsOf(s, Handlers)' =
          {n \in DOMAIN old \cup {Len(old) + 1} : Append(old, r)[n].whose \in Handlers}
    BY <1>1, <1>5, <1>8 DEF RowsOf
  <2>3. RowsOf(s, Handlers)' = RowsOf(s, Handlers) \cup {Len(old) + 1}
    BY <1>3, <1>5, <1>8, <2>1, <2>2
  <2>4. Len(old) + 1 \notin RowsOf(s, Handlers) /\ RowsOf(s, Handlers) \in SUBSET DOMAIN old
    BY <1>5, <2>1
  <2>5. IsFiniteSet(RowsOf(s, Handlers))
    BY <1>4, <2>4, FS_Subset
  <2> QED
    BY <1>8, <2>3, <2>4, <2>5, FS_AddElement
<1> QED
  BY <1>6, <1>7, <1>8

\* A batch routes its next transaction, and ends with the last.
LEMMA TransactionRouted ==
  ASSUME Types, Locked, PaceInv, NEW h \in Handlers, RouteAndRecord(h)
  PROVE  PaceInv'
<1>1. /\ pc[h] = "record" /\ File(h) /\ i' = [i EXCEPT ![h] = i[h] + 1]
      /\ pc' = [pc EXCEPT ![h] = IF i'[h] < count[h] THEN "clock" ELSE "idle"]
      /\ UNCHANGED <<batches, requests, own, count>>
  BY DEF RouteAndRecord, Goto, Leave, world
<1>2. Batching(h) /\ Ahead(h) = i[h] + 1 /\ BatchesKnown
  BY <1>1 DEF Batching, Ahead, PaceInv
<1>3. /\ own[h] \in DOMAIN service /\ i[h] \in Nat /\ i[h] < count[h] /\ count[h] \in Nat
      /\ \A u \in Handlers \ {h} : pc[u] = "idle"
  BY <1>2, OneUnderWay
<1>0. PICK k : k = own[h]
  OBVIOUS
<1>4. PICK b \in batches :
        /\ b.request = requests - 1 /\ b.count = count[h] /\ b.service = k
        /\ \A s : \A x \in TransactionsOn(s) : x[1].request = requests - 1 <=> x[1] = b
        /\ \A s : Routed(s) = {x \in TransactionsOn(s) : x[1] = b => x[2] <= i[h]}
        /\ \A s : Clocked(s) = {x \in TransactionsOn(s) :
                                   /\ x[2] % TX_PER_TICK = 0
                                   /\ x[1] = b => x[2] <= i[h] + 1}
  BY <1>0, <1>2, OneUnderWay
<1>5. /\ i'[h] = i[h] + 1
      /\ pc'[h] = (IF i[h] + 1 < count[h] THEN "clock" ELSE "idle")
      /\ \A u \in Handlers \ {h} : pc'[u] = "idle"
  BY <1>1, <1>3 DEF Types
<1>6. /\ \A u \in Handlers \ {h} : ~Batching(u)'
      /\ Batching(h)' => i[h] + 1 < count[h] /\ Ahead(h)' = i[h] + 1
      /\ ~Batching(h)' => count[h] = i[h] + 1
  BY <1>3, <1>5 DEF Batching, Ahead
<1>7. \A s : TransactionsOn(s)' = TransactionsOn(s)
  BY <1>1 DEF TransactionsOn
<1>8. ASSUME ~Batching(h)', NEW s, NEW x \in TransactionsOn(s), x[1] = b
      PROVE  x[2] <= i[h] + 1
  BY <1>2, <1>4, <1>6, <1>8, OfABatch
<1>9. \A s : Routed(s)' = {x \in TransactionsOn(s) : x[1] = b => x[2] <= i[h] + 1}
  BY <1>1, <1>4, <1>5, <1>6, <1>7, <1>8 DEF Routed
<1>10. \A s : Clocked(s)' = Clocked(s)
  BY <1>1, <1>4, <1>6, <1>7, <1>8 DEF Clocked
<1> DEFINE t == <<b, i[h] + 1>>
<1>11. /\ t \in TransactionsOn(k)
       /\ \A s : s # k => \A x \in TransactionsOn(s) : x[1] # b
       /\ \A s : \A x \in TransactionsOn(s) : x[1] = b => (x[2] <= i[h] + 1 <=> x[2] <= i[h] \/ x = t)
  BY <1>0, <1>2, <1>3, <1>4, NextTransaction
<1>12. t[1] = b /\ ~(t[2] <= i[h])
  BY <1>3
<1> HIDE DEF t
<1>13. \A s : s # k => Routed(s)' = Routed(s)
  BY <1>4, <1>9, <1>11
<1>14. Routed(k)' = Routed(k) \cup {t} /\ t \notin Routed(k)
  <2>1. \A x \in TransactionsOn(k) :
          x \in Routed(k)' <=> x \in Routed(k) \/ x = t
    BY <1>4, <1>9, <1>11, <1>12
  <2>2. /\ Routed(k)' \subseteq TransactionsOn(k)
        /\ Routed(k) \subseteq TransactionsOn(k)
    BY <1>4, <1>9
  <2> QED
    BY <1>4, <1>11, <1>12, <2>1, <2>2
<1>15. Cardinality(Routed(k)') = Cardinality(Routed(k)) + 1
  BY <1>2, <1>14, TransactionsFinite, FS_AddElement
<1>16. /\ DOMAIN service' = DOMAIN service
       /\ \A s \in DOMAIN service : service'[s].clock_offset = service[s].clock_offset
  BY <1>0, <1>1, FileTypes DEF Callers
<1>17. BatchesKnown'
  <2>1. \A u \in Handlers : Batching(u)' =>
          /\ Batching(u) /\ i'[u] < count[u]
    BY <1>2, <1>5, <1>6
  <2> QED
    BY <1>1, <1>2, <1>16, <2>1 DEF BatchesKnown, Batch
<1>18. ASSUME NEW s \in DOMAIN service'
       PROVE  /\ service'[s].clock_offset = Cardinality(Clocked(s)')
              /\ Cardinality(RowsOf(s, Handlers)') = Cardinality(Routed(s)')
  <2>1. service'[s].clock_offset = Cardinality(Clocked(s)')
    BY <1>10, <1>16 DEF PaceInv
  <2>2. Cardinality(RowsOf(s, Handlers)) = Cardinality(Routed(s))
    BY <1>16 DEF PaceInv
  <2>3. Cardinality(RowsOf(s, Handlers)') = Cardinality(Routed(s)')
    <3>1. CASE s = k
      BY <1>0, <1>1, <1>15, <1>16, <2>2, <3>1, RowsGrow DEF Callers
    <3>2. CASE s # k
      BY <1>0, <1>1, <1>13, <1>16, <2>2, <3>2, RowsGrow DEF Callers
    <3> QED
      BY <3>1, <3>2
  <2> QED
    BY <2>1, <2>3
<1> QED
  BY <1>17, <1>18 DEF PaceInv

\* What is routed does not change with where handlers without a batch are.
LEMMA SameUnderWay ==
  ASSUME UNCHANGED batches,
         \/ \A h \in Handlers : ~Batching(h) /\ ~Batching(h)'
         \/ /\ UNCHANGED <<requests, i>>
            /\ \A h \in Handlers : Batching(h)' = Batching(h) /\ Ahead(h)' = Ahead(h),
         NEW s
  PROVE  Routed(s)' = Routed(s) /\ Clocked(s)' = Clocked(s)
<1>1. TransactionsOn(s)' = TransactionsOn(s)
  BY DEF TransactionsOn
<1> QED
  BY <1>1 DEF Routed, Clocked

\* The steps of an injection, a clearing or a reset.
LEMMA ChangeKeepsPace ==
  ASSUME Types, Locked, PaceInv, NEW h \in Handlers,
         \/ InjectIncident(h) \/ ClearIncidents(h) \/ Reset(h)
         \/ Filter(h) \/ AppendEvent(h) \/ Clear(h) \/ SetService(h)
  PROVE  PaceInv'
<1>1. \A k \in Handlers : ~Batching(k) /\ ~Batching(k)'
  <2>1. CASE InjectIncident(h) \/ ClearIncidents(h) \/ Reset(h)
    <3>1. PICK where \in {"filter", "clear", "reset"} : Begin(h, where)
      BY <2>1 DEF InjectIncident, ClearIncidents, Reset, BeginChange
    <3>2. (\A k \in Handlers : pc[k] = "idle") /\ pc' = [pc EXCEPT ![h] = where]
      BY <3>1, BeginsAlone DEF Places
    <3> QED
      BY <3>2 DEF Types, Batching
  <2>2. CASE Filter(h) \/ AppendEvent(h) \/ Clear(h) \/ SetService(h)
    <3>1. pc[h] \in {"filter", "append", "clear", "reset"}
      BY <2>2 DEF Filter, AppendEvent, Clear, SetService
    <3>2. /\ pc'[h] \in {"append", "clear", "idle"}
          /\ \A k \in Handlers \ {h} : pc'[k] = pc[k]
      BY <2>2, <3>1 DEF Filter, AppendEvent, Clear, SetService, Goto, Leave, Types
    <3>3. \A k \in Handlers \ {h} : pc[k] = "idle"
      BY <3>1 DEF Locked
    <3> QED
      BY <3>1, <3>2, <3>3 DEF Batching
  <2> QED
    BY <2>1, <2>2
<1>2. UNCHANGED batches /\ requests' \in {requests, requests + 1}
  BY DEF InjectIncident, ClearIncidents, Reset, BeginChange, Begin, Filter, AppendEvent, Clear,
         SetService, world
<1>3. \A s : Routed(s)' = Routed(s) /\ Clocked(s)' = Clocked(s)
  BY <1>1, <1>2, SameUnderWay
<1>4. /\ DOMAIN service \subseteq DOMAIN service'
      /\ \A s \in DOMAIN service :
           /\ service'[s].clock_offset = service[s].clock_offset
           /\ service'[s].rows = service[s].rows
      /\ \A s \in DOMAIN service' \ DOMAIN service :
           service'[s].clock_offset = 0 /\ service'[s].rows = <<>>
  <2>1. CASE InjectIncident(h) \/ ClearIncidents(h) \/ Reset(h)
    BY <2>1 DEF InjectIncident, ClearIncidents, Reset, BeginChange, Begin
  <2>2. CASE Filter(h) \/ Clear(h)
    <3>1. PICK g \in Gateways : service' = [service EXCEPT ![own[h]].events[g] = <<>>]
      BY <2>2 DEF Filter, Clear, Types
    <3>2. <<>> \in Seq(Int)
      OBVIOUS
    <3> QED
      BY <3>1, <3>2, EventTypes
  <2>3. CASE AppendEvent(h)
    <3>1. PICK g \in Gateways :
            service' = [service EXCEPT ![own[h]].events[g] =
                          Append(service[own[h]].events[g], Tick(own[h]))]
      BY <2>3 DEF AppendEvent, Types
    <3>2. service[own[h]] \in Service /\ Tick(own[h]) \in Int
      BY ServiceFacts DEF Callers
    <3>3. Append(service[own[h]].events[g], Tick(own[h])) \in Seq(Int)
      BY <3>2 DEF Service
    <3> QED
      BY <3>1, <3>3, EventTypes
  <2>4. CASE SetService(h)
    BY <2>4, NewServiceTypes DEF NewService
  <2> QED
    BY <2>1, <2>2, <2>3, <2>4
<1>5. /\ \A s \in DOMAIN service : RowsOf(s, Handlers)' = RowsOf(s, Handlers)
      /\ \A s \in DOMAIN service' \ DOMAIN service : RowsOf(s, Handlers)' = {}
  BY <1>4 DEF RowsOf
<1> QED
  BY <1>1, <1>2, <1>3, <1>4, <1>5, PaceStays

\* The steps that leave every batch where it is.
LEMMA OthersKeepPace ==
  ASSUME Types, Locked, PaceInv,
         \/ UNCHANGED vars \/ Minute
         \/ \E h \in Handlers : ReadClock(h)
         \/ \E p \in Payments : Pay(p)
  PROVE  PaceInv'
<1>1. /\ UNCHANGED <<batches, requests, i, count>>
      /\ \A h \in Handlers : own'[h] = own[h]
  <2>1. CASE UNCHANGED vars \/ Minute \/ \E h \in Handlers : ReadClock(h)
    BY <2>1 DEF vars, demoVars, Minute, ReadClock, world
  <2>2. CASE \E p \in Payments : Pay(p)
    BY <2>2, DemoAssumption DEF Pay, Types, Callers
  <2> QED
    BY <2>1, <2>2
<1>2. \A h \in Handlers : Batching(h)' = Batching(h) /\ Ahead(h)' = Ahead(h)
  <2>1. CASE UNCHANGED <<pc, i>>
    BY <2>1 DEF Batching, Ahead
  <2>2. ASSUME NEW h \in Handlers, ReadClock(h)
        PROVE  \A k \in Handlers : Batching(k)' = Batching(k) /\ Ahead(k)' = Ahead(k)
    <3>1. /\ pc[h] = "clock" /\ pc'[h] = "advance" /\ i' = i
          /\ \A k \in Handlers \ {h} : pc'[k] = pc[k]
      BY <2>2 DEF ReadClock, Goto, Types
    <3> QED
      BY <3>1 DEF Batching, Ahead
  <2> QED
    BY <2>1, <2>2 DEF vars, demoVars, Minute, Pay
<1>3. \A s : Routed(s)' = Routed(s) /\ Clocked(s)' = Clocked(s)
  BY <1>1, <1>2, SameUnderWay
<1>4. /\ DOMAIN service' = DOMAIN service
      /\ \A s \in DOMAIN service :
           /\ service'[s].clock_offset = service[s].clock_offset
           /\ RowsOf(s, Handlers)' = RowsOf(s, Handlers)
  <2>1. CASE UNCHANGED service
    BY <2>1 DEF RowsOf
  <2>2. ASSUME NEW p \in Payments, File(p)
        PROVE  /\ DOMAIN service' = DOMAIN service
               /\ \A s \in DOMAIN service :
                    /\ service'[s].clock_offset = service[s].clock_offset
                    /\ RowsOf(s, Handlers)' = RowsOf(s, Handlers)
    <3>1. p \in Callers /\ p \notin Handlers
      BY DemoAssumption DEF Callers
    <3> QED
      BY <2>2, <3>1, FileTypes, RowsGrow
  <2> QED
    BY <2>1, <2>2 DEF vars, demoVars, Minute, ReadClock, Pay
<1> QED
  BY <1>1, <1>2, <1>3, <1>4, PaceStays

LEMMA PaceKept ==
  ASSUME ClockInv, PaceInv, [Next]_vars
  PROVE  PaceInv'
<1>1. Types /\ Locked /\ ClockRead
  BY DEF ClockInv
<1> QED
  BY <1>1, BatchBegins, ClockAdvances, TransactionRouted, ChangeKeepsPace, OthersKeepPace, Cases

LEMMA InitiallyPaced ==
  ASSUME Init
  PROVE  PaceInv
<1>1. /\ batches = {} /\ requests = 0 /\ \A h \in Handlers : ~Batching(h)
      /\ DOMAIN service = {1} /\ service[1].clock_offset = 0 /\ service[1].rows = <<>>
  BY DEF Init, NewService, Batching
<1>2. Cardinality({}) = 0 /\ IsFiniteSet({})
  BY FS_EmptySet
<1>3. Routed(1) = {} /\ Clocked(1) = {} /\ RowsOf(1, Handlers) = {}
  BY <1>1 DEF Routed, Clocked, TransactionsOn, RowsOf
<1> QED
  BY <1>1, <1>2, <1>3 DEF PaceInv, BatchesKnown

\* The clock of a service has been moved by the batches begun on it, and all their
\* transactions are filed there, whenever no action is under way: of any number
\* of handlers, batches of any length, payments and resets between them.
THEOREM ClockInPace == Spec => []ClockKeepsPace
<1>1. ClockInv /\ PaceInv /\ [Next]_vars => PaceInv'
  BY PaceKept
<1>2. ClockInv /\ PaceInv => ClockKeepsPace
  <2> SUFFICES ASSUME ClockInv, PaceInv, \A h \in Handlers : pc[h] = "idle",
                      NEW s \in DOMAIN service
               PROVE  /\ service[s].clock_offset
                           = Cardinality({x \in TransactionsOn(s) : x[2] % TX_PER_TICK = 0})
                      /\ Cardinality(RowsOf(s, Handlers)) = Cardinality(TransactionsOn(s))
    BY DEF ClockKeepsPace, ClockInv
  <2>1. \A h \in Handlers : ~Batching(h)
    BY DEF Batching
  <2> QED
    BY <2>1, NoneUnderWay DEF PaceInv
<1> QED
  BY <1>1, <1>2, InitiallyPaced, ClockInvariant, PTL DEF Spec

===============================================================================
