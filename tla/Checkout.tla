------------------------------- MODULE Checkout -------------------------------
(***************************************************************************)
(* The merchant (checkout/app.py): POST /pay asks the routing service for  *)
(* a gateway, attempts the payment there and reports the outcome, three    *)
(* HTTP calls one after another.  A call that fails is answered 502, and   *)
(* whether the service has carried it out is not known.  The shopper who   *)
(* pays again is a new payment.                                            *)
(***************************************************************************)
EXTENDS Integers, Sequences

CONSTANTS
  Payments,
  MaxFaults  \* bound: calls that fail

VARIABLES
  step,     \* payment -> the call it makes next, or how it was answered
  charged,  \* payment -> what the attempt decided
  faults

payVars == <<step, charged, faults>>

Undecided == "undecided"

PayInit ==
  /\ step = [p \in Payments |-> "route"]
  /\ charged = [p \in Payments |-> Undecided]
  /\ faults = 0

To(p, where) == step' = [step EXCEPT ![p] = where]

\* _post: 502 for an error status, a refused connection, a timeout.
Answered(p, where) == To(p, where) /\ UNCHANGED faults

Lost(p) ==
  /\ faults < MaxFaults
  /\ faults' = faults + 1
  /\ To(p, "502")

\* A call that never arrives.
Undelivered(p) ==
  /\ step[p] \in {"route", "attempt", "outcome"}
  /\ Lost(p)
  /\ UNCHANGED charged

\* /route has no effect a payment depends on.
RouteCall(p) ==
  /\ step[p] = "route"
  /\ Answered(p, "attempt") \/ Lost(p)
  /\ UNCHANGED charged

\* /simulate/attempt stands for the acquirer: from here the money may have moved.
AttemptCall(p) ==
  /\ step[p] = "attempt"
  /\ \E success \in {"accepted", "declined"} : charged' = [charged EXCEPT ![p] = success]
  /\ Answered(p, "outcome") \/ Lost(p)

\* /outcome has arrived; Recorded is the answer of the service.
OutcomeCall(p) ==
  /\ step[p] = "outcome"
  /\ Answered(p, "recording")
  /\ UNCHANGED charged

\* Mutant: an /outcome that is not answered is sent again.
RecordedRetrying(p) ==
  /\ step[p] = "recording"
  /\ \/ Answered(p, "paid")
     \/ faults < MaxFaults /\ faults' = faults + 1 /\ To(p, "outcome")
  /\ UNCHANGED charged

Recorded(p) ==
  /\ step[p] = "recording"
  /\ Answered(p, "paid") \/ Lost(p)
  /\ UNCHANGED charged

===============================================================================
