------------------------------ MODULE MCClosedLoop ------------------------------
(***************************************************************************)
(* Two gateways, two issuers, six payments in five minutes, the first two  *)
(* in one; the agent wakes before there is anything to see, after three    *)
(* minutes, and a minute later, for a window that leaves the first out.    *)
(***************************************************************************)
EXTENDS ClosedLoop

\* The case asks about all minutes but the first.
MCCaseWindow == [start |-> 1, end |-> 5]

MCDetect == <<0, 3, 4>>

===============================================================================
