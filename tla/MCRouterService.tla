---------------------------- MODULE MCRouterService ----------------------------
(***************************************************************************)
(* Values for RouterService: reports that differ in every column, one of   *)
(* them from an issuer and one from a gateway the service does not know.   *)
(***************************************************************************)
EXTENDS RouterService

CONSTANTS t1, t2, alpha, beta, phantom, HDFC, ICICI, other

MCReports ==
  { [gateway |-> alpha,   success |-> TRUE,  latency |-> 10, issuer |-> ICICI],
    [gateway |-> beta,    success |-> FALSE, latency |-> 20, issuer |-> other],
    [gateway |-> phantom, success |-> TRUE,  latency |-> 30, issuer |-> HDFC] }

===============================================================================
