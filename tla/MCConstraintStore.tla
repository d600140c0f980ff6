--------------------------- MODULE MCConstraintStore ---------------------------
(***************************************************************************)
(* ConstraintStore with two gateways, two issuers (one of them spelled two *)
(* ways), the diagnoses from_diagnosis accepts and one for each gate that  *)
(* declines.                                                               *)
(***************************************************************************)
EXTENDS ConstraintStore

CONSTANTS alpha, delta, phantom, hdfc, icici, HDFC, Hdfc, ICICI

MCSpellings == {HDFC, Hdfc, ICICI}
MCCanonical == [s \in MCSpellings |-> IF s = ICICI THEN icici ELSE hdfc]

Conclusion(scope, gateway, issuer, confident) ==
  [scope |-> scope, gateway |-> gateway, issuer |-> issuer, confident |-> confident]

MCDiagnoses ==
  { Conclusion("single_gateway", alpha, Absent, TRUE),
    Conclusion("single_gateway", delta, HDFC, TRUE),
    Conclusion("issuer_specific", delta, HDFC, TRUE),
    Conclusion("issuer_specific", delta, Hdfc, TRUE),
    Conclusion("issuer_specific", alpha, ICICI, TRUE),
    Conclusion("issuer_specific", delta, Absent, TRUE),
    Conclusion("issuer_specific", delta, ICICI, FALSE),
    Conclusion("single_gateway", phantom, Absent, TRUE),
    Conclusion("fleet_wide", delta, Absent, TRUE),
    Conclusion("no_incident", Absent, Absent, TRUE) }

SomeCanary == BOOLEAN
NoCanary == {FALSE}

===============================================================================
