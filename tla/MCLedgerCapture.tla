--------------------------- MODULE MCLedgerCapture ---------------------------
(* Model-checking instance of LedgerCapture alone. *)
EXTENDS LedgerCapture

FairSpec == Spec /\ Fairness
===============================================================================
