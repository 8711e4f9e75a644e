----------------------------- MODULE MCBankNode -----------------------------
(* Values for the runs of BankNode.                                        *)
EXTENDS BankNode, TLC

CONSTANTS chk, sav

MCType == (chk :> "C") @@ (sav :> "S")
MCSeed == (chk :> 6000) @@ (sav :> 4000)
NegativeOrLess == {-5000, 2500}
=============================================================================
