--------------------------- MODULE MCCobolBridge ---------------------------
(* Values for the runs of CobolBridge.                                     *)
EXTENDS CobolBridge, TLC

CONSTANTS chk, sav

MCType == (chk :> "C") @@ (sav :> "S")
MCSeed == (chk :> 6000) @@ (sav :> 40000)

Ask(op, a, amt, to) == [op |-> op, acct |-> a, amt |-> amt, to |-> to]

(* Withdrawals that fit once and a transfer, a freeze, the monthly runs    *)
(* and a batch.                                                            *)
MCCalls == {Ask("D", chk, 1500, "none"), Ask("D", "none", 1500, "none"), Ask("W", chk, 4500, "none"), Ask("T", chk, 4500, sav),
            Ask("UPDATE", chk, 0, "F"), Ask("INTEREST", "none", 0, "none"),
            Ask("FEES", "none", 0, "none"), Ask("BATCH", "none", 0, "none")}
MCTransfers == {Ask("T", chk, 4500, sav), Ask("D", chk, 1500, "none")}

MCBatch == <<Ask("D", sav, 1000, "none"), Ask("T", sav, 4500, chk), Ask("W", sav, 30000, "none"),
             Ask("W", sav, 30000, "none"), Ask("I", chk, 100, "none")>>
=============================================================================
