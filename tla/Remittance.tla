----------------------------- MODULE Remittance -----------------------------
(***************************************************************************)
(* What python/settlement.py promises the customers of the banks: money    *)
(* leaves one account, is on its way, and arrives at another or stays on   *)
(* its way, flagged ("fail-forward, not rollback").  None is made, none is *)
(* paid out twice, and nobody is overdrawn.                                *)
(***************************************************************************)
EXTENDS Integers

CONSTANTS
    Customers,      \* the accounts of the banks' customers
    Opening,        \* [Customers -> Nat]: what they start with
    Remittances     \* the records [id, src, dst, amt] that may be asked for

VARIABLES
    money,          \* what each account holds
    transit         \* the remittances that have left src and not reached dst

Init == money = Opening /\ transit = {}

(* A remittance number is used once: it is neither on its way again nor    *)
(* delivered again.                                                        *)
Send(r) ==
    /\ \A t \in transit : t.id # r.id
    /\ money[r.src] >= r.amt
    /\ money' = [money EXCEPT ![r.src] = @ - r.amt]
    /\ transit' = transit \cup {r}

Deliver(r) ==
    /\ r \in transit
    /\ money' = [money EXCEPT ![r.dst] = @ + r.amt]
    /\ transit' = transit \ {r}

Next == \E r \in Remittances : Send(r) \/ Deliver(r)

Spec == Init /\ [][Next]_<<money, transit>>
=============================================================================
