--------------------------- MODULE MCNodeSessions ---------------------------
(* Values for the runs of NodeSessions: two threads, one account  *)
(* with money for one of two withdrawals.                                  *)
EXTENDS NodeSessions, TLC

CONSTANTS web, sim, c1, c2, acc

Own == (web :> c1) @@ (sim :> c2)
MCOpening == acc :> 3
Req(kind, amt) == [kind |-> kind, acct |-> acc, amt |-> amt]
Some == {Req("D", 1), Req("W", 2), Req("S", 0)}
=============================================================================
