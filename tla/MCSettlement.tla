---------------------------- MODULE MCSettlement ----------------------------
(* Values for the runs of Settlement: two banks with one customer each.    *)
EXTENDS Settlement, TLC

CONSTANTS A, B, CH, ann, bob, nstA, nstB, c1, c2, nobody, nowhere

MCNodeOf == (ann :> A) @@ (bob :> B) @@ (nstA :> CH) @@ (nstB :> CH)
MCNostro == (A :> nstA) @@ (B :> nstB)
MCOpening == (ann :> 5) @@ (bob :> 3) @@ (nstA :> 9) @@ (nstB :> 3)
MCRank == (A :> 1) @@ (B :> 2) @@ (CH :> 3)

OrderOf(from, src, to, dst, amt) ==
    [from |-> from, src |-> src, to |-> to, dst |-> dst, amt |-> amt]
Pay(amt) == OrderOf(A, ann, B, bob, amt)
Back == OrderOf(B, bob, A, ann, 3)
ToNobody == OrderOf(A, ann, B, nobody, 2)
ToNowhere == OrderOf(A, ann, nowhere, bob, 2)
FromClearing == OrderOf(CH, nstA, B, bob, 1)
Self == OrderOf(A, ann, A, ann, 2)

(* Orders that succeed, that lack funds at the bank or at the clearing     *)
(* house, that name no account or no bank, one after the other.            *)
OneByOne == {<<Pay(2)>>, <<Back>>}
Mixed == {<<Pay(2), Back>>, <<Pay(4)>>, <<ToNobody, Pay(2)>>, <<ToNowhere>>,
          <<FromClearing>>, <<Self>>}
=============================================================================
