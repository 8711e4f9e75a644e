------------------------- MODULE NodeSessions_proofs -------------------------
(***************************************************************************)
(* Proofs about NodeSessions, for any threads, connections and requests.   *)
(* A lemma for each of the three things a statement may do to a connection *)
(* (read, write, commit) says what that leaves true of the databases; one  *)
(* lemma per action then says what becomes of its thread.                  *)
(***************************************************************************)
EXTENDS NodeSessions, SequenceTheorems, TLAPS

-----------------------------------------------------------------------------
(* Prefixes and extensions                                                 *)

LEMMA PrefixMeans ==
    ASSUME NEW S, NEW s \in Seq(S), NEW t \in Seq(S)
    PROVE  IsPrefix(s, t) <=> Len(s) <= Len(t) /\ \A i \in 1..Len(s) : s[i] = t[i]
<1>1. CASE Len(s) <= Len(t)
  <2>1. /\ SubSeq(s, 1, Len(s)) = [i \in 1..Len(s) |-> s[i]]
        /\ SubSeq(t, 1, Len(s)) = [i \in 1..Len(s) |-> t[i]]
    BY <1>1
  <2> QED
    BY <1>1, <2>1 DEF IsPrefix
<1>2. CASE ~(Len(s) <= Len(t))
  BY <1>2 DEF IsPrefix
<1> QED
  BY <1>1, <1>2

LEMMA AppendPrefix ==
    ASSUME NEW S, NEW s \in Seq(S), NEW x \in S
    PROVE  IsPrefix(s, s) /\ IsPrefix(s, Append(s, x))
<1>1. /\ Append(s, x) \in Seq(S) /\ Len(s) \in Nat /\ Len(Append(s, x)) = Len(s) + 1
      /\ \A i \in 1..Len(s) : Append(s, x)[i] = s[i]
  OBVIOUS
<1>2. IsPrefix(s, s)
  BY PrefixMeans
<1> DEFINE t == Append(s, x)
<1>3. t \in Seq(S) /\ Len(s) <= Len(t) /\ \A i \in 1..Len(s) : s[i] = t[i]
  BY <1>1
<1> HIDE DEF t
<1>4. IsPrefix(s, t)
  BY <1>3, PrefixMeans
<1> QED
  BY <1>2, <1>4 DEF t

LEMMA PrefixTransitive ==
    ASSUME NEW S, NEW s \in Seq(S), NEW t \in Seq(S), NEW u \in Seq(S),
           IsPrefix(s, t), IsPrefix(t, u)
    PROVE  IsPrefix(s, u)
BY PrefixMeans

LEMMA DbFields ==
    ASSUME NEW v \in NodeDb
    PROVE  /\ v = [bal |-> v.bal, frozen |-> v.frozen, txs |-> v.txs, chain |-> v.chain]
           /\ v.bal \in [Accounts -> Int] /\ v.frozen \in SUBSET Accounts
           /\ v.txs \in Seq(Row) /\ v.chain \in Seq(Entry)
           /\ Len(v.txs) \in Nat /\ Len(v.chain) \in Nat
           /\ DOMAIN v.txs = 1..Len(v.txs) /\ DOMAIN v.chain = 1..Len(v.chain)
BY DEF NodeDb

LEMMA ExtendsItself == ASSUME NEW v \in NodeDb PROVE Extends(v, v)
BY DbFields, AppendPrefix, PrefixMeans DEF Extends

LEMMA ExtendsTransitive ==
    ASSUME NEW u \in NodeDb, NEW v \in NodeDb, NEW w \in NodeDb, Extends(w, v), Extends(v, u)
    PROVE  Extends(w, u)
BY DbFields, PrefixTransitive DEF Extends

LEMMA ExtendsLonger ==
    ASSUME NEW u \in NodeDb, NEW v \in NodeDb, Extends(v, u)
    PROVE  Len(u.txs) <= Len(v.txs)
BY DbFields, PrefixMeans DEF Extends

(* In a table numbered without gaps the next number is that of the next    *)
(* row.                                                                    *)
LEMMA MaxNumber ==
    ASSUME NEW v \in NodeDb, ViewOK(v)
    PROVE  Max({0} \cup {v.txs[i].num : i \in DOMAIN v.txs}) = Len(v.txs)
<1> DEFINE n == Len(v.txs)
           S == {0} \cup {v.txs[i].num : i \in DOMAIN v.txs}
<1>1. n \in Nat /\ DOMAIN v.txs = 1..n
  BY DbFields
<1>2. \A i \in DOMAIN v.txs : v.txs[i].num = i
  BY DEF ViewOK
<1> HIDE DEF n
<1>3. S = 0..n
  BY <1>1, <1>2
<1> HIDE DEF S
<1>4. n \in S /\ \A y \in S : n >= y
  BY <1>1, <1>3
<1>5. Max(S) \in S /\ \A y \in S : Max(S) >= y
  BY <1>4 DEF Max
<1>6. Max(S) = n
  BY <1>1, <1>3, <1>5
<1> QED
  BY <1>6 DEF S, n

-----------------------------------------------------------------------------
(* What the statements do to the databases                                 *)

DbsOK ==
    /\ disk \in NodeDb /\ tx \in [Conns -> Transaction]
    /\ SnapshotsOK /\ ViewsOK

LEMMA EmptyNodeOK == EmptyNode \in NodeDb /\ ViewOK(EmptyNode)
<1>1. EmptyNode \in NodeDb
  BY SessionsAssumption, EmptySeq DEF EmptyNode, NodeDb
<1>2. DOMAIN EmptyNode.txs = {}
  BY DEF EmptyNode
<1>3. \A a \in Accounts : EmptyNode.bal[a] >= 0
  BY SessionsAssumption DEF EmptyNode
<1> QED
  BY <1>1, <1>2, <1>3 DEF ViewOK

LEMMA ViewFacts ==
    ASSUME DbsOK, NEW c \in Conns
    PROVE  /\ tx[c].mode \in {"auto", "begun", "read", "write"} /\ tx[c].view \in NodeDb
           /\ tx[c] = [mode |-> tx[c].mode, view |-> tx[c].view]
           /\ View(c) \in NodeDb /\ ViewOK(View(c))
           /\ MayWrite(c) => Extends(View(c), disk)
<1>1. /\ tx[c] \in Transaction /\ tx[c].mode \in {"auto", "begun", "read", "write"}
      /\ tx[c].view \in NodeDb /\ disk \in NodeDb
      /\ tx[c] = [mode |-> tx[c].mode, view |-> tx[c].view]
  BY DEF DbsOK, Transaction
<1>2. View(c) \in NodeDb /\ ViewOK(View(c))
  BY <1>1 DEF DbsOK, ViewsOK, View
<1>3. ASSUME MayWrite(c) PROVE Extends(View(c), disk)
  BY <1>1, <1>3, ExtendsItself DEF MayWrite, View, DbsOK, SnapshotsOK
<1> QED
  BY <1>1, <1>2, <1>3

LEMMA ReadKeeps ==
    ASSUME DbsOK, NEW c \in Conns, disk' = disk, tx' = [tx EXCEPT ![c] = AfterRead(c)]
    PROVE  /\ DbsOK'
           /\ \A d \in Conns : View(d)' = View(d) /\ (d # c => tx'[d] = tx[d])
           /\ tx'[c] = tx[c] \/ (tx[c].mode # "write" /\ tx'[c] = [mode |-> "read", view |-> disk])
<1>1. /\ \A d \in Conns : d # c => tx'[d] = tx[d]
      /\ tx'[c] = AfterRead(c)
      /\ disk \in NodeDb /\ tx \in [Conns -> Transaction]
  BY DEF DbsOK
<1>2. tx'[c] = tx[c] \/ (tx[c].mode = "begun" /\ tx'[c] = [mode |-> "read", view |-> disk])
  BY <1>1 DEF AfterRead
<1>3. View(c)' = View(c)
  BY <1>2 DEF View
<1>4. \A d \in Conns : View(d)' = View(d)
  BY <1>1, <1>3 DEF View
<1>5. tx' \in [Conns -> Transaction]
  <2>1. AfterRead(c) \in Transaction
    BY <1>1 DEF AfterRead, Transaction
  <2> QED
    BY <1>1, <2>1
<1>6. ASSUME NEW d \in Conns
      PROVE  /\ tx'[d].mode = "read" => Extends(disk, tx'[d].view)
             /\ tx'[d].mode = "write" => tx[d].mode = "write" /\ tx'[d] = tx[d]
             /\ ViewOK(tx'[d].view)
  <2>1. CASE tx'[d] = tx[d]
    BY <2>1 DEF DbsOK, SnapshotsOK, ViewsOK
  <2>2. CASE tx'[d] = [mode |-> "read", view |-> disk]
    BY <2>2, <1>1, ExtendsItself DEF DbsOK, ViewsOK
  <2> QED
    BY <1>1, <1>2, <2>1, <2>2
<1>7. SnapshotsOK'
  <2>1. ASSUME NEW d \in Conns, tx'[d].mode = "write"
        PROVE  Extends(tx'[d].view, disk) /\ ~LockedByOther(d)'
    <3>1. tx[d].mode = "write" /\ tx'[d] = tx[d]
      BY <1>6, <2>1
    <3>2. Extends(tx[d].view, disk) /\ ~LockedByOther(d)
      BY <3>1 DEF DbsOK, SnapshotsOK
    <3> QED
      BY <3>1, <3>2, <1>6 DEF LockedByOther
  <2> QED
    BY <1>6, <2>1 DEF SnapshotsOK
<1>8. ViewsOK'
  BY <1>6 DEF ViewsOK, DbsOK
<1> QED
  BY <1>1, <1>2, <1>4, <1>5, <1>7, <1>8 DEF DbsOK

LEMMA WriteKeeps ==
    ASSUME DbsOK, NEW c \in Conns, NEW v \in NodeDb, MayWrite(c),
           Extends(v, View(c)), ViewOK(v), disk' = disk, tx' = Written(c, v)
    PROVE  /\ DbsOK'
           /\ \A d \in Conns : Extends(View(d)', View(d)) /\ (d # c => tx'[d] = tx[d])
           /\ tx'[c] = [mode |-> "write", view |-> v]
           /\ View(c)' = v
<1>1. /\ \A d \in Conns : d # c => tx'[d] = tx[d]
      /\ tx'[c] = [mode |-> "write", view |-> v]
      /\ disk \in NodeDb /\ tx \in [Conns -> Transaction]
  BY DEF DbsOK, Written
<1>2. View(c)' = v /\ \A d \in Conns : d # c => View(d)' = View(d)
  BY <1>1 DEF View
<1>3. \A d \in Conns : Extends(View(d)', View(d))
  BY <1>2, ViewFacts, ExtendsItself
<1>4. tx' \in [Conns -> Transaction]
  BY <1>1 DEF Written, Transaction
<1>5. Extends(v, disk)
  BY <1>1, ViewFacts, ExtendsTransitive
<1>6. \A d \in Conns : d # c => tx[d].mode # "write"
  BY DEF MayWrite, LockedByOther
<1>7. SnapshotsOK'
  <2>1. ASSUME NEW d \in Conns, tx'[d].mode = "read" PROVE Extends(disk, tx'[d].view)
    BY <2>1, <1>1 DEF DbsOK, SnapshotsOK
  <2>2. ASSUME NEW d \in Conns, tx'[d].mode = "write"
        PROVE  Extends(tx'[d].view, disk) /\ ~LockedByOther(d)'
    BY <2>2, <1>1, <1>5, <1>6 DEF LockedByOther
  <2> QED
    BY <2>1, <2>2 DEF SnapshotsOK
<1>8. ViewsOK'
  BY <1>1 DEF ViewsOK, DbsOK
<1> QED
  BY <1>1, <1>2, <1>3, <1>4, <1>7, <1>8 DEF DbsOK

LEMMA CommitKeeps ==
    ASSUME DbsOK, NEW c \in Conns, Committed(c)
    PROVE  /\ DbsOK'
           /\ Extends(disk', disk)
           /\ \A d \in Conns : Extends(View(d)', View(d)) /\ (d # c => tx'[d] = tx[d])
           /\ tx'[c] = NoTx
           /\ disk' = IF tx[c].mode = "write" THEN tx[c].view ELSE disk
<1>1. /\ \A d \in Conns : d # c => tx'[d] = tx[d]
      /\ tx'[c] = NoTx
      /\ disk \in NodeDb /\ tx \in [Conns -> Transaction] /\ tx[c].view \in NodeDb
      /\ disk' = IF tx[c].mode = "write" THEN tx[c].view ELSE disk
  BY ViewFacts DEF DbsOK, Committed
<1>2. disk' \in NodeDb /\ ViewOK(disk')
  BY <1>1 DEF DbsOK, ViewsOK
<1>3. Extends(disk', disk)
  BY <1>1, ExtendsItself DEF DbsOK, SnapshotsOK
<1>4. NoTx \in Transaction /\ ViewOK(NoTx.view) /\ NoTx.mode = "auto"
  BY EmptyNodeOK DEF NoTx, Transaction
<1>5. tx' \in [Conns -> Transaction]
  BY <1>4 DEF DbsOK, Committed
<1>6. ASSUME NEW d \in Conns, d # c
      PROVE  /\ tx[d].mode = "write" => disk' = disk
             /\ tx[d].mode = "read" => Extends(disk', tx[d].view)
  <2>1. ASSUME tx[d].mode = "write" PROVE disk' = disk
    BY <2>1, <1>1, <1>6 DEF DbsOK, SnapshotsOK, LockedByOther
  <2>2. ASSUME tx[d].mode = "read" PROVE Extends(disk', tx[d].view)
    <3>1. Extends(disk, tx[d].view) /\ tx[d].view \in NodeDb
      BY <2>2, ViewFacts DEF DbsOK, SnapshotsOK
    <3> QED
      BY <3>1, <1>1, <1>2, <1>3, ExtendsTransitive
  <2> QED
    BY <2>1, <2>2
<1>7. SnapshotsOK'
  <2>1. ASSUME NEW d \in Conns, tx'[d].mode = "read" PROVE Extends(disk', tx'[d].view)
    BY <2>1, <1>1, <1>4, <1>6
  <2>2. ASSUME NEW d \in Conns, tx'[d].mode = "write"
        PROVE  Extends(tx'[d].view, disk') /\ ~LockedByOther(d)'
    <3>1. d # c /\ tx'[d] = tx[d] /\ disk' = disk
      BY <2>2, <1>1, <1>4, <1>6
    <3>2. Extends(tx[d].view, disk) /\ ~LockedByOther(d)
      BY <2>2, <3>1 DEF DbsOK, SnapshotsOK
    <3> QED
      BY <3>1, <3>2, <1>1, <1>4 DEF LockedByOther
  <2> QED
    BY <2>1, <2>2 DEF SnapshotsOK
<1>8. ViewsOK'
  BY <1>1, <1>2, <1>4 DEF ViewsOK, DbsOK
<1>9. ASSUME NEW d \in Conns PROVE Extends(View(d)', View(d))
  <2>1. CASE d = c
    <3>1. View(c)' = disk'
      BY <1>1, <1>4 DEF View
    <3>2. View(c) = disk' \/ View(c) = disk \/ (tx[c].mode = "read" /\ View(c) = tx[c].view /\ disk' = disk)
      BY <1>1 DEF View
    <3>3. tx[c].mode = "read" => Extends(disk, tx[c].view)
      BY DEF DbsOK, SnapshotsOK
    <3> QED
      BY <2>1, <3>1, <3>2, <3>3, <1>2, <1>3, ExtendsItself
  <2>2. CASE d # c
    <3>1. tx'[d] = tx[d]
      BY <2>2, <1>1
    <3>2. \/ tx[d].mode \in {"read", "write"} /\ View(d)' = View(d)
          \/ tx[d].mode \notin {"read", "write"} /\ View(d)' = disk' /\ View(d) = disk
      BY <3>1 DEF View
    <3> QED
      BY <3>2, <1>3, ViewFacts, ExtendsItself
  <2> QED
    BY <2>1, <2>2
<1> QED
  BY <1>1, <1>2, <1>3, <1>5, <1>7, <1>8, <1>9 DEF DbsOK

-----------------------------------------------------------------------------
(* What is written into a view                                             *)

LEMMA FieldChanged ==
    ASSUME NEW v \in NodeDb, NEW x
    PROVE  /\ [v EXCEPT !.bal = x] = [bal |-> x, frozen |-> v.frozen, txs |-> v.txs, chain |-> v.chain]
           /\ [v EXCEPT !.frozen = x] = [bal |-> v.bal, frozen |-> x, txs |-> v.txs, chain |-> v.chain]
           /\ [v EXCEPT !.txs = x] = [bal |-> v.bal, frozen |-> v.frozen, txs |-> x, chain |-> v.chain]
           /\ [v EXCEPT !.chain = x] = [bal |-> v.bal, frozen |-> v.frozen, txs |-> v.txs, chain |-> x]
<1>1. v \in [bal : [Accounts -> Int], frozen : SUBSET Accounts, txs : Seq(Row), chain : Seq(Entry)]
  BY DEF NodeDb
<1> QED
  BY <1>1

LEMMA RowAdded ==
    ASSUME NEW v \in NodeDb, ViewOK(v), NEW row \in Row, row.num = Len(v.txs) + 1
    PROVE  LET w == [v EXCEPT !.txs = Append(@, row)]
           IN  /\ w \in NodeDb /\ ViewOK(w) /\ Extends(w, v)
               /\ w.txs = Append(v.txs, row) /\ w.chain = v.chain
<1> DEFINE w == [v EXCEPT !.txs = Append(@, row)]
<1>1. w = [bal |-> v.bal, frozen |-> v.frozen, txs |-> Append(v.txs, row), chain |-> v.chain]
  BY FieldChanged
<1>2. /\ v.txs \in Seq(Row) /\ Append(v.txs, row) \in Seq(Row)
      /\ v.chain \in Seq(Entry) /\ Len(v.txs) \in Nat
      /\ v.bal \in [Accounts -> Int] /\ v.frozen \in SUBSET Accounts
  BY DbFields
<1> HIDE DEF w
<1>3. w \in NodeDb
  BY <1>1, <1>2 DEF NodeDb
<1>4. /\ DOMAIN w.txs = 1..(Len(v.txs) + 1) /\ DOMAIN v.txs = 1..Len(v.txs)
      /\ \A i \in 1..Len(v.txs) : w.txs[i] = v.txs[i]
      /\ w.txs[Len(v.txs) + 1] = row
  BY <1>1, <1>2
<1>5. ViewOK(w)
  BY <1>1, <1>2, <1>4 DEF ViewOK
<1>6. Extends(w, v)
  BY <1>1, <1>2, AppendPrefix, PrefixMeans DEF Extends
<1> QED
  BY <1>1, <1>3, <1>5, <1>6 DEF w

LEMMA EntryAdded ==
    ASSUME NEW v \in NodeDb, ViewOK(v), NEW e \in Entry
    PROVE  LET w == [v EXCEPT !.chain = Append(@, e)]
           IN  /\ w \in NodeDb /\ ViewOK(w) /\ Extends(w, v)
               /\ w.txs = v.txs /\ w.chain = Append(v.chain, e)
<1> DEFINE w == [v EXCEPT !.chain = Append(@, e)]
<1>1. w = [bal |-> v.bal, frozen |-> v.frozen, txs |-> v.txs, chain |-> Append(v.chain, e)]
  BY FieldChanged
<1>2. /\ v.txs \in Seq(Row) /\ Append(v.chain, e) \in Seq(Entry) /\ v.chain \in Seq(Entry)
      /\ v.bal \in [Accounts -> Int] /\ v.frozen \in SUBSET Accounts
  BY DbFields
<1> HIDE DEF w
<1>3. w \in NodeDb
  BY <1>1, <1>2 DEF NodeDb
<1>4. ViewOK(w)
  BY <1>1 DEF ViewOK
<1>5. Extends(w, v)
  BY <1>1, <1>2, AppendPrefix, PrefixMeans DEF Extends
<1> QED
  BY <1>1, <1>3, <1>4, <1>5 DEF w

LEMMA BalanceSet ==
    ASSUME NEW v \in NodeDb, ViewOK(v), NEW a \in Accounts, NEW b \in Int, b >= 0
    PROVE  LET w == [v EXCEPT !.bal[a] = b]
           IN  /\ w \in NodeDb /\ ViewOK(w) /\ Extends(w, v)
               /\ w.txs = v.txs /\ w.chain = v.chain
<1> DEFINE w == [v EXCEPT !.bal[a] = b]
<1>1. w = [bal |-> [v.bal EXCEPT ![a] = b], frozen |-> v.frozen, txs |-> v.txs, chain |-> v.chain]
  BY FieldChanged
<1>2. /\ v.txs \in Seq(Row) /\ v.chain \in Seq(Entry)
      /\ v.bal \in [Accounts -> Int] /\ v.frozen \in SUBSET Accounts
  BY DbFields
<1> HIDE DEF w
<1>3. w \in NodeDb
  BY <1>1, <1>2 DEF NodeDb
<1>4. ViewOK(w)
  BY <1>1, <1>2 DEF ViewOK
<1>5. Extends(w, v)
  BY <1>1, <1>2, PrefixMeans DEF Extends
<1> QED
  BY <1>1, <1>3, <1>4, <1>5 DEF w

LEMMA StatusSet ==
    ASSUME NEW v \in NodeDb, ViewOK(v), NEW a \in Accounts
    PROVE  LET w == [v EXCEPT !.frozen = @ \cup {a}]
           IN  /\ w \in NodeDb /\ ViewOK(w) /\ Extends(w, v)
               /\ w.txs = v.txs /\ w.chain = v.chain
<1> DEFINE w == [v EXCEPT !.frozen = @ \cup {a}]
<1>1. w = [bal |-> v.bal, frozen |-> v.frozen \cup {a}, txs |-> v.txs, chain |-> v.chain]
  BY FieldChanged
<1>2. /\ v.txs \in Seq(Row) /\ v.chain \in Seq(Entry)
      /\ v.bal \in [Accounts -> Int] /\ v.frozen \in SUBSET Accounts
  BY DbFields
<1> HIDE DEF w
<1>3. w \in NodeDb
  BY <1>1, <1>2 DEF NodeDb
<1>4. ViewOK(w)
  BY <1>1 DEF ViewOK
<1>5. Extends(w, v)
  BY <1>1, <1>2, PrefixMeans DEF Extends
<1> QED
  BY <1>1, <1>3, <1>4, <1>5 DEF w

-----------------------------------------------------------------------------
(* The actions, for any assignment of connections to threads               *)

NormalInv == TypeOK /\ SnapshotsOK /\ ViewsOK /\ \A t \in Threads : JobOK(t)

LEMMA NormalFacts ==
    ASSUME NormalInv, NEW t \in Threads
    PROVE  /\ DbsOK /\ ConnOf[t] \in Conns /\ JobOK(t) /\ asked \in Nat
           /\ job[t] \in Job /\ job \in [Threads -> Job]
           /\ job[t] = [pc |-> job[t].pc, req |-> job[t].req, bal |-> job[t].bal,
                        num |-> job[t].num, prev |-> job[t].prev]
           /\ job[t].pc \in Pcs /\ job[t].bal \in Int /\ job[t].num \in Nat /\ job[t].prev \in Nat
           /\ job[t].pc # "idle" =>
                /\ job[t].req \in Requests
                /\ job[t].req.kind \in {"D", "W", "S"}
                /\ job[t].req.acct \in Accounts /\ job[t].req.amt \in Nat
<1>1. DbsOK /\ ConnOf[t] \in Conns /\ JobOK(t) /\ job \in [Threads -> Job] /\ asked \in Nat
  BY SessionsAssumption DEF NormalInv, DbsOK, TypeOK
<1>2. job[t] \in Job
  BY <1>1
<1>3. job[t].pc # "idle" => job[t].req \in Requests
  BY <1>1 DEF JobOK
<1> QED
  BY <1>1, <1>2, <1>3, SessionsAssumption DEF Job

LEMMA OthersKeep ==
    ASSUME DbsOK, DbsOK', NEW u \in Threads, JobOK(u), job'[u] = job[u], ConnOf[u] \in Conns,
           Extends(View(ConnOf[u])', View(ConnOf[u])), job[u].num \in Nat
    PROVE  JobOK(u)'
<1> DEFINE c == ConnOf[u]
<1>1. View(c) \in NodeDb /\ View(c)' \in NodeDb
  BY ViewFacts DEF DbsOK, View, Transaction
<1>2. Len(View(c).txs) \in Nat /\ Len(View(c).txs)' \in Nat
  BY <1>1, DbFields
<1>3. Len(View(c).txs) <= Len(View(c).txs)'
  BY <1>1, ExtendsLonger
<1>4. job[u].num \in 1..Len(View(c).txs) + 1 => job[u].num \in 1..Len(View(c).txs)' + 1
  BY <1>2, <1>3
<1> HIDE DEF c
<1> QED
  BY <1>4 DEF JobOK, NewBalance, c

(* A step of one thread, in which no view shrinks.                         *)
LEMMA ThreadStep ==
    ASSUME NormalInv, NEW t \in Threads, NEW j \in Job, job' = [job EXCEPT ![t] = j],
           DbsOK', \A d \in Conns : Extends(View(d)', View(d)), JobOK(t)',
           asked' \in Nat,
           answers' \in [Threads -> {"none", "done", "refused", "collision", "locked"}]
    PROVE  NormalInv'
<1>1. ASSUME NEW u \in Threads PROVE JobOK(u)'
  <2>1. CASE u = t
    BY <2>1
  <2>2. CASE u # t
    <3>1. job'[u] = job[u] /\ DbsOK /\ JobOK(u) /\ ConnOf[u] \in Conns /\ job[u].num \in Nat
      BY <2>2, NormalFacts
    <3> QED
      BY <3>1, OthersKeep
  <2> QED
    BY <2>1, <2>2
<1>2. TypeOK'
  BY NormalFacts DEF TypeOK, DbsOK
<1> QED
  BY <1>1, <1>2 DEF NormalInv, DbsOK

(* How a request that ends leaves its thread.                              *)
LEMMA AnswerStep ==
    ASSUME NormalInv, NEW t \in Threads, NEW how \in {"none", "done", "refused", "collision", "locked"},
           Answer(t, how), DbsOK', \A d \in Conns : Extends(View(d)', View(d)), asked' = asked
    PROVE  NormalInv'
<1>1. Idle \in Job /\ job' = [job EXCEPT ![t] = Idle]
  BY DEF Answer, Idle, Job, Pcs
<1>2. JobOK(t)'
  <2>1. job'[t].pc = "idle"
    BY <1>1, NormalFacts DEF Idle
  <2> QED
    BY <2>1 DEF JobOK
<1>3. answers' \in [Threads -> {"none", "done", "refused", "collision", "locked"}]
  BY DEF Answer, NormalInv, TypeOK
<1>4. asked' \in Nat
  BY NormalFacts
<1> QED
  BY <1>1, <1>2, <1>3, <1>4, ThreadStep

LEMMA NothingKeeps ==
    ASSUME DbsOK, disk' = disk, tx' = tx
    PROVE  DbsOK' /\ \A d \in Conns : Extends(View(d)', View(d))
<1>1. DbsOK'
  BY DEF DbsOK, SnapshotsOK, ViewsOK, LockedByOther
<1>2. \A d \in Conns : View(d)' = View(d)
  BY DEF View
<1> QED
  BY <1>1, <1>2, ViewFacts, ExtendsItself

LEMMA ReadExtends ==
    ASSUME DbsOK, NEW c \in Conns, disk' = disk, tx' = [tx EXCEPT ![c] = AfterRead(c)]
    PROVE  DbsOK' /\ View(c)' = View(c) /\ \A d \in Conns : Extends(View(d)', View(d))
BY ReadKeeps, ViewFacts, ExtendsItself

(* Goto, with the statement's effect on the database given.                *)
LEMMA GotoStep ==
    ASSUME NormalInv, NEW t \in Threads, NEW pc \in Pcs \ {"idle", "number", "insert"},
           job[t].pc # "idle", Goto(t, pc), DbsOK', \A d \in Conns : Extends(View(d)', View(d)),
           pc \in {"balance", "finish"} => job[t].req.kind # "S",
           pc \in {"status", "commitStatus"} => job[t].req.kind = "S",
           pc \in {"link", "entry", "commit", "balance"} /\ job[t].req.kind # "S" => NewBalance(t) >= 0,
           asked' = asked, answers' = answers
    PROVE  NormalInv'
<1> DEFINE j == [pc |-> pc, req |-> job[t].req, bal |-> job[t].bal,
                 num |-> job[t].num, prev |-> job[t].prev]
<1>1. job' = [job EXCEPT ![t] = j]
  BY DEF Goto, Continue
<1>2. j \in Job
  BY NormalFacts DEF Job
<1>3. job'[t] = j
  BY <1>1, NormalFacts
<1>4. JobOK(t)'
  <2>1. /\ job'[t].pc = pc /\ job'[t].req = job[t].req
        /\ job'[t].num = job[t].num /\ job'[t].bal = job[t].bal
    BY <1>3
  <2>2. NewBalance(t)' = NewBalance(t)
    BY <2>1 DEF NewBalance
  <2>3. JobOK(t) /\ job[t].req \in Requests
    BY NormalFacts
  <2> QED
    BY <2>1, <2>2, <2>3 DEF JobOK
<1>5. asked' \in Nat /\ answers' \in [Threads -> {"none", "done", "refused", "collision", "locked"}]
  BY DEF NormalInv, TypeOK
<1> HIDE DEF j
<1> QED
  BY <1>1, <1>2, <1>4, <1>5, ThreadStep

LEMMA AskStep ==
    ASSUME NormalInv, NEW t \in Threads, NEW r \in Requests, Ask(t, r)
    PROVE  NormalInv'
<1> DEFINE j == [pc |-> "account", req |-> r, bal |-> 0, num |-> 0, prev |-> 0]
<1>1. job' = [job EXCEPT ![t] = j]
  BY DEF Ask
<1>2. j \in Job
  BY DEF Job, Pcs
<1>3. JobOK(t)'
  <2>1. job'[t] = j
    BY <1>1, NormalFacts
  <2> QED
    BY <2>1 DEF JobOK
<1>4. DbsOK' /\ \A d \in Conns : Extends(View(d)', View(d))
  BY NormalFacts, NothingKeeps DEF Ask
<1>5. asked' \in Nat /\ answers' \in [Threads -> {"none", "done", "refused", "collision", "locked"}]
  BY NormalFacts DEF Ask, NormalInv, TypeOK
<1> HIDE DEF j
<1> QED
  BY <1>1, <1>2, <1>3, <1>4, <1>5, ThreadStep

LEMMA ReadAccountStep ==
    ASSUME NormalInv, NEW t \in Threads, ReadAccount(t)
    PROVE  NormalInv'
<1> DEFINE c == ConnOf[t]
           r == job[t].req
           j == [pc |-> IF r.kind = "S" THEN "status" ELSE "number", req |-> r,
                 bal |-> View(c).bal[r.acct], num |-> job[t].num, prev |-> job[t].prev]
<1>1. DbsOK /\ c \in Conns /\ r \in Requests /\ r.acct \in Accounts /\ r.amt \in Nat
      /\ r.kind \in {"D", "W", "S"} /\ job[t].pc = "account" /\ JobOK(t)
  BY NormalFacts DEF ReadAccount
<1>2. DbsOK' /\ View(c)' = View(c) /\ \A d \in Conns : Extends(View(d)', View(d))
  BY <1>1, ReadExtends DEF ReadAccount
<1>3. asked' = asked
  BY DEF ReadAccount
<1>4. CASE Refused(View(c), r)
  BY <1>2, <1>3, <1>4, AnswerStep DEF ReadAccount
<1>5. CASE ~Refused(View(c), r)
  <2>1. job' = [job EXCEPT ![t] = j] /\ answers' = answers
    BY <1>5 DEF ReadAccount, Continue
  <2>2. View(c).bal[r.acct] \in Int /\ View(c).bal[r.acct] >= 0
    BY <1>1, ViewFacts, DbFields DEF ViewOK
  <2>3. j \in Job
    BY <1>1, <2>2, NormalFacts DEF Job, Pcs
  <2>4. job'[t] = j
    BY <2>1, NormalFacts
  <2>5. r.kind # "S" => View(c).bal[r.acct] + (IF r.kind = "D" THEN r.amt ELSE -r.amt) >= 0
    BY <1>1, <1>5, <2>2 DEF Refused
  <2>6. NewBalance(t)' = View(c).bal[r.acct] + IF r.kind = "D" THEN r.amt ELSE -r.amt
    BY <2>4 DEF NewBalance
  <2>7. r.kind = "S" => job[t].num = 0
    BY <1>1 DEF JobOK
  <2>8. JobOK(t)'
    <3>1. /\ job'[t].pc = (IF r.kind = "S" THEN "status" ELSE "number")
          /\ job'[t].req = r /\ job'[t].num = job[t].num
      BY <2>4
    <3> HIDE DEF j, r, c
    <3> QED
      BY <1>1, <2>5, <2>6, <2>7, <3>1 DEF JobOK, r
  <2>9. asked' \in Nat /\ answers' \in [Threads -> {"none", "done", "refused", "collision", "locked"}]
    BY <1>3, <2>1 DEF NormalInv, TypeOK
  <2> HIDE DEF j
  <2> QED
    BY <1>2, <2>1, <2>3, <2>8, <2>9, ThreadStep
<1> QED
  BY <1>4, <1>5

LEMMA ReadNumberStep ==
    ASSUME NormalInv, NEW t \in Threads, ReadNumber(t)
    PROVE  NormalInv'
<1> DEFINE c == ConnOf[t]
           n == Len(View(c).txs) + 1
           j == [pc |-> "insert", req |-> job[t].req, bal |-> job[t].bal,
                 num |-> n, prev |-> job[t].prev]
<1>1. DbsOK /\ c \in Conns /\ job[t].pc = "number" /\ JobOK(t)
      /\ View(c) \in NodeDb /\ ViewOK(View(c)) /\ Len(View(c).txs) \in Nat
      /\ job[t].req \in Requests /\ job[t].req.kind # "S"
  BY NormalFacts, ViewFacts, DbFields DEF ReadNumber, JobOK
<1>2. DbsOK' /\ View(c)' = View(c) /\ \A d \in Conns : Extends(View(d)', View(d))
  BY <1>1, ReadExtends DEF ReadNumber
<1>3. asked' = asked /\ answers' = answers
  BY DEF ReadNumber
<1>4. job' = [job EXCEPT ![t] = j]
  <2>1. 1 + Max({0} \cup {View(c).txs[i].num : i \in DOMAIN View(c).txs}) = n
    BY <1>1, MaxNumber
  <2> QED
    BY <2>1 DEF ReadNumber, Continue
<1>5. j \in Job
  <2>1. n \in Nat
    BY <1>1
  <2> HIDE DEF n
  <2> QED
    BY <1>1, <2>1, NormalFacts DEF Job, Pcs
<1>6. job'[t] = j
  BY <1>4, NormalFacts
<1>7. JobOK(t)'
  <2>1. /\ job'[t].pc = "insert" /\ job'[t].req = job[t].req
        /\ job'[t].num = n /\ job'[t].bal = job[t].bal
    BY <1>6
  <2>2. NewBalance(t)' = NewBalance(t) /\ NewBalance(t) >= 0
    BY <1>1, <2>1 DEF NewBalance, JobOK
  <2>3. n \in 1 .. Len(View(c)'.txs) + 1
    BY <1>1, <1>2
  <2> HIDE DEF n, j
  <2> QED
    BY <1>1, <2>1, <2>2, <2>3 DEF JobOK
<1>8. asked' \in Nat /\ answers' \in [Threads -> {"none", "done", "refused", "collision", "locked"}]
  BY <1>3 DEF NormalInv, TypeOK
<1> HIDE DEF j
<1> QED
  BY <1>2, <1>4, <1>5, <1>7, <1>8, ThreadStep

(* The row a transaction inserts, and what its thread knows of it.         *)
NewRow(t) ==
    [num |-> job[t].num, acct |-> job[t].req.acct,
     amt |-> IF job[t].req.kind = "D" THEN job[t].req.amt ELSE -job[t].req.amt]

LEMMA FreeNumberIsNext ==
    ASSUME NormalInv, NEW t \in Threads, job[t].pc = "insert",
           ~Taken(View(ConnOf[t]), job[t].num)
    PROVE  /\ NewRow(t) \in Row /\ job[t].num = Len(View(ConnOf[t]).txs) + 1
           /\ View(ConnOf[t]) \in NodeDb /\ ViewOK(View(ConnOf[t]))
           /\ Len(View(ConnOf[t]).txs) \in Nat
<1> DEFINE v == View(ConnOf[t])
<1>1. DbsOK /\ ConnOf[t] \in Conns
  BY NormalFacts
<1>2. v \in NodeDb /\ ViewOK(v) /\ Len(v.txs) \in Nat /\ DOMAIN v.txs = 1..Len(v.txs)
  BY <1>1, ViewFacts, DbFields
<1>3. NewRow(t) \in Row
  <2>1. job[t].num \in Nat /\ job[t].req.acct \in Accounts /\ job[t].req.amt \in Nat
    BY NormalFacts
  <2>2. (IF job[t].req.kind = "D" THEN job[t].req.amt ELSE -job[t].req.amt) \in Int
    BY <2>1
  <2> QED
    BY <2>1, <2>2 DEF NewRow, Row
<1>4. job[t].num \in 1..Len(v.txs) + 1
  BY NormalFacts DEF JobOK
<1>5. job[t].num \notin DOMAIN v.txs
  BY <1>2 DEF Taken, ViewOK
<1> HIDE DEF v
<1>6. job[t].num = Len(v.txs) + 1
  BY <1>2, <1>4, <1>5
<1> QED
  BY <1>2, <1>3, <1>6 DEF v

LEMMA InsertRowStep ==
    ASSUME NormalInv, NEW t \in Threads, InsertRow(t)
    PROVE  NormalInv'
<1> DEFINE c == ConnOf[t]
           w == [View(c) EXCEPT !.txs = Append(@, NewRow(t))]
<1>1. DbsOK /\ c \in Conns /\ JobOK(t) /\ job[t].pc = "insert" /\ MayWrite(c)
  BY NormalFacts DEF InsertRow
<1>2. View(c) \in NodeDb /\ ViewOK(View(c)) /\ Extends(View(c), View(c))
  BY <1>1, ViewFacts, ExtendsItself
<1>3. disk' = disk /\ asked' = asked
  BY DEF InsertRow
<1>4. CASE Taken(View(c), job[t].num)
  <2>1. tx' = Written(c, View(c)) /\ Answer(t, "collision")
    BY <1>4 DEF InsertRow
  <2>2. DbsOK' /\ \A d \in Conns : Extends(View(d)', View(d))
    BY <1>1, <1>2, <1>3, <2>1, WriteKeeps
  <2> QED
    BY <1>3, <2>1, <2>2, AnswerStep
<1>5. CASE ~Taken(View(c), job[t].num)
  <2>1. tx' = Written(c, w) /\ Goto(t, "link") /\ answers' = answers
    BY <1>5 DEF InsertRow, NewRow
  <2>2. w \in NodeDb /\ ViewOK(w) /\ Extends(w, View(c))
    <3>1. NewRow(t) \in Row /\ NewRow(t).num = Len(View(c).txs) + 1
      BY <1>1, <1>5, FreeNumberIsNext DEF NewRow
    <3> QED
      BY <1>2, <3>1, RowAdded
  <2> HIDE DEF w
  <2>3. DbsOK' /\ \A d \in Conns : Extends(View(d)', View(d))
    BY <1>1, <1>3, <2>1, <2>2, WriteKeeps
  <2>4. job[t].req.kind # "S" /\ NewBalance(t) >= 0
    BY <1>1 DEF JobOK
  <2>5. "link" \in Pcs \ {"idle", "number", "insert"}
    BY DEF Pcs
  <2> QED
    BY <1>1, <1>3, <2>1, <2>3, <2>4, <2>5, GotoStep
<1> QED
  BY <1>4, <1>5

LEMMA ReadHashStep ==
    ASSUME NormalInv, NEW t \in Threads, ReadHash(t)
    PROVE  NormalInv'
<1> DEFINE c == ConnOf[t]
           n == Len(View(c).chain)
           j == [pc |-> "entry", req |-> job[t].req, bal |-> job[t].bal,
                 num |-> job[t].num, prev |-> n]
<1>1. DbsOK /\ c \in Conns /\ job[t].pc = "link" /\ JobOK(t)
      /\ View(c) \in NodeDb /\ n \in Nat /\ job[t].req \in Requests
  BY NormalFacts, ViewFacts, DbFields DEF ReadHash
<1>2. DbsOK' /\ \A d \in Conns : Extends(View(d)', View(d))
  BY <1>1, ReadExtends DEF ReadHash
<1>3. asked' = asked /\ answers' = answers /\ job' = [job EXCEPT ![t] = j]
  BY DEF ReadHash, Continue
<1> HIDE DEF n
<1>4. j \in Job
  BY <1>1, NormalFacts DEF Job, Pcs
<1>5. job'[t] = j
  BY <1>3, NormalFacts
<1>6. JobOK(t)'
  <2>1. /\ job'[t].pc = "entry" /\ job'[t].req = job[t].req
        /\ job'[t].num = job[t].num /\ job'[t].bal = job[t].bal
    BY <1>5
  <2>2. NewBalance(t)' = NewBalance(t)
    BY <2>1 DEF NewBalance
  <2> HIDE DEF j
  <2> QED
    BY <1>1, <2>1, <2>2 DEF JobOK
<1>7. asked' \in Nat /\ answers' \in [Threads -> {"none", "done", "refused", "collision", "locked"}]
  BY <1>3 DEF NormalInv, TypeOK
<1> HIDE DEF j
<1> QED
  BY <1>2, <1>3, <1>4, <1>6, <1>7, ThreadStep

NewEntry(t) == [row |-> job[t].num, prev |-> job[t].prev]

LEMMA InsertEntryStep ==
    ASSUME NormalInv, NEW t \in Threads, InsertEntry(t)
    PROVE  NormalInv'
<1> DEFINE c == ConnOf[t]
           w == [View(c) EXCEPT !.chain = Append(@, NewEntry(t))]
<1>1. DbsOK /\ c \in Conns /\ JobOK(t) /\ job[t].pc = "entry" /\ MayWrite(c)
      /\ View(c) \in NodeDb /\ ViewOK(View(c))
  BY NormalFacts, ViewFacts DEF InsertEntry
<1>2. disk' = disk /\ asked' = asked /\ answers' = answers
      /\ tx' = Written(c, w) /\ Goto(t, "commit")
  BY DEF InsertEntry, NewEntry
<1>3. NewEntry(t) \in Entry
  BY NormalFacts DEF NewEntry, Entry
<1>4. w \in NodeDb /\ ViewOK(w) /\ Extends(w, View(c))
  BY <1>1, <1>3, EntryAdded
<1> HIDE DEF w
<1>5. DbsOK' /\ \A d \in Conns : Extends(View(d)', View(d))
  BY <1>1, <1>2, <1>4, WriteKeeps
<1>6. job[t].req.kind # "S" => NewBalance(t) >= 0
  BY <1>1 DEF JobOK
<1>7. "commit" \in Pcs \ {"idle", "number", "insert"}
  BY DEF Pcs
<1> QED
  BY <1>1, <1>2, <1>5, <1>6, <1>7, GotoStep

LEMMA CommitEntryStep ==
    ASSUME NormalInv, NEW t \in Threads, CommitEntry(t)
    PROVE  NormalInv'
<1>1. DbsOK /\ ConnOf[t] \in Conns /\ JobOK(t) /\ job[t].pc = "commit" /\ asked' = asked
  BY NormalFacts DEF CommitEntry
<1>2. DbsOK' /\ \A d \in Conns : Extends(View(d)', View(d))
  BY <1>1, CommitKeeps DEF CommitEntry
<1>3. CASE job[t].req.kind = "S"
  BY <1>1, <1>2, <1>3, AnswerStep DEF CommitEntry
<1>4. CASE job[t].req.kind # "S"
  <2>1. Goto(t, "balance") /\ answers' = answers /\ NewBalance(t) >= 0
    BY <1>1, <1>4 DEF CommitEntry, JobOK
  <2>2. "balance" \in Pcs \ {"idle", "number", "insert"}
    BY DEF Pcs
  <2> QED
    BY <1>1, <1>2, <1>4, <2>1, <2>2, GotoStep
<1> QED
  BY <1>3, <1>4

LEMMA UpdateBalanceStep ==
    ASSUME NormalInv, NEW t \in Threads, UpdateBalance(t)
    PROVE  NormalInv'
<1> DEFINE c == ConnOf[t]
           w == [View(c) EXCEPT !.bal[job[t].req.acct] = NewBalance(t)]
<1>1. DbsOK /\ c \in Conns /\ JobOK(t) /\ job[t].pc = "balance" /\ MayWrite(c)
      /\ View(c) \in NodeDb /\ ViewOK(View(c)) /\ job[t].req.acct \in Accounts
  BY NormalFacts, ViewFacts DEF UpdateBalance
<1>2. disk' = disk /\ asked' = asked /\ answers' = answers
      /\ tx' = Written(c, w) /\ Goto(t, "finish")
  BY DEF UpdateBalance
<1>3. job[t].req.kind # "S" /\ NewBalance(t) >= 0
  BY <1>1 DEF JobOK
<1>4. NewBalance(t) \in Int
  <2>1. job[t].bal \in Int /\ job[t].req.amt \in Nat
    BY <1>1, NormalFacts
  <2> QED
    BY <2>1 DEF NewBalance
<1>5. w \in NodeDb /\ ViewOK(w) /\ Extends(w, View(c))
  BY <1>1, <1>3, <1>4, BalanceSet
<1> HIDE DEF w
<1>6. DbsOK' /\ \A d \in Conns : Extends(View(d)', View(d))
  BY <1>1, <1>2, <1>5, WriteKeeps
<1>7. "finish" \in Pcs \ {"idle", "number", "insert"}
  BY DEF Pcs
<1> QED
  BY <1>1, <1>2, <1>3, <1>6, <1>7, GotoStep

LEMMA CommitBalanceStep ==
    ASSUME NormalInv, NEW t \in Threads, CommitBalance(t)
    PROVE  NormalInv'
<1>1. DbsOK /\ ConnOf[t] \in Conns /\ asked' = asked /\ Answer(t, "done")
  BY NormalFacts DEF CommitBalance
<1>2. DbsOK' /\ \A d \in Conns : Extends(View(d)', View(d))
  BY <1>1, CommitKeeps DEF CommitBalance
<1> QED
  BY <1>1, <1>2, AnswerStep

LEMMA UpdateStatusStep ==
    ASSUME NormalInv, NEW t \in Threads, UpdateStatus(t)
    PROVE  NormalInv'
<1> DEFINE c == ConnOf[t]
           w == [View(c) EXCEPT !.frozen = @ \cup {job[t].req.acct}]
<1>1. DbsOK /\ c \in Conns /\ JobOK(t) /\ job[t].pc = "status" /\ MayWrite(c)
      /\ View(c) \in NodeDb /\ ViewOK(View(c)) /\ job[t].req.acct \in Accounts
  BY NormalFacts, ViewFacts DEF UpdateStatus
<1>2. disk' = disk /\ asked' = asked /\ answers' = answers
      /\ tx' = Written(c, w) /\ Goto(t, "commitStatus")
  BY DEF UpdateStatus
<1>3. job[t].req.kind = "S"
  BY <1>1 DEF JobOK
<1>4. w \in NodeDb /\ ViewOK(w) /\ Extends(w, View(c))
  BY <1>1, StatusSet
<1> HIDE DEF w
<1>5. DbsOK' /\ \A d \in Conns : Extends(View(d)', View(d))
  BY <1>1, <1>2, <1>4, WriteKeeps
<1>6. "commitStatus" \in Pcs \ {"idle", "number", "insert"}
  BY DEF Pcs
<1> QED
  BY <1>1, <1>2, <1>3, <1>5, <1>6, GotoStep

LEMMA CommitStatusStep ==
    ASSUME NormalInv, NEW t \in Threads, CommitStatus(t)
    PROVE  NormalInv'
<1>1. DbsOK /\ ConnOf[t] \in Conns /\ JobOK(t) /\ job[t].pc = "commitStatus"
      /\ asked' = asked /\ answers' = answers /\ Goto(t, "link") /\ Committed(ConnOf[t])
  BY NormalFacts DEF CommitStatus
<1>2. DbsOK' /\ \A d \in Conns : Extends(View(d)', View(d))
  BY <1>1, CommitKeeps
<1>3. job[t].req.kind = "S"
  BY <1>1 DEF JobOK
<1>4. "link" \in Pcs \ {"idle", "number", "insert"}
  BY DEF Pcs
<1> QED
  BY <1>1, <1>2, <1>3, <1>4, GotoStep

(* BEGIN alone changes neither what a connection sees nor what it holds.   *)
LEMMA BeginKeeps ==
    ASSUME DbsOK, NEW c \in Conns, disk' = disk,
           tx' = IF tx[c].mode = "auto" THEN [tx EXCEPT ![c].mode = "begun"] ELSE tx
    PROVE  /\ DbsOK'
           /\ \A d \in Conns : Extends(View(d)', View(d))
           /\ \A d \in Conns : tx'[d].view = tx[d].view /\ (d # c => tx'[d] = tx[d])
<1>1. CASE tx[c].mode # "auto"
  BY <1>1, NothingKeeps
<1>2. CASE tx[c].mode = "auto"
  <2>1. /\ \A d \in Conns : d # c => tx'[d] = tx[d]
        /\ tx'[c] = [tx[c] EXCEPT !.mode = "begun"]
        /\ tx'[c] = [mode |-> "begun", view |-> tx[c].view]
        /\ tx' = [tx EXCEPT ![c] = tx'[c]]
    <3>1. tx[c] \in [mode : {"auto", "begun", "read", "write"}, view : NodeDb]
      BY DEF DbsOK, Transaction
    <3>2. tx' = [tx EXCEPT ![c].mode = "begun"]
      BY <1>2
    <3>3. [tx[c] EXCEPT !.mode = "begun"] = [mode |-> "begun", view |-> tx[c].view]
      BY <3>1
    <3>4. tx' = [tx EXCEPT ![c] = [mode |-> "begun", view |-> tx[c].view]]
      BY <3>2, <3>3, Zenon
    <3>5. tx \in [Conns -> Transaction]
      BY DEF DbsOK
    <3> QED
      BY <3>3, <3>4, <3>5
  <2>2. tx' \in [Conns -> Transaction]
    <3>1. [mode |-> "begun", view |-> tx[c].view] \in Transaction
      BY ViewFacts DEF Transaction
    <3> QED
      BY <2>1, <3>1 DEF DbsOK
  <2>3. \A d \in Conns : View(d)' = View(d)
    BY <1>2, <2>1 DEF View
  <2>4. \A d \in Conns : Extends(View(d)', View(d))
    BY <2>3, ViewFacts, ExtendsItself
  <2>5. \A d \in Conns : tx'[d].view = tx[d].view
    BY <2>1
  <2>6. SnapshotsOK'
    BY <2>1 DEF DbsOK, SnapshotsOK, LockedByOther
  <2>7. ViewsOK'
    BY <2>5 DEF DbsOK, ViewsOK
  <2> QED
    BY <2>1, <2>2, <2>4, <2>5, <2>6, <2>7 DEF DbsOK
<1> QED
  BY <1>1, <1>2

LEMMA LockedStep ==
    ASSUME NormalInv, NEW t \in Threads, Locked(t)
    PROVE  NormalInv'
<1>1. DbsOK /\ ConnOf[t] \in Conns /\ asked' = asked /\ disk' = disk /\ Answer(t, "locked")
  BY NormalFacts DEF Locked
<1>2. DbsOK' /\ \A d \in Conns : Extends(View(d)', View(d))
  BY <1>1, BeginKeeps DEF Locked
<1> QED
  BY <1>1, <1>2, AnswerStep

LEMMA NormalStep ==
    ASSUME NormalInv, [Next]_vars
    PROVE  NormalInv'
<1>1. CASE Next
  BY <1>1, AskStep, ReadAccountStep, ReadNumberStep, InsertRowStep, ReadHashStep,
     InsertEntryStep, CommitEntryStep, UpdateBalanceStep, CommitBalanceStep,
     UpdateStatusStep, CommitStatusStep, LockedStep DEF Next
<1>2. CASE UNCHANGED vars
  BY <1>2 DEF vars, NormalInv, TypeOK, SnapshotsOK, ViewsOK, LockedByOther, JobOK, NewBalance, View
<1> QED
  BY <1>1, <1>2

-----------------------------------------------------------------------------
(* The actions, when every thread has a connection to itself               *)

LEMMA EntryOfStatusChained ==
    ASSUME NEW n \in Nat, NEW chain \in Seq(Entry), ChainedUpTo(n, chain),
           NEW e \in Entry, e.row = 0
    PROVE  ChainedUpTo(n, Append(chain, e))
<1> DEFINE new == Append(chain, e)
           m == Len(chain)
<1>1. /\ m \in Nat /\ DOMAIN chain = 1..m /\ DOMAIN new = 1..m+1
      /\ \A k \in 1..m : new[k] = chain[k]
      /\ new[m+1] = e
      /\ \A k \in 1..m : chain[k] \in Entry
  OBVIOUS
<1> HIDE DEF new, m
<1>2. \A k \in 1..m+1 : k \in 1..m \/ (k = m+1 /\ new[k].row = 0)
  BY <1>1
<1>3. \A k \in DOMAIN new : new[k].row \in 0..n
  BY <1>1, <1>2 DEF ChainedUpTo
<1>4. \A i \in 1..n : \E k \in DOMAIN new : new[k].row = i
  <2>1. ASSUME NEW i \in 1..n PROVE \E k \in DOMAIN new : new[k].row = i
    <3>1. PICK k \in 1..m : chain[k].row = i
      BY <1>1 DEF ChainedUpTo
    <3> QED
      BY <3>1, <1>1
  <2> QED
    BY <2>1
<1>5. \A k, l \in DOMAIN new :
        k < l /\ new[k].row > 0 /\ new[l].row > 0 => new[k].row < new[l].row
  BY <1>1, <1>2 DEF ChainedUpTo
<1>6. \A k \in Breaks(new) : new[k].row = 0
  BY <1>1, <1>2 DEF ChainedUpTo, Breaks
<1> QED
  BY <1>3, <1>4, <1>5, <1>6 DEF ChainedUpTo, new

LEMMA EntryOfRowChained ==
    ASSUME NEW n \in Nat, NEW chain \in Seq(Entry), ChainedUpTo(n, chain),
           NEW e \in Entry, e.row = n + 1, e.prev = Len(chain)
    PROVE  ChainedUpTo(n + 1, Append(chain, e))
<1> DEFINE new == Append(chain, e)
           m == Len(chain)
<1>1. /\ m \in Nat /\ DOMAIN chain = 1..m /\ DOMAIN new = 1..m+1
      /\ \A k \in 1..m : new[k] = chain[k]
      /\ new[m+1] = e /\ e.prev = m
      /\ \A k \in 1..m : chain[k] \in Entry
  OBVIOUS
<1> HIDE DEF new, m
<1>2. \A k \in 1..m+1 : k \in 1..m \/ (k = m+1 /\ new[k].row = n+1 /\ new[k].prev = m)
  BY <1>1
<1>3. \A k \in 1..m : new[k].row \in 0..n
  BY <1>1 DEF ChainedUpTo
<1>4. \A k \in DOMAIN new : new[k].row \in 0..n+1
  BY <1>1, <1>2, <1>3
<1>5. \A i \in 1..n+1 : \E k \in DOMAIN new : new[k].row = i
  <2>1. ASSUME NEW i \in 1..n PROVE \E k \in DOMAIN new : new[k].row = i
    <3>1. PICK k \in 1..m : chain[k].row = i
      BY <1>1 DEF ChainedUpTo
    <3> QED
      BY <3>1, <1>1
  <2>2. m+1 \in DOMAIN new /\ new[m+1].row = n+1
    BY <1>1
  <2>3. \A i \in 1..n+1 : i \in 1..n \/ i = n+1
    OBVIOUS
  <2> QED
    BY <2>1, <2>2, <2>3
<1>6. \A k, l \in DOMAIN new :
        k < l /\ new[k].row > 0 /\ new[l].row > 0 => new[k].row < new[l].row
  <2>1. ASSUME NEW k \in 1..m+1, NEW l \in 1..m+1, k < l, new[k].row > 0, new[l].row > 0
        PROVE  new[k].row < new[l].row
    <3>1. CASE l = m+1
      <4>1. k \in 1..m /\ new[l].row = n+1
        BY <1>1, <3>1, <2>1
      <4> QED
        BY <4>1, <1>3
    <3>2. CASE l \in 1..m
      <4>1. k \in 1..m
        BY <1>1, <3>2, <2>1
      <4> QED
        BY <3>2, <4>1, <1>1, <2>1 DEF ChainedUpTo
    <3> QED
      BY <1>2, <3>1, <3>2
  <2> QED
    BY <1>1, <2>1
<1>7. \A k \in Breaks(new) : new[k].row = 0
  BY <1>1, <1>2 DEF ChainedUpTo, Breaks
<1> QED
  BY <1>4, <1>5, <1>6, <1>7 DEF ChainedUpTo, new

OwnInv == OwnConnections /\ NormalInv /\ PostingsOK

(* Between its row and its entry: the thread's snapshot is ahead.          *)
AheadOf(t) == Posting(t) /\ job[t].pc # "commit"
Covered(t, view) == IF AheadOf(t) THEN Len(view.txs) - 1 ELSE Len(view.txs)

LEMMA OwnFacts ==
    ASSUME OwnInv, NEW t \in Threads
    PROVE  /\ ConnOf[t] \in Conns /\ DbsOK
           /\ Ahead(ConnOf[t]) <=> AheadOf(t)
           /\ ChainedUpTo(Covered(t, tx[ConnOf[t]].view), tx[ConnOf[t]].view.chain)
           /\ ChainedUpTo(Len(disk.txs), disk.chain)
           /\ Posting(t) => View(ConnOf[t]) = tx[ConnOf[t]].view /\ tx[ConnOf[t]].mode = "write"
           /\ ~Posting(t) => ChainedUpTo(Len(View(ConnOf[t]).txs), View(ConnOf[t]).chain)
<1>1. ConnOf[t] \in Conns /\ DbsOK
  BY NormalFacts DEF OwnInv
<1>2. Ahead(ConnOf[t]) <=> AheadOf(t)
  BY DEF OwnInv, OwnConnections, Ahead, AheadOf
<1>3. ChainedUpTo(Covered(t, tx[ConnOf[t]].view), tx[ConnOf[t]].view.chain)
  BY <1>1, <1>2 DEF OwnInv, PostingsOK, Covered
<1>4. ChainedUpTo(Len(disk.txs), disk.chain)
  BY DEF OwnInv, PostingsOK
<1>5. Posting(t) => View(ConnOf[t]) = tx[ConnOf[t]].view /\ tx[ConnOf[t]].mode = "write"
  BY DEF OwnInv, PostingsOK, View
<1>6. ~Posting(t) => ChainedUpTo(Len(View(ConnOf[t]).txs), View(ConnOf[t]).chain)
  BY <1>3, <1>4 DEF Covered, AheadOf, View
<1> QED
  BY <1>1, <1>2, <1>3, <1>4, <1>5, <1>6

(* A step of one thread changes nothing that PostingsOK says of others.    *)
LEMMA OwnStep ==
    ASSUME OwnInv, NEW t \in Threads,
           \A d \in Conns : d # ConnOf[t] => tx'[d] = tx[d],
           \A u \in Threads : u # t => job'[u] = job[u],
           ChainedUpTo(Len(disk'.txs), disk'.chain),
           ChainedUpTo(Covered(t, tx[ConnOf[t]].view)', tx'[ConnOf[t]].view.chain),
           Posting(t)' => tx'[ConnOf[t]].mode = "write",
           AheadOf(t)' => /\ job'[t].num = Len(tx'[ConnOf[t]].view.txs)
                          /\ job'[t].num > 0,
           AheadOf(t)' /\ job'[t].pc = "entry" => job'[t].prev = Len(tx'[ConnOf[t]].view.chain)
    PROVE  PostingsOK'
<1>1. ASSUME NEW d \in Conns, d # ConnOf[t]
      PROVE  ChainedUpTo(IF Ahead(d)' THEN Len(tx'[d].view.txs) - 1 ELSE Len(tx'[d].view.txs),
                         tx'[d].view.chain)
  <2>1. Ahead(d)' <=> Ahead(d)
    BY <1>1 DEF Ahead, Posting
  <2>2. tx'[d] = tx[d]
    BY <1>1
  <2> QED
    BY <2>1, <2>2 DEF OwnInv, PostingsOK
<1>2. Ahead(ConnOf[t])' <=> AheadOf(t)'
  BY DEF OwnInv, OwnConnections, Ahead, AheadOf
<1>3. ChainedUpTo(IF Ahead(ConnOf[t])' THEN Len(tx'[ConnOf[t]].view.txs) - 1
                  ELSE Len(tx'[ConnOf[t]].view.txs), tx'[ConnOf[t]].view.chain)
  BY <1>2 DEF Covered
<1>4. ASSUME NEW u \in Threads
      PROVE  /\ Posting(u)' => tx'[ConnOf[u]].mode = "write"
             /\ Posting(u)' /\ job'[u].pc # "commit" =>
                   job'[u].num = Len(tx'[ConnOf[u]].view.txs) /\ job'[u].num > 0
             /\ Posting(u)' /\ job'[u].pc = "entry" => job'[u].prev = Len(tx'[ConnOf[u]].view.chain)
  <2>1. CASE u = t
    BY <2>1 DEF AheadOf
  <2>2. CASE u # t
    <3>1. ConnOf[u] # ConnOf[t] /\ ConnOf[u] \in Conns
      BY <2>2, NormalFacts DEF OwnInv, OwnConnections
    <3>2. tx'[ConnOf[u]] = tx[ConnOf[u]] /\ job'[u] = job[u]
      BY <2>2, <3>1
    <3> QED
      BY <3>2 DEF Posting, OwnInv, PostingsOK
  <2> QED
    BY <2>1, <2>2
<1> QED
  BY <1>1, <1>3, <1>4 DEF PostingsOK

(* In particular a step after which the thread is not posting.             *)
LEMMA CalmStep ==
    ASSUME OwnInv, NEW t \in Threads,
           \A d \in Conns : d # ConnOf[t] => tx'[d] = tx[d],
           \A u \in Threads : u # t => job'[u] = job[u],
           ChainedUpTo(Len(disk'.txs), disk'.chain),
           ChainedUpTo(Len(tx'[ConnOf[t]].view.txs), tx'[ConnOf[t]].view.chain),
           ~Posting(t)'
    PROVE  PostingsOK'
<1>1. ~AheadOf(t)'
  BY DEF AheadOf
<1>2. ChainedUpTo(Covered(t, tx[ConnOf[t]].view)', tx'[ConnOf[t]].view.chain)
  BY <1>1 DEF Covered
<1> QED
  BY <1>1, <1>2, OwnStep

LEMMA JobAfter ==
    ASSUME NormalInv, NEW t \in Threads
    PROVE  /\ \A how : Answer(t, how) =>
                /\ \A u \in Threads : u # t => job'[u] = job[u]
                /\ ~Posting(t)'
           /\ \A pc, bal, num, prev : Continue(t, pc, bal, num, prev) =>
                /\ \A u \in Threads : u # t => job'[u] = job[u]
                /\ job'[t].pc = pc /\ job'[t].req = job[t].req
                /\ job'[t].num = num /\ job'[t].prev = prev
           /\ \A pc : Goto(t, pc) =>
                /\ \A u \in Threads : u # t => job'[u] = job[u]
                /\ job'[t].pc = pc /\ job'[t].req = job[t].req
                /\ job'[t].num = job[t].num /\ job'[t].prev = job[t].prev
<1>1. job \in [Threads -> Job]
  BY NormalFacts
<1>2. ASSUME NEW how, Answer(t, how)
      PROVE  (\A u \in Threads : u # t => job'[u] = job[u]) /\ ~Posting(t)'
  BY <1>1, <1>2 DEF Answer, Idle, Posting
<1>3. ASSUME NEW pc, NEW bal, NEW num, NEW prev, Continue(t, pc, bal, num, prev)
      PROVE  /\ \A u \in Threads : u # t => job'[u] = job[u]
             /\ job'[t].pc = pc /\ job'[t].req = job[t].req
             /\ job'[t].num = num /\ job'[t].prev = prev
  BY <1>1, <1>3 DEF Continue
<1> QED
  BY <1>2, <1>3 DEF Goto

(* A read leaves the views with what the chains of their tables cover.     *)
LEMMA ReadCovers ==
    ASSUME OwnInv, NEW t \in Threads, disk' = disk,
           tx' = [tx EXCEPT ![ConnOf[t]] = AfterRead(ConnOf[t])]
    PROVE  /\ \A d \in Conns : d # ConnOf[t] => tx'[d] = tx[d]
           /\ ChainedUpTo(Len(disk'.txs), disk'.chain)
           /\ ~Posting(t) =>
                ChainedUpTo(Len(tx'[ConnOf[t]].view.txs), tx'[ConnOf[t]].view.chain)
           /\ Posting(t) => tx'[ConnOf[t]] = tx[ConnOf[t]]
<1> DEFINE c == ConnOf[t]
<1>1. /\ \A d \in Conns : d # c => tx'[d] = tx[d]
      /\ tx'[c] = tx[c] \/ (tx[c].mode # "write" /\ tx'[c] = [mode |-> "read", view |-> disk])
  BY OwnFacts, ReadKeeps
<1>2. ~Posting(t) => ChainedUpTo(Len(tx[c].view.txs), tx[c].view.chain)
  BY OwnFacts DEF Covered, AheadOf
<1>3. Posting(t) => tx[c].mode = "write"
  BY OwnFacts
<1> HIDE DEF c
<1>4. ~Posting(t) => ChainedUpTo(Len(tx'[c].view.txs), tx'[c].view.chain)
  BY <1>1, <1>2, OwnFacts
<1> QED
  BY <1>1, <1>3, <1>4, OwnFacts DEF c

LEMMA CommitCovers ==
    ASSUME OwnInv, NEW t \in Threads, ~AheadOf(t), Committed(ConnOf[t])
    PROVE  /\ \A d \in Conns : d # ConnOf[t] => tx'[d] = tx[d]
           /\ ChainedUpTo(Len(disk'.txs), disk'.chain)
           /\ ChainedUpTo(Len(tx'[ConnOf[t]].view.txs), tx'[ConnOf[t]].view.chain)
<1>1. /\ \A d \in Conns : d # ConnOf[t] => tx'[d] = tx[d]
      /\ tx'[ConnOf[t]] = NoTx
      /\ disk' = IF tx[ConnOf[t]].mode = "write" THEN tx[ConnOf[t]].view ELSE disk
  BY OwnFacts, CommitKeeps
<1>2. ChainedUpTo(Len(disk'.txs), disk'.chain)
  BY <1>1, OwnFacts DEF Covered
<1>3. ChainedUpTo(0, << >>)
  BY DEF ChainedUpTo, Breaks
<1>4. ChainedUpTo(Len(NoTx.view.txs), NoTx.view.chain)
  BY <1>3 DEF NoTx, EmptyNode
<1> QED
  BY <1>1, <1>2, <1>4

(* A statement that writes neither row nor entry.                          *)
LEMMA WriteCovers ==
    ASSUME OwnInv, NEW t \in Threads, NEW v \in NodeDb, ~Posting(t), disk' = disk,
           tx' = Written(ConnOf[t], v),
           v.txs = View(ConnOf[t]).txs, v.chain = View(ConnOf[t]).chain
    PROVE  /\ \A d \in Conns : d # ConnOf[t] => tx'[d] = tx[d]
           /\ ChainedUpTo(Len(disk'.txs), disk'.chain)
           /\ ChainedUpTo(Len(tx'[ConnOf[t]].view.txs), tx'[ConnOf[t]].view.chain)
<1>1. tx \in [Conns -> Transaction] /\ ConnOf[t] \in Conns
  BY OwnFacts DEF DbsOK
<1>2. /\ \A d \in Conns : d # ConnOf[t] => tx'[d] = tx[d]
      /\ tx'[ConnOf[t]] = [mode |-> "write", view |-> v]
  BY <1>1 DEF Written
<1> QED
  BY <1>2, OwnFacts

LEMMA OwnReads ==
    ASSUME OwnInv, NEW t \in Threads, ReadAccount(t) \/ ReadNumber(t)
    PROVE  PostingsOK'
<1>1. disk' = disk /\ tx' = [tx EXCEPT ![ConnOf[t]] = AfterRead(ConnOf[t])] /\ ~Posting(t)
  BY DEF ReadAccount, ReadNumber, Posting
<1>2. (\A u \in Threads : u # t => job'[u] = job[u]) /\ ~Posting(t)'
  <2>1. CASE ReadAccount(t)
    BY <2>1, JobAfter DEF ReadAccount, OwnInv, Posting
  <2>2. CASE ReadNumber(t)
    BY <2>2, JobAfter DEF ReadNumber, OwnInv, Posting
  <2> QED
    BY <2>1, <2>2
<1> QED
  BY <1>1, <1>2, ReadCovers, CalmStep

LEMMA OwnInsertRow ==
    ASSUME OwnInv, NEW t \in Threads, InsertRow(t)
    PROVE  PostingsOK'
<1> DEFINE c == ConnOf[t]
           w == [View(c) EXCEPT !.txs = Append(@, NewRow(t))]
<1>1. /\ job[t].pc = "insert" /\ disk' = disk /\ ~Posting(t) /\ NormalInv
      /\ c \in Conns /\ View(c) \in NodeDb /\ job[t].req.kind # "S"
      /\ tx \in [Conns -> Transaction]
  BY OwnFacts, ViewFacts, NormalFacts DEF InsertRow, Posting, OwnInv, JobOK, DbsOK
<1>2. CASE Taken(View(c), job[t].num)
  <2>1. tx' = Written(c, View(c)) /\ Answer(t, "collision")
    BY <1>2 DEF InsertRow
  <2> QED
    BY <1>1, <2>1, WriteCovers, JobAfter, CalmStep
<1>3. CASE ~Taken(View(c), job[t].num)
  <2>1. tx' = Written(c, w) /\ Goto(t, "link")
    BY <1>3 DEF InsertRow, NewRow
  <2>2. /\ NewRow(t) \in Row /\ job[t].num = Len(View(c).txs) + 1
        /\ ViewOK(View(c)) /\ Len(View(c).txs) \in Nat
    BY <1>1, <1>3, FreeNumberIsNext
  <2>3. w.txs = Append(View(c).txs, NewRow(t)) /\ w.chain = View(c).chain
    BY <1>1, <2>2, RowAdded DEF NewRow
  <2> HIDE DEF w
  <2>4. /\ \A d \in Conns : d # c => tx'[d] = tx[d]
        /\ tx'[c] = [mode |-> "write", view |-> w]
    BY <1>1, <2>1 DEF Written
  <2>5. Len(w.txs) = Len(View(c).txs) + 1
    BY <1>1, <2>3, DbFields
  <2>6. /\ \A u \in Threads : u # t => job'[u] = job[u]
        /\ job'[t].pc = "link" /\ job'[t].num = job[t].num /\ job'[t].req = job[t].req
    BY <1>1, <2>1, JobAfter
  <2>7. Posting(t)' /\ AheadOf(t)'
    BY <1>1, <2>6 DEF Posting, AheadOf
  <2>8. ChainedUpTo(Covered(t, tx[c].view)', tx'[c].view.chain)
    <3>1. ChainedUpTo(Len(View(c).txs), View(c).chain)
      BY <1>1, OwnFacts
    <3>2. Covered(t, tx[c].view)' = Len(View(c).txs)
      BY <2>2, <2>4, <2>5, <2>7 DEF Covered
    <3> QED
      BY <3>1, <3>2, <2>3, <2>4
  <2>9. ChainedUpTo(Len(disk'.txs), disk'.chain)
    BY <1>1, OwnFacts
  <2>10. job'[t].num = Len(tx'[c].view.txs) /\ job'[t].num > 0 /\ job'[t].pc # "entry"
    BY <2>2, <2>4, <2>5, <2>6
  <2>11. tx'[c].mode = "write"
    BY <2>4
  <2> HIDE DEF c
  <2> QED
    BY <2>4, <2>6, <2>8, <2>9, <2>10, <2>11, OwnStep DEF c
<1> QED
  BY <1>2, <1>3

LEMMA OwnReadHash ==
    ASSUME OwnInv, NEW t \in Threads, ReadHash(t)
    PROVE  PostingsOK'
<1> DEFINE c == ConnOf[t]
<1>1. /\ disk' = disk /\ tx' = [tx EXCEPT ![c] = AfterRead(c)]
      /\ job[t].pc = "link" /\ NormalInv
      /\ Continue(t, "entry", job[t].bal, job[t].num, Len(View(c).chain))
  BY DEF ReadHash, OwnInv
<1>2. /\ \A u \in Threads : u # t => job'[u] = job[u]
      /\ job'[t].pc = "entry" /\ job'[t].req = job[t].req
      /\ job'[t].num = job[t].num /\ job'[t].prev = Len(View(c).chain)
  BY <1>1, JobAfter
<1>3. Posting(t)' <=> Posting(t)
  BY <1>1, <1>2 DEF Posting
<1>4. CASE ~Posting(t)
  BY <1>1, <1>2, <1>3, <1>4, ReadCovers, CalmStep
<1>5. CASE Posting(t)
  <2>1. /\ \A d \in Conns : d # c => tx'[d] = tx[d]
        /\ ChainedUpTo(Len(disk'.txs), disk'.chain)
        /\ tx'[c] = tx[c]
    BY <1>1, <1>5, ReadCovers
  <2>2. View(c) = tx[c].view /\ tx[c].mode = "write"
    BY <1>5, OwnFacts
  <2>3. AheadOf(t) /\ AheadOf(t)'
    BY <1>1, <1>2, <1>3, <1>5 DEF AheadOf
  <2>4. ChainedUpTo(Covered(t, tx[c].view)', tx'[c].view.chain)
    BY <2>1, <2>3, OwnFacts DEF Covered
  <2>5. job[t].num = Len(tx[c].view.txs) /\ job[t].num > 0
    BY <1>5, <2>3 DEF OwnInv, PostingsOK, AheadOf
  <2> QED
    BY <1>2, <2>1, <2>2, <2>4, <2>5, OwnStep
<1> QED
  BY <1>4, <1>5

LEMMA OwnInsertEntry ==
    ASSUME OwnInv, NEW t \in Threads, InsertEntry(t)
    PROVE  PostingsOK'
<1> DEFINE c == ConnOf[t]
           w == [View(c) EXCEPT !.chain = Append(@, NewEntry(t))]
<1>1. /\ disk' = disk /\ tx' = Written(c, w) /\ job[t].pc = "entry" /\ NormalInv
      /\ Goto(t, "commit")
      /\ c \in Conns /\ View(c) \in NodeDb /\ ViewOK(View(c)) /\ tx \in [Conns -> Transaction]
      /\ JobOK(t)
  BY OwnFacts, ViewFacts, NormalFacts DEF InsertEntry, NewEntry, OwnInv, DbsOK
<1>2. NewEntry(t) \in Entry
  BY <1>1, NormalFacts DEF NewEntry, Entry
<1>3. w.txs = View(c).txs /\ w.chain = Append(View(c).chain, NewEntry(t))
  BY <1>1, <1>2, EntryAdded
<1> HIDE DEF w
<1>4. /\ \A d \in Conns : d # c => tx'[d] = tx[d]
      /\ tx'[c] = [mode |-> "write", view |-> w]
  BY <1>1 DEF Written
<1>5. /\ \A u \in Threads : u # t => job'[u] = job[u]
      /\ job'[t].pc = "commit"
  BY <1>1, JobAfter
<1>6. /\ View(c).chain \in Seq(Entry) /\ Len(View(c).txs) \in Nat
      /\ job[t].num \in Nat /\ job[t].prev \in Nat
  BY <1>1, DbFields, NormalFacts
<1>7. ChainedUpTo(Len(w.txs), w.chain)
  <2>1. CASE ~Posting(t)
    <3>1. job[t].num = 0
      BY <1>1, <2>1 DEF Posting, JobOK
    <3>2. ChainedUpTo(Len(View(c).txs), View(c).chain)
      BY <2>1, OwnFacts
    <3>3. NewEntry(t).row = 0
      BY <3>1 DEF NewEntry
    <3> QED
      BY <1>2, <1>3, <1>6, <3>2, <3>3, EntryOfStatusChained
  <2>2. CASE Posting(t)
    <3>1. AheadOf(t) /\ View(c) = tx[c].view
      BY <1>1, <2>2, OwnFacts DEF AheadOf
    <3>2. job[t].num = Len(View(c).txs) /\ job[t].num > 0 /\ job[t].prev = Len(View(c).chain)
      BY <1>1, <2>2, <3>1 DEF OwnInv, PostingsOK
    <3> DEFINE n == Len(View(c).txs) - 1
    <3>3. n \in Nat /\ NewEntry(t).row = n + 1 /\ NewEntry(t).prev = Len(View(c).chain)
      BY <1>6, <3>2 DEF NewEntry
    <3>4. ChainedUpTo(n, View(c).chain)
      BY <3>1, OwnFacts DEF Covered
    <3>5. n + 1 = Len(w.txs)
      BY <1>3, <1>6
    <3> HIDE DEF n
    <3> QED
      BY <1>2, <1>3, <1>6, <3>3, <3>4, <3>5, EntryOfRowChained
  <2> QED
    BY <2>1, <2>2
<1>8. ~AheadOf(t)'
  BY <1>5 DEF AheadOf
<1>9. ChainedUpTo(Covered(t, tx[c].view)', tx'[c].view.chain)
  BY <1>4, <1>7, <1>8 DEF Covered
<1>10. ChainedUpTo(Len(disk'.txs), disk'.chain) /\ tx'[c].mode = "write"
  BY <1>1, <1>4, OwnFacts
<1> QED
  BY <1>4, <1>5, <1>8, <1>9, <1>10, OwnStep

LEMMA OwnCommits ==
    ASSUME OwnInv, NEW t \in Threads, CommitEntry(t) \/ CommitBalance(t) \/ CommitStatus(t)
    PROVE  PostingsOK'
<1>1. ~AheadOf(t) /\ Committed(ConnOf[t]) /\ NormalInv
  BY DEF CommitEntry, CommitBalance, CommitStatus, AheadOf, Posting, OwnInv
<1>2. (\A u \in Threads : u # t => job'[u] = job[u]) /\ ~Posting(t)'
  <2>1. CASE CommitEntry(t)
    BY <1>1, <2>1, JobAfter DEF CommitEntry, Posting
  <2>2. CASE CommitBalance(t)
    BY <1>1, <2>2, JobAfter DEF CommitBalance
  <2>3. CASE CommitStatus(t)
    <3>1. job[t].req.kind = "S"
      BY <1>1, <2>3, NormalFacts DEF CommitStatus, JobOK
    <3> QED
      BY <1>1, <2>3, <3>1, JobAfter DEF CommitStatus, Posting
  <2> QED
    BY <2>1, <2>2, <2>3
<1> QED
  BY <1>1, <1>2, CommitCovers, CalmStep

LEMMA OwnUpdates ==
    ASSUME OwnInv, NEW t \in Threads, UpdateBalance(t) \/ UpdateStatus(t)
    PROVE  PostingsOK'
<1> DEFINE c == ConnOf[t]
<1>1. /\ disk' = disk /\ NormalInv /\ ~Posting(t) /\ View(c) \in NodeDb /\ ViewOK(View(c))
      /\ JobOK(t) /\ job[t].req.acct \in Accounts
  BY OwnFacts, ViewFacts, NormalFacts DEF UpdateBalance, UpdateStatus, OwnInv, Posting
<1>2. (\A u \in Threads : u # t => job'[u] = job[u]) /\ ~Posting(t)'
  <2>1. CASE UpdateBalance(t)
    BY <1>1, <2>1, JobAfter DEF UpdateBalance, Posting
  <2>2. CASE UpdateStatus(t)
    BY <1>1, <2>2, JobAfter DEF UpdateStatus, Posting
  <2> QED
    BY <2>1, <2>2
<1>3. \E v \in NodeDb : tx' = Written(c, v) /\ v.txs = View(c).txs /\ v.chain = View(c).chain
  <2>1. CASE UpdateBalance(t)
    <3>1. NewBalance(t) \in Int /\ NewBalance(t) >= 0
      <4>1. job[t].bal \in Int /\ job[t].req.amt \in Nat /\ job[t].req.kind # "S"
        BY <1>1, <2>1, NormalFacts DEF UpdateBalance, JobOK
      <4>2. NewBalance(t) \in Int
        BY <4>1 DEF NewBalance
      <4> QED
        BY <1>1, <2>1, <4>1, <4>2 DEF UpdateBalance, JobOK
    <3> QED
      BY <1>1, <2>1, <3>1, BalanceSet DEF UpdateBalance
  <2>2. CASE UpdateStatus(t)
    BY <1>1, <2>2, StatusSet DEF UpdateStatus
  <2> QED
    BY <2>1, <2>2
<1> QED
  BY <1>1, <1>2, <1>3, WriteCovers, CalmStep

LEMMA OwnLocked ==
    ASSUME OwnInv, NEW t \in Threads, Locked(t)
    PROVE  PostingsOK'
<1> DEFINE c == ConnOf[t]
<1>1. disk' = disk /\ Answer(t, "locked") /\ NormalInv /\ DbsOK /\ c \in Conns
  BY OwnFacts DEF Locked, OwnInv
<1>2. ~Posting(t)
  <2>1. ASSUME Posting(t) PROVE FALSE
    <3>1. tx[c].mode = "write"
      BY <2>1, OwnFacts
    <3>2. ~LockedByOther(c)
      BY <1>1, <3>1 DEF DbsOK, SnapshotsOK
    <3> QED
      BY <3>1, <3>2 DEF Locked, MayWrite
  <2> QED
    BY <2>1
<1>3. \A d \in Conns : tx'[d].view = tx[d].view /\ (d # c => tx'[d] = tx[d])
  BY <1>1, BeginKeeps DEF Locked
<1>4. ChainedUpTo(Len(tx'[c].view.txs), tx'[c].view.chain)
  BY <1>1, <1>2, <1>3, OwnFacts DEF Covered, AheadOf
<1>5. ChainedUpTo(Len(disk'.txs), disk'.chain)
  BY <1>1, OwnFacts
<1> QED
  BY <1>1, <1>3, <1>4, <1>5, JobAfter, CalmStep

LEMMA OwnAsk ==
    ASSUME OwnInv, NEW t \in Threads, NEW r \in Requests, Ask(t, r)
    PROVE  PostingsOK'
<1>1. disk' = disk /\ tx' = tx /\ job[t].pc = "idle" /\ job \in [Threads -> Job]
  BY NormalFacts DEF Ask, OwnInv
<1>2. (\A u \in Threads : u # t => job'[u] = job[u]) /\ job'[t].pc = "account"
  BY <1>1 DEF Ask
<1>3. ~Posting(t) /\ ~Posting(t)'
  BY <1>1, <1>2 DEF Posting
<1>4. ChainedUpTo(Len(tx'[ConnOf[t]].view.txs), tx'[ConnOf[t]].view.chain)
      /\ ChainedUpTo(Len(disk'.txs), disk'.chain)
  BY <1>1, <1>3, OwnFacts DEF Covered, AheadOf
<1> QED
  BY <1>1, <1>2, <1>3, <1>4, CalmStep

-----------------------------------------------------------------------------
(* Theorems                                                                *)

LEMMA IInvStep ==
    ASSUME IInv, [Next]_vars
    PROVE  IInv'
<1>1. NormalInv /\ NormalInv'
  BY NormalStep DEF IInv, NormalInv
<1>2. ASSUME OwnConnections PROVE PostingsOK'
  <2>1. OwnInv
    BY <1>1, <1>2 DEF OwnInv, IInv
  <2>2. CASE Next
    BY <2>1, <2>2, OwnAsk, OwnReads, OwnInsertRow, OwnReadHash, OwnInsertEntry,
       OwnCommits, OwnUpdates, OwnLocked DEF Next
  <2>3. CASE UNCHANGED vars
    BY <2>1, <2>3 DEF OwnInv, PostingsOK, Ahead, Posting, vars
  <2> QED
    BY <2>2, <2>3
<1> QED
  BY <1>1, <1>2 DEF IInv, NormalInv, OwnConnections

LEMMA IInvInit ==
    ASSUME Init
    PROVE  IInv
<1>1. /\ disk = EmptyNode /\ EmptyNode \in NodeDb /\ ViewOK(EmptyNode)
      /\ \A c \in Conns : tx[c] = NoTx
      /\ NoTx \in Transaction /\ NoTx.mode = "auto" /\ NoTx.view = EmptyNode
      /\ Idle \in Job /\ Idle.pc = "idle" /\ \A t \in Threads : job[t].pc = "idle"
  BY EmptyNodeOK DEF Init, NoTx, Transaction, Idle, Job, Pcs
<1>2. TypeOK
  BY <1>1 DEF Init, TypeOK
<1>3. SnapshotsOK /\ ViewsOK
  BY <1>1 DEF SnapshotsOK, ViewsOK
<1>4. \A t \in Threads : JobOK(t)
  BY <1>1 DEF JobOK
<1>5. ASSUME OwnConnections PROVE PostingsOK
  <2>1. ChainedUpTo(0, << >>)
    BY DEF ChainedUpTo, Breaks
  <2>2. Len(EmptyNode.txs) = 0 /\ EmptyNode.chain = << >>
    BY DEF EmptyNode
  <2>3. \A t \in Threads : ~Posting(t)
    BY <1>1 DEF Posting
  <2> QED
    BY <1>1, <2>1, <2>2, <2>3 DEF PostingsOK, Ahead
<1> QED
  BY <1>2, <1>3, <1>4, <1>5 DEF IInv

(* The invariant holds of every behaviour, whoever shares a connection.    *)
THEOREM Invariance == Spec => []IInv
<1>1. Init => IInv
  BY IInvInit
<1>2. IInv /\ [Next]_vars => IInv'
  BY IInvStep
<1> QED
  BY <1>1, <1>2, PTL DEF Spec

(* For any threads, connections and requests no interleaving leaves a      *)
(* balance below zero (process_transaction checks and writes in different  *)
(* transactions of the database).                                          *)
THEOREM BalancesNeverBelowZero == Spec => []NeverBelowZero
<1>1. IInv => NeverBelowZero
  BY DEF IInv, ViewsOK, ViewOK, NeverBelowZero
<1> QED
  BY <1>1, Invariance, PTL

(* With a connection per thread rows and entries are committed together,   *)
(* once and in the same order, whatever collides or times out.             *)
THEOREM RowsHaveTheirEntries == Spec => []RowsAreChained
<1>1. ASSUME IInv, OwnConnections PROVE RowsAreChained
  <2> DEFINE txs == disk.txs
             chain == disk.chain
             n == Len(txs)
  <2>1. ChainedUpTo(n, chain) /\ ViewOK(disk) /\ disk \in NodeDb
    BY <1>1 DEF IInv, PostingsOK, ViewsOK, TypeOK
  <2>2. n \in Nat /\ DOMAIN txs = 1..n /\ DOMAIN chain = 1..Len(chain)
    BY <2>1, DbFields
  <2>3. \A i \in DOMAIN txs : txs[i].num = i
    BY <2>1 DEF ViewOK
  <2>4. {txs[i].num : i \in DOMAIN txs} = 1..n
    BY <2>2, <2>3
  <2>5. {chain[k].row : k \in {k \in DOMAIN chain : chain[k].row > 0}} = 1..n
    <3>1. \A k \in DOMAIN chain : chain[k].row > 0 => chain[k].row \in 1..n
      BY <2>1, <2>2 DEF ChainedUpTo
    <3>2. \A i \in 1..n : \E k \in DOMAIN chain : chain[k].row = i /\ i > 0
      BY <2>1, <2>2 DEF ChainedUpTo
    <3> HIDE DEF txs, chain, n
    <3> QED
      BY <3>1, <3>2
  <2>6. \A k, l \in DOMAIN chain :
          k < l /\ chain[k].row > 0 /\ chain[l].row > 0 => chain[k].row < chain[l].row
    BY <2>1 DEF ChainedUpTo
  <2> QED
    BY <2>2, <2>3, <2>4, <2>5, <2>6 DEF RowsAreChained
<1>2. IInv => RowsAreChained
  BY <1>1 DEF RowsAreChained
<1> QED
  BY <1>2, Invariance, PTL

(* With a connection per thread a broken link is always that of a change   *)
(* of status: no concurrent transaction can break the chain.               *)
THEOREM OnlyStatusEntriesBreak == Spec => []OnlyStatusBreaks
<1>1. IInv => OnlyStatusBreaks
  BY DEF IInv, PostingsOK, ChainedUpTo, OnlyStatusBreaks
<1> QED
  BY <1>1, Invariance, PTL

(* Committed rows and entries are never taken back or overwritten by the   *)
(* commit of another connection.                                           *)
THEOREM CommittedLedgersGrow == Spec => LedgersOnlyGrow
<1>1. ASSUME IInv, [Next]_vars PROVE Extends(disk', disk)
  <2>1. DbsOK /\ disk \in NodeDb
    BY <1>1 DEF IInv, TypeOK, DbsOK
  <2>2. CASE disk' = disk
    BY <2>1, <2>2, ExtendsItself
  <2>3. ASSUME NEW t \in Threads, CommitEntry(t) \/ CommitBalance(t) \/ CommitStatus(t)
        PROVE  Extends(disk', disk)
    <3>1. Committed(ConnOf[t]) /\ ConnOf[t] \in Conns
      BY <2>3, SessionsAssumption DEF CommitEntry, CommitBalance, CommitStatus
    <3> QED
      BY <2>1, <3>1, CommitKeeps
  <2>4. CASE Next
    BY <2>2, <2>3, <2>4 DEF Next, Ask, ReadAccount, ReadNumber, InsertRow, ReadHash, InsertEntry,
       UpdateBalance, UpdateStatus, Locked
  <2> QED
    BY <1>1, <2>2, <2>4 DEF vars
<1>2. IInv /\ [Next]_vars => [IsPrefix(disk.txs, disk'.txs) /\ IsPrefix(disk.chain, disk'.chain)]_vars
  BY <1>1 DEF Extends
<1> QED
  BY <1>2, Invariance, PTL DEF Spec, LedgersOnlyGrow
=============================================================================
