--------------------------- MODULE BankNode_proofs ---------------------------
(***************************************************************************)
(* Proofs about BankNode, for every set of accounts, every choice of       *)
(* amounts, batches and edits, and every bound.                            *)
(***************************************************************************)
EXTENDS BankNode, SumTheorems, TLAPS

-----------------------------------------------------------------------------
(* The operators the actions are built from                                *)

(* MAX(seq) over a table without gaps is its number of rows.               *)
LEMMA LastSeqIsLen ==
    ASSUME NEW txs \in Seq(Row), Dense(txs)
    PROVE  LastSeq(txs) = Len(txs)
<1> DEFINE n == Len(txs)
           S == {0} \cup {txs[i].id : i \in DOMAIN txs}
<1>1. n \in Nat /\ DOMAIN txs = 1..n
  OBVIOUS
<1>2. \A i \in DOMAIN txs : txs[i].id = i
  BY DEF Dense
<1> HIDE DEF n
<1>3. S = 0..n
  BY <1>1, <1>2
<1> HIDE DEF S
<1>4. n \in S /\ \A y \in S : n >= y
  BY <1>1, <1>3
<1>5. Max(S) \in S /\ \A y \in S : Max(S) >= y
  BY <1>4 DEF Max
<1>6. Max(S) = n
  BY <1>1, <1>3, <1>5
<1> QED
  BY <1>6 DEF LastSeq, n, S

(* A row with a new number, put into table and chain together, keeps the   *)
(* table without gaps and the chain in step with it.                       *)
LEMMA LoggedKeeps ==
    ASSUME NEW d, DatabaseOK(d),
           NEW a \in Accounts, NEW type \in {"D", "W", "T", "I", "F"}, NEW amt \in Int
    PROVE  DatabaseOK(Logged(d, NewRow(d, a, type, amt)))
<1> DEFINE row == NewRow(d, a, type, amt)
           e == Logged(d, row)
           n == Len(d.txs)
           m == Len(d.chain)
<1>1. d \in Database /\ Dense(d.txs) /\ Chained(d) /\ d.txs \in Seq(Row) /\ d.chain \in Seq(Row)
  BY DEF DatabaseOK, Database
<1>2. row = [id |-> n + 1, acct |-> a, type |-> type, amt |-> amt] /\ row \in Row
  <2>1. LastSeq(d.txs) = n /\ n \in Nat
    BY <1>1, LastSeqIsLen
  <2>2. row = [id |-> n + 1, acct |-> a, type |-> type, amt |-> amt]
    BY <2>1 DEF NewRow
  <2> QED
    BY <2>1, <2>2 DEF Row
<1> HIDE DEF row
<1>3. /\ e.txs = Append(d.txs, row) /\ e.chain = Append(d.chain, row)
      /\ e.acct = d.acct /\ e \in Database
  <2>2. e = [acct |-> d.acct, txs |-> Append(d.txs, row), chain |-> Append(d.chain, row)]
    BY DEF Logged
  <2>3. Append(d.txs, row) \in Seq(Row) /\ Append(d.chain, row) \in Seq(Row)
    BY <1>1, <1>2
  <2>4. d.acct \in [Accounts -> AcctRec]
    BY <1>1 DEF Database
  <2> QED
    BY <2>2, <2>3, <2>4 DEF Database
<1> HIDE DEF e
<1>4. /\ DOMAIN e.txs = 1..(n + 1) /\ e.txs[n + 1] = row
      /\ \A i \in DOMAIN d.txs : i \in 1..n /\ e.txs[i] = d.txs[i]
      /\ DOMAIN d.txs = 1..n
  BY <1>1, <1>2, <1>3
<1>5. /\ DOMAIN e.chain = 1..(m + 1) /\ e.chain[m + 1] = row
      /\ \A i \in DOMAIN d.chain : i \in 1..m /\ e.chain[i] = d.chain[i]
      /\ DOMAIN d.chain = 1..m
  BY <1>1, <1>2, <1>3
<1>6. Dense(e.txs)
  BY <1>1, <1>2, <1>4 DEF Dense
<1>7. Postings(e.chain) = Postings(d.chain) \cup {m + 1}
  BY <1>2, <1>5 DEF Postings
<1>8. Range(e.txs) = Range(d.txs) \cup {row}
  BY <1>4 DEF Range
<1>9. {e.chain[i] : i \in Postings(e.chain)} = {d.chain[i] : i \in Postings(d.chain)} \cup {row}
  BY <1>5, <1>7 DEF Postings
<1>10. \A i \in Postings(d.chain) : d.chain[i].id \in 1..n
  <2> SUFFICES ASSUME NEW i \in Postings(d.chain) PROVE d.chain[i].id \in 1..n
    OBVIOUS
  <2>1. d.chain[i] \in Range(d.txs)
    BY <1>1 DEF Chained
  <2>2. PICK k \in DOMAIN d.txs : d.chain[i] = d.txs[k]
    BY <2>1 DEF Range
  <2> QED
    BY <2>2, <1>1, <1>4 DEF Dense
<1>11. ASSUME NEW i \in Postings(e.chain), NEW j \in Postings(e.chain), i < j
       PROVE  e.chain[i].id < e.chain[j].id
  <2>1. i \in Postings(d.chain)
    BY <1>11, <1>7, <1>5 DEF Postings
  <2>2. CASE j = m + 1
    <3>1. e.chain[i] = d.chain[i] /\ i \in Postings(d.chain)
      BY <2>1, <1>5 DEF Postings
    <3>2. e.chain[j].id = n + 1 /\ n \in Nat
      BY <2>2, <1>2, <1>5, <1>1
    <3>3. d.chain[i].id \in 1..n
      BY <3>1, <1>10
    <3> HIDE DEF n, m
    <3> QED
      BY <3>1, <3>2, <3>3
  <2>3. CASE j # m + 1
    <3>1. j \in Postings(d.chain)
      BY <2>3, <1>7
    <3> QED
      BY <2>1, <3>1, <1>11, <1>1, <1>5 DEF Chained, Postings
  <2> QED
    BY <2>2, <2>3
<1>12. Chained(e)
  BY <1>1, <1>8, <1>9, <1>11 DEF Chained
<1>13. \A b \in Accounts : e.acct[b].bal >= 0
  BY <1>3 DEF DatabaseOK
<1>14. DatabaseOK(e)
  BY <1>3, <1>6, <1>12, <1>13 DEF DatabaseOK
<1> QED
  BY <1>14 DEF e, row

(* Writing a balance that is not negative.                                 *)
LEMMA SetBalKeeps ==
    ASSUME NEW d, DatabaseOK(d), NEW a \in Accounts, NEW b \in Int, b >= 0
    PROVE  /\ DatabaseOK(SetBal(d, a, b))
           /\ SetBal(d, a, b).txs = d.txs /\ SetBal(d, a, b).chain = d.chain
           /\ SetBal(d, a, b).acct[a].bal = b
           /\ \A c \in Accounts : SetBal(d, a, b).acct[c].bal >= 0
<1> DEFINE e == SetBal(d, a, b)
<1>1. /\ e.txs = d.txs /\ e.chain = d.chain /\ e \in Database
      /\ e.acct[a].bal = b
      /\ \A c \in Accounts : c # a => e.acct[c] = d.acct[c]
  BY DEF SetBal, DatabaseOK, Database, AcctRec
<1>2. \A c \in Accounts : e.acct[c].bal >= 0
  BY <1>1 DEF DatabaseOK
<1>3. Dense(e.txs) /\ Chained(e)
  BY <1>1 DEF DatabaseOK, Chained
<1> QED
  BY <1>1, <1>2, <1>3 DEF DatabaseOK

LEMMA RequestFields ==
    ASSUME NEW r \in Request
    PROVE  /\ r.acct \in Accounts /\ r.type \in {"D", "W", "T", "I", "F"}
           /\ r.amt \in Int /\ r.amt >= 0
<1>1. r.acct \in Accounts /\ r.type \in TxTypes /\ r.amt \in Amounts
  BY DEF Request
<1>2. r.amt \in Nat /\ r.type \in {"D", "W", "T", "I", "F"}
  BY <1>1, CallsAssumption
<1> QED
  BY <1>1, <1>2

(* An accepted request leaves its account with nothing below zero.         *)
LEMMA AcceptedBalance ==
    ASSUME NEW d, DatabaseOK(d), NEW r \in Request, Decision(d, r) = "00"
    PROVE  BalanceAfter(d, r) \in Int /\ BalanceAfter(d, r) >= 0
<1>1. /\ r.acct \in Accounts /\ r.amt \in Int /\ r.amt >= 0
      /\ r.type \in {"D", "W", "T", "I", "F"}
  BY RequestFields
<1>2. d.acct[r.acct].bal \in Int /\ d.acct[r.acct].bal >= 0
  BY <1>1 DEF DatabaseOK, Database, AcctRec
<1>3. r.type \in {"W", "T"} => d.acct[r.acct].bal >= r.amt
  BY <1>1, <1>2 DEF Decision
<1> QED
  BY <1>1, <1>2, <1>3 DEF BalanceAfter

(* Interest on a positive balance and fees are natural numbers.            *)
LEMMA BatchAmounts ==
    ASSUME NEW b \in Int
    PROVE  /\ FeeOn(b) \in Nat
           /\ b > 0 => InterestOn(b) \in Nat
<1>1. FeeOn(b) \in Nat
  BY DEF FeeOn
<1>2. ASSUME b > 0 PROVE InterestOn(b) \in Nat
  <2> DEFINE bp == IF b < 1000000 THEN 50 ELSE IF b < 10000000 THEN 150 ELSE 200
  <2>1. bp \in Nat
    OBVIOUS
  <2>2. b * bp \in Nat
    BY <1>2
  <2>3. Rounded(b * bp, 120000) \in Nat
    BY <2>2 DEF Rounded
  <2> QED
    BY <2>3 DEF InterestOn
<1> QED
  BY <1>1, <1>2

-----------------------------------------------------------------------------
(* The inductive invariant                                                 *)

LEMMA InitInv == Init => IInv
<1> SUFFICES ASSUME Init PROVE IInv
  OBVIOUS
<1>1. SeedFile \in [Accounts -> AcctRec] /\ \A a \in Accounts : SeedFile[a].bal >= 0
  BY SeedAssumption DEF SeedFile, AcctRec
<1>2. db \in Database /\ db.acct = SeedFile /\ db.txs = <<>> /\ db.chain = <<>> /\ disk = db
  BY <1>1 DEF Init, Database
<1>3. DatabaseOK(db) /\ DatabaseOK(disk)
  <2>1. Range(<<>>) = {} /\ Postings(<<>>) = {}
    BY DEF Range, Postings
  <2> QED
    BY <1>1, <1>2, <2>1 DEF DatabaseOK, Dense, Chained
<1>4. JobOK /\ JobSafe
  BY DEF Init, JobOK, JobSafe, Idle, NoRequest, BatchRequest, EmptyFile, IsDatFile
<1>5. TypeOK
  BY <1>1, <1>2, <1>4 DEF Init, TypeOK, IsDatFile
<1> QED
  BY <1>2, <1>3, <1>4, <1>5 DEF IInv

LEMMA RecordKeeps ==
    ASSUME IInv, NEW r \in Request, Record(r)
    PROVE  IInv'
<1>1. /\ DatabaseOK(db) /\ db \in Database /\ db.txs = disk.txs /\ db.chain = disk.chain
      /\ IsDatFile(dat) /\ edited \subseteq Accounts /\ loose \subseteq Accounts /\ crashes \in Nat
  BY DEF IInv, TypeOK
<1>2. r.acct \in Accounts /\ r.type \in {"D", "W", "T", "I", "F"} /\ r.amt \in Int
  BY RequestFields
<1>3. DatabaseOK(db') /\ disk' = db'
  BY <1>1, <1>2, LoggedKeeps DEF Record, Commit
<1>4. BalanceAfter(db, r) \in Int /\ BalanceAfter(db, r) >= 0
  BY <1>1, AcceptedBalance DEF Record
<1>5. job' = [pc |-> "post", req |-> r, bal |-> BalanceAfter(db, r), file |-> EmptyFile, todo |-> {}]
  BY DEF Record, Idle
<1>6. JobOK' /\ JobSafe'
  BY <1>4, <1>5 DEF JobOK, JobSafe, EmptyFile, IsDatFile
<1>7. TypeOK'
  BY <1>1, <1>3, <1>6 DEF TypeOK, Record, DatabaseOK
<1> QED
  BY <1>3, <1>6, <1>7 DEF IInv

(* Going idle is always safe for the handler's part of the invariant.      *)
LEMMA IdleSafe == job' = Idle => JobOK' /\ JobSafe'
BY DEF JobOK, JobSafe, Idle, NoRequest, BatchRequest, EmptyFile, IsDatFile

LEMMA PostKeeps ==
    ASSUME IInv, Post
    PROVE  IInv'
<1>1. /\ DatabaseOK(db) /\ IsDatFile(dat) /\ edited \subseteq Accounts /\ loose \subseteq Accounts /\ crashes \in Nat
      /\ job.bal \in Int /\ job.bal >= 0 /\ job.req.acct \in Accounts
  BY DEF IInv, TypeOK, JobOK, JobSafe, Post, Request
<1>2. DatabaseOK(db') /\ disk' = db'
  BY <1>1, SetBalKeeps DEF Post, Commit
<1>3. JobOK' /\ JobSafe'
  BY IdleSafe DEF Post
<1>4. TypeOK'
  BY <1>1, <1>2, <1>3 DEF TypeOK, Post, DatabaseOK
<1> QED
  BY <1>2, <1>3, <1>4 DEF IInv

LEMMA PostTransferKeeps ==
    ASSUME IInv, PostTransfer
    PROVE  IInv'
<1>1. /\ DatabaseOK(db) /\ IsDatFile(dat) /\ edited \subseteq Accounts /\ loose \subseteq Accounts /\ crashes \in Nat
      /\ job.bal \in Int /\ job.bal >= 0 /\ job.req \in Request
      /\ job.req.target \in Accounts
  BY DEF IInv, TypeOK, JobOK, JobSafe, PostTransfer
<1>2. job.req.acct \in Accounts /\ job.req.amt \in Int /\ job.req.amt >= 0
  BY <1>1, RequestFields
<1> DEFINE t == job.req.target
           debited == SetBal(db, job.req.acct, job.bal)
           credit == debited.acct[t].bal + job.req.amt
           credited == SetBal(debited, t, credit)
<1>3. DatabaseOK(debited) /\ debited.txs = db.txs
  BY <1>1, <1>2, SetBalKeeps
<1>4. credit \in Int /\ credit >= 0
  <2>1. debited.acct[t].bal \in Int /\ debited.acct[t].bal >= 0
    BY <1>1, <1>3 DEF DatabaseOK, Database, AcctRec
  <2> HIDE DEF debited
  <2> QED
    BY <2>1, <1>2
<1> HIDE DEF debited, credit
<1>5. DatabaseOK(credited) /\ credited.txs = db.txs
  BY <1>1, <1>3, <1>4, SetBalKeeps
<1>6. NewRow(db, t, "D", job.req.amt) = NewRow(credited, t, "D", job.req.amt)
  BY <1>5 DEF NewRow
<1>7. DatabaseOK(Logged(credited, NewRow(credited, t, "D", job.req.amt)))
  BY <1>1, <1>2, <1>5, LoggedKeeps
<1>8. DatabaseOK(db') /\ disk' = db'
  BY <1>6, <1>7 DEF PostTransfer, Commit, debited, credit
<1>9. JobOK' /\ JobSafe'
  BY IdleSafe DEF PostTransfer
<1>10. TypeOK'
  BY <1>1, <1>8, <1>9 DEF TypeOK, PostTransfer, DatabaseOK
<1> QED
  BY <1>8, <1>9, <1>10 DEF IInv

LEMMA SetStatusKeeps ==
    ASSUME IInv, NEW a \in Accounts, NEW s \in Statuses, SetStatus(a, s)
    PROVE  IInv'
<1>1. /\ DatabaseOK(db) /\ db \in Database /\ Dense(db.txs) /\ Chained(db)
      /\ IsDatFile(dat) /\ edited \subseteq Accounts /\ loose \subseteq Accounts /\ crashes \in Nat
      /\ s \in {"A", "F", "C"}
  BY CallsAssumption DEF IInv, TypeOK, DatabaseOK
<1>2. /\ db'.txs = db.txs /\ db'.chain = db.chain /\ disk' = db' /\ db' \in Database
      /\ \A c \in Accounts : db'.acct[c].bal = db.acct[c].bal
  BY <1>1 DEF SetStatus, Database, AcctRec, Commit
<1>3. DatabaseOK(db')
  BY <1>1, <1>2 DEF DatabaseOK, Chained
<1>4. job' = [pc |-> "truncate",
              req |-> [type |-> "status", acct |-> a, amt |-> 0, target |-> NoTarget],
              bal |-> 0, file |-> db'.acct, todo |-> {}]
  BY DEF SetStatus, Idle, NoRequest
<1>5. IsDatFile(db'.acct)
  BY <1>2 DEF Database, IsDatFile
<1>6. JobOK' /\ JobSafe'
  BY <1>4, <1>5 DEF JobOK, JobSafe, BatchRequest
<1>7. TypeOK'
  BY <1>1, <1>2, <1>6 DEF TypeOK, SetStatus
<1> QED
  BY <1>2, <1>3, <1>6, <1>7 DEF IInv

LEMMA LogStatusKeeps ==
    ASSUME IInv, LogStatus
    PROVE  IInv'
<1>1. /\ DatabaseOK(db) /\ db \in Database /\ Dense(db.txs) /\ Chained(db)
      /\ IsDatFile(dat) /\ edited \subseteq Accounts /\ loose \subseteq Accounts /\ crashes \in Nat
      /\ job.req.acct \in Accounts
  BY DEF IInv, TypeOK, JobOK, LogStatus, DatabaseOK
<1> DEFINE e == [id |-> 0, acct |-> job.req.acct, type |-> "S", amt |-> 0]
           m == Len(db.chain)
<1>2. e \in Row /\ e.type = "S"
  BY <1>1 DEF Row
<1> HIDE DEF e
<1>3. /\ db'.acct = db.acct /\ db'.txs = db.txs /\ db'.chain = Append(db.chain, e)
      /\ db' \in Database /\ disk' = db'
  <2>1. db' = [db EXCEPT !.chain = Append(@, e)] /\ disk' = db'
    BY DEF LogStatus, Commit, e
  <2>2. Append(db.chain, e) \in Seq(Row)
    BY <1>1, <1>2 DEF Database
  <2> QED
    BY <1>1, <2>1, <2>2 DEF Database
<1>4. /\ DOMAIN db'.chain = 1..(m + 1) /\ db'.chain[m + 1] = e
      /\ \A i \in DOMAIN db.chain : i \in 1..m /\ db'.chain[i] = db.chain[i]
      /\ DOMAIN db.chain = 1..m /\ m \in Nat
  BY <1>1, <1>2, <1>3 DEF Database
<1>5. Postings(db'.chain) = Postings(db.chain)
  BY <1>2, <1>4 DEF Postings
<1>6. \A i \in Postings(db.chain) : db'.chain[i] = db.chain[i]
  BY <1>4 DEF Postings
<1>7. Chained(db')
  BY <1>1, <1>3, <1>5, <1>6 DEF Chained
<1>8. DatabaseOK(db')
  BY <1>1, <1>3, <1>7 DEF DatabaseOK
<1>9. JobOK' /\ JobSafe'
  BY IdleSafe DEF LogStatus
<1>10. TypeOK'
  BY <1>1, <1>3, <1>9 DEF TypeOK, LogStatus
<1> QED
  BY <1>3, <1>8, <1>9, <1>10 DEF IInv

LEMMA StartBatchKeeps ==
    ASSUME IInv, NEW kind \in Batches, StartBatch(kind)
    PROVE  IInv'
<1> DEFINE due == {a \in DOMAIN dat : IF kind = "I" THEN BearsInterest(dat, a) ELSE OwesFee(dat, a)}
<1>1. /\ IsDatFile(dat) /\ kind \in {"I", "F"} /\ UNCHANGED <<db, disk, dat, edited, loose, crashes>>
  BY CallsAssumption DEF IInv, TypeOK, StartBatch
<1>2. job' = [pc |-> "batch",
              req |-> [type |-> kind, acct |-> NoTarget, amt |-> 0, target |-> NoTarget],
              bal |-> 0, file |-> dat, todo |-> due]
  BY DEF StartBatch, Idle, NoRequest
<1>3. due \subseteq Accounts /\ due \subseteq DOMAIN dat
  BY <1>1 DEF IsDatFile
<1>4. \A a \in due : IF kind = "I" THEN dat[a].bal > 0 ELSE FeeOn(dat[a].bal) <= dat[a].bal
  BY DEF BearsInterest, OwesFee
<1> HIDE DEF due
<1>5. JobOK'
  BY <1>1, <1>2, <1>3 DEF JobOK, BatchRequest
<1>6. JobSafe'
  BY <1>2, <1>4 DEF JobSafe
<1>7. TypeOK'
  BY <1>1, <1>5 DEF IInv, TypeOK, IsDatFile
<1> QED
  BY <1>1, <1>6, <1>7 DEF IInv, DatabaseOK, Chained

LEMMA BatchStepKeeps ==
    ASSUME IInv, NEW a \in Accounts, BatchStep(a)
    PROVE  IInv'
<1> DEFINE old == job.file[a].bal
           amt == IF job.req.type = "I" THEN InterestOn(old) ELSE FeeOn(old)
           new == IF job.req.type = "I" THEN old + amt ELSE old - amt
<1>1. /\ DatabaseOK(db) /\ IsDatFile(dat) /\ edited \subseteq Accounts /\ loose \subseteq Accounts /\ crashes \in Nat
      /\ job.pc = "batch" /\ a \in job.todo /\ job.req.type \in {"I", "F"}
      /\ IsDatFile(job.file) /\ a \in DOMAIN job.file /\ job.todo \subseteq Accounts
      /\ JobOK /\ JobSafe
  BY DEF IInv, TypeOK, JobOK, BatchStep
<1>2. old \in Int
  BY <1>1 DEF IsDatFile, AcctRec
<1>3. IF job.req.type = "I" THEN old > 0 ELSE FeeOn(old) <= old
  BY <1>1 DEF JobSafe
<1>4. amt \in Nat /\ new \in Int /\ new >= 0
  BY <1>2, <1>3, BatchAmounts
<1>5. /\ disk' = Logged(db, NewRow(db, a, job.req.type, amt))
      /\ db' = SetBal(disk', a, new)
      /\ job' = [job EXCEPT !.todo = @ \ {a}, !.file[a].bal = new]
      /\ UNCHANGED <<dat, edited, crashes>> /\ loose' = loose \cup {a}
  BY DEF BatchStep
<1> HIDE DEF old, amt, new
<1>6. DatabaseOK(disk')
  BY <1>1, <1>4, <1>5, LoggedKeeps
<1>7. DatabaseOK(db') /\ db'.txs = disk'.txs /\ db'.chain = disk'.chain
  BY <1>4, <1>5, <1>6, SetBalKeeps
<1>8. /\ job'.pc = "batch" /\ job'.req = job.req /\ job'.bal = job.bal
      /\ job'.todo = job.todo \ {a} /\ DOMAIN job' = DOMAIN job
      /\ job'.file = [job.file EXCEPT ![a].bal = new]
  BY <1>1, <1>5 DEF JobOK
<1>9. /\ IsDatFile(job'.file) /\ DOMAIN job'.file = DOMAIN job.file
      /\ \A c \in DOMAIN job.file : c # a => job'.file[c] = job.file[c]
  BY <1>1, <1>4, <1>8 DEF IsDatFile, AcctRec
<1>10. JobOK'
  BY <1>1, <1>8, <1>9 DEF JobOK
<1>11. JobSafe'
  <2>1. \A c \in job'.todo : c \in job.todo /\ c \in DOMAIN job.file /\ job'.file[c] = job.file[c]
    BY <1>1, <1>8, <1>9 DEF JobOK
  <2> QED
    BY <1>1, <1>8, <2>1 DEF JobSafe
<1>12. TypeOK'
  BY <1>1, <1>5, <1>6, <1>7, <1>10 DEF TypeOK, DatabaseOK
<1> QED
  BY <1>6, <1>7, <1>11, <1>12 DEF IInv

LEMMA EndBatchKeeps ==
    ASSUME IInv, EndBatch
    PROVE  IInv'
<1>1. /\ JobOK /\ job.pc = "batch" /\ job.req.type \in {"I", "F"} /\ DatabaseOK(db)
      /\ IsDatFile(dat) /\ edited \subseteq Accounts /\ loose \subseteq Accounts /\ crashes \in Nat
  BY DEF IInv, TypeOK, JobOK, EndBatch
<1>2. /\ db' = db /\ disk' = db /\ UNCHANGED <<dat, edited, loose, crashes>>
      /\ job' = [job EXCEPT !.pc = "truncate"]
  BY DEF EndBatch, Commit
<1>3. /\ job'.pc = "truncate" /\ job'.req = job.req /\ job'.bal = job.bal
      /\ job'.file = job.file /\ job'.todo = job.todo /\ DOMAIN job' = DOMAIN job
  BY <1>1, <1>2 DEF JobOK
<1>4. JobOK' /\ JobSafe'
  BY <1>1, <1>3 DEF JobOK, JobSafe
<1>5. TypeOK'
  BY <1>1, <1>2, <1>4 DEF TypeOK, DatabaseOK, IsDatFile
<1> QED
  BY <1>1, <1>2, <1>4, <1>5 DEF IInv, DatabaseOK, Chained

LEMMA ReseedKeeps ==
    ASSUME IInv, Reseed
    PROVE  IInv'
<1>1. /\ UNCHANGED <<db, disk, dat, edited, loose, crashes>>
      /\ job' = [pc |-> "truncate",
                 req |-> [type |-> "seed", acct |-> NoTarget, amt |-> 0, target |-> NoTarget],
                 bal |-> 0, file |-> SeedFile, todo |-> {}]
  BY DEF Reseed, Idle, NoRequest
<1>2. IsDatFile(SeedFile) /\ \A a \in DOMAIN SeedFile : SeedFile[a].bal >= 0
  BY SeedAssumption DEF SeedFile, IsDatFile, AcctRec
<1>3. JobOK' /\ JobSafe'
  BY <1>1, <1>2 DEF JobOK, JobSafe, BatchRequest
<1>4. TypeOK'
  BY <1>1, <1>3 DEF IInv, TypeOK, IsDatFile
<1> QED
  BY <1>1, <1>3, <1>4 DEF IInv, DatabaseOK, Chained

LEMMA SyncAccountsKeeps ==
    ASSUME IInv, SyncAccounts
    PROVE  IInv'
<1>1. /\ DatabaseOK(db) /\ db \in Database /\ IsDatFile(dat)
      /\ edited \subseteq Accounts /\ loose \subseteq Accounts /\ crashes \in Nat
      /\ \A a \in DOMAIN dat : dat[a].bal >= 0
  BY DEF IInv, TypeOK, JobSafe, SyncAccounts
<1> DEFINE acct == [a \in Accounts |-> IF a \in DOMAIN dat THEN dat[a] ELSE db.acct[a]]
<1>2. acct \in [Accounts -> AcctRec] /\ \A a \in Accounts : acct[a].bal >= 0
  <2>1. db.acct \in [Accounts -> AcctRec] /\ \A a \in Accounts : db.acct[a].bal >= 0
    BY <1>1 DEF DatabaseOK, Database
  <2> QED
    BY <1>1, <2>1 DEF IsDatFile
<1>3. db' = [db EXCEPT !.acct = acct] /\ disk' = db' /\ UNCHANGED <<dat, edited, crashes>>
      /\ loose' = loose \cup DOMAIN dat
  BY DEF SyncAccounts, Commit
<1> HIDE DEF acct
<1>4. db'.acct = acct /\ db'.txs = db.txs /\ db'.chain = db.chain /\ db' \in Database
  BY <1>1, <1>2, <1>3 DEF Database
<1>5. DatabaseOK(db')
  BY <1>1, <1>2, <1>4 DEF DatabaseOK, Chained
<1>6. JobOK' /\ JobSafe'
  BY IdleSafe DEF SyncAccounts
<1>7. TypeOK'
  BY <1>1, <1>3, <1>4, <1>6 DEF TypeOK, IsDatFile
<1> QED
  BY <1>3, <1>5, <1>6, <1>7 DEF IInv

LEMMA TruncateDatKeeps ==
    ASSUME IInv, TruncateDat
    PROVE  IInv'
<1>1. /\ JobOK /\ JobSafe /\ job.pc = "truncate" /\ dat' = EmptyFile
      /\ job' = [job EXCEPT !.pc = "write"] /\ UNCHANGED <<db, disk, edited, loose, crashes>>
  BY DEF IInv, TypeOK, TruncateDat
<1>2. /\ job'.pc = "write" /\ job'.req = job.req /\ job'.bal = job.bal
      /\ job'.file = job.file /\ job'.todo = job.todo /\ DOMAIN job' = DOMAIN job
  BY <1>1 DEF JobOK
<1>3. JobOK' /\ JobSafe'
  BY <1>1, <1>2 DEF JobOK, JobSafe
<1>4. TypeOK'
  BY <1>1, <1>3 DEF IInv, TypeOK, IsDatFile, EmptyFile
<1> QED
  BY <1>1, <1>3, <1>4 DEF IInv, DatabaseOK, Chained

LEMMA WriteDatKeeps ==
    ASSUME IInv, WriteDat
    PROVE  IInv'
<1>1. /\ JobOK /\ JobSafe /\ job.pc = "write" /\ IsDatFile(job.file)
      /\ job.req.type \in {"status", "seed", "I", "F"}
      /\ dat' = job.file /\ edited \subseteq Accounts /\ loose \subseteq Accounts
      /\ edited' \in {{}, edited} /\ UNCHANGED <<db, disk, loose, crashes>>
  BY DEF IInv, TypeOK, JobOK, JobSafe, WriteDat
<1>2. CASE job.req.type = "status"
  <2>1. job' = [job EXCEPT !.pc = "log"]
    BY <1>2 DEF WriteDat
  <2>2. /\ job'.pc = "log" /\ job'.req = job.req /\ job'.bal = job.bal
        /\ job'.file = job.file /\ job'.todo = job.todo /\ DOMAIN job' = DOMAIN job
    BY <1>1, <2>1 DEF JobOK
  <2>3. job.req.acct \in Accounts
    BY <1>1, <1>2 DEF JobSafe
  <2> QED
    BY <1>1, <2>2, <2>3 DEF JobOK, JobSafe, IInv, TypeOK, IsDatFile, DatabaseOK, Chained
<1>3. CASE job.req.type = "seed"
  <2>1. job' = [job EXCEPT !.pc = "sync"]
    BY <1>3 DEF WriteDat
  <2>2. /\ job'.pc = "sync" /\ job'.req = job.req /\ job'.bal = job.bal
        /\ job'.file = job.file /\ job'.todo = job.todo /\ DOMAIN job' = DOMAIN job
    BY <1>1, <2>1 DEF JobOK
  <2>3. \A a \in DOMAIN dat' : dat'[a].bal >= 0
    BY <1>1, <1>3 DEF JobSafe
  <2> QED
    BY <1>1, <2>2, <2>3 DEF JobOK, JobSafe, IInv, TypeOK, IsDatFile, DatabaseOK, Chained
<1>4. CASE job.req.type \in {"I", "F"}
  <2>1. JobOK' /\ JobSafe'
    BY <1>4, IdleSafe DEF WriteDat
  <2> QED
    BY <1>1, <2>1 DEF IInv, TypeOK, IsDatFile, DatabaseOK, Chained
<1> QED
  BY <1>1, <1>2, <1>3, <1>4

LEMMA TamperKeeps ==
    ASSUME IInv, NEW a \in Accounts, NEW v \in TamperValues, Tamper(a, v)
    PROVE  IInv'
<1>1. /\ IsDatFile(dat) /\ a \in DOMAIN dat /\ v \in Int /\ edited \subseteq Accounts /\ loose \subseteq Accounts
      /\ dat' = [dat EXCEPT ![a].bal = v] /\ edited' \in {edited \ {a}, edited \cup {a}}
      /\ UNCHANGED <<db, disk, job, loose, crashes>> /\ JobOK /\ JobSafe /\ job.pc = "idle"
  BY CallsAssumption DEF IInv, TypeOK, Tamper
<1>2. IsDatFile(dat')
  BY <1>1 DEF IsDatFile, AcctRec
<1>3. JobOK' /\ JobSafe'
  BY <1>1 DEF JobOK, JobSafe, IsDatFile
<1>4. TypeOK'
  BY <1>1, <1>2, <1>3 DEF IInv, TypeOK
<1> QED
  BY <1>1, <1>3, <1>4 DEF IInv, DatabaseOK, Chained

LEMMA CrashKeeps ==
    ASSUME IInv, Crash
    PROVE  IInv'
<1>1. /\ DatabaseOK(disk) /\ db' = disk /\ UNCHANGED <<disk, dat, edited, loose>> /\ crashes' \in Nat
  BY DEF IInv, TypeOK, Crash
<1>2. JobOK' /\ JobSafe'
  BY IdleSafe DEF Crash
<1>3. TypeOK'
  BY <1>1, <1>2 DEF IInv, TypeOK, IsDatFile
<1> QED
  BY <1>1, <1>2, <1>3 DEF IInv, DatabaseOK, Chained

LEMMA NextInv == IInv /\ [Next]_vars => IInv'
<1>1. ASSUME IInv, Next PROVE IInv'
  <2>1. ASSUME NEW r \in Request, Record(r) PROVE IInv'
    BY <1>1, <2>1, RecordKeeps
  <2>2. CASE Post
    BY <1>1, <2>2, PostKeeps
  <2>3. CASE PostTransfer
    BY <1>1, <2>3, PostTransferKeeps
  <2>4. ASSUME NEW a \in Accounts, NEW s \in Statuses, SetStatus(a, s) PROVE IInv'
    BY <1>1, <2>4, SetStatusKeeps
  <2>5. CASE LogStatus
    BY <1>1, <2>5, LogStatusKeeps
  <2>6. ASSUME NEW kind \in Batches, StartBatch(kind) PROVE IInv'
    BY <1>1, <2>6, StartBatchKeeps
  <2>7. ASSUME NEW a \in Accounts, BatchStep(a) PROVE IInv'
    BY <1>1, <2>7, BatchStepKeeps
  <2>8. CASE EndBatch
    BY <1>1, <2>8, EndBatchKeeps
  <2>9. CASE Reseed
    BY <1>1, <2>9, ReseedKeeps
  <2>10. CASE SyncAccounts
    BY <1>1, <2>10, SyncAccountsKeeps
  <2>11. CASE TruncateDat
    BY <1>1, <2>11, TruncateDatKeeps
  <2>12. CASE WriteDat
    BY <1>1, <2>12, WriteDatKeeps
  <2>13. ASSUME NEW a \in Accounts, NEW v \in TamperValues, Tamper(a, v) PROVE IInv'
    BY <1>1, <2>13, TamperKeeps
  <2>14. CASE Crash
    BY <1>1, <2>14, CrashKeeps
  <2> QED
    BY <1>1, <2>1, <2>2, <2>3, <2>4, <2>5, <2>6, <2>7, <2>8, <2>9, <2>10, <2>11, <2>12,
       <2>13, <2>14 DEF Next
<1>2. ASSUME IInv, UNCHANGED vars PROVE IInv'
  BY <1>2 DEF vars, IInv, TypeOK, JobOK, JobSafe, DatabaseOK, IsDatFile, Chained
<1> QED
  BY <1>1, <1>2

THEOREM Invariance == Spec => []IInv
BY InitInv, NextInv, PTL DEF Spec

-----------------------------------------------------------------------------
(* The theorems                                                            *)

(* Every variable of a node keeps its type.                                *)
THEOREM TypeCorrect == Spec => []TypeOK
<1>1. IInv => TypeOK
  BY DEF IInv
<1> QED
  BY <1>1, Invariance, PTL

(* No interleaving of transactions, status changes, batches over a stale or*)
(* edited DAT file, reseeding and crashes overdraws an account.            *)
THEOREM NoOverdraftEver == Spec => []NoOverdraft
<1>1. IInv => NoOverdraft
  BY DEF IInv, DatabaseOK, NoOverdraft
<1> QED
  BY <1>1, Invariance, PTL

(* The durable transactions and the durable chain are the same history,    *)
(* whatever crashes happen between a handler's commits.                    *)
THEOREM LedgerAlwaysChained == Spec => []LedgerChained
<1>1. IInv => LedgerChained
  BY DEF IInv, DatabaseOK, LedgerChained
<1> QED
  BY <1>1, Invariance, PTL

(* Transaction numbers have no gap and no duplicate.                       *)
THEOREM IdsAlwaysDense == Spec => []IdsDense
<1>1. IInv => IdsDense
  BY DEF IInv, DatabaseOK, IdsDense
<1> QED
  BY <1>1, Invariance, PTL

(* Appending leaves what was there as a prefix.                            *)
LEMMA AppendPrefix ==
    ASSUME NEW S, NEW s \in Seq(S), NEW x
    PROVE  IsPrefix(s, s) /\ IsPrefix(s, Append(s, x))
<1>1. Append(s, x) \in Seq(S \cup {x}) /\ s \in Seq(S \cup {x})
  OBVIOUS
<1> QED
  BY <1>1 DEF IsPrefix

(* The durable ledger grows by at most one row or entry in a step.         *)
LEMMA LedgerSteps ==
    ASSUME IInv, [Next]_vars
    PROVE  /\ disk'.txs = disk.txs \/ \E x : disk'.txs = Append(disk.txs, x)
           /\ disk'.chain = disk.chain \/ \E x : disk'.chain = Append(disk.chain, x)
<1>1. db \in Database /\ disk \in Database /\ db.txs = disk.txs /\ db.chain = disk.chain
  BY DEF IInv, TypeOK
<1>2. \A d, a, b : SetBal(d, a, b).txs = d.txs /\ SetBal(d, a, b).chain = d.chain
  BY DEF SetBal
<1>4. ASSUME NEW r \in Request, Record(r)
      PROVE  \E x : disk'.txs = Append(disk.txs, x) /\ disk'.chain = Append(disk.chain, x)
  <2> DEFINE row == NewRow(db, r.acct, r.type, r.amt)
  <2>1. disk' = Logged(db, row)
    BY <1>4 DEF Record, Commit
  <2> HIDE DEF row
  <2>2. disk'.txs = Append(disk.txs, row) /\ disk'.chain = Append(disk.chain, row)
    BY <1>1, <2>1 DEF Logged
  <2> QED
    BY <2>2
<1>5. ASSUME Post PROVE disk'.txs = disk.txs /\ disk'.chain = disk.chain
  BY <1>1, <1>2, <1>5 DEF Post, Commit
<1>6. ASSUME PostTransfer
      PROVE  \E x : disk'.txs = Append(disk.txs, x) /\ disk'.chain = Append(disk.chain, x)
  <2> DEFINE t == job.req.target
             debited == SetBal(db, job.req.acct, job.bal)
             credited == SetBal(debited, t, debited.acct[t].bal + job.req.amt)
             row == NewRow(db, t, "D", job.req.amt)
  <2>2. debited.txs = db.txs /\ debited.chain = db.chain
    BY <1>2
  <2>3. credited.txs = debited.txs /\ credited.chain = debited.chain
    BY <1>2
  <2>4. disk' = Logged(credited, row)
    BY <1>6 DEF PostTransfer, Commit
  <2> HIDE DEF credited, debited, row
  <2>5. disk'.txs = Append(disk.txs, row) /\ disk'.chain = Append(disk.chain, row)
    BY <1>1, <2>2, <2>3, <2>4 DEF Logged
  <2> QED
    BY <2>5
<1>7. ASSUME NEW a \in Accounts, NEW s \in Statuses, SetStatus(a, s)
      PROVE  disk'.txs = disk.txs /\ disk'.chain = disk.chain
  BY <1>1, <1>7 DEF SetStatus, Commit, Database
<1>8. ASSUME LogStatus
      PROVE  disk'.txs = disk.txs /\ \E x : disk'.chain = Append(disk.chain, x)
  BY <1>1, <1>8 DEF LogStatus, Commit, Database
<1>9. ASSUME NEW a \in Accounts, BatchStep(a)
      PROVE  \E x : disk'.txs = Append(disk.txs, x) /\ disk'.chain = Append(disk.chain, x)
  <2> DEFINE old == job.file[a].bal
             row == NewRow(db, a, job.req.type,
                           IF job.req.type = "I" THEN InterestOn(old) ELSE FeeOn(old))
  <2>1. disk' = Logged(db, row)
    BY <1>9 DEF BatchStep
  <2> HIDE DEF row
  <2>2. disk'.txs = Append(disk.txs, row) /\ disk'.chain = Append(disk.chain, row)
    BY <1>1, <2>1 DEF Logged
  <2> QED
    BY <2>2
<1>10. ASSUME EndBatch \/ SyncAccounts
       PROVE  disk'.txs = disk.txs /\ disk'.chain = disk.chain
  BY <1>1, <1>10 DEF EndBatch, SyncAccounts, Commit, Database
<1>11. ASSUME \/ \E kind \in Batches : StartBatch(kind)
              \/ Reseed \/ TruncateDat \/ WriteDat \/ Crash
              \/ \E a \in Accounts, v \in TamperValues : Tamper(a, v)
              \/ UNCHANGED vars
       PROVE  disk' = disk
  BY <1>11 DEF StartBatch, Reseed, TruncateDat, WriteDat, Crash, Tamper, vars
<1> QED
  BY <1>4, <1>5, <1>6, <1>7, <1>8, <1>9, <1>10, <1>11 DEF Next

(* The ledger that is durable only grows: no step, a crash included, takes *)
(* back a transaction or a chain entry.                                    *)
THEOREM LedgerOnlyGrows == Spec => LedgerAppendOnly
<1>1. ASSUME IInv, [Next]_vars
      PROVE  [IsPrefix(disk.txs, disk'.txs) /\ IsPrefix(disk.chain, disk'.chain)]_vars
  <2>1. disk.txs \in Seq(Row) /\ disk.chain \in Seq(Row)
    BY <1>1 DEF IInv, DatabaseOK, Database
  <2> QED
    BY <1>1, <2>1, LedgerSteps, AppendPrefix
<1> QED
  BY <1>1, Invariance, PTL DEF Spec, LedgerAppendOnly

-----------------------------------------------------------------------------
(* The ledger explains the balances                                        *)

LEMMA ReplayAppend ==
    ASSUME NEW txs \in Seq(Row), NEW row \in Row, NEW a \in Accounts
    PROVE  /\ Replay(txs, a) \in Int
           /\ Replay(Append(txs, row), a) = Replay(txs, a) + Effect(row, a)
           /\ Effect(row, a) \in Int
<1> DEFINE n == Len(txs)
           w == [i \in DOMAIN txs |-> Effect(txs[i], a)]
           more == Append(txs, row)
           v == [i \in DOMAIN more |-> Effect(more[i], a)]
<1>1. /\ n \in Nat /\ DOMAIN txs = 1 .. n /\ DOMAIN more = 1 .. n + 1
      /\ more[n + 1] = row
      /\ \A i \in 1 .. n : more[i] = txs[i]
      /\ \A i \in 1 .. n + 1 : more[i] \in Row
  OBVIOUS
<1> HIDE DEF n
<1>2. \A r \in Row : Effect(r, a) \in Int
  BY DEF Row, Effect
<1> HIDE DEF more
<1>3. \A i \in 1 .. n + 1 : v[i] = Effect(more[i], a) /\ v[i] \in Int
  BY <1>1, <1>2
<1>4. \A i \in 1 .. n : w[i] = v[i]
  BY <1>1
<1>5. v[n + 1] = Effect(row, a)
  BY <1>1, <1>3
<1>6. /\ Replay(txs, a) = SeedBalance[a] + SumFunctionOnSet(w, 1 .. n)
      /\ Replay(more, a) = SeedBalance[a] + SumFunctionOnSet(v, 1 .. n + 1)
  <2>1. DOMAIN w = 1 .. n /\ DOMAIN v = 1 .. n + 1
    BY <1>1
  <2>2. Replay(txs, a) = SeedBalance[a] + SumFunction(w) /\ Replay(more, a) = SeedBalance[a] + SumFunction(v)
    BY DEF Replay
  <2> HIDE DEF w, v
  <2> QED
    BY <2>1, <2>2 DEF SumFunction
<1> HIDE DEF w, v
<1>7. /\ SumFunctionOnSet(w, 1 .. n) \in Int
      /\ SumFunctionOnSet(v, 1 .. n + 1) = SumFunctionOnSet(w, 1 .. n) + v[n + 1]
  BY <1>1, <1>3, <1>4, SumAppend
<1>8. SeedBalance[a] \in Int /\ Effect(row, a) \in Int
  BY <1>2, SeedAssumption
<1>9. Replay(more, a) = Replay(txs, a) + Effect(row, a)
  BY <1>5, <1>6, <1>7, <1>8
<1> QED
  BY <1>6, <1>7, <1>8, <1>9 DEF more

LEMMA ReplayType == ASSUME NEW txs \in Seq(Row), NEW a \in Accounts PROVE Replay(txs, a) \in Int
<1>1. [id |-> 0, acct |-> a, type |-> "S", amt |-> 0] \in Row
  BY DEF Row
<1> QED
  BY <1>1, ReplayAppend

LEMMA StraysCounted ==
    ASSUME NEW S, NEW x, S \subseteq Strays \cup {x}
    PROVE  /\ Cardinality(S) \in Nat /\ Cardinality(Strays) \in Nat
           /\ Cardinality(S) <= Cardinality(Strays) + 1
           /\ S \subseteq Strays => Cardinality(S) <= Cardinality(Strays)
<1>1. IsFiniteSet(Strays)
  BY AccountsAssumption, FS_Subset DEF Strays
<1> DEFINE T == Strays \cup {x}
<1>2. /\ IsFiniteSet(T) /\ Cardinality(Strays) \in Nat
      /\ Cardinality(T) = IF x \in Strays THEN Cardinality(Strays) ELSE Cardinality(Strays) + 1
  BY <1>1, FS_AddElement, FS_CardinalityType
<1>3. Cardinality(T) <= Cardinality(Strays) + 1
  BY <1>2
<1>4. S \subseteq T /\ IsFiniteSet(S) /\ Cardinality(S) <= Cardinality(T) /\ Cardinality(S) \in Nat
  BY <1>2, FS_Subset, FS_CardinalityType
<1>5. S \subseteq Strays => Cardinality(S) <= Cardinality(Strays)
  BY <1>1, FS_Subset
<1>6. Cardinality(T) \in Nat
  BY <1>2, FS_CardinalityType
<1> HIDE DEF T
<1> QED
  BY <1>2, <1>3, <1>4, <1>5, <1>6

(* A step that leaves every balance outside of the file as far from the    *)
(* ledger as it was.                                                       *)
LEMMA SameStrays ==
    ASSUME BooksInv, IInv', loose \subseteq loose', crashes' = crashes,
           \A a \in Accounts \ loose' :
               Booked(a)' - Replay(db.txs, a)' = Booked(a) - Replay(db.txs, a)
    PROVE  MovesOnly => Cardinality(Strays)' <= crashes'
<1>1. db \in Database /\ db' \in Database /\ JobOK /\ JobOK' /\ crashes \in Nat
  BY DEF BooksInv, IInv, TypeOK
<1>2. db.txs \in Seq(Row) /\ (db').txs \in Seq(Row)
  BY <1>1 DEF Database
<1>3. \A a \in Accounts : Booked(a) \in Int /\ Booked(a)' \in Int
  BY <1>1 DEF Booked, Database, AcctRec, JobOK
<1>4. \A a \in Accounts : Replay(db.txs, a) \in Int /\ Replay(db.txs, a)' \in Int
  <2> TAKE a \in Accounts
  <2>1. Replay(db.txs, a) \in Int
    BY <1>2, ReplayType
  <2>2. Replay((db').txs, a) \in Int
    BY <1>2, ReplayType
  <2>3. Replay(db.txs, a)' = Replay((db').txs, a)
    BY DEF Replay
  <2> QED
    BY <2>1, <2>2, <2>3
<1>5. Strays' \subseteq Strays
  <2> SUFFICES ASSUME NEW a \in Strays' PROVE a \in Strays
    OBVIOUS
  <2>1. a \in Accounts \ loose' /\ Booked(a)' # Replay(db.txs, a)'
    BY DEF Strays
  <2>2. Booked(a) # Replay(db.txs, a)
    BY <1>3, <1>4, <2>1
  <2> QED
    BY <2>1, <2>2 DEF Strays
<1>6. Cardinality(Strays') <= Cardinality(Strays) /\ Cardinality(Strays') \in Nat /\ Cardinality(Strays) \in Nat
  <2>1. Strays' \subseteq Strays \cup {NoTarget}
    BY <1>5
  <2> QED
    BY <1>5, <2>1, StraysCounted
<1>7. MovesOnly => Cardinality(Strays) <= crashes
  BY DEF BooksInv
<1> QED
  BY <1>1, <1>6, <1>7

LEMMA StandStrays ==
    ASSUME BooksInv, IInv', loose \subseteq loose', crashes' = crashes,
           job.pc # "post", job'.pc # "post", db'.txs = db.txs,
           \A a \in Accounts \ loose' : db'.acct[a].bal = db.acct[a].bal
    PROVE  MovesOnly => Cardinality(Strays)' <= crashes'
<1>1. \A a \in Accounts \ loose' : Booked(a)' = Booked(a)
  BY DEF Booked
<1>2. \A a \in Accounts : Replay(db.txs, a)' = Replay(db.txs, a)
  BY DEF Replay
<1> QED
  BY <1>1, <1>2, SameStrays

LEMMA CrashBooks == ASSUME BooksInv, Crash PROVE BooksInv'
<1>1. IInv'
  BY CrashKeeps DEF BooksInv
<1>2. /\ db' = disk /\ disk' = disk /\ job' = Idle /\ loose' = loose /\ crashes' = crashes + 1
      /\ crashes \in Nat /\ db.txs = disk.txs
  BY DEF Crash, BooksInv, IInv, TypeOK
<1>3. job'.pc = "idle"
  BY <1>2 DEF Idle
<1>4. Strays' \subseteq Strays \cup {job.req.acct}
  <2> SUFFICES ASSUME NEW a \in Strays', a # job.req.acct PROVE a \in Strays
    OBVIOUS
  <2>1. a \in Accounts \ loose /\ Booked(a)' # Replay(db.txs, a)'
    BY <1>2 DEF Strays
  <2>2. Booked(a)' = disk.acct[a].bal /\ Booked(a) = db.acct[a].bal
    BY <1>2, <1>3 DEF Booked
  <2>3. Replay(db.txs, a)' = Replay(db.txs, a)
    BY <1>2 DEF Replay
  <2>4. db.acct[a].bal = disk.acct[a].bal
    BY <2>1 DEF BooksInv
  <2> QED
    BY <2>1, <2>2, <2>3, <2>4 DEF Strays
<1>5. MovesOnly => Cardinality(Strays') <= crashes + 1
  <2>1. /\ Cardinality(Strays') <= Cardinality(Strays) + 1
        /\ Cardinality(Strays') \in Nat /\ Cardinality(Strays) \in Nat
    BY <1>4, StraysCounted
  <2>2. MovesOnly => Cardinality(Strays) <= crashes
    BY DEF BooksInv
  <2> QED
    BY <1>2, <2>1, <2>2
<1> QED
  BY <1>1, <1>2, <1>3, <1>5 DEF BooksInv

LEMMA RecordBooks ==
    ASSUME BooksInv, NEW r \in Request, Record(r)
    PROVE  BooksInv'
<1>1. IInv'
  BY RecordKeeps DEF BooksInv
<1>2. /\ r.acct \in Accounts /\ r.type \in {"D", "W", "T", "I", "F"} /\ r.amt \in Int
      /\ db \in Database /\ Dense(db.txs)
  BY RequestFields DEF BooksInv, IInv, DatabaseOK, Request
<1> DEFINE row == NewRow(db, r.acct, r.type, r.amt)
<1>3. row = [id |-> LastSeq(db.txs) + 1, acct |-> r.acct, type |-> r.type, amt |-> r.amt]
  BY DEF NewRow
<1>4. row \in Row
  <2>1. db.txs \in Seq(Row)
    BY <1>2 DEF Database
  <2>2. LastSeq(db.txs) \in Nat
    BY <1>2, <2>1, LastSeqIsLen
  <2> QED
    BY <1>2, <1>3, <2>2 DEF Row
<1>5. /\ disk' = db' /\ db'.txs = Append(db.txs, row) /\ db'.acct = db.acct
      /\ UNCHANGED <<loose, crashes>> /\ job.pc = "idle"
  <2>1. db' = Logged(db, row)
    BY DEF Record
  <2> HIDE DEF row
  <2> QED
    BY <2>1 DEF Record, Commit, Logged
<1>6. job'.pc = "post" /\ job'.req = r /\ job'.bal = BalanceAfter(db, r)
  BY DEF Record, Idle
<1> HIDE DEF row
<1>7. db.acct[r.acct].bal \in Int
  BY <1>2 DEF Database, AcctRec
<1>8. ASSUME MovesOnly
      PROVE  BalanceAfter(db, r) = db.acct[r.acct].bal + Effect(row, r.acct)
  <2>1. r.type \in {"D", "W", "T"}
    BY <1>8 DEF MovesOnly, Request
  <2> QED
    BY <1>2, <1>3, <1>7, <2>1 DEF BalanceAfter, Effect
<1>9. ASSUME MovesOnly, NEW a \in Accounts \ loose'
      PROVE  Booked(a)' - Replay(db.txs, a)' = Booked(a) - Replay(db.txs, a)
  <2>1. Booked(a) = db.acct[a].bal /\ db.acct[a].bal \in Int
    BY <1>2, <1>5 DEF Booked, Database, AcctRec
  <2>2. Booked(a)' = db.acct[a].bal + Effect(row, a)
    <3>1. CASE a = r.acct
      BY <1>5, <1>6, <1>8, <1>9, <3>1 DEF Booked
    <3>2. CASE a # r.acct
      <4>1. Effect(row, a) = 0
        BY <1>3, <3>2 DEF Effect
      <4> QED
        BY <1>5, <1>6, <2>1, <3>2, <4>1 DEF Booked
    <3> QED
      BY <3>1, <3>2
  <2>3. Replay(db.txs, a)' = Replay(Append(db.txs, row), a)
    BY <1>5 DEF Replay
  <2>4. db.txs \in Seq(Row)
    BY <1>2 DEF Database
  <2>5. /\ Replay(db.txs, a) \in Int /\ Effect(row, a) \in Int
        /\ Replay(Append(db.txs, row), a) = Replay(db.txs, a) + Effect(row, a)
    BY <1>4, <2>4, ReplayAppend
  <2> QED
    BY <2>1, <2>2, <2>3, <2>5
<1>10. MovesOnly => Cardinality(Strays)' <= crashes'
  BY <1>1, <1>5, <1>9, SameStrays
<1>11. r.type = "T" => BalanceAfter(db, r) = db.acct[r.acct].bal - r.amt
  BY <1>2, <1>7 DEF BalanceAfter
<1> QED
  BY <1>1, <1>5, <1>6, <1>10, <1>11 DEF BooksInv

LEMMA PostBooks == ASSUME BooksInv, Post PROVE BooksInv'
<1>1. IInv'
  BY PostKeeps DEF BooksInv
<1>2. /\ job.pc = "post" /\ job.req.acct \in Accounts /\ job.bal \in Int /\ db \in Database
  BY DEF Post, BooksInv, IInv, TypeOK, JobOK, Request
<1>3. /\ db'.txs = db.txs /\ disk' = db' /\ job' = Idle /\ UNCHANGED <<loose, crashes>>
      /\ db'.acct = [db.acct EXCEPT ![job.req.acct].bal = job.bal]
  BY DEF Post, Commit, SetBal
<1>4. job'.pc = "idle"
  BY <1>3 DEF Idle
<1>5. \A a \in Accounts : db'.acct[a].bal = IF a = job.req.acct THEN job.bal ELSE db.acct[a].bal
  BY <1>2, <1>3 DEF Database, AcctRec
<1>6. \A a \in Accounts : Booked(a)' = Booked(a)
  BY <1>2, <1>4, <1>5 DEF Booked
<1>7. \A a \in Accounts : Replay(db.txs, a)' = Replay(db.txs, a)
  BY <1>3 DEF Replay
<1>8. MovesOnly => Cardinality(Strays)' <= crashes'
  BY <1>1, <1>3, <1>6, <1>7, SameStrays
<1> QED
  BY <1>1, <1>3, <1>4, <1>8 DEF BooksInv

(* The two balances a transfer writes, also when they are one.             *)
LEMMA TransferBalances ==
    ASSUME BooksInv, PostTransfer
    PROVE  LET r == job.req
               t == r.target
               row == NewRow(db, t, "D", r.amt)
           IN  /\ r.acct \in Accounts /\ t \in Accounts /\ r.amt \in Int /\ job.bal \in Int /\ row \in Row
               /\ row.acct = t /\ row.type = "D" /\ row.amt = r.amt
               /\ db'.txs = Append(db.txs, row) /\ disk' = db' /\ job' = Idle /\ UNCHANGED <<loose, crashes>>
               /\ \A a \in Accounts : db'.acct[a].bal = (IF a = r.acct THEN job.bal ELSE db.acct[a].bal)
                                                          + (IF a = t THEN r.amt ELSE 0)
<1> DEFINE r == job.req
           t == r.target
           row == NewRow(db, t, "D", r.amt)
           debited == SetBal(db, r.acct, job.bal)
           credited == SetBal(debited, t, debited.acct[t].bal + r.amt)
<1>1. /\ r.acct \in Accounts /\ t \in Accounts /\ r.amt \in Int /\ job.bal \in Int
      /\ db \in Database /\ Dense(db.txs)
  <2>1. r \in Request /\ t \in Accounts /\ job.bal \in Int /\ db \in Database /\ Dense(db.txs)
    BY DEF PostTransfer, BooksInv, IInv, TypeOK, JobOK, DatabaseOK
  <2> QED
    BY <2>1, RequestFields
<1>2. row = [id |-> LastSeq(db.txs) + 1, acct |-> t, type |-> "D", amt |-> r.amt]
  BY DEF NewRow
<1>3. row \in Row
  <2>1. db.txs \in Seq(Row)
    BY <1>1 DEF Database
  <2>2. LastSeq(db.txs) \in Nat
    BY <1>1, <2>1, LastSeqIsLen
  <2> QED
    BY <1>1, <1>2, <2>2 DEF Row
<1>4. debited.acct = [db.acct EXCEPT ![r.acct].bal = job.bal] /\ debited.txs = db.txs
  BY DEF SetBal
<1>5. db.acct \in [Accounts -> AcctRec]
  BY <1>1 DEF Database
<1> HIDE DEF r, t, debited
<1>6. /\ debited.acct \in [Accounts -> AcctRec]
      /\ \A a \in Accounts : debited.acct[a].bal = IF a = r.acct THEN job.bal ELSE db.acct[a].bal
  BY <1>1, <1>4, <1>5 DEF AcctRec
<1>7. credited.acct = [debited.acct EXCEPT ![t].bal = debited.acct[t].bal + r.amt] /\ credited.txs = db.txs
  BY <1>4 DEF SetBal
<1>8. debited.acct[t].bal \in Int
  BY <1>1, <1>6 DEF AcctRec
<1> DEFINE credit == debited.acct[t].bal + r.amt
<1>9. credit \in Int
  BY <1>1, <1>8
<1>10. credited.acct = [debited.acct EXCEPT ![t].bal = credit]
  BY <1>7
<1> HIDE DEF credited, credit
<1>11. \A a \in Accounts : credited.acct[a].bal = IF a = t THEN credit ELSE debited.acct[a].bal
  BY <1>1, <1>6, <1>9, <1>10 DEF AcctRec
<1>12. \A a \in Accounts : debited.acct[a].bal \in Int
  BY <1>6 DEF AcctRec
<1>13. \A a \in Accounts : credited.acct[a].bal = (IF a = r.acct THEN job.bal ELSE db.acct[a].bal)
                                                     + (IF a = t THEN r.amt ELSE 0)
  BY <1>1, <1>6, <1>11, <1>12 DEF credit
<1> HIDE DEF row
<1>14. db' = Logged(credited, row) /\ disk' = db' /\ job' = Idle /\ UNCHANGED <<loose, crashes>>
  BY DEF PostTransfer, Commit, credited, debited, row, r, t
<1>15. db'.acct = credited.acct /\ db'.txs = Append(db.txs, row)
  BY <1>7, <1>14 DEF Logged, credited
<1>16. row.acct = t /\ row.type = "D" /\ row.amt = r.amt
  BY <1>2
<1> QED
  BY <1>1, <1>3, <1>13, <1>14, <1>15, <1>16 DEF row, r, t

LEMMA PostTransferBooks == ASSUME BooksInv, PostTransfer PROVE BooksInv'
<1> DEFINE t == job.req.target
           amt == job.req.amt
<1>1. IInv'
  BY PostTransferKeeps DEF BooksInv
<1>2. PICK row \in Row :
      /\ job.req.acct \in Accounts /\ t \in Accounts /\ amt \in Int /\ job.bal \in Int
      /\ row.acct = t /\ row.type = "D" /\ row.amt = amt
      /\ db'.txs = Append(db.txs, row) /\ disk' = db' /\ job' = Idle /\ UNCHANGED <<loose, crashes>>
      /\ \A a \in Accounts : db'.acct[a].bal = (IF a = job.req.acct THEN job.bal ELSE db.acct[a].bal)
                                                 + (IF a = t THEN amt ELSE 0)
  BY TransferBalances
<1>3. job'.pc = "idle" /\ job.pc = "post"
  <2>1. job' = Idle /\ job.pc = "post"
    BY DEF PostTransfer
  <2> QED
    BY <2>1 DEF Idle
<1> HIDE DEF t, amt
<1>4. db.txs \in Seq(Row) /\ \A a \in Accounts : db.acct[a].bal \in Int
  BY DEF BooksInv, IInv, TypeOK, Database, AcctRec
<1>5. ASSUME NEW a \in Accounts
      PROVE  Booked(a)' - Replay(db.txs, a)' = Booked(a) - Replay(db.txs, a)
  <2>1. Effect(row, a) = IF a = t THEN amt ELSE 0
    BY <1>2 DEF Effect
  <2>2. Booked(a) = IF a = job.req.acct THEN job.bal ELSE db.acct[a].bal
    BY <1>3 DEF Booked
  <2>3. Booked(a) \in Int /\ Booked(a)' = Booked(a) + Effect(row, a)
    BY <1>2, <1>3, <1>4, <2>1, <2>2 DEF Booked
  <2>4. Replay(db.txs, a)' = Replay(Append(db.txs, row), a)
    BY <1>2 DEF Replay
  <2>5. /\ Replay(db.txs, a) \in Int /\ Effect(row, a) \in Int
        /\ Replay(Append(db.txs, row), a) = Replay(db.txs, a) + Effect(row, a)
    BY <1>2, <1>4, ReplayAppend
  <2> QED
    BY <2>3, <2>4, <2>5
<1>6. MovesOnly => Cardinality(Strays)' <= crashes'
  BY <1>1, <1>2, <1>5, SameStrays
<1> QED
  BY <1>1, <1>2, <1>3, <1>6 DEF BooksInv

LEMMA BatchStepBooks == ASSUME BooksInv, NEW b \in Accounts, BatchStep(b) PROVE BooksInv'
<1>1. IInv'
  BY BatchStepKeeps DEF BooksInv
<1> DEFINE old == job.file[b].bal
           amt == IF job.req.type = "I" THEN InterestOn(old) ELSE FeeOn(old)
           new == IF job.req.type = "I" THEN old + amt ELSE old - amt
           row == NewRow(db, b, job.req.type, amt)
<1>2. /\ job.pc = "batch" /\ disk' = Logged(db, row) /\ db' = SetBal(disk', b, new)
      /\ job' = [job EXCEPT !.todo = @ \ {b}, !.file[b].bal = new]
      /\ loose' = loose \cup {b} /\ crashes' = crashes
  BY DEF BatchStep
<1> HIDE DEF new, row
<1>3. /\ JobOK /\ db \in Database /\ db' \in Database /\ disk' \in Database
      /\ job.req.type \in {"I", "F"}
  BY <1>1, <1>2 DEF BooksInv, IInv, TypeOK, JobOK
<1>4. /\ disk'.txs = Append(db.txs, row) /\ db'.txs = disk'.txs /\ disk'.acct = db.acct
      /\ db'.acct = [db.acct EXCEPT ![b].bal = new]
  BY <1>2 DEF Logged, SetBal
<1>5. \A a \in Accounts \ {b} : db'.acct[a].bal = db.acct[a].bal /\ disk'.acct[a].bal = db.acct[a].bal
  BY <1>3, <1>4 DEF Database
<1>6. job'.pc = "batch"
  BY <1>2, <1>3 DEF JobOK
<1>7. row.acct = b
  BY DEF row, NewRow
<1>8. \A a \in Accounts \ {b} : Replay(db.txs, a)' = Replay(db.txs, a)
  <2> TAKE a \in Accounts \ {b}
  <2>1. db'.txs \in Seq(Row) /\ db.txs \in Seq(Row)
    BY <1>3 DEF Database
  <2>2. db'.txs[Len(db.txs) + 1] = row /\ Len(db.txs) + 1 \in DOMAIN db'.txs
    BY <1>4, <2>1
  <2>3. row \in Row
    BY <2>1, <2>2
  <2>4. Effect(row, a) = 0
    BY <1>7 DEF Effect
  <2>5. Replay(Append(db.txs, row), a) = Replay(db.txs, a) + Effect(row, a) /\ Replay(db.txs, a) \in Int
    BY <2>1, <2>3, ReplayAppend
  <2>6. Replay(db.txs, a)' = Replay(Append(db.txs, row), a)
    BY <1>4 DEF Replay
  <2> QED
    BY <2>4, <2>5, <2>6
<1>9. \A a \in Accounts \ {b} : Booked(a)' = Booked(a)
  BY <1>2, <1>5, <1>6 DEF Booked
<1>10. MovesOnly => Cardinality(Strays)' <= crashes'
  <2>1. Accounts \ loose' \subseteq Accounts \ {b}
    BY <1>2
  <2> QED
    BY <1>1, <1>2, <1>8, <1>9, <2>1, SameStrays
<1>11. \A a \in Accounts \ loose' : db'.acct[a].bal = disk'.acct[a].bal
  BY <1>2, <1>5
<1> QED
  BY <1>1, <1>6, <1>10, <1>11 DEF BooksInv

LEMMA QuietBooks ==
    ASSUME BooksInv, IInv', loose \subseteq loose', crashes' = crashes,
           job.pc # "post", job'.pc # "post", db'.txs = db.txs,
           \A a \in Accounts \ loose' : db'.acct[a].bal = db.acct[a].bal,
           disk' = db' \/ (UNCHANGED <<db, disk>> /\ (job.pc = "batch" => job'.pc = "batch"))
    PROVE  BooksInv'
<1>1. MovesOnly => Cardinality(Strays)' <= crashes'
  BY StandStrays
<1> QED
  BY <1>1 DEF BooksInv

LEMMA OthersBooks ==
    ASSUME BooksInv,
           \/ \E a \in Accounts, s \in Statuses : SetStatus(a, s)
           \/ LogStatus \/ EndBatch \/ Reseed \/ SyncAccounts \/ TruncateDat \/ WriteDat
           \/ \E kind \in Batches : StartBatch(kind)
           \/ \E a \in Accounts, v \in TamperValues : Tamper(a, v)
    PROVE  BooksInv'
<1>1. IInv /\ IInv'
  BY NextInv DEF BooksInv, Next
<1>2. db \in Database /\ JobOK /\ db.acct \in [Accounts -> AcctRec] /\ DOMAIN job = {"pc", "req", "bal", "file", "todo"}
  BY <1>1 DEF IInv, TypeOK, Database, JobOK
<1>3. ASSUME NEW c \in Accounts, NEW s \in Statuses, SetStatus(c, s)
      PROVE  BooksInv'
  <2>1. job.pc = "idle" /\ job'.pc = "truncate" /\ disk' = db' /\ UNCHANGED <<loose, crashes>>
    BY <1>3 DEF SetStatus, Commit, Idle
  <2>2. db'.txs = db.txs /\ db'.acct = [db.acct EXCEPT ![c].status = s]
    BY <1>2, <1>3 DEF SetStatus, Database
  <2>3. \A a \in Accounts : db'.acct[a].bal = db.acct[a].bal
    BY <1>2, <2>2 DEF AcctRec
  <2> QED
    BY <1>1, <2>1, <2>2, <2>3, QuietBooks
<1>4. ASSUME LogStatus
      PROVE  BooksInv'
  <2>1. /\ job.pc = "log" /\ job'.pc = "idle" /\ disk' = db' /\ UNCHANGED <<loose, crashes>>
        /\ db'.txs = db.txs /\ db'.acct = db.acct
    BY <1>2, <1>4 DEF LogStatus, Commit, Idle, Database
  <2> QED
    BY <1>1, <2>1, QuietBooks
<1>5. ASSUME EndBatch
      PROVE  BooksInv'
  <2>1. /\ job.pc = "batch" /\ job'.pc = "truncate" /\ disk' = db' /\ UNCHANGED <<loose, crashes>>
        /\ db'.txs = db.txs /\ \A a \in Accounts : db'.acct[a].bal = db.acct[a].bal
    BY <1>2, <1>5 DEF EndBatch, Commit
  <2> QED
    BY <1>1, <2>1, QuietBooks
<1>6. ASSUME SyncAccounts
      PROVE  BooksInv'
  <2>1. /\ job.pc = "sync" /\ job'.pc = "idle" /\ disk' = db' /\ loose' = loose \cup DOMAIN dat /\ crashes' = crashes
        /\ db'.txs = db.txs
        /\ db'.acct = [a \in Accounts |-> IF a \in DOMAIN dat THEN dat[a] ELSE db.acct[a]]
    BY <1>2, <1>6 DEF SyncAccounts, Commit, Idle, Database
  <2>2. \A a \in Accounts \ loose' : db'.acct[a].bal = db.acct[a].bal
    BY <2>1
  <2> QED
    BY <1>1, <2>1, <2>2, QuietBooks
<1>7. ASSUME UNCHANGED <<db, disk, loose, crashes>>, job.pc \notin {"post", "batch"}, job'.pc # "post"
      PROVE  BooksInv'
  BY <1>1, <1>7, QuietBooks
<1>8. ASSUME Reseed \/ TruncateDat
      PROVE  BooksInv'
  BY <1>2, <1>7, <1>8 DEF Reseed, TruncateDat, Idle
<1>9. ASSUME WriteDat
      PROVE  BooksInv'
  BY <1>2, <1>7, <1>9 DEF WriteDat, Idle
<1>10. ASSUME NEW kind \in Batches, StartBatch(kind)
       PROVE  BooksInv'
  BY <1>7, <1>10 DEF StartBatch, Idle
<1>11. ASSUME NEW a \in Accounts, NEW v \in TamperValues, Tamper(a, v)
       PROVE  BooksInv'
  BY <1>7, <1>11 DEF Tamper
<1> QED
  BY <1>3, <1>4, <1>5, <1>6, <1>8, <1>9, <1>10, <1>11

LEMMA InitBooks == Init => BooksInv
<1> SUFFICES ASSUME Init PROVE BooksInv
  OBVIOUS
<1>1. IInv
  BY InitInv
<1>2. db.acct = SeedFile /\ db.txs = <<>> /\ disk = db /\ job.pc = "idle" /\ loose = {} /\ crashes = 0
  BY DEF Init, Idle
<1>3. ASSUME NEW a \in Accounts
      PROVE  Replay(db.txs, a) = Booked(a)
  <2> DEFINE w == [i \in DOMAIN db.txs |-> Effect(db.txs[i], a)]
  <2>1. DOMAIN w = {} /\ Replay(db.txs, a) = SeedBalance[a] + SumFunction(w)
    BY <1>2 DEF Replay
  <2> HIDE DEF w
  <2>2. SumFunction(w) = 0
    BY <2>1, FS_EmptySet, SumSplit DEF SumFunction
  <2>3. SeedBalance[a] \in Nat
    BY SeedAssumption
  <2> QED
    BY <1>2, <2>1, <2>2, <2>3 DEF Booked, SeedFile
<1>4. Strays = {}
  BY <1>3 DEF Strays
<1> QED
  BY <1>1, <1>2, <1>4, FS_EmptySet DEF BooksInv

LEMMA BooksStep ==
    ASSUME BooksInv, [Next]_vars
    PROVE  BooksInv'
<1>1. CASE Next
  BY <1>1, RecordBooks, PostBooks, PostTransferBooks, BatchStepBooks, CrashBooks, OthersBooks DEF Next
<1>2. CASE UNCHANGED vars
  <2>1. IInv'
    BY NextInv DEF BooksInv
  <2>2. \A a \in Accounts : Booked(a)' = Booked(a) /\ Replay(db.txs, a)' = Replay(db.txs, a)
    BY <1>2 DEF vars, Booked, Replay
  <2>3. Strays' = Strays
    BY <1>2, <2>2 DEF Strays, vars
  <2> QED
    BY <1>2, <2>1, <2>3 DEF BooksInv, vars
<1> QED
  BY <1>1, <1>2

(* Between the ledger and the balances nothing is lost but by a crash, and *)
(* nothing waits to be committed but what a batch took from the file.      *)
THEOREM BooksInvariance == Spec => []BooksInv
BY InitBooks, BooksStep, PTL DEF Spec

(* Whatever deposits, withdrawals and transfers are asked for, and however *)
(* often the process dies between the commits of process_transaction, the  *)
(* balances that never came from the file differ from the seed and the     *)
(* ledger's rows in one account per crash at most.                         *)
THEOREM CrashesLoseOneEach == ASSUME MovesOnly PROVE Spec => []OneAccountPerCrash
<1>1. BooksInv => OneAccountPerCrash
  BY DEF BooksInv, OneAccountPerCrash, Strays, Booked, Unexplained
<1> QED
  BY <1>1, BooksInvariance, PTL

-----------------------------------------------------------------------------
(* Transfers make no money                                                 *)

LEMMA TotalOf ==
    ASSUME NEW d \in Database
    PROVE  /\ Total(d) = SumFunctionOnSet([a \in Accounts |-> d.acct[a].bal], Accounts)
           /\ \A a \in Accounts : d.acct[a].bal \in Int
<1> DEFINE w == [a \in Accounts |-> d.acct[a].bal]
<1>1. Total(d) = SumFunction(w) /\ DOMAIN w = Accounts
  BY DEF Total
<1>2. \A a \in Accounts : d.acct[a].bal \in Int
  BY DEF Database, AcctRec
<1> HIDE DEF w
<1>3. Total(d) = SumFunctionOnSet(w, Accounts)
  BY <1>1 DEF SumFunction
<1> QED
  BY <1>2, <1>3 DEF w

(* Taking from one balance and giving to another, or to the same.          *)
LEMMA TransferTotal ==
    ASSUME NEW d \in Database, NEW e \in Database, NEW s \in Accounts, NEW t \in Accounts, NEW amt \in Int,
           \A a \in Accounts : e.acct[a].bal = d.acct[a].bal + (IF a = t THEN amt ELSE 0)
                                                            - (IF a = s THEN amt ELSE 0)
    PROVE  Total(e) = Total(d)
<1> DEFINE w == [a \in Accounts |-> d.acct[a].bal]
           u == [a \in Accounts |-> IF a = s THEN d.acct[a].bal - amt ELSE d.acct[a].bal]
           v == [a \in Accounts |-> e.acct[a].bal]
<1>1. /\ IsFiniteSet(Accounts)
      /\ Total(d) = SumFunctionOnSet(w, Accounts) /\ Total(e) = SumFunctionOnSet(v, Accounts)
  BY AccountsAssumption, TotalOf
<1>2. \A a \in Accounts : d.acct[a].bal \in Int /\ e.acct[a].bal \in Int
  BY TotalOf
<1>3. \A a \in Accounts : /\ w[a] = d.acct[a].bal /\ v[a] = e.acct[a].bal
                          /\ u[a] = IF a = s THEN d.acct[a].bal - amt ELSE d.acct[a].bal
  OBVIOUS
<1> HIDE DEF w, u, v
<1>10. \A a \in Accounts : w[a] \in Int /\ u[a] \in Int /\ v[a] \in Int
  BY <1>2, <1>3
<1>4. \A a \in Accounts : v[a] = u[a] + (IF a = t THEN amt ELSE 0)
  BY <1>2, <1>3
<1>5. SumFunctionOnSet(u, Accounts) = SumFunctionOnSet(w, Accounts) - w[s] + u[s]
  <2>1. \A a \in Accounts \ {s} : w[a] = u[a]
    BY <1>10, <1>3
  <2> QED
    BY <1>1, <1>10, <2>1, SumChange
<1>6. SumFunctionOnSet(v, Accounts) = SumFunctionOnSet(u, Accounts) - u[t] + v[t]
  <2>1. \A a \in Accounts \ {t} : u[a] = v[a]
    BY <1>10, <1>4
  <2> QED
    BY <1>1, <1>10, <2>1, SumChange
<1>7. SumFunctionOnSet(w, Accounts) \in Int /\ SumFunctionOnSet(u, Accounts) \in Int
  BY <1>1, <1>10, SumSplit
<1>8. u[s] = w[s] - amt /\ v[t] = u[t] + amt
  BY <1>3, <1>4
<1>9. w[s] \in Int /\ u[t] \in Int
  BY <1>10
<1> QED
  BY <1>1, <1>5, <1>6, <1>7, <1>8, <1>9

LEMMA PostTransferTotal ==
    ASSUME BooksInv, PostTransfer
    PROVE  Total(disk') = Total(disk)
<1> DEFINE s == job.req.acct
           t == job.req.target
           amt == job.req.amt
<1>1. /\ s \in Accounts /\ t \in Accounts /\ amt \in Int /\ disk' = db'
      /\ \A a \in Accounts : db'.acct[a].bal = (IF a = s THEN job.bal ELSE db.acct[a].bal)
                                                 + (IF a = t THEN amt ELSE 0)
  BY TransferBalances
<1>2. job.bal = db.acct[s].bal - amt /\ db = disk /\ db \in Database /\ db' \in Database
  <2>1. job.pc = "post" /\ job.req.type = "T"
    BY DEF PostTransfer
  <2>2. db \in Database /\ db' \in Database
    BY PostTransferKeeps DEF BooksInv, IInv, TypeOK
  <2> QED
    BY <2>1, <2>2 DEF BooksInv
<1>3. \A a \in Accounts : db.acct[a].bal \in Int
  BY <1>2, TotalOf
<1> HIDE DEF s, t, amt
<1>4. \A a \in Accounts : db'.acct[a].bal = db.acct[a].bal + (IF a = t THEN amt ELSE 0)
                                                           - (IF a = s THEN amt ELSE 0)
  BY <1>1, <1>2, <1>3
<1>5. PICK d, e : d = db /\ e = db'
  OBVIOUS
<1>6. d \in Database /\ e \in Database /\ s \in Accounts /\ t \in Accounts /\ amt \in Int
  BY <1>1, <1>2, <1>5
<1>7. \A a \in Accounts : e.acct[a].bal = d.acct[a].bal + (IF a = t THEN amt ELSE 0)
                                                        - (IF a = s THEN amt ELSE 0)
  BY <1>4, <1>5
<1>8. Total(e) = Total(d)
  BY <1>6, <1>7, TransferTotal
<1>9. disk' = e /\ disk = d
  BY <1>1, <1>2, <1>5
<1> QED
  BY <1>8, <1>9

(* No commit of a transfer between two accounts of the node, nor from an   *)
(* account to itself, changes the sum of the durable balances: the debit is*)
(* durable with the credit and the row of the credit, or not at all.       *)
THEOREM TransfersMakeNoMoney == Spec => TransferConserves
<1>1. ASSUME BooksInv, [Next]_vars
      PROVE  [job.pc = "post" /\ job.req.type = "T" /\ job.req.target \in Accounts
                => Total(disk') = Total(disk)]_vars
  <2> SUFFICES ASSUME job.pc = "post", job.req.type = "T", job.req.target \in Accounts, disk' # disk
               PROVE  Total(disk') = Total(disk)
    OBVIOUS
  <2>1. PostTransfer
    <3>1. job.req.target # NoTarget
      BY AccountsAssumption
    <3> QED
      BY <1>1, <3>1 DEF Next, Record, Post, SetStatus, LogStatus, StartBatch, BatchStep, EndBatch, Reseed,
                        SyncAccounts, TruncateDat, WriteDat, Tamper, Crash, vars
  <2> QED
    BY <1>1, <2>1, PostTransferTotal
<1> QED
  BY <1>1, BooksInvariance, PTL DEF Spec, TransferConserves
=============================================================================
