------------------------------ MODULE BankNode ------------------------------
(***************************************************************************)
(* One banking node as python/bridge.py runs it without COBOL binaries     *)
(* (Mode B): the class COBOLBridge over one SQLite file and one            *)
(* ACCOUNTS.DAT file, driven by one caller, with crashes of the process.   *)
(*                                                                         *)
(* A handler is cut where its effects become durable: at every commit of   *)
(* the SQLite connection (IntegrityChain.append commits the connection it  *)
(* shares with the bridge) and at the truncation and the write of the DAT  *)
(* file.  A crash keeps what is durable and forgets the rest.              *)
(*                                                                         *)
(* Amounts are integers of cents; names, dates and timestamps are left out.*)
(***************************************************************************)
EXTENDS Ledger, FiniteSets, Functions, SequencesExt

CONSTANTS
    Accounts,       \* the account ids of the node
    NoTarget,       \* a target_id that is None or names no account
    AcctType,       \* [Accounts -> {"C", "S"}]: checking or savings
    SeedBalance,    \* [Accounts -> Nat]: the balances of SEED_ACCOUNTS
    Amounts,        \* the amounts callers ask for
    TxTypes,        \* the transaction types callers ask for
    Statuses,       \* the statuses callers of update_account_status ask for
    Batches,        \* the monthly batches that are run: "I" interest, "F" fees
    TamperValues,   \* the balances an edit of ACCOUNTS.DAT may write
    Reseeds,        \* whether seed_demo_data is called again later
    MaxTxs,         \* bound: rows of the transactions table
    MaxChain,       \* bound: entries of the hash chain
    MaxCrashes      \* bound: crashes of the process

ASSUME AccountsAssumption == IsFiniteSet(Accounts) /\ NoTarget \notin Accounts
ASSUME TypesAssumption == AcctType \in [Accounts -> {"C", "S"}]
ASSUME SeedAssumption == SeedBalance \in [Accounts -> Nat]
ASSUME CallsAssumption ==
    /\ Amounts \subseteq Nat /\ 0 \notin Amounts
    /\ TxTypes \subseteq {"D", "W", "T", "I", "F"}
    /\ Statuses \subseteq {"A", "F", "C"}
    /\ Batches \subseteq {"I", "F"}
    /\ TamperValues \subseteq Int
    /\ Reseeds \in BOOLEAN
ASSUME BoundsAssumption == MaxTxs \in Nat /\ MaxChain \in Nat /\ MaxCrashes \in Nat

VARIABLES
    db,       \* the database as the open connection sees it
    disk,     \* the database as of the last commit
    dat,      \* ACCOUNTS.DAT: the accounts it holds and what it says of them
    job,      \* the handler that is running, with its local variables
    edited,   \* history: accounts whose DAT balance comes from an edit of the file
    loose,    \* history: accounts whose balance was once taken from the DAT file
    crashes   \* how often the process has crashed

vars == <<db, disk, dat, job, edited, loose, crashes>>

-----------------------------------------------------------------------------
(* Data                                                                    *)

AcctRec == [bal : Int, status : {"A", "F", "C"}]
Row == [id : Nat, acct : Accounts, type : {"D", "W", "T", "I", "F", "S"}, amt : Int]
Database == [acct : [Accounts -> AcctRec], txs : Seq(Row), chain : Seq(Row)]
Request == [type : TxTypes, acct : Accounts, amt : Amounts, target : Accounts \cup {NoTarget}]

BearsInterest(f, a) == AcctType[a] = "S" /\ f[a].status = "A" /\ f[a].bal > 0
OwesFee(f, a) ==
    /\ AcctType[a] = "C" /\ f[a].status = "A"
    /\ f[a].bal <= 500000
    /\ FeeOn(f[a].bal) <= f[a].bal

SeedFile == [a \in Accounts |-> [bal |-> SeedBalance[a], status |-> "A"]]
EmptyFile == [a \in {} |-> [bal |-> 0, status |-> "A"]]

NoRequest == [type |-> "none", acct |-> NoTarget, amt |-> 0, target |-> NoTarget]

(* pc:    where the handler will resume                                    *)
(* req:   the arguments of process_transaction, or the kind of a batch or  *)
(*        the account of a status change, in the same fields               *)
(* bal:   new_balance, computed when the account was read                  *)
(* file:  the accounts to be written to ACCOUNTS.DAT                       *)
(* todo:  the accounts a batch has still to post                           *)
Idle == [pc |-> "idle", req |-> NoRequest, bal |-> 0, file |-> EmptyFile, todo |-> {}]

Init ==
    /\ db = [acct |-> SeedFile, txs |-> <<>>, chain |-> <<>>]
    /\ disk = db
    /\ dat = SeedFile
    /\ job = Idle
    /\ edited = {}
    /\ loose = {}
    /\ crashes = 0

Commit == disk' = db'

-----------------------------------------------------------------------------
(* process_transaction: the checks, the transaction row and its chain      *)
(* entry, which chain.append commits.  A refused request changes nothing.  *)
Record(r) ==
    /\ job.pc = "idle"
    /\ Len(db.txs) < MaxTxs /\ Len(db.chain) < MaxChain
    /\ Decision(db, r) = "00"
    /\ db' = Logged(db, NewRow(db, r.acct, r.type, r.amt))
    /\ Commit
    /\ job' = [Idle EXCEPT !.pc = "post", !.req = r, !.bal = BalanceAfter(db, r)]
    /\ UNCHANGED <<dat, edited, loose, crashes>>

(* The balance of a transaction that credits nobody else: everything but a *)
(* transfer to an account of this node.                                    *)
Post ==
    /\ job.pc = "post"
    /\ job.req.type # "T" \/ job.req.target = NoTarget
    /\ db' = SetBal(db, job.req.acct, job.bal)
    /\ Commit
    /\ job' = Idle
    /\ UNCHANGED <<dat, edited, loose, crashes>>

PostTransferReadEarly ==    \* mutant: the target is read before the debit
    /\ job.pc = "post"
    /\ job.req.type = "T" /\ job.req.target \in Accounts
    /\ LET t == job.req.target
           debited == SetBal(db, job.req.acct, job.bal)
           credited == SetBal(debited, t, db.acct[t].bal + job.req.amt)
       IN  db' = Logged(credited, NewRow(db, t, "D", job.req.amt))
    /\ Commit
    /\ job' = Idle
    /\ UNCHANGED <<dat, edited, loose, crashes>>

(* The rest of a transfer.  The target is read after the source was        *)
(* debited, and neither its status nor the source's is looked at again.    *)
PostTransfer ==
    /\ job.pc = "post"
    /\ job.req.type = "T" /\ job.req.target \in Accounts
    /\ LET t == job.req.target
           debited == SetBal(db, job.req.acct, job.bal)
           credited == SetBal(debited, t, debited.acct[t].bal + job.req.amt)
       IN  db' = Logged(credited, NewRow(db, t, "D", job.req.amt))
    /\ Commit
    /\ job' = Idle
    /\ UNCHANGED <<dat, edited, loose, crashes>>

(* update_account_status: the database first ...                           *)
SetStatus(a, s) ==
    /\ job.pc = "idle"
    /\ Len(db.chain) < MaxChain
    /\ db' = [db EXCEPT !.acct[a].status = s]
    /\ Commit
    /\ job' = [Idle EXCEPT !.pc = "truncate", !.file = db'.acct,
                           !.req = [NoRequest EXCEPT !.type = "status", !.acct = a]]
    /\ UNCHANGED <<dat, edited, loose, crashes>>

(* ... then the whole DAT file from the database, then the chain.          *)
LogStatus ==
    /\ job.pc = "log"
    /\ db' = [db EXCEPT !.chain = Append(@, [id |-> 0, acct |-> job.req.acct,
                                             type |-> "S", amt |-> 0])]
    /\ Commit
    /\ job' = Idle
    /\ UNCHANGED <<dat, edited, loose, crashes>>

StartBatchFromDb(kind) ==    \* mutant: the accounts are listed from the database
    /\ job.pc = "idle"
    /\ Len(db.txs) + Cardinality(Accounts) <= MaxTxs
    /\ Len(db.chain) + Cardinality(Accounts) <= MaxChain
    /\ job' = [Idle EXCEPT !.pc = "batch", !.file = dat,
                           !.req = [NoRequest EXCEPT !.type = kind],
                           !.todo = {a \in Accounts : IF kind = "I" THEN BearsInterest(db.acct, a)
                                                                    ELSE OwesFee(db.acct, a)}]
    /\ UNCHANGED <<db, disk, dat, edited, loose, crashes>>

(* run_interest_batch and run_fee_batch work on the accounts as the DAT    *)
(* file has them.  The order of the accounts is left open.                 *)
StartBatch(kind) ==
    /\ job.pc = "idle"
    /\ Len(db.txs) + Cardinality(Accounts) <= MaxTxs
    /\ Len(db.chain) + Cardinality(Accounts) <= MaxChain
    /\ job' = [Idle EXCEPT !.pc = "batch", !.file = dat,
                           !.req = [NoRequest EXCEPT !.type = kind],
                           !.todo = {a \in DOMAIN dat : IF kind = "I" THEN BearsInterest(dat, a)
                                                                      ELSE OwesFee(dat, a)}]
    /\ UNCHANGED <<db, disk, dat, edited, loose, crashes>>

(* One account of a batch: row and entry are committed by append, together *)
(* with the balance of the account before; its own balance is committed    *)
(* with the next account, or at the end.                                   *)
BatchStep(a) ==
    /\ job.pc = "batch" /\ a \in job.todo
    /\ LET old == job.file[a].bal
           amt == IF job.req.type = "I" THEN InterestOn(old) ELSE FeeOn(old)
           new == IF job.req.type = "I" THEN old + amt ELSE old - amt
       IN  /\ disk' = Logged(db, NewRow(db, a, job.req.type, amt))
           /\ db' = SetBal(disk', a, new)
           /\ job' = [job EXCEPT !.todo = @ \ {a}, !.file[a].bal = new]
    /\ loose' = loose \cup {a}
    /\ UNCHANGED <<dat, edited, crashes>>

EndBatch ==
    /\ job.pc = "batch" /\ job.todo = {}
    /\ db' = db /\ Commit
    /\ job' = [job EXCEPT !.pc = "truncate"]
    /\ UNCHANGED <<dat, edited, loose, crashes>>

(* seed_demo_data: the DAT file from SEED_ACCOUNTS, then the accounts table*)
(* from the DAT file.  Transactions and chain are kept.                    *)
Reseed ==
    /\ Reseeds
    /\ job.pc = "idle"
    /\ job' = [Idle EXCEPT !.pc = "truncate", !.file = SeedFile,
                           !.req = [NoRequest EXCEPT !.type = "seed"]]
    /\ UNCHANGED <<db, disk, dat, edited, loose, crashes>>

SyncAfterDelete ==    \* mutant: seeding starts the tables anew
    /\ job.pc = "sync"
    /\ db' = [acct |-> [a \in Accounts |-> IF a \in DOMAIN dat THEN dat[a] ELSE db.acct[a]],
              txs |-> <<>>, chain |-> <<>>]
    /\ Commit
    /\ job' = Idle
    /\ loose' = loose \cup DOMAIN dat
    /\ UNCHANGED <<dat, edited, crashes>>

SyncAccounts ==
    /\ job.pc = "sync"
    /\ db' = [db EXCEPT !.acct = [a \in Accounts |-> IF a \in DOMAIN dat THEN dat[a] ELSE @[a]]]
    /\ Commit
    /\ job' = Idle
    /\ loose' = loose \cup DOMAIN dat
    /\ UNCHANGED <<dat, edited, crashes>>

(* _write_accounts_to_dat: open(.., 'wb') empties the file, the buffered   *)
(* records reach it when it is closed.                                     *)
TruncateDat ==
    /\ job.pc = "truncate"
    /\ dat' = EmptyFile
    /\ job' = [job EXCEPT !.pc = "write"]
    /\ UNCHANGED <<db, disk, edited, loose, crashes>>

WriteDat ==
    /\ job.pc = "write"
    /\ dat' = job.file
    /\ edited' = IF job.req.type \in {"status", "seed"} THEN {} ELSE edited
    /\ job' = CASE job.req.type = "status" -> [job EXCEPT !.pc = "log"]
                [] job.req.type = "seed"   -> [job EXCEPT !.pc = "sync"]
                [] OTHER                   -> Idle
    /\ UNCHANGED <<db, disk, loose, crashes>>

(* cross_verify.tamper_balance, the demonstration's edit of the DAT file,  *)
(* made between two operations of the bridge.                              *)
Tamper(a, v) ==
    /\ job.pc = "idle"
    /\ a \in DOMAIN dat
    /\ dat' = [dat EXCEPT ![a].bal = v]
    /\ edited' = IF v = db.acct[a].bal THEN edited \ {a} ELSE edited \cup {a}
    /\ UNCHANGED <<db, disk, job, loose, crashes>>

(* The process dies and is started again over the same files.              *)
Crash ==
    /\ job.pc # "idle"
    /\ crashes < MaxCrashes
    /\ crashes' = crashes + 1
    /\ db' = disk
    /\ job' = Idle
    /\ UNCHANGED <<disk, dat, edited, loose>>

Next ==
    \/ \E r \in Request : Record(r)
    \/ Post
    \/ PostTransfer
    \/ \E a \in Accounts, s \in Statuses : SetStatus(a, s)
    \/ LogStatus
    \/ \E kind \in Batches : StartBatch(kind)
    \/ \E a \in Accounts : BatchStep(a)
    \/ EndBatch
    \/ Reseed
    \/ SyncAccounts
    \/ TruncateDat
    \/ WriteDat
    \/ \E a \in Accounts, v \in TamperValues : Tamper(a, v)
    \/ Crash

Spec == Init /\ [][Next]_vars

-----------------------------------------------------------------------------
(* Properties                                                              *)

IsDatFile(f) == DOMAIN f \subseteq Accounts /\ f \in [DOMAIN f -> AcctRec]

BatchRequest == [type : {"none", "status", "seed", "I", "F"},
                 acct : Accounts \cup {NoTarget}, amt : {0}, target : {NoTarget}]

(* The handler that is running: a posting handler holds a real request, and*)
(* a batch only has accounts to do that its copy of the file holds.        *)
JobOK ==
    /\ DOMAIN job = {"pc", "req", "bal", "file", "todo"}
    /\ job.pc \in {"idle", "post", "truncate", "write", "log", "sync", "batch"}
    /\ job.req \in Request \cup BatchRequest
    /\ job.bal \in Int
    /\ IsDatFile(job.file)
    /\ job.todo \subseteq Accounts
    /\ job.pc = "post" => job.req \in Request
    /\ job.pc = "log" => job.req.acct \in Accounts
    /\ job.pc = "batch" => job.req.type \in {"I", "F"} /\ job.todo \subseteq DOMAIN job.file

(* Every variable keeps its type.                                          *)
TypeOK ==
    /\ db \in Database /\ disk \in Database
    /\ IsDatFile(dat)
    /\ JobOK
    /\ edited \subseteq Accounts /\ loose \subseteq Accounts
    /\ crashes \in Nat

(* No account of the database is ever overdrawn, whatever the order of     *)
(* transactions, transfers, batches over a stale or edited DAT file, status*)
(* changes, reseeding and crashes (the NSF check is made on a balance read *)
(* two commits before the balance is written).                             *)
NoOverdraft == \A a \in Accounts : db.acct[a].bal >= 0 /\ disk.acct[a].bal >= 0

(* The entries of a chain that record transactions, by their position.     *)
Postings(chain) == {i \in DOMAIN chain : chain[i].type # "S"}

Chained(d) ==
    /\ {d.chain[i] : i \in Postings(d.chain)} = Range(d.txs)
    /\ \A i, j \in Postings(d.chain) : i < j => d.chain[i].id < d.chain[j].id

(* What is durable in the transactions table is exactly what is durable in *)
(* the chain, once and in the same order, after any crash: append commits  *)
(* the row and its entry together.                                         *)
LedgerChained == Chained(disk)

(* TRX numbers come from MAX + 1 without a lock; with one connection they  *)
(* count the rows without a gap, so no two rows ever share a primary key.  *)
Dense(txs) == \A i \in DOMAIN txs : txs[i].id = i
IdsDense == Dense(db.txs)

(* What a row of the ledger says it did to the balance of account a.       *)
Effect(row, a) ==
    IF row.acct # a THEN 0
    ELSE CASE row.type \in {"D", "I"} -> row.amt
           [] OTHER                   -> -row.amt

(* The balance the ledger accounts for: the seed and every row since.      *)
Replay(txs, a) == SeedBalance[a] + SumFunction([i \in DOMAIN txs |-> Effect(txs[i], a)])

Unexplained == {a \in Accounts : db.acct[a].bal # Replay(db.txs, a)}

(* The balances that never came from the DAT file (no batch, no reseeding) *)
(* are what the ledger says, but for one account per crash: a crash between*)
(* the commit of a chain entry and that of the balance loses one effect.   *)
OneAccountPerCrash == job.pc = "idle" => Cardinality(Unexplained \ loose) <= crashes

Total(d) == SumFunction([a \in Accounts |-> d.acct[a].bal])

(* A transfer between accounts of the node moves money and makes none, and *)
(* also when source and target are the same account: no step of it changes *)
(* the sum of the durable balances.                                        *)
TransferConserves ==
    [][job.pc = "post" /\ job.req.type = "T" /\ job.req.target \in Accounts
         => Total(disk') = Total(disk)]_vars

(* What was durable stays: transactions and chain entries are only added,  *)
(* through crashes, batches and reseeding.                                 *)
LedgerAppendOnly ==
    [][IsPrefix(disk.txs, disk'.txs) /\ IsPrefix(disk.chain, disk'.chain)]_vars

(* The invariant the proofs are made with.  What the connection sees and   *)
(* has not committed is one balance at most; and what a handler has in its *)
(* local variables may be written.                                         *)
DatabaseOK(d) ==
    /\ d \in Database
    /\ Dense(d.txs)
    /\ Chained(d)
    /\ \A a \in Accounts : d.acct[a].bal >= 0

JobSafe ==
    /\ job.pc = "post" => job.bal >= 0
    /\ job.pc = "batch" => \A a \in job.todo :
          LET b == job.file[a].bal IN IF job.req.type = "I" THEN b > 0 ELSE FeeOn(b) <= b
    /\ job.pc \in {"truncate", "write"} =>
          /\ job.req.type \in {"status", "seed", "I", "F"}
          /\ job.req.type = "status" => job.req.acct \in Accounts
          /\ job.req.type = "seed" => \A a \in DOMAIN job.file : job.file[a].bal >= 0
    /\ job.pc = "sync" => \A a \in DOMAIN dat : dat[a].bal >= 0

IInv ==
    /\ TypeOK
    /\ DatabaseOK(db) /\ DatabaseOK(disk)
    /\ db.txs = disk.txs /\ db.chain = disk.chain
    /\ JobSafe

(* The invariant that proves OneAccountPerCrash and TransferConserves.  The*)
(* handler that posts carries the effect of the row it has recorded, so a  *)
(* balance that is out of step although the handler's is counted in is one *)
(* that a crash left so; and only a batch holds back a commit, of balances *)
(* it took from the file.                                                  *)
Booked(a) == IF job.pc = "post" /\ job.req.acct = a THEN job.bal ELSE db.acct[a].bal
Strays == {a \in Accounts \ loose : Booked(a) # Replay(db.txs, a)}


(* What the programs of the repository ask for.  The API would also let    *)
(* interest and fees through: process_transaction gives them a row and an  *)
(* entry and no balance.                                                   *)
MovesOnly == TxTypes \subseteq {"D", "W", "T"}

BooksInv ==
    /\ IInv
    /\ job.pc # "batch" => db = disk
    /\ \A a \in Accounts \ loose : db.acct[a].bal = disk.acct[a].bal
    /\ job.pc = "post" /\ job.req.type = "T" => job.bal = db.acct[job.req.acct].bal - job.req.amt
    /\ MovesOnly => Cardinality(Strays) <= crashes
=============================================================================
