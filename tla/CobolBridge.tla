----------------------------- MODULE CobolBridge -----------------------------
(***************************************************************************)
(* A banking node with COBOL binaries (Mode A of python/bridge.py).  A     *)
(* caller of the bridge runs a program over ACCOUNTS.DAT and TRANSACT.DAT, *)
(* reads what it says, and brings the database and the chain up to date.   *)
(* Several callers may be in the bridge at once, and each program that     *)
(* runs may be killed at any moment, by its timeout, after which the       *)
(* bridge makes a transaction itself (Mode B).                             *)
(*                                                                         *)
(* A program is cut where it reads or changes a file, the bridge where it  *)
(* commits; the statements of the posting in Mode B are one step here and  *)
(* apart in BankNode and NodeSessions.                                     *)
(***************************************************************************)
EXTENDS CobolPrograms

CONSTANTS
    Callers,        \* threads that call the bridge
    SeedBalance,    \* [Accounts -> Nat]
    Calls,          \* the calls they make
    MaxCalls,       \* bound: calls
    MaxKills        \* bound: programs killed

ASSUME SeedAssumption == SeedBalance \in [Accounts -> Nat]

(* Amounts are not negative (the requests' models see to it), a status is  *)
(* one of three letters and its account known (update_account_status       *)
(* returns before all this otherwise).  The account of a transaction may   *)
(* be any word.                                                            *)
Words == {k.acct : k \in Calls} \cup {k.to : k \in Calls}
Operations == {"D", "W", "T", "UPDATE", "INTEREST", "FEES", "BATCH"}
ASSUME CallsAssumption ==
    /\ Calls \subseteq [op : Operations, acct : Words, amt : Nat, to : Words]
    /\ \A k \in Calls : k.op = "UPDATE" => k.acct \in Accounts /\ k.to \in {"A", "F", "C"}
    /\ MaxCalls \in Nat /\ MaxKills \in Nat

VARIABLES
    file,         \* ACCOUNTS.DAT
    trx,          \* TRANSACT.DAT
    db,           \* the database: accounts, transactions, chain
    run,          \* what each caller is doing
    calls, kills, \* how many there were
    overlapped,   \* history: two calls were once in the bridge at once
    batched       \* history: a batch of TRANSACT has run

vars == <<file, trx, db, run, calls, kills, overlapped, batched>>

-----------------------------------------------------------------------------
NoCall == [op |-> "none", acct |-> "none", amt |-> 0, to |-> "none"]
NoWork == Work(<<>>, {}, <<>>, "")

(* pc:     where program or bridge will resume                             *)
(* call:   what the caller asked for                                       *)
(* work:   what the program has still to do, and its code                  *)
(* num:    the largest number of a record the program knows of             *)
(* seen:   the accounts it has loaded                                      *)
(* said:   the records its output tells of                                 *)
Idle == [pc |-> "idle", call |-> NoCall, work |-> NoWork, num |-> 0,
         seen |-> NoAccounts, said |-> <<>>]

SeedFile == [a \in Accounts |-> [bal |-> SeedBalance[a], status |-> "A"]]

Init ==
    /\ file = SeedFile
    /\ trx = <<>>
    /\ db = [acct |-> SeedFile, txs |-> <<>>, chain |-> <<>>]
    /\ run = [c \in Callers |-> Idle]
    /\ calls = 0 /\ kills = 0
    /\ overlapped = FALSE
    /\ batched = FALSE

At(c, pc) == run[c].pc = pc
Op(c) == run[c].call.op
Code(c) == run[c].work.code

Goto(c, pc) == run' = [run EXCEPT ![c].pc = pc]
Answered(c) == run' = [run EXCEPT ![c] = Idle]

Quiet == UNCHANGED <<calls, kills, overlapped, batched>>

(* The program will have nothing to say but this code.  A listing that     *)
(* ends early is taken for an empty one.                                   *)
EndsWith(r, code) ==
    IF r.pc = "list" THEN [r EXCEPT !.pc = "sync", !.seen = NoAccounts]
    ELSE [r EXCEPT !.pc = "end", !.work = Work(<<>>, {}, <<>>, code)]

(* Where a program goes on that has this left to do.                       *)
Onward(w) ==
    IF w.before # <<>> THEN "append" ELSE IF w.save # {} THEN "open" ELSE "end"

-----------------------------------------------------------------------------
(* Programs                                                                *)

Call(c, k) ==
    /\ At(c, "idle") /\ calls < MaxCalls
    /\ run' = [run EXCEPT ![c] = [Idle EXCEPT !.pc = "load", !.call = k]]
    /\ calls' = calls + 1
    /\ overlapped' = (overlapped \/ \E d \in Callers : ~At(d, "idle"))
    /\ batched' = (batched \/ k.op = "BATCH")
    /\ UNCHANGED <<file, trx, db, kills>>

(* The bridge's third word for ACCOUNTS UPDATE is STATUS=F, of which the   *)
(* program takes the first letter.                                         *)
Arguments(k) == IF k.op = "UPDATE" THEN [k EXCEPT !.to = "S"] ELSE k

(* LOAD-ALL-ACCOUNTS and everything the program decides from the table.    *)
(* A program that will give a record a number counts the records first.    *)
Load(c) ==
    /\ At(c, "load")
    /\ LET w == Loaded(file, Arguments(run[c].call))
           numbered == \E s \in {w.before, w.after} : \E i \in DOMAIN s : s[i].code = "00"
       IN  run' = [run EXCEPT ![c].work = w, ![c].seen = file,
                              ![c].pc = IF numbered THEN "count" ELSE Onward(w)]
    /\ UNCHANGED <<file, trx, db>> /\ Quiet

(* Numbers count all records, also those of refusals, which have none.     *)
CountNothing(c) ==    \* mutant: numbers start from one in every run
    /\ At(c, "count")
    /\ Goto(c, Onward(run[c].work))
    /\ UNCHANGED <<file, trx, db>> /\ Quiet
Count(c) ==
    /\ At(c, "count")
    /\ run' = [run EXCEPT ![c].num = Len(trx), ![c].pc = Onward(run[c].work)]
    /\ UNCHANGED <<file, trx, db>> /\ Quiet

(* OPEN EXTEND, WRITE, CLOSE of TRANSACT.DAT.                              *)
AppendRecord(c) ==
    /\ At(c, "append")
    /\ LET w == run[c].work
           head == Head(w.before)
           num == IF head.code = "00" THEN run[c].num + 1 ELSE run[c].num
           record == IF head.code = "00" THEN [head EXCEPT !.id = num] ELSE head
           left == [w EXCEPT !.before = Tail(@)]
       IN  /\ trx' = Append(trx, record)
           /\ run' = [run EXCEPT ![c].num = num, ![c].work = left,
                                 ![c].said = Append(@, record), ![c].pc = Onward(left)]
    /\ UNCHANGED <<file, db>> /\ Quiet

(* OPEN OUTPUT empties ACCOUNTS.DAT, the records reach it on CLOSE.  Each  *)
(* writer writes from the beginning, so a shorter table leaves the rest of *)
(* a longer one that another wrote meanwhile.                              *)
Open(c) ==
    /\ At(c, "open")
    /\ file' = NoAccounts
    /\ Goto(c, "write")
    /\ UNCHANGED <<trx, db>> /\ Quiet

Save(c) ==
    /\ At(c, "write")
    /\ LET w == run[c].work
           left == Work(w.after, {}, <<>>, w.code)
       IN  /\ \E t \in w.save : file' = [a \in DOMAIN t \cup DOMAIN file |->
                                            IF a \in DOMAIN t THEN t[a] ELSE file[a]]
           /\ run' = [run EXCEPT ![c].work = left, ![c].pc = Onward(left)]
    /\ UNCHANGED <<trx, db>> /\ Quiet

InProgram(c) == run[c].pc \in {"load", "count", "append", "open", "write", "list"}

(* GnuCOBOL may refuse to open a file another process has open for output; *)
(* the program then displays RESULT|99.                                    *)
OpenFails(c) ==
    /\ run[c].pc \in {"load", "open", "list"}
    /\ \E d \in Callers \ {c} : At(d, "write")
    /\ run' = [run EXCEPT ![c] = EndsWith(@, "99")]
    /\ UNCHANGED <<file, trx, db>> /\ Quiet

(* The timeout of subprocess.run: the output so far is not looked at.      *)
Kill(c) ==
    /\ InProgram(c) /\ kills < MaxKills
    /\ run' = [run EXCEPT ![c] = EndsWith(@, "killed")]
    /\ kills' = kills + 1
    /\ UNCHANGED <<file, trx, db, calls, overlapped, batched>>

-----------------------------------------------------------------------------
(* process_transaction after the program                                   *)

Posting(c) == Op(c) \in {"D", "W", "T"}

(* A refusal is passed on; so is an accepted transfer, as its line of      *)
(* output has no balance and its number is therefore not read.             *)
PassOn(c) ==
    /\ At(c, "end") /\ Posting(c)
    /\ Code(c) \notin {"00", "99", "killed"} \/ (Code(c) = "00" /\ Op(c) = "T")
    /\ Answered(c)
    /\ UNCHANGED <<file, trx, db>> /\ Quiet

EntryOf(c) ==
    LET k == run[c].call
    IN  [id |-> run[c].num, acct |-> k.acct, type |-> k.op, amt |-> k.amt]

ChainEntry(c) ==
    /\ At(c, "end") /\ Op(c) \in {"D", "W"} /\ Code(c) = "00"
    /\ db' = [db EXCEPT !.chain = Append(@, EntryOf(c))]
    /\ Goto(c, "insert")
    /\ UNCHANGED <<file, trx>> /\ Quiet

(* INSERT of the row and UPDATE of the balance to the one COBOL displayed, *)
(* or the IntegrityError of a number that is taken.                        *)
NumberTaken(c) == \E i \in DOMAIN db.txs : db.txs[i].id = run[c].num

InsertRow(c) ==
    /\ At(c, "insert") /\ ~NumberTaken(c)
    /\ LET k == run[c].call
           balance == Transacted(run[c].seen, k)[k.acct].bal
       IN  db' = [SetBal(db, k.acct, balance) EXCEPT !.txs = Append(@, EntryOf(c))]
    /\ Answered(c)
    /\ UNCHANGED <<file, trx>> /\ Quiet

RowRefused(c) ==
    /\ At(c, "insert") /\ NumberTaken(c)
    /\ Answered(c)
    /\ UNCHANGED <<file, trx, db>> /\ Quiet

(* The posting in Mode B: in the database only.                            *)
InModeB(c) ==
    LET k == run[c].call
        r == [acct |-> k.acct, type |-> k.op, amt |-> k.amt]
        debited == SetBal(Logged(db, NewRow(db, k.acct, k.op, k.amt)), k.acct, BalanceAfter(db, r))
    IN  IF k.acct \notin Accounts \/ Decision(db, r) # "00" THEN db
        ELSE IF k.op = "T" /\ k.to \in Accounts
             THEN Logged(SetBal(debited, k.to, debited.acct[k.to].bal + k.amt),
                         NewRow(debited, k.to, "D", k.amt))
             ELSE debited

FallBack(c) ==
    /\ At(c, "end") /\ Posting(c) /\ Code(c) \in {"99", "killed"}
    /\ db' = InModeB(c)
    /\ Answered(c)
    /\ UNCHANGED <<file, trx>> /\ Quiet

(* run_batch reads the summary and leaves the database as it is.           *)
BatchDone(c) ==
    /\ At(c, "end") /\ Op(c) = "BATCH"
    /\ Answered(c)
    /\ UNCHANGED <<file, trx, db>> /\ Quiet

-----------------------------------------------------------------------------
(* The monthly programs: one entry for each posting displayed, then        *)
(* ACCOUNTS LIST and a copy of what it displays.  The INT- and FEE-        *)
(* identifiers are not numbers of the sequence.                            *)
ThenList(c) == run' = [run EXCEPT ![c].pc = "list", ![c].work = NoWork, ![c].num = 0,
                                  ![c].said = <<>>, ![c].seen = NoAccounts]

ChainMonthly(c) ==
    /\ At(c, "end") /\ Op(c) \in {"INTEREST", "FEES"} /\ Code(c) # "killed"
    /\ LET said == run[c].said
       IN  db' = [db EXCEPT !.chain = @ \o [i \in DOMAIN said |->
                     [id |-> 0, acct |-> said[i].acct, type |-> said[i].type, amt |-> said[i].amt]]]
    /\ ThenList(c)
    /\ UNCHANGED <<file, trx>> /\ Quiet

MonthlyKilled(c) ==
    /\ At(c, "end") /\ Op(c) \in {"INTEREST", "FEES"} /\ Code(c) = "killed"
    /\ Answered(c)
    /\ UNCHANGED <<file, trx, db>> /\ Quiet

(* ACCOUNTS LIST.                                                          *)
List(c) ==
    /\ At(c, "list")
    /\ run' = [run EXCEPT ![c].pc = "sync", ![c].seen = file]
    /\ UNCHANGED <<file, trx, db>> /\ Quiet

(* INSERT OR REPLACE of the accounts listed.                               *)
SyncStatusOnly(c) ==    \* mutant: the balances are not taken over
    /\ At(c, "sync")
    /\ db' = [db EXCEPT !.acct = [a \in Accounts |->
                 IF a \in DOMAIN run[c].seen THEN [@[a] EXCEPT !.status = run[c].seen[a].status] ELSE @[a]]]
    /\ IF Op(c) = "UPDATE" THEN Goto(c, "status") ELSE Answered(c)
    /\ UNCHANGED <<file, trx>> /\ Quiet
Sync(c) ==
    /\ At(c, "sync")
    /\ LET seen == run[c].seen
       IN  db' = [db EXCEPT !.acct = [a \in Accounts |-> IF a \in DOMAIN seen THEN seen[a] ELSE @[a]]]
    /\ IF Op(c) = "UPDATE" THEN Goto(c, "status") ELSE Answered(c)
    /\ UNCHANGED <<file, trx>> /\ Quiet

-----------------------------------------------------------------------------
(* update_account_status after the program: unless it was killed, the list *)
(* is copied; then the status is set in the database, the file is written  *)
(* anew from the database, and the change is chained.                      *)
UpdateDone(c) ==
    /\ At(c, "end") /\ Op(c) = "UPDATE"
    /\ IF Code(c) = "killed" THEN Goto(c, "status") ELSE ThenList(c)
    /\ UNCHANGED <<file, trx, db>> /\ Quiet

SetStatus(c) ==
    /\ At(c, "status")
    /\ db' = [db EXCEPT !.acct[run[c].call.acct].status = run[c].call.to]
    /\ run' = [run EXCEPT ![c].pc = "truncate", ![c].seen = db'.acct]
    /\ UNCHANGED <<file, trx>> /\ Quiet

TruncateDat(c) ==
    /\ At(c, "truncate")
    /\ file' = NoAccounts
    /\ Goto(c, "rewrite")
    /\ UNCHANGED <<trx, db>> /\ Quiet

WriteDat(c) ==
    /\ At(c, "rewrite")
    /\ file' = run[c].seen
    /\ Goto(c, "log")
    /\ UNCHANGED <<trx, db>> /\ Quiet

LogStatus(c) ==
    /\ At(c, "log")
    /\ db' = [db EXCEPT !.chain =
                 Append(@, [id |-> 0, acct |-> run[c].call.acct, type |-> "S", amt |-> 0])]
    /\ Answered(c)
    /\ UNCHANGED <<file, trx>> /\ Quiet

(* The bound on calls is used up.                                          *)
Done ==
    /\ calls = MaxCalls /\ \A c \in Callers : At(c, "idle")
    /\ UNCHANGED vars

Program(c) ==
    Load(c) \/ Count(c) \/ AppendRecord(c) \/ Open(c) \/ Save(c) \/ List(c) \/ OpenFails(c) \/ Kill(c)
Bridge(c) ==
    \/ PassOn(c) \/ ChainEntry(c) \/ InsertRow(c) \/ RowRefused(c) \/ FallBack(c) \/ BatchDone(c)
    \/ ChainMonthly(c) \/ MonthlyKilled(c) \/ Sync(c)
    \/ UpdateDone(c) \/ SetStatus(c) \/ TruncateDat(c) \/ WriteDat(c) \/ LogStatus(c)

Next ==
    \/ \E c \in Callers : (\E k \in Calls : Call(c, k)) \/ Program(c) \/ Bridge(c)
    \/ Done

Spec == Init /\ [][Next]_vars

-----------------------------------------------------------------------------
(* Properties                                                              *)

Account == [bal : Int, status : {"A", "F", "C", "S"}]
Entry == [id : Nat, acct : Accounts, type : {"D", "W", "T", "I", "F", "S"}, amt : Int]
Record == [id : Nat, acct : Accounts \cup Words, type : {"-", "T", "I", "F"}, amt : Int,
           code : {"00", "01", "02", "03", "04"}]

IsTable(t) == DOMAIN t \subseteq Accounts /\ t \in [DOMAIN t -> Account]
IsWork(w) ==
    /\ w = Work(w.before, w.save, w.after, w.code)
    /\ w.before \in Seq(Record) /\ w.after \in Seq(Record)
    /\ \A t \in w.save : IsTable(t)
    /\ w.code \in {"", "00", "01", "02", "03", "04", "99", "killed"}

(* What a monthly program records, which can be posted to the chain.       *)
Postings(s) == \A i \in DOMAIN s : s[i].acct \in Accounts /\ s[i].type \in {"I", "F"}

(* A caller, and that it is at work on a call the code has this place for. *)
IsJob(r) ==
    /\ r = [pc |-> r.pc, call |-> r.call, work |-> r.work, num |-> r.num, seen |-> r.seen, said |-> r.said]
    /\ r.call \in Calls \cup {NoCall} /\ IsWork(r.work)
    /\ r.num \in Nat /\ IsTable(r.seen) /\ r.said \in Seq(Record)
    /\ r.pc \in {"idle", "load", "count", "append", "open", "write", "end", "insert", "list", "sync",
                  "status", "truncate", "rewrite", "log"}
    /\ r.pc # "idle" => r.call \in Calls
    /\ r.pc = "append" => r.work.before # <<>>
    /\ r.pc \in {"open", "write"} => r.work.save # {}
    /\ r.pc = "insert" => r.call.op \in {"D", "W"} /\ r.work.code = "00"
    /\ r.call.op \in {"INTEREST", "FEES"} =>
          Postings(r.work.before) /\ Postings(r.work.after) /\ Postings(r.said)
    /\ r.pc \in {"list", "sync"} => r.call.op \in {"INTEREST", "FEES", "UPDATE"}
    /\ r.pc \in {"status", "truncate", "rewrite", "log"} => r.call.op = "UPDATE"
    /\ r.pc \in {"truncate", "rewrite"} => DOMAIN r.seen = Accounts

(* Files, database and callers are of the kinds the code keeps.            *)
TypeOK ==
    /\ IsTable(file) /\ trx \in Seq(Record)
    /\ db \in [acct : [Accounts -> Account], txs : Seq(Entry), chain : Seq(Entry)]
    /\ run = [c \in Callers |-> run[c]] /\ \A c \in Callers : IsJob(run[c])
    /\ calls \in Nat /\ kills \in Nat /\ overlapped \in BOOLEAN /\ batched \in BOOLEAN

(* Nobody is overdrawn, in the file, in the database, or in a table a      *)
(* program is about to save, whoever runs at the same time and whatever is *)
(* killed: TRANSACT and the bridge check the funds, FEES skips who cannot  *)
(* pay.  Only a batch file with fee lines overdraws, as those are taken    *)
(* whatever the balance is.                                                *)
FeeLines == {i \in DOMAIN BatchLines : BatchLines[i].op = "F"}
Covered(t) == \A a \in DOMAIN t : t[a].bal >= 0
NeverOverdrawn ==
    FeeLines = {} =>
        /\ Covered(file) /\ Covered(db.acct)
        /\ \A c \in Callers : Covered(run[c].seen) /\ \A t \in run[c].work.save : Covered(t)

(* The invariant that proves it: a posting the program accepted is one     *)
(* that the accounts it has seen can pay.                                  *)
Decided(r) == r.call.op \in {"D", "W", "T"} /\ r.work.code = "00" => TransactCode(r.seen, r.call) = "00"
FundsInv == TypeOK /\ NeverOverdrawn /\ \A c \in Callers : Decided(run[c])

(* Numbers in TRANSACT.DAT are unique as long as calls do not overlap, in  *)
(* spite of refusals, kills and fallbacks that take numbers of their own.  *)
(* And always a number that is in the chain is in the transactions table   *)
(* too, or its row is about to be inserted, and the other way round; even  *)
(* when a number comes twice, and its row is refused.                      *)
NumbersIn(s) == {s[i].id : i \in DOMAIN s} \ {0}
NumbersIdentifyPostings ==
    /\ ~overlapped =>
          \A i, j \in DOMAIN trx : i # j /\ trx[i].code = "00" => trx[i].id # trx[j].id
    /\ NumbersIn(db.chain) =
          NumbersIn(db.txs) \cup {run[c].num : c \in {d \in Callers : At(d, "insert")}}

(* The invariant that proves it.  While calls come one at a time the record*)
(* a program appends has the number of its place, or none if it refuses;   *)
(* what a program will append it does not have appended by halves.         *)
Recording(w) == w.before # <<>> \/ w.after # <<>>
Numbered(r) == r.pc \in {"append", "open", "write"} /\ r.work.code = "00" /\ Recording(r.work)
ToRecord(w) == \A s \in {w.before, w.after} : \A i \in DOMAIN s : s[i].id = 0 /\ s[i].code = w.code
WorkOK(r) ==
    /\ ToRecord(r.work)
    /\ r.call.op \in {"D", "W", "T"} /\ r.work.code = "00" =>
          /\ r.pc \in {"count", "open", "write"} =>
                r.work.before = <<>> /\ r.work.after # <<>> /\ r.work.save # {}
          /\ r.pc = "append" => r.work.save = {} /\ r.work.after = <<>>
          /\ r.pc \in {"end", "insert"} => r.num > 0

NumbersInv ==
    /\ TypeOK
    /\ \A c \in Callers : WorkOK(run[c])
    /\ ~overlapped =>
          /\ \A c, d \in Callers : ~At(c, "idle") /\ ~At(d, "idle") => c = d
          /\ \A i \in DOMAIN trx : trx[i].id = IF trx[i].code = "00" THEN i ELSE 0
          /\ \A c \in Callers : Numbered(run[c]) => run[c].num = Len(trx)
    /\ NumbersIdentifyPostings

Resting == \A c \in Callers : At(c, "idle")

(* Calls that came one after the other, none of them killed, leave the     *)
(* database with the accounts of the file: the balance read from the       *)
(* program's line and the copy after a monthly program are enough.  (A     *)
(* batch of TRANSACT is not copied back.)  And the chain explains the file:*)
(* what a balance differs from the opening one is the sum of the account's *)
(* entries, also those of the monthly programs, read off their output.     *)
Undisturbed == kills = 0 /\ ~overlapped /\ ~batched

Effect(e, a) ==
    IF e.acct # a THEN 0
    ELSE IF e.type \in {"D", "I"} THEN e.amt
    ELSE IF e.type \in {"W", "F"} THEN -e.amt
    ELSE 0
Told(chain, a) == SumFunction([i \in DOMAIN chain |-> Effect(chain[i], a)])
Explains(chain, t) == DOMAIN t = Accounts /\ \A a \in Accounts : t[a].bal = SeedBalance[a] + Told(chain, a)

FileDatabaseAndChainAgree ==
    Undisturbed /\ Resting => db.acct = file /\ Explains(db.chain, file)

(* The invariant that proves it follows the only caller that is not idle.  *)
(* Undone(r) is all the program has to do, Result(r) the table it leaves   *)
(* behind.                                                                 *)
Undone(r) == Loaded(r.seen, Arguments(r.call))
Result(r) == IF Undone(r).save = {} THEN r.seen ELSE CHOOSE t \in Undone(r).save : TRUE

(* Of the records of a monthly program some were appended and displayed,   *)
(* the rest is still to come.                                              *)
Like(r, q) == r.acct = q.acct /\ r.type = q.type /\ r.amt = q.amt
SaidSoFar(said, left, all) ==
    /\ Len(said) + Len(left) = Len(all)
    /\ \A i \in DOMAIN said : Like(said[i], all[i])
    /\ \A i \in DOMAIN left : Like(left[i], all[Len(said) + i])

InStep(f, d) == d.acct = f /\ Explains(d.chain, f)
NumbersBelow(txs, n) == \A i \in DOMAIN txs : txs[i].id < n

AtWork(r, f, d) ==
    /\ d.acct = r.seen /\ Explains(d.chain, r.seen)
    /\ r.work.save \in {{}, Undone(r).save} /\ r.work.code = Undone(r).code
    /\ f = IF r.pc = "write" THEN NoAccounts ELSE IF r.work.save = {} THEN Result(r) ELSE r.seen
    /\ r.pc \in {"open", "write", "end"} => r.work.before = <<>>
    /\ r.call.op \in {"INTEREST", "FEES"} =>
          r.work.after = <<>> /\ SaidSoFar(r.said, r.work.before, Undone(r).before)

Following(r, f, s, d) ==
    /\ r.pc = "load" => InStep(f, d) /\ r.said = <<>>
    /\ r.pc \in {"count", "append", "open", "write", "end"} => AtWork(r, f, d)
    /\ r.pc = "end" => r.work.save = {}
    /\ r.pc \in {"end", "insert"} /\ r.call.op \in {"D", "W"} /\ r.work.code = "00" =>
          NumbersBelow(d.txs, r.num) /\ r.num <= Len(s)
    /\ r.pc = "insert" => d.acct = r.seen /\ f = Result(r) /\ Explains(d.chain, f)
    /\ r.pc = "list" => Explains(d.chain, f)
    /\ r.pc = "sync" => r.seen = f /\ Explains(d.chain, f)
    /\ r.pc \in {"truncate", "rewrite"} => d.acct = r.seen /\ Explains(d.chain, r.seen)
    /\ r.pc \in {"status", "log"} => InStep(f, d)

AgreeInv ==
    /\ FundsInv /\ NumbersInv
    /\ Undisturbed =>
          /\ \A c \in Callers : Op(c) # "BATCH" /\ (~At(c, "idle") => Following(run[c], file, trx, db))
          /\ Resting => InStep(file, db)
          /\ NumbersBelow(db.txs, Len(trx) + 1)

(* TRANSACT.cob:427-430 of a transfer: "Validates both source and target,  *)
(* then debits source and credits target in a single save operation."      *)
TransferMoves ==
    \A c \in Callers :
        LET k == run[c].call
        IN  At(c, "write") /\ k.op = "T" /\ k.to # k.acct =>
                \A t \in run[c].work.save :
                    /\ t[k.acct].bal = run[c].seen[k.acct].bal - k.amt
                    /\ t[k.to].bal = run[c].seen[k.to].bal + k.amt
=============================================================================
