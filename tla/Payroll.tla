------------------------------ MODULE Payroll -------------------------------
(***************************************************************************)
(* The payroll sidecar (python/payroll_bridge.py) behind its routes        *)
(* (api/routes_payroll.py): employees in a file and in a table, pay stubs, *)
(* the node's chain, and the transfers a run hands to settlement.  The     *)
(* handlers have no await, so none overlaps another; what interrupts a run *)
(* is an exception of the database or the end of the process.  Somebody    *)
(* else edits the file.  Amounts are cents.                                *)
(***************************************************************************)
EXTENDS Integers, Sequences, FiniteSets, FiniteSetsExt, SequencesExt, Roles

CONSTANTS
    Files,          \* the contents EMPLOYEES.DAT may have, sequences of records
    Malformed,      \* what a numeric field may hold instead of a number
    Days,           \* the days of the year runs are asked for; 0 is no date
    Callers,        \* the users, with roles, that send requests
    MaxRuns,        \* bound: pay runs
    MaxFaults,      \* bound: runs that are interrupted
    MaxEdits        \* bound: edits of the file and look-ups that find nobody

ASSUME PayrollAssumption == {MaxRuns, MaxFaults, MaxEdits} \subseteq Nat

(* A numeric field is a number or malformed.                               *)
ASSUME FilesAssumption ==
    \A f \in Files :
        /\ f \in Seq(Range(f))
        /\ \A i \in DOMAIN f :
              {f[i].salary, f[i].rate, f[i].hours, f[i].k401} \subseteq Int \cup {Malformed}

VARIABLES
    dat,        \* EMPLOYEES.DAT
    db,         \* what the open connection sees: emps, stubs and chain
    disk,       \* the same as of the last commit
    job,        \* run_payroll's locals, or idle
    answers,    \* what runs that ended returned
    synced,     \* history: the file as it was when the table was last filled
    counts      \* history: runs, interruptions, edits

vars == <<dat, db, disk, job, answers, synced, counts>>

-----------------------------------------------------------------------------
(* Employees                                                               *)

SafeInt(raw, default) == IF raw = Malformed THEN default ELSE raw

(* _parse_employee_record: amounts are cents already, in the file as here. *)
Parsed(r) ==
    [id      |-> r.id,      status |-> r.status,  type   |-> r.type,
     medical |-> r.medical, dental |-> r.dental,  acct   |-> r.acct,
     salary  |-> SafeInt(r.salary, 0),
     rate    |-> SafeInt(r.rate, 0),
     hours   |-> SafeInt(r.hours, 0),
     k401    |-> SafeInt(r.k401, 0)]

(* A row of the table has a rowid, the order in which SELECT reads them.   *)
Row(n, r) == [row |-> n, emp |-> Parsed(r)]
LastRow(emps) == Max({0} \cup {e.row : e \in emps})

(* INSERT OR REPLACE of every record: a row that is replaced moves to the  *)
(* end, one that is not in the file stays; of several records with one id  *)
(* the last remains.                                                       *)
Current(file) == {i \in DOMAIN file : \A j \in DOMAIN file : j > i => file[j].id # file[i].id}
SyncedByUpdate(emps, file) ==    \* mutant: rows that exist are left alone
    emps \cup {Row(LastRow(emps) + i, file[i]) :
                 i \in {j \in Current(file) : \A e \in emps : e.emp.id # file[j].id}}
Synced(emps, file) ==
    {e \in emps : \A i \in DOMAIN file : file[i].id # e.emp.id}
      \cup {Row(LastRow(emps) + i, file[i]) : i \in Current(file)}

Knows(emps, id) == \E e \in emps : e.emp.id = id

-----------------------------------------------------------------------------
(* A period's pay, as TAXCALC and DEDUCTN compute it                       *)

PayPeriods == 26

(* round(_, 2) of n/d cents; the amounts used have no ties.                *)
Rounded(n, d) == (2 * n + d) \div (2 * d)

Gross(e) ==
    IF e.type = "S" THEN Rounded(e.salary, PayPeriods)
    ELSE IF e.hours > 40 THEN Rounded(2 * e.rate * 40 + 3 * e.rate * (e.hours - 40), 2)
    ELSE e.rate * e.hours

(* FED_BRACKETS: the rate of the bracket applies to the whole amount.      *)
FedRate(annual) ==
    CASE annual > 50000000 -> 37
      [] annual > 16500000 /\ annual <= 50000000 -> 32
      [] annual > 8500000 /\ annual <= 16500000 -> 24
      [] annual > 4000000 /\ annual <= 8500000 -> 22
      [] annual > 1000000 /\ annual <= 4000000 -> 12
      [] annual <= 1000000 -> 10
FedTax(gross) == Rounded(gross * FedRate(gross * PayPeriods), 100)
StateTax(gross) == Rounded(gross * 725, 10000)
Fica(gross) == IF gross * PayPeriods > 16020000 THEN 0 ELSE Rounded(gross * 765, 10000)

(* Yearly costs are divided by twelve, although a run pays a 26th.         *)
Deductions(e, gross) ==
    (CASE e.medical = "B" -> Rounded(27500, 12)
       [] e.medical = "P" -> Rounded(50000, 12)
       [] OTHER -> 0)
    + (IF e.dental = "Y" THEN Rounded(7500, 12) ELSE 0)
    + (IF e.k401 > 0 THEN Rounded(gross * e.k401, 100) ELSE 0)

Stub(e, period) ==
    LET gross == Gross(e)
        withheld == FedTax(gross) + StateTax(gross) + Fica(gross) + Deductions(e, gross)
    IN  [id |-> e.id, period |-> period, acct |-> e.acct, gross |-> gross,
         withheld |-> withheld, net |-> IF gross < withheld THEN 0 ELSE gross - withheld]

(* day of the year // 14 + 1, and 1 for what is no date.                   *)
Period(day) == IF day = 0 THEN 1 ELSE day \div 14 + 1

(* chain.append's PAY-<id>-<period>; the amount is the net pay.            *)
Entry(stub) == [id |-> stub.id, period |-> stub.period, acct |-> stub.acct, amt |-> stub.net]

Transfer(stub) ==
    [source_bank |-> "PAYROLL", dest_acct |-> stub.acct, amt |-> stub.net]

-----------------------------------------------------------------------------
Idle == [pc |-> "idle"]

Init ==
    /\ dat \in Files
    /\ db = [emps |-> {}, stubs |-> <<>>, chain |-> <<>>]
    /\ disk = db
    /\ job = Idle
    /\ answers = <<>>
    /\ synced = <<>>
    /\ counts = [runs |-> 0, faults |-> 0, edits |-> 0]

Edit ==
    /\ counts.edits < MaxEdits
    /\ \E f \in Files \ {dat} : dat' = f
    /\ counts' = [counts EXCEPT !.edits = @ + 1]
    /\ UNCHANGED <<db, disk, job, answers, synced>>

(* _sync_employees_to_db, with its commit.                                 *)
Fill(emps) ==
    /\ db' = [db EXCEPT !.emps = emps]
    /\ disk' = [db EXCEPT !.emps = emps]
    /\ synced' = dat

(* GET /employees: the file is read only while the table is empty.         *)
ListEmployees(c) ==
    /\ job.pc = "idle" /\ May(c, "payroll.read")
    /\ db.emps = {} /\ dat # <<>>
    /\ Fill(Synced(db.emps, dat))
    /\ UNCHANGED <<dat, job, answers, counts>>

(* GET /employees/{id} of somebody who is not in the table reads it again. *)
GetEmployee(c, id) ==
    /\ job.pc = "idle" /\ May(c, "payroll.read")
    /\ ~ Knows(db.emps, id)
    /\ counts.edits < MaxEdits
    /\ counts' = [counts EXCEPT !.edits = @ + 1]
    /\ Fill(Synced(db.emps, dat))
    /\ UNCHANGED <<dat, job, answers>>

(* POST /run up to the loop over the employees.                            *)
StartRun(c, day) ==
    /\ job.pc = "idle" /\ May(c, "payroll.process")
    /\ counts.runs < MaxRuns
    /\ IF db.emps = {} /\ dat # <<>> THEN Fill(Synced(db.emps, dat)) ELSE UNCHANGED <<db, disk, synced>>
    /\ job' = [pc |-> "pay", period |-> Period(day), todo |-> db'.emps, skipped |-> 0,
               stubs |-> <<>>, transfers |-> <<>>, gross |-> 0, net |-> 0]
    /\ counts' = [counts EXCEPT !.runs = @ + 1]
    /\ UNCHANGED <<dat, answers>>

(* The row the loop comes to.                                              *)
Upcoming == {e \in job.todo : \A f \in job.todo : e.row <= f.row}

Skip ==
    /\ job.pc = "pay"
    /\ \E e \in Upcoming :
        /\ e.emp.status # "A"
        /\ job' = [job EXCEPT !.todo = @ \ {e}, !.skipped = @ + 1]
        /\ UNCHANGED <<dat, db, disk, answers, synced, counts>>

(* INSERT INTO pay_stubs, not committed.                                   *)
InsertStubCommitted ==    \* mutant: the stub is committed by itself
    /\ job.pc = "pay"
    /\ \E e \in Upcoming :
        /\ e.emp.status = "A"
        /\ LET stub == Stub(e.emp, job.period)
           IN  /\ db' = [db EXCEPT !.stubs = Append(@, stub)]
               /\ disk' = db'
               /\ job' = [job EXCEPT !.pc = "entry", !.todo = @ \ {e}, !.stubs = Append(@, stub)]
        /\ UNCHANGED <<dat, answers, synced, counts>>
InsertStub ==
    /\ job.pc = "pay"
    /\ \E e \in Upcoming :
        /\ e.emp.status = "A"
        /\ LET stub == Stub(e.emp, job.period)
           IN  /\ db' = [db EXCEPT !.stubs = Append(@, stub)]
               /\ job' = [job EXCEPT !.pc = "entry", !.todo = @ \ {e}, !.stubs = Append(@, stub)]
        /\ UNCHANGED <<dat, disk, answers, synced, counts>>

(* chain.append, whose commit makes the stub durable as well; a transfer,  *)
(* if there is something to pay; the totals.                               *)
AppendEntry ==
    /\ job.pc = "entry"
    /\ LET stub == Last(job.stubs)
       IN  /\ db' = [db EXCEPT !.chain = Append(@, Entry(stub))]
           /\ disk' = db'
           /\ job' = [job EXCEPT !.pc = "pay", !.gross = @ + stub.gross, !.net = @ + stub.net,
                        !.transfers = IF stub.net > 0 THEN Append(@, Transfer(stub)) ELSE @]
    /\ UNCHANGED <<dat, answers, synced, counts>>

(* The run's answer: the stubs, the transfers and the totals.              *)
Answer(run) ==
    [period |-> run.period, stubs |-> run.stubs, transfers |-> run.transfers,
     skipped |-> run.skipped, gross |-> run.gross, net |-> run.net]

EndRun ==
    /\ job.pc = "pay" /\ job.todo = {}
    /\ disk' = db
    /\ answers' = Append(answers, Answer(job))
    /\ job' = Idle
    /\ UNCHANGED <<dat, db, synced, counts>>

Fault == /\ counts.faults < MaxFaults
         /\ counts' = [counts EXCEPT !.faults = @ + 1]

(* INSERT raises (the database is locked by another process): the run      *)
(* answers 500 and what it committed stays.                                *)
InsertRetried ==    \* mutant: the run starts over
    /\ Fault
    /\ job.pc = "pay" /\ \E e \in Upcoming : e.emp.status = "A"
    /\ job' = [job EXCEPT !.todo = db.emps]
    /\ UNCHANGED <<dat, db, disk, answers, synced>>
InsertRaises ==
    /\ Fault
    /\ job.pc = "pay" /\ \E e \in Upcoming : e.emp.status = "A"
    /\ job' = Idle
    /\ UNCHANGED <<dat, db, disk, answers, synced>>

(* The process ends and is started again.                                  *)
Crash ==
    /\ Fault
    /\ job.pc # "idle"
    /\ db' = disk
    /\ job' = Idle
    /\ UNCHANGED <<dat, disk, answers, synced>>

Next ==
    \/ Edit
    \/ \E c \in Callers : \/ ListEmployees(c)
                          \/ \E f \in Files : \E i \in DOMAIN f : GetEmployee(c, f[i].id)
                          \/ \E day \in Days : StartRun(c, day)
    \/ Skip \/ InsertStub \/ AppendEntry \/ EndRun
    \/ InsertRaises \/ Crash

Spec == Init /\ [][Next]_vars

-----------------------------------------------------------------------------
(* Properties                                                              *)

(* Whatever cuts a run short, stubs and chain entries are durable in       *)
(* pairs: the chain explains every stub, in the order they were written.   *)
Paired(d) ==
    /\ Len(d.stubs) = Len(d.chain)
    /\ \A i \in DOMAIN d.stubs : d.chain[i] = Entry(d.stubs[i])
StubsAndEntriesPair == Paired(disk)

(* The invariant that proves it.  Between the INSERT and the entry, and    *)
(* only there, the connection's tables are ahead by the run's last stub.   *)
OneAhead(d, stub) ==
    /\ Len(d.stubs) = Len(d.chain) + 1
    /\ d.stubs[Len(d.stubs)] = stub
    /\ \A i \in DOMAIN d.chain : d.chain[i] = Entry(d.stubs[i])

IsSequence(s) == s \in Seq(Range(s))
TablesOK(d) ==
    /\ d = [emps |-> d.emps, stubs |-> d.stubs, chain |-> d.chain]
    /\ IsSequence(d.stubs) /\ IsSequence(d.chain)
JobOK ==
    /\ job.pc \in {"idle", "pay", "entry"}
    /\ job.pc # "idle" =>
         /\ job = [pc |-> job.pc, period |-> job.period, todo |-> job.todo,
                   skipped |-> job.skipped, stubs |-> job.stubs,
                   transfers |-> job.transfers, gross |-> job.gross, net |-> job.net]
         /\ IsSequence(job.stubs)

IInv ==
    /\ TablesOK(db) /\ TablesOK(disk) /\ JobOK
    /\ Paired(disk)
    /\ IF job.pc = "entry" THEN OneAhead(db, Last(job.stubs)) ELSE Paired(db)

Times(stubs, id, period) ==
    Cardinality({i \in DOMAIN stubs : stubs[i].id = id /\ stubs[i].period = period})
Reported(id, period) ==
    SumFunction([k \in DOMAIN answers |-> Times(answers[k].stubs, id, period)])
Running(id, period) == IF job.pc = "idle" THEN 0 ELSE Times(job.stubs, id, period)

(* What a stub keeps back: what is withheld, or everything.                *)
KeptBack(stub) == IF stub.net > 0 THEN stub.withheld ELSE stub.gross

(* Nothing keeps a period from being run twice, but nobody is paid more    *)
(* often than the runs that reported it and the runs that were cut short,  *)
(* once by each; and a run that answered reports what it handed to         *)
(* settlement, to the cent.                                                *)
PaidAsReported ==
    /\ \A i \in DOMAIN disk.stubs :
         LET id == disk.stubs[i].id
             period == disk.stubs[i].period
             paid == Times(disk.stubs, id, period)
         IN  /\ Reported(id, period) <= paid
             /\ paid <= Reported(id, period) + Running(id, period) + counts.faults
    /\ \A k \in DOMAIN answers :
         LET a == answers[k]
         IN  /\ a.net = SumFunction([i \in DOMAIN a.transfers |-> a.transfers[i].amt])
             /\ \A i \in DOMAIN a.stubs : Times(a.stubs, a.stubs[i].id, a.period) = 1
             /\ a.gross = a.net + SumFunction([i \in DOMAIN a.stubs |-> KeptBack(a.stubs[i])])

(* The table holds everybody once, and who was in the file when it was     *)
(* last read is paid by the last record he had there.  So while the file   *)
(* is what it was then, a run that has been through somebody's row has     *)
(* paid him if the file has him as active, and not if it has him as        *)
(* terminated or on leave.                                                 *)
HasStub(id) == \E k \in DOMAIN job.stubs : job.stubs[k].id = id
TableFollowsFile ==
    /\ \A e, f \in db.emps : e.emp.id = f.emp.id => e = f
    /\ \A i \in Current(synced) : \E e \in db.emps : e.emp = Parsed(synced[i])
    /\ (synced = dat /\ job.pc # "idle") =>
         \A i \in Current(dat) :
            \/ \E e \in job.todo : e.emp.id = dat[i].id
            \/ HasStub(dat[i].id) <=> dat[i].status = "A"
=============================================================================
