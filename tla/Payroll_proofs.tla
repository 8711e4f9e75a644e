--------------------------- MODULE Payroll_proofs ---------------------------
(***************************************************************************)
(* Proofs about Payroll, for every contents of the employees' file, every *)
(* caller, and any number of runs, interruptions and edits.                *)
(***************************************************************************)
EXTENDS Payroll, SumTheorems, SequenceTheorems

-----------------------------------------------------------------------------
(* Appending to a sequence of whatever.                                    *)
LEMMA AppendToSequence ==
    ASSUME NEW s, IsSequence(s), NEW x
    PROVE  /\ IsSequence(Append(s, x))
           /\ Len(s) \in Nat /\ DOMAIN s = 1..Len(s)
           /\ Len(Append(s, x)) = Len(s) + 1 /\ DOMAIN Append(s, x) = 1..(Len(s) + 1)
           /\ \A i \in 1..Len(s) : Append(s, x)[i] = s[i]
           /\ Append(s, x)[Len(s) + 1] = x
<1> DEFINE S == Range(s)
           e == Append(s, x)
<1>1. s \in Seq(S) /\ s \in Seq(S \cup {x})
  BY DEF IsSequence
<1> HIDE DEF S
<1>2. /\ Len(s) \in Nat /\ DOMAIN s = 1..Len(s)
      /\ Len(e) = Len(s) + 1 /\ DOMAIN e = 1..(Len(s) + 1)
      /\ \A i \in 1..Len(s) : e[i] = s[i]
      /\ e[Len(s) + 1] = x
  BY <1>1
<1>3. e \in Seq(S \cup {x})
  BY <1>1
<1>4. IsSequence(e)
  BY <1>3, SeqOfRange DEF IsSequence
<1> QED
  BY <1>2, <1>4 DEF e

(* A stub with its entry keeps tables paired that were.                    *)
LEMMA PairedByAppend ==
    ASSUME NEW d, NEW x, TablesOK(d), OneAhead(d, x)
    PROVE  LET e == [d EXCEPT !.chain = Append(@, Entry(x))]
           IN  TablesOK(e) /\ Paired(e)
<1> DEFINE e == [d EXCEPT !.chain = Append(@, Entry(x))]
<1>1. e.stubs = d.stubs /\ e.chain = Append(d.chain, Entry(x)) /\ e = [emps |-> e.emps, stubs |-> e.stubs, chain |-> e.chain]
  BY DEF TablesOK
<1>2. /\ IsSequence(e.chain) /\ Len(d.chain) \in Nat
      /\ Len(e.chain) = Len(d.chain) + 1
      /\ \A i \in 1..Len(d.chain) : e.chain[i] = d.chain[i]
      /\ e.chain[Len(d.chain) + 1] = Entry(x)
  BY <1>1, AppendToSequence DEF TablesOK
<1>3. DOMAIN d.stubs = 1..(Len(d.chain) + 1) /\ Len(d.stubs) = Len(d.chain) + 1
  BY DEF OneAhead
<1> HIDE DEF e
<1>4. TablesOK(e)
  BY <1>1, <1>2 DEF TablesOK
<1>5. ASSUME NEW i \in DOMAIN e.stubs PROVE e.chain[i] = Entry(e.stubs[i])
  <2>1. CASE i = Len(d.chain) + 1
    BY <2>1, <1>1, <1>2 DEF OneAhead
  <2>2. CASE i # Len(d.chain) + 1
    <3>1. i \in 1..Len(d.chain)
      BY <2>2, <1>1, <1>2, <1>3
    <3> QED
      BY <3>1, <1>1, <1>2 DEF OneAhead
  <2> QED
    BY <2>1, <2>2
<1>6. Paired(e)
  BY <1>1, <1>2, <1>3, <1>5 DEF Paired
<1> QED
  BY <1>4, <1>6 DEF e

-----------------------------------------------------------------------------
(* The steps                                                               *)

LEMMA InitInv == Init => IInv
<1> SUFFICES ASSUME Init PROVE IInv
  OBVIOUS
<1>1. IsSequence(<<>>)
  BY EmptySeq DEF IsSequence
<1>2. TablesOK(db) /\ Paired(db)
  BY <1>1 DEF Init, TablesOK, Paired
<1> QED
  BY <1>2 DEF Init, Idle, IInv, JobOK

(* The employees' table is committed by itself, between runs.              *)
LEMMA FillKeeps ==
    ASSUME IInv, job.pc = "idle", NEW emps, Fill(emps)
    PROVE  TablesOK(db') /\ TablesOK(disk') /\ Paired(db') /\ Paired(disk')
  BY DEF IInv, Fill, TablesOK, Paired, JobOK

LEMMA ListEmployeesInv == ASSUME NEW c, IInv, ListEmployees(c) PROVE IInv'
<1>1. TablesOK(db') /\ TablesOK(disk') /\ Paired(db') /\ Paired(disk')
  BY FillKeeps DEF ListEmployees
<1>2. job' = job /\ job.pc = "idle"
  BY DEF ListEmployees
<1> QED
  BY <1>1, <1>2 DEF IInv, JobOK

LEMMA GetEmployeeInv == ASSUME NEW c, NEW id, IInv, GetEmployee(c, id) PROVE IInv'
<1>1. TablesOK(db') /\ TablesOK(disk') /\ Paired(db') /\ Paired(disk')
  BY FillKeeps DEF GetEmployee
<1>2. job' = job /\ job.pc = "idle"
  BY DEF GetEmployee
<1> QED
  BY <1>1, <1>2 DEF IInv, JobOK

LEMMA StartRunInv == ASSUME NEW c, NEW d, IInv, StartRun(c, d) PROVE IInv'
<1>1. TablesOK(db') /\ TablesOK(disk') /\ Paired(db') /\ Paired(disk')
  <2>1. CASE db.emps = {} /\ dat # <<>>
    BY <2>1, FillKeeps DEF StartRun
  <2>2. CASE ~(db.emps = {} /\ dat # <<>>)
    <3>1. UNCHANGED <<db, disk>> /\ job.pc = "idle"
      BY <2>2 DEF StartRun
    <3> QED
      BY <3>1 DEF IInv, JobOK, TablesOK, Paired
  <2> QED
    BY <2>1, <2>2
<1>2. job' = [pc |-> "pay", period |-> Period(d), todo |-> db'.emps, skipped |-> 0,
              stubs |-> <<>>, transfers |-> <<>>, gross |-> 0, net |-> 0]
  BY DEF StartRun
<1>3. IsSequence(<<>>)
  BY EmptySeq DEF IsSequence
<1>4. JobOK' /\ job'.pc = "pay"
  BY <1>2, <1>3 DEF JobOK
<1> QED
  BY <1>1, <1>4 DEF IInv

LEMMA SkipInv == ASSUME IInv, Skip PROVE IInv'
<1>1. PICK e : job' = [job EXCEPT !.todo = @ \ {e}, !.skipped = @ + 1]
  BY DEF Skip
<1>2. UNCHANGED <<db, disk>> /\ job.pc = "pay"
  BY DEF Skip
<1> QED
  BY <1>1, <1>2 DEF IInv, JobOK, TablesOK, Paired

LEMMA InsertStubInv == ASSUME IInv, InsertStub PROVE IInv'
<1>1. PICK e, stub : /\ db' = [db EXCEPT !.stubs = Append(@, stub)]
                     /\ job' = [job EXCEPT !.pc = "entry", !.todo = @ \ {e}, !.stubs = Append(@, stub)]
                     /\ disk' = disk /\ job.pc = "pay"
  BY DEF InsertStub
<1>2. TablesOK(db) /\ Paired(db) /\ JobOK /\ TablesOK(disk) /\ Paired(disk)
  BY <1>1 DEF IInv
<1>3. /\ job' = [pc |-> "entry", period |-> job.period, todo |-> job.todo \ {e},
                 skipped |-> job.skipped, stubs |-> Append(job.stubs, stub),
                 transfers |-> job.transfers, gross |-> job.gross, net |-> job.net]
      /\ IsSequence(job.stubs)
  BY <1>1, <1>2 DEF JobOK
<1>4. /\ IsSequence(Append(job.stubs, stub))
      /\ Append(job.stubs, stub)[Len(Append(job.stubs, stub))] = stub
  BY <1>3, AppendToSequence
<1>5. JobOK' /\ job'.pc = "entry" /\ Last(job'.stubs) = stub
  BY <1>3, <1>4 DEF JobOK, Last
<1>6. /\ db'.stubs = Append(db.stubs, stub) /\ db'.chain = db.chain
      /\ db' = [emps |-> db'.emps, stubs |-> db'.stubs, chain |-> db'.chain]
  BY <1>1, <1>2 DEF TablesOK
<1>7. /\ IsSequence(db'.stubs) /\ Len(db.stubs) \in Nat /\ DOMAIN db.stubs = 1..Len(db.stubs)
      /\ Len(db'.stubs) = Len(db.stubs) + 1
      /\ \A i \in 1..Len(db.stubs) : db'.stubs[i] = db.stubs[i]
      /\ db'.stubs[Len(db.stubs) + 1] = stub
  BY <1>2, <1>6, AppendToSequence DEF TablesOK
<1>8. DOMAIN db.chain = 1..Len(db.stubs) /\ Len(db.chain) = Len(db.stubs)
  BY <1>2, AppendToSequence DEF TablesOK, Paired
<1>9. TablesOK(db') /\ OneAhead(db', stub)
  BY <1>2, <1>6, <1>7, <1>8 DEF TablesOK, OneAhead, Paired
<1> QED
  BY <1>1, <1>2, <1>5, <1>9 DEF IInv

LEMMA AppendEntryInv == ASSUME IInv, AppendEntry PROVE IInv'
<1> DEFINE last == Last(job.stubs)
<1>1. /\ db' = [db EXCEPT !.chain = Append(@, Entry(last))]
      /\ disk' = db' /\ job.pc = "entry"
      /\ job' = [job EXCEPT !.pc = "pay", !.gross = @ + last.gross, !.net = @ + last.net,
                   !.transfers = IF last.net > 0 THEN Append(@, Transfer(last)) ELSE @]
  BY DEF AppendEntry
<1> HIDE DEF last
<1>2. TablesOK(db) /\ OneAhead(db, last) /\ JobOK
  BY <1>1 DEF IInv, last
<1>3. TablesOK(db') /\ Paired(db')
  BY <1>1, <1>2, PairedByAppend
<1>4. JobOK' /\ job'.pc = "pay"
  BY <1>1, <1>2 DEF JobOK
<1> QED
  BY <1>1, <1>3, <1>4 DEF IInv

(* The end of a run, an exception and a crash.                             *)
LEMMA EndRunInv == ASSUME IInv, EndRun PROVE IInv'
  BY DEF IInv, EndRun, Idle, JobOK, TablesOK, Paired

LEMMA InsertRaisesInv == ASSUME IInv, InsertRaises PROVE IInv'
  BY DEF IInv, InsertRaises, Fault, Idle, JobOK, TablesOK, Paired

LEMMA CrashInv == ASSUME IInv, Crash PROVE IInv'
  BY DEF IInv, Crash, Fault, Idle, JobOK, TablesOK, Paired

LEMMA EditInv == ASSUME IInv, Edit PROVE IInv'
  BY DEF IInv, Edit, JobOK, TablesOK, Paired, OneAhead

LEMMA StutterInv == ASSUME IInv, UNCHANGED vars PROVE IInv'
  BY DEF IInv, vars, JobOK, TablesOK, Paired, OneAhead

-----------------------------------------------------------------------------
(* In every behaviour, whatever files, runs and interruptions it has, the  *)
(* invariant holds.                                                        *)
THEOREM Invariance == Spec => []IInv
<1>1. ASSUME IInv, [Next]_vars PROVE IInv'
  <2>1. CASE UNCHANGED vars
    BY <1>1, <2>1, StutterInv
  <2>2. CASE Edit
    BY <1>1, <2>2, EditInv
  <2>3. ASSUME NEW c, ListEmployees(c) PROVE IInv'
    BY <1>1, <2>3, ListEmployeesInv
  <2>4. ASSUME NEW c, NEW id, GetEmployee(c, id) PROVE IInv'
    BY <1>1, <2>4, GetEmployeeInv
  <2>5. ASSUME NEW c, NEW d, StartRun(c, d) PROVE IInv'
    BY <1>1, <2>5, StartRunInv
  <2>6. CASE Skip
    BY <1>1, <2>6, SkipInv
  <2>7. CASE InsertStub
    BY <1>1, <2>7, InsertStubInv
  <2>8. CASE AppendEntry
    BY <1>1, <2>8, AppendEntryInv
  <2>9. CASE EndRun
    BY <1>1, <2>9, EndRunInv
  <2>10. CASE InsertRaises
    BY <1>1, <2>10, InsertRaisesInv
  <2>11. CASE Crash
    BY <1>1, <2>11, CrashInv
  <2> QED
    BY <1>1, <2>1, <2>2, <2>3, <2>4, <2>5, <2>6, <2>7, <2>8, <2>9, <2>10, <2>11 DEF Next
<1> QED
  BY <1>1, InitInv, PTL DEF Spec

(* Whatever cuts runs short and however often they are repeated, the stubs *)
(* that are durable and the chain's entries are the same payments in the   *)
(* same order (payroll_bridge.py:437).                                     *)
THEOREM StubsHaveEntries == Spec => []StubsAndEntriesPair
<1>1. IInv => StubsAndEntriesPair
  BY DEF IInv, StubsAndEntriesPair
<1> QED
  BY <1>1, Invariance, PTL

-----------------------------------------------------------------------------
(* The employees' table.  It changes only between runs; a run's rows are   *)
(* rows of it, and of a row the run is through with there is a stub        *)
(* exactly if it is active.                                                *)

Numeric(emp) == emp.salary \in Int /\ emp.rate \in Int /\ emp.hours \in Int /\ emp.k401 \in Int
TableOK(emps) ==
    /\ \A e, f \in emps : e.emp.id = f.emp.id => e = f
    /\ \A e \in emps : Numeric(e.emp)
HasCurrent(emps, file) == \A i \in Current(file) : \E e \in emps : e.emp = Parsed(file[i])
ThroughWith(emps, run) ==
    /\ run.todo \subseteq emps
    /\ \A e \in emps :
          \/ e \in run.todo
          \/ (\E k \in DOMAIN run.stubs : run.stubs[k].id = e.emp.id) <=> e.emp.status = "A"
    /\ \A e \in run.todo : \A k \in DOMAIN run.stubs : run.stubs[k].id # e.emp.id

TableInv ==
    /\ dat \in Files
    /\ disk.emps = db.emps
    /\ TableOK(db.emps)
    /\ HasCurrent(db.emps, synced)
    /\ job.pc # "idle" => ThroughWith(db.emps, job)

LEMMA SyncedTable ==
    ASSUME NEW emps, TableOK(emps), NEW file \in Files
    PROVE  TableOK(Synced(emps, file)) /\ HasCurrent(Synced(emps, file), file)
<1> DEFINE Stays == {e \in emps : \A i \in DOMAIN file : file[i].id # e.emp.id}
           n == LastRow(emps)
<1>1. PICK t : t = Synced(emps, file)
  OBVIOUS
<1>2. \A e : e \in t <=> e \in Stays \/ \E i \in Current(file) : e = Row(n + i, file[i])
  BY <1>1 DEF Synced
<1> HIDE DEF n
<1>3. \A i \in Current(file) : i \in DOMAIN file /\ Row(n + i, file[i]).emp = Parsed(file[i])
  BY DEF Current, Row
<1>4. \A r : Parsed(r).id = r.id
  BY DEF Parsed
<1>5. \A i, j \in Current(file) : file[i].id = file[j].id => i = j
  <2>1. DOMAIN file \subseteq Int
    <3>1. file \in Seq(Range(file))
      BY FilesAssumption
    <3>2. DOMAIN file = 1 .. Len(file) /\ Len(file) \in Nat
      BY <3>1
    <3> QED BY <3>2
  <2> QED BY <2>1 DEF Current
<1>6. ASSUME NEW e \in t, NEW f \in t, e.emp.id = f.emp.id
      PROVE  e = f
  <2>1. CASE e \in Stays /\ f \in Stays
    BY <2>1, <1>6 DEF TableOK
  <2>2. CASE e \in Stays /\ f \notin Stays
    BY <2>2, <1>2, <1>3, <1>4, <1>6
  <2>3. CASE e \notin Stays /\ f \in Stays
    BY <2>3, <1>2, <1>3, <1>4, <1>6
  <2>4. CASE e \notin Stays /\ f \notin Stays
    <3>1. PICK i \in Current(file) : e = Row(n + i, file[i])
      BY <2>4, <1>2
    <3>2. PICK j \in Current(file) : f = Row(n + j, file[j])
      BY <2>4, <1>2
    <3>3. file[i].id = file[j].id
      BY <3>1, <3>2, <1>3, <1>4, <1>6
    <3>4. i = j
      BY <3>3, <1>5
    <3> QED BY <3>1, <3>2, <3>4
  <2> QED BY <2>1, <2>2, <2>3, <2>4
<1>7. ASSUME NEW e \in t
      PROVE  Numeric(e.emp)
  <2>1. CASE e \in Stays
    BY <2>1 DEF TableOK
  <2>2. CASE e \notin Stays
    <3>1. PICK i \in DOMAIN file : e.emp = Parsed(file[i])
      BY <2>2, <1>2, <1>3
    <3>2. /\ file[i].salary \in Int \cup {Malformed} /\ file[i].rate \in Int \cup {Malformed}
          /\ file[i].hours \in Int \cup {Malformed} /\ file[i].k401 \in Int \cup {Malformed}
      BY <3>1, FilesAssumption
    <3>3. \A raw \in Int \cup {Malformed} : SafeInt(raw, 0) \in Int
      BY DEF SafeInt
    <3>4. /\ e.emp.salary = SafeInt(file[i].salary, 0) /\ e.emp.rate = SafeInt(file[i].rate, 0)
          /\ e.emp.hours = SafeInt(file[i].hours, 0) /\ e.emp.k401 = SafeInt(file[i].k401, 0)
      BY <3>1 DEF Parsed
    <3> QED BY <3>2, <3>3, <3>4 DEF Numeric
  <2> QED BY <2>1, <2>2
<1>8. HasCurrent(t, file)
  BY <1>2, <1>3 DEF HasCurrent
<1>9. TableOK(t)
  BY <1>6, <1>7 DEF TableOK
<1> QED BY <1>1, <1>8, <1>9

LEMMA TableFilled ==
    ASSUME TableInv, Fill(Synced(db.emps, dat)), dat' = dat, IInv
    PROVE  /\ dat' \in Files /\ disk'.emps = db'.emps
           /\ TableOK(db'.emps) /\ HasCurrent(db'.emps, synced')
<1>1. db'.emps = Synced(db.emps, dat) /\ disk' = db' /\ synced' = dat
  BY DEF Fill, IInv, TablesOK
<1>2. TableOK(Synced(db.emps, dat)) /\ HasCurrent(Synced(db.emps, dat), dat)
  BY SyncedTable DEF TableInv
<1> QED BY <1>1, <1>2 DEF TableInv

(* A stub is made of whole cents, and nobody pays to work.                 *)
StubOK(x) ==
    /\ x.gross \in Int /\ x.withheld \in Int
    /\ x.net = IF x.gross < x.withheld THEN 0 ELSE x.gross - x.withheld

LEMMA RoundedInt == \A n \in Int : \A d \in Nat \ {0} : Rounded(n, d) \in Int
  BY DEF Rounded

LEMMA StubFields ==
    ASSUME NEW e, NEW period
    PROVE  /\ Stub(e, period).id = e.id
           /\ Stub(e, period).period = period
           /\ Numeric(e) => StubOK(Stub(e, period))
<1> DEFINE withheld == FedTax(Gross(e)) + StateTax(Gross(e)) + Fica(Gross(e)) + Deductions(e, Gross(e))
<1>1. PICK g : g = Gross(e)
  OBVIOUS
<1>2. PICK w : w = withheld
  OBVIOUS
<1>3. Stub(e, period) = [id |-> e.id, period |-> period, acct |-> e.acct, gross |-> g,
                         withheld |-> w, net |-> IF g < w THEN 0 ELSE g - w]
  BY <1>1, <1>2, Zenon DEF Stub
<1>4. ASSUME Numeric(e)
      PROVE  g \in Int /\ w \in Int
  <2>1. g \in Int
    <3>1. PICK o : o = 2 * e.rate * 40 + 3 * e.rate * (e.hours - 40) /\ o \in Int
      BY <1>4 DEF Numeric
    <3>2. PayPeriods \in Nat \ {0} /\ 2 \in Nat \ {0}
      BY DEF PayPeriods
    <3>3. Rounded(e.salary, PayPeriods) \in Int /\ Rounded(o, 2) \in Int
      BY <1>4, <3>1, <3>2, RoundedInt, Zenon DEF Numeric
    <3>4. e.rate * e.hours \in Int
      BY <1>4 DEF Numeric
    <3> QED BY <1>1, <3>1, <3>3, <3>4, Zenon DEF Gross
  <2>2. FedTax(g) \in Int /\ StateTax(g) \in Int /\ Fica(g) \in Int
    <3>1. PICK r : r = FedRate(g * PayPeriods) /\ r \in Int
      BY <2>1 DEF FedRate, PayPeriods
    <3>2. g * r \in Int /\ g * 725 \in Int /\ g * 765 \in Int
      BY <2>1, <3>1
    <3> QED BY <3>1, <3>2, RoundedInt DEF FedTax, StateTax, Fica
  <2>3. Deductions(e, g) \in Int
    <3>1. g * e.k401 \in Int
      BY <1>4, <2>1 DEF Numeric
    <3>2. PICK k : k = (IF e.k401 > 0 THEN Rounded(g * e.k401, 100) ELSE 0) /\ k \in Int
      BY <3>1, RoundedInt
    <3>3. PICK m : m = (CASE e.medical = "B" -> Rounded(27500, 12)
                          [] e.medical = "P" -> Rounded(50000, 12)
                          [] OTHER -> 0) /\ m \in Int
      BY RoundedInt
    <3>4. PICK d : d = (IF e.dental = "Y" THEN Rounded(7500, 12) ELSE 0) /\ d \in Int
      BY RoundedInt
    <3>5. Deductions(e, g) = m + d + k
      BY <3>2, <3>3, <3>4 DEF Deductions
    <3> QED BY <3>2, <3>3, <3>4, <3>5
  <2> QED BY <1>1, <1>2, <2>1, <2>2, <2>3
<1> HIDE DEF withheld
<1> QED BY <1>3, <1>4 DEF StubOK

LEMMA InitTable == Init => TableInv
  BY DEF Init, Idle, TableInv, TableOK, HasCurrent, Current

(* A run adds a stub for a row it takes off its list.                      *)
LEMMA OneRowFurther ==
    ASSUME NEW emps, TableOK(emps), NEW run, ThroughWith(emps, run), IsSequence(run.stubs),
           NEW e \in run.todo, e.emp.status = "A", NEW x, x.id = e.emp.id,
           NEW next, next.todo = run.todo \ {e}, next.stubs = Append(run.stubs, x)
    PROVE  ThroughWith(emps, next)
<1>1. /\ DOMAIN run.stubs = 1 .. Len(run.stubs) /\ Len(run.stubs) \in Nat
      /\ DOMAIN next.stubs = 1 .. (Len(run.stubs) + 1)
      /\ \A i \in 1 .. Len(run.stubs) : next.stubs[i] = run.stubs[i]
      /\ next.stubs[Len(run.stubs) + 1] = x
  BY AppendToSequence
<1>2. \A i \in DOMAIN next.stubs : i \in DOMAIN run.stubs \/ i = Len(run.stubs) + 1
  BY <1>1
<1>3. DOMAIN run.stubs \subseteq DOMAIN next.stubs /\ Len(run.stubs) + 1 \in DOMAIN next.stubs
  BY <1>1
<1>4. \A i \in DOMAIN run.stubs : next.stubs[i] = run.stubs[i]
  BY <1>1
<1>5. ASSUME NEW f \in emps
      PROVE  \/ f \in next.todo
             \/ (\E k \in DOMAIN next.stubs : next.stubs[k].id = f.emp.id) <=> f.emp.status = "A"
  <2>1. CASE f = e
    BY <2>1, <1>1, <1>3
  <2>2. CASE f # e
    <3>1. f.emp.id # x.id
      BY <2>2 DEF TableOK, ThroughWith
    <3>2. (\E k \in DOMAIN next.stubs : next.stubs[k].id = f.emp.id)
             <=> (\E k \in DOMAIN run.stubs : run.stubs[k].id = f.emp.id)
      BY <3>1, <1>1, <1>2, <1>3, <1>4
    <3> QED BY <2>2, <3>2 DEF ThroughWith
  <2> QED BY <2>1, <2>2
<1>6. ASSUME NEW f \in next.todo, NEW k \in DOMAIN next.stubs
      PROVE  next.stubs[k].id # f.emp.id
  <2>1. f \in run.todo /\ f # e /\ f \in emps /\ e \in emps
    BY DEF ThroughWith
  <2>2. f.emp.id # x.id
    BY <2>1 DEF TableOK
  <2> QED BY <2>1, <2>2, <1>1, <1>2, <1>4 DEF ThroughWith
<1>7. next.todo \subseteq emps
  BY DEF ThroughWith
<1> QED BY <1>5, <1>6, <1>7 DEF ThroughWith

LEMMA NextTable == ASSUME IInv, TableInv, [Next]_vars PROVE TableInv'
<1>1. TablesOK(db) /\ TablesOK(disk) /\ JobOK
  BY DEF IInv
<1>2. CASE UNCHANGED vars \/ Edit
  <2>1. UNCHANGED <<db, disk, job, synced>> /\ dat' \in Files
    BY <1>2 DEF vars, Edit, TableInv
  <2> QED BY <2>1 DEF TableInv
<1>3. ASSUME NEW c, NEW id, ListEmployees(c) \/ GetEmployee(c, id)
      PROVE  TableInv'
  <2>1. Fill(Synced(db.emps, dat)) /\ dat' = dat /\ job' = job /\ job.pc = "idle"
    BY <1>3 DEF ListEmployees, GetEmployee
  <2>2. /\ dat' \in Files /\ disk'.emps = db'.emps
        /\ TableOK(db'.emps) /\ HasCurrent(db'.emps, synced')
    BY <2>1, TableFilled
  <2> QED BY <2>1, <2>2 DEF TableInv
<1>4. ASSUME NEW c, NEW d, StartRun(c, d)
      PROVE  TableInv'
  <2>1. job'.todo = db'.emps /\ job'.stubs = <<>> /\ dat' = dat
    BY <1>4 DEF StartRun
  <2>2. /\ dat' \in Files /\ disk'.emps = db'.emps
        /\ TableOK(db'.emps) /\ HasCurrent(db'.emps, synced')
    <3>1. CASE db.emps = {} /\ dat # <<>>
      BY <1>4, <2>1, <3>1, TableFilled DEF StartRun
    <3>2. CASE ~ (db.emps = {} /\ dat # <<>>)
      <4>1. UNCHANGED <<db, disk, synced>>
        BY <1>4, <3>2 DEF StartRun
      <4> QED BY <4>1, <2>1 DEF TableInv
    <3> QED BY <3>1, <3>2
  <2>3. ThroughWith(db'.emps, job')
    BY <2>1 DEF ThroughWith
  <2> QED BY <2>2, <2>3 DEF TableInv
<1>5. CASE Skip
  <2>1. PICK e \in Upcoming : e.emp.status # "A" /\ job' = [job EXCEPT !.todo = @ \ {e}, !.skipped = @ + 1]
    BY <1>5 DEF Skip
  <2>2. UNCHANGED <<dat, db, disk, synced>> /\ job.pc = "pay" /\ ThroughWith(db.emps, job)
    BY <1>5 DEF Skip, TableInv
  <2>3. job'.todo = job.todo \ {e} /\ job'.stubs = job.stubs /\ e \in job.todo
    BY <1>1, <2>1, <2>2 DEF JobOK, Upcoming
  <2>4. ThroughWith(db.emps, job')
    BY <2>1, <2>2, <2>3 DEF ThroughWith
  <2> QED BY <2>2, <2>4 DEF TableInv
<1>6. CASE InsertStub
  <2>1. PICK e \in Upcoming :
          /\ e.emp.status = "A"
          /\ db' = [db EXCEPT !.stubs = Append(@, Stub(e.emp, job.period))]
          /\ job' = [job EXCEPT !.pc = "entry", !.todo = @ \ {e},
                                !.stubs = Append(@, Stub(e.emp, job.period))]
    BY <1>6 DEF InsertStub
  <2>2. UNCHANGED <<dat, disk, synced>> /\ job.pc = "pay" /\ ThroughWith(db.emps, job)
    BY <1>6 DEF InsertStub, TableInv
  <2>3. PICK x : x = Stub(e.emp, job.period) /\ x.id = e.emp.id
    BY StubFields
  <2>4. /\ job'.todo = job.todo \ {e} /\ job'.stubs = Append(job.stubs, x)
        /\ e \in job.todo /\ IsSequence(job.stubs)
    BY <1>1, <2>1, <2>2, <2>3 DEF JobOK, Upcoming
  <2>5. db'.emps = db.emps
    BY <1>1, <2>1 DEF TablesOK
  <2>6. ThroughWith(db.emps, job')
    BY <2>1, <2>2, <2>3, <2>4, OneRowFurther DEF TableInv
  <2> QED BY <2>2, <2>5, <2>6 DEF TableInv
<1>7. CASE AppendEntry
  <2>1. /\ db'.emps = db.emps /\ disk' = db' /\ UNCHANGED <<dat, synced>> /\ job.pc = "entry"
        /\ job'.todo = job.todo /\ job'.stubs = job.stubs
    BY <1>1, <1>7 DEF AppendEntry, TablesOK, JobOK
  <2>2. ThroughWith(db.emps, job')
    BY <2>1 DEF TableInv, ThroughWith
  <2> QED BY <2>1, <2>2 DEF TableInv
<1>8. CASE EndRun \/ InsertRaises \/ Crash
  <2>1. job'.pc = "idle" /\ UNCHANGED <<dat, synced>> /\ db'.emps = db.emps /\ disk'.emps = db.emps
    BY <1>8 DEF EndRun, InsertRaises, Crash, Idle, TableInv
  <2> QED BY <2>1 DEF TableInv
<1> QED
  BY <1>2, <1>3, <1>4, <1>5, <1>6, <1>7, <1>8 DEF Next

(* The table holds everybody once and follows the file it was last filled  *)
(* from, and a run pays those whom that file has as active, and nobody     *)
(* else (payroll_bridge.py:238, 256, 421).                                 *)
THEOREM TableAlwaysFollowsFile == Spec => []TableFollowsFile
<1>1. Spec => [](IInv /\ TableInv)
  <2>1. Init => TableInv
    BY InitTable
  <2>2. IInv /\ TableInv /\ [Next]_vars => TableInv'
    BY NextTable
  <2> QED BY <2>1, <2>2, Invariance, PTL DEF Spec
<1>2. ASSUME TableInv
      PROVE  TableFollowsFile
  <2>1. ASSUME synced = dat, job.pc # "idle", NEW i \in Current(dat)
        PROVE  \/ \E e \in job.todo : e.emp.id = dat[i].id
               \/ HasStub(dat[i].id) <=> dat[i].status = "A"
    <3>1. PICK e \in db.emps : e.emp = Parsed(dat[i])
      BY <1>2, <2>1 DEF TableInv, HasCurrent
    <3>2. e.emp.id = dat[i].id /\ e.emp.status = dat[i].status
      BY <3>1 DEF Parsed
    <3> QED BY <1>2, <2>1, <3>2 DEF TableInv, ThroughWith, HasStub
  <2> QED BY <1>2, <2>1 DEF TableInv, TableOK, HasCurrent, TableFollowsFile
<1> QED BY <1>1, <1>2, PTL

-----------------------------------------------------------------------------
(* How often somebody is paid for a period.  A run stubs nobody twice; so  *)
(* the stubs are those of the runs that reported, of the run in hand, and  *)
(* at most one for each run that was cut short.                            *)

OneEach(stubs, period) ==
    /\ \A i \in DOMAIN stubs : stubs[i].period = period
    /\ \A i, j \in DOMAIN stubs : stubs[i].id = stubs[j].id => i = j

Match(x, id, period) == IF x.id = id /\ x.period = period THEN 1 ELSE 0

Explained(id, period) ==
    /\ Reported(id, period) \in Nat
    /\ Reported(id, period) + Running(id, period) <= Times(db.stubs, id, period)
    /\ Times(db.stubs, id, period) <= Reported(id, period) + Running(id, period) + counts.faults

CountsOK == counts \in [runs : Nat, faults : Nat, edits : Nat]

PaidInv ==
    /\ counts.faults \in Nat
    /\ IsSequence(answers)
    /\ \A k \in DOMAIN answers : IsSequence(answers[k].stubs) /\ OneEach(answers[k].stubs, answers[k].period)
    /\ job.pc # "idle" => OneEach(job.stubs, job.period)
    /\ job.pc = "entry" =>
          /\ job.stubs # <<>>
          /\ db.stubs = Append(disk.stubs, Last(job.stubs))
    /\ job.pc # "entry" => db.stubs = disk.stubs
    /\ \A id, period : Explained(id, period)

LEMMA TimesType ==
    ASSUME NEW stubs, IsSequence(stubs), NEW id, NEW period
    PROVE  Times(stubs, id, period) \in Nat
<1> DEFINE S == {i \in DOMAIN stubs : stubs[i].id = id /\ stubs[i].period = period}
<1>1. DOMAIN stubs = 1 .. Len(stubs) /\ Len(stubs) \in Nat
  BY DEF IsSequence
<1>2. IsFiniteSet(DOMAIN stubs)
  BY <1>1, FS_Interval
<1>3. IsFiniteSet(S)
  BY <1>2, FS_Subset
<1> QED BY <1>3, FS_CardinalityType DEF Times

LEMMA TimesAppend ==
    ASSUME NEW stubs, IsSequence(stubs), NEW x, NEW id, NEW period
    PROVE  Times(Append(stubs, x), id, period) = Times(stubs, id, period) + Match(x, id, period)
<1> DEFINE S == {i \in DOMAIN stubs : stubs[i].id = id /\ stubs[i].period = period}
<1>1. PICK t, n : t = Append(stubs, x) /\ n = Len(stubs)
  OBVIOUS
<1> DEFINE T == {i \in DOMAIN t : t[i].id = id /\ t[i].period = period}
<1>2. /\ n \in Nat /\ DOMAIN stubs = 1 .. n /\ DOMAIN t = 1 .. (n + 1)
      /\ \A i \in 1 .. n : t[i] = stubs[i]
      /\ t[n + 1] = x
  BY <1>1, AppendToSequence
<1>3. IsFiniteSet(S) /\ Cardinality(S) \in Nat /\ Cardinality(S) = Times(stubs, id, period)
  <2>1. IsFiniteSet(S)
    <3>1. IsFiniteSet(DOMAIN stubs) /\ S \subseteq DOMAIN stubs
      BY <1>2, FS_Interval
    <3> HIDE DEF S
    <3> QED BY <3>1, FS_Subset
  <2>3. Times(stubs, id, period) \in Nat
    BY TimesType, Zenon
  <2>2. Cardinality(S) = Times(stubs, id, period)
    BY Zenon DEF Times
  <2> QED BY <2>1, <2>2, <2>3, Zenon
<1>4. Cardinality(T) = Times(t, id, period)
  BY DEF Times
<1>5. n + 1 \notin S
  BY <1>2
<1>6. CASE x.id = id /\ x.period = period
  <2>1. T = S \cup {n + 1}
    BY <1>2, <1>6
  <2>2. Match(x, id, period) = 1
    BY <1>6 DEF Match
  <2> HIDE DEF S, T
  <2>3. Cardinality(S \cup {n + 1}) = Cardinality(S) + 1
    BY <1>3, <1>5, FS_AddElement
  <2> QED BY <1>1, <1>3, <1>4, <2>1, <2>2, <2>3
<1>7. CASE ~ (x.id = id /\ x.period = period)
  <2>1. T = S
    BY <1>2, <1>7
  <2>2. Match(x, id, period) = 0
    BY <1>7 DEF Match
  <2> HIDE DEF S, T
  <2> QED BY <1>1, <1>3, <1>4, <2>1, <2>2
<1> QED BY <1>6, <1>7

LEMMA TimesInRun ==
    ASSUME NEW stubs, IsSequence(stubs), NEW period, OneEach(stubs, period), NEW id, NEW p
    PROVE  /\ Times(stubs, id, p) \in {0, 1}
           /\ (\E i \in DOMAIN stubs : stubs[i].id = id /\ stubs[i].period = p) => Times(stubs, id, p) = 1
<1> DEFINE S == {i \in DOMAIN stubs : stubs[i].id = id /\ stubs[i].period = p}
<1>1. CASE S = {}
  BY <1>1, FS_EmptySet DEF Times
<1>2. CASE S # {}
  <2>1. PICK i \in S : TRUE
    BY <1>2
  <2>2. S = {i}
    BY <2>1 DEF OneEach
  <2> QED BY <2>2, FS_Singleton DEF Times
<1> QED BY <1>1, <1>2

LEMMA LastOfAppend ==
    ASSUME NEW s, IsSequence(s), NEW x
    PROVE  /\ Last(Append(s, x)) = x /\ Append(s, x) # <<>>
           /\ \E i \in DOMAIN Append(s, x) : Append(s, x)[i] = x
  BY AppendToSequence DEF Last

ReportedIn(list, id, period) ==
    SumFunction([k \in DOMAIN list |-> Times(list[k].stubs, id, period)])
Adds(x, gain, y) == y = x + gain

LEMMA ReportedMore ==
    ASSUME NEW list, NEW a, NEW id, NEW period, NEW longer,
           IsSequence(list), \A k \in DOMAIN list : IsSequence(list[k].stubs),
           IsSequence(a.stubs), longer = Append(list, a)
    PROVE  Adds(ReportedIn(list, id, period), Times(a.stubs, id, period), ReportedIn(longer, id, period))
<1>1. PICK w, v : /\ w = [k \in DOMAIN list |-> Times(list[k].stubs, id, period)]
                  /\ v = [k \in DOMAIN longer |-> Times(longer[k].stubs, id, period)]
  OBVIOUS
<1>2. PICK n : n = Len(list)
  OBVIOUS
<1>3. /\ n \in Nat /\ DOMAIN list = 1 .. n /\ DOMAIN longer = 1 .. n + 1
      /\ \A k \in 1 .. n : longer[k] = list[k]
      /\ longer[n + 1] = a
  BY <1>2, AppendToSequence
<1>4. \A k \in 1 .. n + 1 : IsSequence(longer[k].stubs)
  BY <1>3
<1>5. \A k \in 1 .. n + 1 : v[k] = Times(longer[k].stubs, id, period) /\ v[k] \in Int
  <2>1. \A k \in 1 .. n + 1 : Times(longer[k].stubs, id, period) \in Nat
    BY <1>4, TimesType
  <2>2. \A k \in 1 .. n + 1 : v[k] = Times(longer[k].stubs, id, period)
    BY <1>1, <1>3
  <2>3. \A m \in Nat : m \in Int
    OBVIOUS
  <2> QED BY <2>1, <2>2, <2>3, Zenon
<1>6. \A k \in 1 .. n : w[k] = v[k]
  BY <1>1, <1>3
<1>7. v[n + 1] = Times(a.stubs, id, period)
  BY <1>3, <1>5
<1>8. /\ SumFunctionOnSet(w, 1 .. n) \in Int
      /\ SumFunctionOnSet(v, 1 .. n + 1) = SumFunctionOnSet(w, 1 .. n) + v[n + 1]
  BY <1>3, <1>5, <1>6, SumAppend
<1>9. DOMAIN w = 1 .. n /\ DOMAIN v = 1 .. n + 1
  BY <1>1, <1>3
<1>10. ReportedIn(list, id, period) = SumFunctionOnSet(w, 1 .. n)
  BY <1>1, <1>9 DEF SumFunction, ReportedIn
<1>11. ReportedIn(longer, id, period) = SumFunctionOnSet(v, 1 .. n + 1)
  BY <1>1, <1>9 DEF SumFunction, ReportedIn
<1> QED BY <1>7, <1>8, <1>10, <1>11 DEF Adds

LEMMA NothingYet ==
    /\ IsSequence(<<>>)
    /\ \A id, period : Times(<<>>, id, period) = 0
    /\ \A w : DOMAIN w = {} => SumFunction(w) = 0
<1>1. IsSequence(<<>>)
  BY EmptySeq DEF IsSequence
<1>2. ASSUME NEW id, NEW period
      PROVE  Times(<<>>, id, period) = 0
  <2>1. {i \in DOMAIN <<>> : <<>>[i].id = id /\ <<>>[i].period = period} = {}
    OBVIOUS
  <2> QED BY <2>1, FS_EmptySet DEF Times
<1>3. ASSUME NEW w, DOMAIN w = {}
      PROVE  SumFunction(w) = 0
  <2>1. IsFiniteSet({}) /\ \A x \in {} : w[x] \in Int
    BY FS_EmptySet
  <2>2. SumFunctionOnSet(w, {}) = 0
    BY <2>1, SumSplit
  <2> QED BY <1>3, <2>2 DEF SumFunction
<1> QED BY <1>1, <1>2, <1>3

LEMMA InitPaid == Init => PaidInv
<1> SUFFICES ASSUME Init PROVE PaidInv
  OBVIOUS
<1>1. answers = <<>> /\ job = Idle /\ db.stubs = <<>> /\ disk = db /\ counts.faults = 0 /\ job.pc = "idle"
  BY DEF Init, Idle
<1>2. ASSUME NEW id, NEW period
      PROVE  Explained(id, period)
  <2>1. Reported(id, period) = 0
    <3>1. PICK w : w = [k \in DOMAIN answers |-> Times(answers[k].stubs, id, period)]
      OBVIOUS
    <3>2. DOMAIN w = {}
      BY <1>1, <3>1
    <3> QED BY <3>1, <3>2, NothingYet DEF Reported
  <2>2. Running(id, period) = 0 /\ Times(db.stubs, id, period) = 0
    BY <1>1, NothingYet DEF Running
  <2> QED BY <1>1, <2>1, <2>2 DEF Explained
<1>3. IsSequence(answers) /\ DOMAIN answers = {}
  BY <1>1, NothingYet
<1> QED BY <1>1, <1>2, <1>3 DEF PaidInv

(* What is known before a step of somebody's stubs, in plain numbers.      *)
LEMMA Account ==
    ASSUME IInv, PaidInv, NEW id, NEW period
    PROVE  \E reported \in Nat, running \in Nat, paid \in Nat :
              /\ reported = Reported(id, period)
              /\ running = Running(id, period)
              /\ paid = Times(db.stubs, id, period)
              /\ reported + running <= paid
              /\ paid <= reported + running + counts.faults
<1>1. Explained(id, period)
  BY DEF PaidInv
<1>2. Times(db.stubs, id, period) \in Nat
  BY TimesType DEF IInv, TablesOK
<1>3. Running(id, period) \in Nat
  <2>1. CASE job.pc = "idle"
    BY <2>1 DEF Running
  <2>2. CASE job.pc # "idle"
    <3>1. IsSequence(job.stubs)
      BY <2>2 DEF IInv, JobOK
    <3> QED BY <2>2, <3>1, TimesType DEF Running
  <2> QED BY <2>1, <2>2
<1> QED BY <1>1, <1>2, <1>3 DEF Explained

LEMMA ExplainedStill ==
    ASSUME PaidInv, answers' = answers, db'.stubs = db.stubs, counts'.faults = counts.faults,
           \A id, period : Running(id, period)' = Running(id, period)
    PROVE  \A id, period : Explained(id, period)'
<1> SUFFICES ASSUME NEW id, NEW period
             PROVE  Explained(id, period)'
  OBVIOUS
<1>1. Explained(id, period)
  BY DEF PaidInv
<1>2. Reported(id, period)' = Reported(id, period) /\ Running(id, period)' = Running(id, period)
  BY DEF Reported
<1>3. Times(db.stubs, id, period)' = Times(db.stubs, id, period)
  BY DEF Times
<1> QED BY <1>1, <1>2, <1>3 DEF Explained

(* Steps that pay nobody and end nothing.                                  *)
LEMMA QuietPaid ==
    ASSUME PaidInv, answers' = answers, counts'.faults = counts.faults,
           db'.stubs = db.stubs, disk'.stubs = disk.stubs,
           \/ job' = job
           \/ job.pc = "pay" /\ job'.pc = "pay" /\ job'.stubs = job.stubs /\ job'.period = job.period
    PROVE  PaidInv'
<1>1. \A id, period : Running(id, period)' = Running(id, period)
  BY DEF Running, Times
<1>2. \A id, period : Explained(id, period)'
  BY <1>1, ExplainedStill
<1>3. job'.pc = job.pc /\ (job.pc # "idle" => OneEach(job'.stubs, job'.period))
  BY DEF PaidInv
<1>4. job.pc = "entry" => job'.stubs # <<>> /\ db'.stubs = Append(disk'.stubs, Last(job'.stubs))
  BY DEF PaidInv
<1> QED BY <1>2, <1>3, <1>4 DEF PaidInv

LEMMA StartRunPaid == ASSUME IInv, PaidInv, NEW c, NEW d, StartRun(c, d) PROVE PaidInv'
<1>1. /\ job.pc = "idle" /\ job'.pc = "pay" /\ job'.stubs = <<>> /\ answers' = answers
      /\ counts' = [counts EXCEPT !.runs = @ + 1]
  BY DEF StartRun
<1>2. db'.stubs = db.stubs /\ disk'.stubs = disk.stubs
  <2>1. CASE db.emps = {} /\ dat # <<>>
    <3>1. PICK emps : db' = [db EXCEPT !.emps = emps] /\ disk' = db'
      BY <2>1 DEF StartRun, Fill
    <3>2. db.stubs = disk.stubs
      BY <1>1 DEF PaidInv
    <3> QED BY <3>1, <3>2 DEF IInv, TablesOK
  <2>2. CASE ~ (db.emps = {} /\ dat # <<>>)
    BY <2>2 DEF StartRun
  <2> QED BY <2>1, <2>2
<1>3. \A id, period : Running(id, period)' = Running(id, period)
  BY <1>1, NothingYet DEF Running
<1>4. \A id, period : Explained(id, period)'
  BY <1>1, <1>2, <1>3, ExplainedStill
<1>5. OneEach(job'.stubs, job'.period)
  BY <1>1 DEF OneEach
<1>6. counts'.faults = counts.faults
  BY <1>1
<1> QED BY <1>1, <1>2, <1>4, <1>5, <1>6 DEF PaidInv

LEMMA OneEachMore ==
    ASSUME NEW stubs, IsSequence(stubs), NEW period, OneEach(stubs, period),
           NEW x, x.period = period, \A k \in DOMAIN stubs : stubs[k].id # x.id
    PROVE  OneEach(Append(stubs, x), period)
<1>1. PICK t, n : t = Append(stubs, x) /\ n = Len(stubs)
  OBVIOUS
<1>2. /\ n \in Nat /\ DOMAIN stubs = 1 .. n /\ DOMAIN t = 1 .. (n + 1)
      /\ \A i \in 1 .. n : t[i] = stubs[i]
      /\ t[n + 1] = x
  BY <1>1, AppendToSequence
<1>3. \A i \in DOMAIN t : i = n + 1 \/ i \in DOMAIN stubs
  BY <1>2
<1> QED BY <1>1, <1>2, <1>3 DEF OneEach

LEMMA InsertStubPaid == ASSUME IInv, TableInv, PaidInv, InsertStub PROVE PaidInv'
<1>1. PICK e \in Upcoming :
        /\ e.emp.status = "A"
        /\ db' = [db EXCEPT !.stubs = Append(@, Stub(e.emp, job.period))]
        /\ job' = [job EXCEPT !.pc = "entry", !.todo = @ \ {e}, !.stubs = Append(@, Stub(e.emp, job.period))]
  BY DEF InsertStub
<1>2. UNCHANGED <<disk, answers, counts>> /\ job.pc = "pay"
  BY DEF InsertStub
<1>3. PICK x : x = Stub(e.emp, job.period) /\ x.id = e.emp.id /\ x.period = job.period
  BY StubFields
<1>4. /\ job'.pc = "entry" /\ job'.stubs = Append(job.stubs, x) /\ job'.period = job.period
      /\ db'.stubs = Append(db.stubs, x)
      /\ IsSequence(job.stubs) /\ IsSequence(db.stubs) /\ db.stubs = disk.stubs
  BY <1>1, <1>2, <1>3 DEF IInv, JobOK, TablesOK, PaidInv
<1>5. Last(job'.stubs) = x /\ job'.stubs # <<>>
  BY <1>4, LastOfAppend
<1>6. OneEach(job'.stubs, job'.period)
  <2>1. \A k \in DOMAIN job.stubs : job.stubs[k].id # x.id
    BY <1>1, <1>2, <1>3 DEF TableInv, ThroughWith, Upcoming
  <2>2. OneEach(job.stubs, job.period)
    BY <1>2 DEF PaidInv
  <2> QED BY <1>3, <1>4, <2>1, <2>2, OneEachMore
<1>7. ASSUME NEW id, NEW period
      PROVE  Explained(id, period)'
  <2>1. PICK reported \in Nat, running \in Nat, paid \in Nat :
          /\ reported = Reported(id, period)
          /\ running = Running(id, period)
          /\ paid = Times(db.stubs, id, period)
          /\ reported + running <= paid
          /\ paid <= reported + running + counts.faults
    BY Account
  <2>2. Reported(id, period)' = reported
    BY <1>2, <2>1 DEF Reported
  <2>3. PICK m \in {0, 1} : m = Match(x, id, period)
    BY DEF Match
  <2>4. Times(job'.stubs, id, period) = running + m
    BY <1>2, <1>4, <2>1, <2>3, TimesAppend DEF Running
  <2>5. Running(id, period)' = running + m
    BY <1>4, <2>4 DEF Running, Times
  <2>6. Times(db'.stubs, id, period) = paid + m
    BY <1>4, <2>1, <2>3, TimesAppend
  <2>7. Times(db.stubs, id, period)' = paid + m
    BY <2>6 DEF Times
  <2>8. counts' = counts /\ counts.faults \in Nat
    BY <1>2 DEF PaidInv
  <2> QED BY <2>1, <2>2, <2>3, <2>5, <2>7, <2>8 DEF Explained
<1> QED BY <1>2, <1>4, <1>5, <1>6, <1>7 DEF PaidInv

LEMMA AppendEntryPaid == ASSUME IInv, PaidInv, AppendEntry PROVE PaidInv'
<1>1. /\ db'.stubs = db.stubs /\ disk' = db' /\ UNCHANGED <<answers, counts>> /\ job.pc = "entry"
      /\ job'.stubs = job.stubs /\ job'.period = job.period /\ job'.pc = "pay"
  BY DEF AppendEntry, IInv, TablesOK, JobOK
<1>2. \A id, period : Running(id, period)' = Running(id, period)
  BY <1>1 DEF Running, Times
<1>3. \A id, period : Explained(id, period)'
  BY <1>1, <1>2, ExplainedStill
<1> QED BY <1>1, <1>3 DEF PaidInv

LEMMA EndRunPaid == ASSUME IInv, PaidInv, EndRun PROVE PaidInv'
<1>1. PICK a : a = Answer(job) /\ a.stubs = job.stubs /\ a.period = job.period
  <2>1. Answer(job).stubs = job.stubs /\ Answer(job).period = job.period
    BY DEF Answer
  <2> QED BY <2>1, Zenon
<1>2. /\ answers' = Append(answers, a) /\ disk' = db /\ job'.pc = "idle" /\ job.pc = "pay"
      /\ UNCHANGED <<db, counts>>
  BY <1>1 DEF EndRun, Idle
<1>3. IsSequence(answers) /\ IsSequence(a.stubs) /\ OneEach(a.stubs, a.period)
  BY <1>1, <1>2 DEF PaidInv, IInv, JobOK
<1>4. PICK n : /\ n \in Nat /\ DOMAIN answers = 1 .. n /\ DOMAIN answers' = 1 .. (n + 1)
               /\ \A i \in 1 .. n : answers'[i] = answers[i]
               /\ answers'[n + 1] = a
               /\ IsSequence(answers')
  BY <1>2, <1>3, AppendToSequence
<1>5. \A k \in DOMAIN answers' : IsSequence(answers'[k].stubs) /\ OneEach(answers'[k].stubs, answers'[k].period)
  <2>1. \A k \in DOMAIN answers' : k \in DOMAIN answers \/ k = n + 1
    BY <1>4
  <2> QED BY <1>3, <1>4, <2>1 DEF PaidInv
<1>6. ASSUME NEW id, NEW period
      PROVE  Explained(id, period)'
  <2>1. PICK reported \in Nat, running \in Nat, paid \in Nat :
          /\ reported = Reported(id, period)
          /\ running = Running(id, period)
          /\ paid = Times(db.stubs, id, period)
          /\ reported + running <= paid
          /\ paid <= reported + running + counts.faults
    BY Account
  <2>2. running = Times(a.stubs, id, period)
    BY <1>1, <1>2, <2>1 DEF Running
  <2>3. Reported(id, period)' = reported + running
    <3>1. PICK longer, list : longer = answers' /\ list = answers
      OBVIOUS
    <3>2. /\ IsSequence(list) /\ \A k \in DOMAIN list : IsSequence(list[k].stubs)
          /\ longer = Append(list, a)
      BY <1>2, <3>1 DEF PaidInv
    <3>3. Adds(ReportedIn(list, id, period), Times(a.stubs, id, period), ReportedIn(longer, id, period))
      BY <1>3, <3>2, ReportedMore
    <3>4. Reported(id, period) = ReportedIn(list, id, period)
      BY <3>1 DEF Reported, ReportedIn
    <3>5. Reported(id, period)' = ReportedIn(longer, id, period)
      BY <3>1 DEF Reported, ReportedIn, Times
    <3> QED BY <2>1, <2>2, <3>3, <3>4, <3>5 DEF Adds
  <2>4. Running(id, period)' = 0
    BY <1>2 DEF Running
  <2>5. Times(db.stubs, id, period)' = paid
    BY <1>2, <2>1 DEF Times
  <2>6. counts' = counts /\ counts.faults \in Nat
    BY <1>2 DEF PaidInv
  <2> QED BY <2>1, <2>3, <2>4, <2>5, <2>6 DEF Explained
<1> QED BY <1>2, <1>4, <1>5, <1>6 DEF PaidInv

(* The stub that waits for its entry is one of the run in hand.            *)
LEMMA LastStubCounts ==
    ASSUME IInv, PaidInv, job.pc = "entry", NEW id, NEW period,
           NEW running \in Nat, running = Running(id, period),
           NEW left \in Nat, left = Times(disk.stubs, id, period),
           NEW paid \in Nat, paid = Times(db.stubs, id, period)
    PROVE  left = paid \/ (paid = left + 1 /\ running >= 1)
<1>1. PICK x : x = Last(job.stubs) /\ db.stubs = Append(disk.stubs, x)
  BY DEF PaidInv
<1>2. IsSequence(job.stubs) /\ OneEach(job.stubs, job.period) /\ IsSequence(disk.stubs)
  BY DEF IInv, JobOK, TablesOK, PaidInv
<1>3. PICK m \in {0, 1} : m = Match(x, id, period)
  BY DEF Match
<1>4. paid = left + m
  BY <1>1, <1>2, <1>3, TimesAppend
<1>5. m = 1 => running = 1
  <2>1. \E i \in DOMAIN job.stubs : job.stubs[i] = x
    <3>1. Len(job.stubs) \in DOMAIN job.stubs
      BY <1>2 DEF PaidInv, IsSequence
    <3> QED BY <1>1, <3>1 DEF Last
  <2>2. m = 1 => x.id = id /\ x.period = period
    BY <1>3 DEF Match
  <2>3. running = Times(job.stubs, id, period)
    BY DEF Running
  <2> QED BY <1>2, <2>1, <2>2, <2>3, TimesInRun
<1> QED BY <1>3, <1>4, <1>5

(* A run that is cut short leaves at most one stub of anybody behind; of   *)
(* the one that was not committed, none.                                   *)
LEMMA CutShortPaid == ASSUME CountsOK, IInv, PaidInv, InsertRaises \/ Crash PROVE PaidInv'
<1>1. /\ job.pc # "idle" /\ job'.pc = "idle" /\ answers' = answers /\ disk' = disk
      /\ db'.stubs = disk.stubs
      /\ counts' = [counts EXCEPT !.faults = @ + 1]
  BY DEF InsertRaises, Crash, Fault, Idle, PaidInv
<1>2. counts.faults \in Nat /\ IsSequence(job.stubs) /\ OneEach(job.stubs, job.period) /\ IsSequence(disk.stubs)
  BY <1>1 DEF PaidInv, IInv, JobOK, TablesOK
<1>3. counts'.faults = counts.faults + 1
  BY <1>1 DEF CountsOK
<1>4. ASSUME NEW id, NEW period
      PROVE  Explained(id, period)'
  <2>1. PICK reported \in Nat, running \in Nat, paid \in Nat :
          /\ reported = Reported(id, period)
          /\ running = Running(id, period)
          /\ paid = Times(db.stubs, id, period)
          /\ reported + running <= paid
          /\ paid <= reported + running + counts.faults
    BY Account
  <2>2. running = Times(job.stubs, id, period) /\ running \in {0, 1}
    BY <1>1, <1>2, <2>1, TimesInRun DEF Running
  <2>3. PICK left \in Nat : left = Times(disk.stubs, id, period)
    BY <1>2, TimesType
  <2>4. paid = left \/ (paid = left + 1 /\ running = 1)
    <3>1. CASE job.pc # "entry"
      <4>1. db.stubs = disk.stubs
        BY <3>1 DEF PaidInv
      <4> QED BY <4>1, <2>1, <2>3
    <3>2. CASE job.pc = "entry"
      <4>1. left = paid \/ (paid = left + 1 /\ running >= 1)
        BY <2>1, <2>3, <3>2, LastStubCounts
      <4> QED BY <2>2, <4>1
    <3> QED BY <3>1, <3>2
  <2>5. Reported(id, period)' = reported /\ Running(id, period)' = 0
    BY <1>1, <2>1 DEF Reported, Running
  <2>6. Times(db.stubs, id, period)' = left
    BY <1>1, <2>3 DEF Times
  <2> QED BY <1>2, <1>3, <2>1, <2>2, <2>3, <2>4, <2>5, <2>6 DEF Explained
<1>5. answers' = answers /\ counts'.faults \in Nat
  BY <1>1, <1>2, <1>3
<1> QED BY <1>1, <1>4, <1>5 DEF PaidInv

LEMMA NextCounts == CountsOK /\ [Next]_vars => CountsOK'
<1>1. UNCHANGED counts => (CountsOK => CountsOK')
  BY DEF CountsOK
<1>2. [Next]_vars => \/ UNCHANGED counts
                    \/ counts' = [counts EXCEPT !.runs = @ + 1]
                    \/ counts' = [counts EXCEPT !.faults = @ + 1]
                    \/ counts' = [counts EXCEPT !.edits = @ + 1]
  BY DEF Next, vars, Edit, ListEmployees, GetEmployee, StartRun, Skip, InsertStub, AppendEntry,
         EndRun, InsertRaises, Crash, Fault
<1>3. CountsOK /\ (\/ counts' = [counts EXCEPT !.runs = @ + 1]
                   \/ counts' = [counts EXCEPT !.faults = @ + 1]
                   \/ counts' = [counts EXCEPT !.edits = @ + 1]) => CountsOK'
  BY DEF CountsOK
<1> QED BY <1>1, <1>2, <1>3

LEMMA NextPaid == ASSUME CountsOK, IInv, TableInv, PaidInv, [Next]_vars PROVE PaidInv'
<1>1. CASE UNCHANGED vars
  BY <1>1, QuietPaid DEF vars
<1>2. CASE Edit
  <2>1. UNCHANGED <<answers, db, disk, job>> /\ counts'.faults = counts.faults
    BY <1>2 DEF Edit
  <2> QED BY <2>1, QuietPaid
<1>3. ASSUME NEW c, NEW id, ListEmployees(c) \/ GetEmployee(c, id)
      PROVE  PaidInv'
  <2>1. /\ answers' = answers /\ job' = job /\ job.pc = "idle" /\ counts'.faults = counts.faults
        /\ Fill(Synced(db.emps, dat))
    <3>1. CASE ListEmployees(c)
      BY <3>1 DEF ListEmployees
    <3>2. CASE GetEmployee(c, id)
      <4>1. counts'.faults = counts.faults
        BY <3>2 DEF GetEmployee
      <4> QED BY <3>2, <4>1 DEF GetEmployee
    <3> QED BY <1>3, <3>1, <3>2
  <2>2. PICK emps : db' = [db EXCEPT !.emps = emps] /\ disk' = db'
    BY <2>1 DEF Fill
  <2>3. db'.stubs = db.stubs /\ disk'.stubs = disk.stubs
    BY <2>1, <2>2 DEF PaidInv, IInv, TablesOK
  <2> QED BY <2>1, <2>3, QuietPaid
<1>4. ASSUME NEW c, NEW d, StartRun(c, d)
      PROVE  PaidInv'
  BY <1>4, StartRunPaid
<1>5. CASE Skip
  <2>1. PICK e : job' = [job EXCEPT !.todo = @ \ {e}, !.skipped = @ + 1]
    BY <1>5 DEF Skip
  <2>2. UNCHANGED <<db, disk, answers, counts>> /\ job.pc = "pay"
    BY <1>5 DEF Skip
  <2>3. job'.pc = "pay" /\ job'.stubs = job.stubs /\ job'.period = job.period
    BY <2>1, <2>2 DEF IInv, JobOK
  <2> QED BY <2>2, <2>3, QuietPaid
<1>6. CASE InsertStub
  BY <1>6, InsertStubPaid
<1>7. CASE AppendEntry
  BY <1>7, AppendEntryPaid
<1>8. CASE EndRun
  BY <1>8, EndRunPaid
<1>9. CASE InsertRaises \/ Crash
  BY <1>9, CutShortPaid
<1> QED BY <1>1, <1>2, <1>3, <1>4, <1>5, <1>6, <1>7, <1>8, <1>9 DEF Next

-----------------------------------------------------------------------------
(* The money of a run: the net is that of the transfers, and the rest of   *)
(* the gross is what the stubs keep back.  A stub that is being chained is *)
(* not yet in the totals.                                                  *)

KeptBacks(stubs) == [i \in DOMAIN stubs |-> KeptBack(stubs[i])]
Totalled(r, n) ==
    /\ IsSequence(r.transfers) /\ \A i \in DOMAIN r.transfers : r.transfers[i].amt \in Int
    /\ r.net \in Int
    /\ r.net = SumFunction([i \in DOMAIN r.transfers |-> r.transfers[i].amt])
    /\ Adds(r.net, SumFunctionOnSet(KeptBacks(r.stubs), 1 .. n), r.gross)

Counted(run) == IF run.pc = "entry" THEN Len(run.stubs) - 1 ELSE Len(run.stubs)

MoneyInv ==
    /\ \A k \in DOMAIN answers : Totalled(answers[k], Len(answers[k].stubs))
    /\ job.pc # "idle" =>
          /\ \A i \in DOMAIN job.stubs : StubOK(job.stubs[i])
          /\ Totalled(job, Counted(job))
          /\ job.pc = "entry" => job.stubs # <<>>

LEMMA KeptBackOfStub ==
    ASSUME NEW x, StubOK(x)
    PROVE  KeptBack(x) \in Int /\ x.net \in Nat /\ x.gross = x.net + KeptBack(x)
  BY DEF StubOK, KeptBack

(* A stub that is not yet counted leaves the sum over those that are.      *)
LEMMA StubUncounted ==
    ASSUME NEW stubs, IsSequence(stubs), NEW x
    PROVE  SumFunctionOnSet(KeptBacks(Append(stubs, x)), 1 .. Len(stubs))
             = SumFunctionOnSet(KeptBacks(stubs), 1 .. Len(stubs))
<1>1. PICK t, n : t = Append(stubs, x) /\ n = Len(stubs)
  OBVIOUS
<1>2. /\ n \in Nat /\ DOMAIN stubs = 1 .. n /\ DOMAIN t = 1 .. (n + 1)
      /\ \A i \in 1 .. n : t[i] = stubs[i]
  BY <1>1, AppendToSequence
<1>3. PICK w, v : w = KeptBacks(stubs) /\ v = KeptBacks(t)
  OBVIOUS
<1>4. \A i \in 1 .. n : v[i] = w[i]
  BY <1>2, <1>3 DEF KeptBacks
<1>5. IsFiniteSet(1 .. n)
  BY <1>2, FS_Interval
<1>6. SumFunctionOnSet(v, 1 .. n) = SumFunctionOnSet(w, 1 .. n)
  BY <1>4, <1>5, SumSame
<1> QED BY <1>1, <1>3, <1>6

LEMMA StubCounted ==
    ASSUME NEW stubs, IsSequence(stubs), stubs # <<>>, \A i \in DOMAIN stubs : StubOK(stubs[i])
    PROVE  /\ SumFunctionOnSet(KeptBacks(stubs), 1 .. Len(stubs) - 1) \in Int
           /\ Adds(SumFunctionOnSet(KeptBacks(stubs), 1 .. Len(stubs) - 1), KeptBack(Last(stubs)),
                   SumFunctionOnSet(KeptBacks(stubs), 1 .. Len(stubs)))
<1>1. PICK n \in Nat : Len(stubs) = n + 1 /\ n = Len(stubs) - 1
  <2>1. Len(stubs) \in Nat /\ Len(stubs) # 0
    BY DEF IsSequence
  <2>2. Len(stubs) - 1 \in Nat /\ Len(stubs) = (Len(stubs) - 1) + 1
    BY <2>1
  <2> QED BY <2>2
<1>2. PICK v : v = KeptBacks(stubs)
  OBVIOUS
<1>3. DOMAIN stubs = 1 .. n + 1
  BY <1>1 DEF IsSequence
<1>4. \A i \in 1 .. n + 1 : v[i] = KeptBack(stubs[i]) /\ KeptBack(stubs[i]) \in Int
  BY <1>2, <1>3, KeptBackOfStub DEF KeptBacks
<1>5. \A i \in 1 .. n + 1 : v[i] \in Int
  BY <1>4
<1>6. /\ SumFunctionOnSet(v, 1 .. n) \in Int
      /\ SumFunctionOnSet(v, 1 .. n + 1) = SumFunctionOnSet(v, 1 .. n) + v[n + 1]
  BY <1>5, SumAppend
<1>7. v[n + 1] = KeptBack(Last(stubs))
  BY <1>1, <1>4 DEF Last
<1> QED BY <1>1, <1>2, <1>6, <1>7 DEF Adds

LEMMA TransferAdded ==
    ASSUME NEW list, NEW t, IsSequence(list), \A i \in DOMAIN list : list[i].amt \in Int,
           t.amt \in Int, NEW longer, longer = Append(list, t)
    PROVE  /\ IsSequence(longer) /\ \A i \in DOMAIN longer : longer[i].amt \in Int
           /\ Adds(SumFunction([i \in DOMAIN list |-> list[i].amt]), t.amt,
                   SumFunction([i \in DOMAIN longer |-> longer[i].amt]))
<1>1. PICK w, v, n : /\ w = [i \in DOMAIN list |-> list[i].amt]
                     /\ v = [i \in DOMAIN longer |-> longer[i].amt]
                     /\ n = Len(list)
  OBVIOUS
<1>2. /\ n \in Nat /\ DOMAIN list = 1 .. n /\ DOMAIN longer = 1 .. n + 1
      /\ \A i \in 1 .. n : longer[i] = list[i]
      /\ longer[n + 1] = t /\ IsSequence(longer)
  BY <1>1, AppendToSequence
<1>3. \A i \in 1 .. n + 1 : longer[i].amt \in Int
  <2>1. \A i \in 1 .. n + 1 : i \in 1 .. n \/ i = n + 1
    BY <1>2
  <2> QED BY <1>2, <2>1
<1>4. /\ \A i \in 1 .. n + 1 : v[i] = longer[i].amt
      /\ \A i \in 1 .. n : w[i] = list[i].amt
  BY <1>1, <1>2
<1>5. /\ \A i \in 1 .. n + 1 : v[i] \in Int
      /\ \A i \in 1 .. n : w[i] = v[i]
  <2>1. \A i \in 1 .. n : i \in 1 .. n + 1
    BY <1>2
  <2> QED BY <1>2, <1>3, <1>4, <2>1
<1>6. SumFunctionOnSet(v, 1 .. n + 1) = SumFunctionOnSet(w, 1 .. n) + v[n + 1]
  BY <1>2, <1>5, SumAppend
<1>7. v[n + 1] = t.amt /\ DOMAIN w = 1 .. n /\ DOMAIN v = 1 .. n + 1
  BY <1>1, <1>2, <1>4
<1> QED BY <1>1, <1>2, <1>3, <1>6, <1>7 DEF SumFunction, Adds

LEMMA InitMoney == Init => MoneyInv
  BY DEF Init, Idle, MoneyInv

LEMMA StartRunMoney == ASSUME MoneyInv, NEW c, NEW d, StartRun(c, d) PROVE MoneyInv'
<1>1. /\ answers' = answers /\ job'.pc = "pay" /\ job'.stubs = <<>>
      /\ job'.transfers = <<>> /\ job'.gross = 0 /\ job'.net = 0
  BY DEF StartRun
<1>2. PICK r : r = job'
  OBVIOUS
<1>3. /\ r.stubs = <<>> /\ r.transfers = <<>> /\ r.gross = 0 /\ r.net = 0 /\ r.pc = "pay"
  BY <1>1, <1>2
<1>4. SumFunction([i \in DOMAIN r.transfers |-> r.transfers[i].amt]) = 0
  <2>1. PICK w : w = [i \in DOMAIN r.transfers |-> r.transfers[i].amt]
    OBVIOUS
  <2>2. DOMAIN w = {}
    BY <1>3, <2>1
  <2> QED BY <2>1, <2>2, NothingYet
<1>5. Counted(r) = 0
  BY <1>3 DEF Counted
<1>6. SumFunctionOnSet(KeptBacks(r.stubs), 1 .. 0) = 0
  <2>1. PICK w : w = KeptBacks(r.stubs)
    OBVIOUS
  <2>2. DOMAIN w = {} /\ 1 .. 0 = {}
    BY <1>3, <2>1 DEF KeptBacks
  <2> QED BY <2>1, <2>2, NothingYet DEF SumFunction
<1>7. Totalled(r, Counted(r))
  BY <1>3, <1>4, <1>5, <1>6, NothingYet DEF Totalled, Adds
<1>8. Totalled(job', Counted(job'))
  BY <1>2, <1>7
<1>9. Totalled(job, Counted(job))'
  BY <1>8
<1> QED BY <1>1, <1>9 DEF MoneyInv

LEMMA InsertStubMoney == ASSUME IInv, TableInv, MoneyInv, InsertStub PROVE MoneyInv'
<1>1. PICK e \in Upcoming :
        job' = [job EXCEPT !.pc = "entry", !.todo = @ \ {e}, !.stubs = Append(@, Stub(e.emp, job.period))]
  BY DEF InsertStub
<1>2. answers' = answers /\ job.pc = "pay"
  BY DEF InsertStub
<1>3. e \in db.emps /\ Numeric(e.emp)
  BY <1>1, <1>2 DEF TableInv, ThroughWith, TableOK, Upcoming
<1>4. PICK x : x = Stub(e.emp, job.period) /\ StubOK(x)
  BY <1>3, StubFields
<1>5. PICK r, q : r = job /\ q = job'
  OBVIOUS
<1>6. /\ q.pc = "entry" /\ q.stubs = Append(r.stubs, x) /\ IsSequence(r.stubs)
      /\ q.transfers = r.transfers /\ q.net = r.net /\ q.gross = r.gross /\ r.pc = "pay"
  BY <1>1, <1>2, <1>4, <1>5 DEF IInv, JobOK
<1>7. PICK n : /\ n = Len(r.stubs) /\ n \in Nat
               /\ DOMAIN r.stubs = 1 .. n /\ DOMAIN q.stubs = 1 .. (n + 1)
               /\ \A i \in 1 .. n : q.stubs[i] = r.stubs[i]
               /\ q.stubs[n + 1] = x /\ Len(q.stubs) = n + 1
  BY <1>6, AppendToSequence
<1>8. Counted(q) = n /\ Counted(r) = n
  BY <1>6, <1>7 DEF Counted
<1>9. Totalled(r, n) /\ \A i \in DOMAIN r.stubs : StubOK(r.stubs[i])
  BY <1>2, <1>5, <1>8 DEF MoneyInv
<1>10. SumFunctionOnSet(KeptBacks(q.stubs), 1 .. n) = SumFunctionOnSet(KeptBacks(r.stubs), 1 .. n)
  BY <1>6, <1>7, StubUncounted
<1>11. Totalled(q, n)
  BY <1>6, <1>9, <1>10 DEF Totalled
<1>12. \A i \in DOMAIN q.stubs : StubOK(q.stubs[i])
  <2>1. \A i \in DOMAIN q.stubs : i \in DOMAIN r.stubs \/ i = n + 1
    BY <1>7
  <2> QED BY <1>4, <1>7, <1>9, <2>1
<1>13. q.stubs # <<>>
  BY <1>6, LastOfAppend
<1>14. /\ Totalled(job', Counted(job')) /\ job'.stubs # <<>>
       /\ \A i \in DOMAIN job'.stubs : StubOK(job'.stubs[i])
  BY <1>5, <1>8, <1>11, <1>12, <1>13
<1>15. Totalled(job, Counted(job))'
  BY <1>14
<1> QED BY <1>2, <1>14, <1>15 DEF MoneyInv, StubOK

LEMMA AppendEntryMoney == ASSUME IInv, MoneyInv, AppendEntry PROVE MoneyInv'
<1>1. PICK r, q, x : r = job /\ q = job' /\ x = Last(job.stubs)
  OBVIOUS
<1>2. /\ q = [r EXCEPT !.pc = "pay", !.gross = @ + x.gross, !.net = @ + x.net,
                 !.transfers = IF x.net > 0 THEN Append(@, Transfer(x)) ELSE @]
      /\ answers' = answers /\ r.pc = "entry"
  BY <1>1 DEF AppendEntry
<1>3. /\ q.stubs = r.stubs /\ q.pc = "pay" /\ q.gross = r.gross + x.gross /\ q.net = r.net + x.net
      /\ q.transfers = IF x.net > 0 THEN Append(r.transfers, Transfer(x)) ELSE r.transfers
      /\ IsSequence(r.stubs)
  BY <1>1, <1>2 DEF IInv, JobOK
<1>4. /\ \A i \in DOMAIN r.stubs : StubOK(r.stubs[i])
      /\ Totalled(r, Len(r.stubs) - 1) /\ r.stubs # <<>>
  BY <1>1, <1>2 DEF MoneyInv, Counted
<1>5. StubOK(x)
  <2>1. Len(r.stubs) \in DOMAIN r.stubs
    BY <1>3, <1>4 DEF IsSequence
  <2> QED BY <1>1, <1>4, <2>1 DEF Last
<1>6. KeptBack(x) \in Int /\ x.net \in Nat /\ x.gross = x.net + KeptBack(x)
  BY <1>5, KeptBackOfStub
<1>7. PICK less, kept : /\ less = SumFunctionOnSet(KeptBacks(r.stubs), 1 .. Len(r.stubs) - 1)
                        /\ kept = SumFunctionOnSet(KeptBacks(r.stubs), 1 .. Len(r.stubs))
  OBVIOUS
<1>8. less \in Int /\ kept = less + KeptBack(x)
  BY <1>1, <1>3, <1>4, <1>7, StubCounted DEF Adds
<1>9. /\ IsSequence(r.transfers) /\ \A i \in DOMAIN r.transfers : r.transfers[i].amt \in Int
      /\ r.net = SumFunction([i \in DOMAIN r.transfers |-> r.transfers[i].amt])
      /\ r.net \in Int
  BY <1>4 DEF Totalled
<1>10. r.gross = r.net + less
  BY <1>4, <1>7 DEF Totalled, Adds
<1>11. /\ IsSequence(q.transfers) /\ \A i \in DOMAIN q.transfers : q.transfers[i].amt \in Int
       /\ q.net = SumFunction([i \in DOMAIN q.transfers |-> q.transfers[i].amt])
       /\ q.net \in Int
  <2>1. CASE x.net > 0
    <3>1. q.transfers = Append(r.transfers, Transfer(x)) /\ Transfer(x).amt = x.net /\ x.net \in Int
      BY <1>3, <1>6, <2>1 DEF Transfer
    <3>2. IsSequence(q.transfers) /\ \A i \in DOMAIN q.transfers : q.transfers[i].amt \in Int
      BY <1>9, <3>1, TransferAdded
    <3>3. Adds(SumFunction([i \in DOMAIN r.transfers |-> r.transfers[i].amt]), x.net,
               SumFunction([i \in DOMAIN q.transfers |-> q.transfers[i].amt]))
      <4>1. PICK t : t = Transfer(x)
        OBVIOUS
      <4>2. t.amt = x.net /\ t.amt \in Int /\ q.transfers = Append(r.transfers, t)
        BY <3>1, <4>1
      <4>3. Adds(SumFunction([i \in DOMAIN r.transfers |-> r.transfers[i].amt]), t.amt,
                 SumFunction([i \in DOMAIN q.transfers |-> q.transfers[i].amt]))
        BY <1>9, <4>2, TransferAdded
      <4> QED BY <4>2, <4>3
    <3>4. PICK old, new : /\ old = SumFunction([i \in DOMAIN r.transfers |-> r.transfers[i].amt])
                          /\ new = SumFunction([i \in DOMAIN q.transfers |-> q.transfers[i].amt])
      OBVIOUS
    <3>5. q.net = r.net + x.net /\ r.net = old /\ r.net \in Int
      BY <1>3, <1>9, <3>4
    <3>6. new = old + x.net
      BY <3>3, <3>4 DEF Adds
    <3>7. q.net = new /\ q.net \in Int
      BY <3>1, <3>5, <3>6
    <3> QED BY <3>2, <3>4, <3>7
  <2>2. CASE ~ (x.net > 0)
    <3>1. q.transfers = r.transfers /\ q.net = r.net
      BY <1>3, <1>6, <1>9, <2>2
    <3> QED BY <1>9, <3>1
  <2> QED BY <2>1, <2>2
<1>12. q.gross = q.net + kept
  BY <1>3, <1>6, <1>8, <1>9, <1>10
<1>13. Totalled(q, Len(q.stubs)) /\ Counted(q) = Len(q.stubs)
  BY <1>3, <1>7, <1>11, <1>12 DEF Totalled, Adds, Counted
<1>14. Totalled(job', Counted(job')) /\ \A i \in DOMAIN job'.stubs : StubOK(job'.stubs[i])
  BY <1>1, <1>3, <1>4, <1>13
<1>15. Totalled(job, Counted(job))'
  BY <1>14
<1> QED BY <1>1, <1>2, <1>3, <1>14, <1>15 DEF MoneyInv, StubOK

LEMMA EndRunMoney == ASSUME IInv, PaidInv, MoneyInv, EndRun PROVE MoneyInv'
<1>1. PICK a : a = Answer(job)
  OBVIOUS
<1>2. answers' = Append(answers, a) /\ job'.pc = "idle" /\ job.pc = "pay" /\ IsSequence(answers)
  BY <1>1 DEF EndRun, Idle, PaidInv
<1>3. a.stubs = job.stubs /\ a.transfers = job.transfers /\ a.net = job.net /\ a.gross = job.gross
  BY <1>1 DEF Answer
<1>4. Totalled(a, Len(a.stubs))
  BY <1>2, <1>3 DEF MoneyInv, Counted, Totalled
<1>5. PICK n : /\ n \in Nat /\ DOMAIN answers = 1 .. n /\ DOMAIN answers' = 1 .. (n + 1)
               /\ \A i \in 1 .. n : answers'[i] = answers[i]
               /\ answers'[n + 1] = a
               /\ IsSequence(answers')
  <2>1. PICK list, longer : list = answers /\ longer = answers'
    OBVIOUS
  <2>2. IsSequence(list) /\ longer = Append(list, a)
    BY <1>2, <2>1
  <2>3. /\ Len(list) \in Nat /\ DOMAIN list = 1 .. Len(list) /\ DOMAIN longer = 1 .. (Len(list) + 1)
        /\ \A i \in 1 .. Len(list) : longer[i] = list[i]
        /\ longer[Len(list) + 1] = a
        /\ IsSequence(longer)
    BY <2>2, AppendToSequence
  <2> QED BY <2>1, <2>3
<1>6. \A k \in DOMAIN answers' : Totalled(answers'[k], Len(answers'[k].stubs))
  <2>1. \A k \in DOMAIN answers' : k \in DOMAIN answers \/ k = n + 1
    BY <1>5
  <2> QED BY <1>4, <1>5, <2>1 DEF MoneyInv
<1>7. (\A k \in DOMAIN answers : Totalled(answers[k], Len(answers[k].stubs)))'
  BY <1>6
<1> QED BY <1>2, <1>7 DEF MoneyInv

LEMMA NextMoney == ASSUME IInv, TableInv, PaidInv, MoneyInv, [Next]_vars PROVE MoneyInv'
<1>1. CASE UNCHANGED vars \/ Edit
  <2>1. answers' = answers /\ job' = job
    BY <1>1 DEF vars, Edit
  <2> QED BY <2>1 DEF MoneyInv
<1>2. ASSUME NEW c, NEW id, ListEmployees(c) \/ GetEmployee(c, id)
      PROVE  MoneyInv'
  <2>1. answers' = answers /\ job' = job
    BY <1>2 DEF ListEmployees, GetEmployee
  <2> QED BY <2>1 DEF MoneyInv
<1>3. ASSUME NEW c, NEW d, StartRun(c, d)
      PROVE  MoneyInv'
  BY <1>3, StartRunMoney
<1>4. CASE Skip
  <2>1. PICK e : job' = [job EXCEPT !.todo = @ \ {e}, !.skipped = @ + 1]
    BY <1>4 DEF Skip
  <2>2. answers' = answers /\ job.pc = "pay"
    BY <1>4 DEF Skip
  <2>3. /\ job'.pc = "pay" /\ job'.stubs = job.stubs /\ job'.transfers = job.transfers
        /\ job'.net = job.net /\ job'.gross = job.gross
    BY <2>1, <2>2 DEF IInv, JobOK
  <2>4. Totalled(job, Counted(job))'
    BY <2>2, <2>3 DEF MoneyInv, Totalled, Counted
  <2> QED BY <2>2, <2>3, <2>4 DEF MoneyInv
<1>5. CASE InsertStub
  BY <1>5, InsertStubMoney
<1>6. CASE AppendEntry
  BY <1>6, AppendEntryMoney
<1>7. CASE EndRun
  BY <1>7, EndRunMoney
<1>8. CASE InsertRaises \/ Crash
  BY <1>8 DEF InsertRaises, Crash, Idle, MoneyInv
<1> QED BY <1>1, <1>2, <1>3, <1>4, <1>5, <1>6, <1>7, <1>8 DEF Next

(* However runs are repeated, interrupted and cut short by crashes, nobody *)
(* is paid more often than runs reported him and were cut short, and what  *)
(* a run reports is what it handed to settlement and what it kept back     *)
(* (payroll_bridge.py:386, 449, 463).                                      *)
THEOREM AlwaysPaidAsReported == Spec => []PaidAsReported
<1>1. Spec => [](IInv /\ TableInv /\ CountsOK /\ PaidInv /\ MoneyInv)
  <2>1. Init => TableInv /\ PaidInv /\ MoneyInv
    BY InitTable, InitPaid, InitMoney
  <2>2. Init => CountsOK
    BY DEF Init, CountsOK
  <2>3. IInv /\ TableInv /\ CountsOK /\ PaidInv /\ MoneyInv /\ [Next]_vars
          => TableInv' /\ CountsOK' /\ PaidInv' /\ MoneyInv'
    BY NextTable, NextCounts, NextPaid, NextMoney
  <2> QED BY <2>1, <2>2, <2>3, Invariance, PTL DEF Spec
<1>2. ASSUME IInv, PaidInv, MoneyInv
      PROVE  PaidAsReported
  <2>1. ASSUME NEW id, NEW period
        PROVE  /\ Reported(id, period) <= Times(disk.stubs, id, period)
               /\ Times(disk.stubs, id, period)
                    <= Reported(id, period) + Running(id, period) + counts.faults
    <3>1. PICK reported \in Nat, running \in Nat, paid \in Nat :
            /\ reported = Reported(id, period)
            /\ running = Running(id, period)
            /\ paid = Times(db.stubs, id, period)
            /\ reported + running <= paid
            /\ paid <= reported + running + counts.faults
      BY <1>2, Account
    <3>2. PICK left \in Nat : left = Times(disk.stubs, id, period)
      BY <1>2, TimesType DEF IInv, TablesOK
    <3>3. counts.faults \in Nat
      BY <1>2 DEF PaidInv
    <3>4. CASE job.pc # "entry"
      <4>1. left = paid
        BY <1>2, <3>1, <3>2, <3>4 DEF PaidInv
      <4> QED BY <3>1, <3>2, <3>3, <4>1
    <3>5. CASE job.pc = "entry"
      <4>1. left = paid \/ (paid = left + 1 /\ running >= 1)
        BY <1>2, <3>1, <3>2, <3>5, LastStubCounts
      <4> QED BY <3>1, <3>2, <3>3, <4>1
    <3> QED BY <3>4, <3>5
  <2>2. ASSUME NEW k \in DOMAIN answers
        PROVE  LET a == answers[k]
               IN  /\ a.net = SumFunction([i \in DOMAIN a.transfers |-> a.transfers[i].amt])
                   /\ \A i \in DOMAIN a.stubs : Times(a.stubs, a.stubs[i].id, a.period) = 1
                   /\ a.gross = a.net + SumFunction([i \in DOMAIN a.stubs |-> KeptBack(a.stubs[i])])
    <3>1. PICK a : a = answers[k]
      OBVIOUS
    <3>2. IsSequence(a.stubs) /\ OneEach(a.stubs, a.period) /\ Totalled(a, Len(a.stubs))
      BY <1>2, <2>2, <3>1 DEF PaidInv, MoneyInv
    <3>3. a.net = SumFunction([i \in DOMAIN a.transfers |-> a.transfers[i].amt])
      BY <3>2 DEF Totalled
    <3>4. \A i \in DOMAIN a.stubs : Times(a.stubs, a.stubs[i].id, a.period) = 1
      <4>1. \A i \in DOMAIN a.stubs : a.stubs[i].period = a.period
        BY <3>2 DEF OneEach
      <4> QED BY <3>2, <4>1, TimesInRun
    <3>5. a.gross = a.net + SumFunction([i \in DOMAIN a.stubs |-> KeptBack(a.stubs[i])])
      <4>1. PICK w : w = KeptBacks(a.stubs) /\ w = [i \in DOMAIN a.stubs |-> KeptBack(a.stubs[i])]
        BY DEF KeptBacks
      <4>2. DOMAIN w = 1 .. Len(a.stubs)
        BY <3>2, <4>1 DEF IsSequence
      <4>3. a.gross = a.net + SumFunctionOnSet(w, 1 .. Len(a.stubs))
        BY <3>2, <4>1 DEF Totalled, Adds
      <4> QED BY <4>1, <4>2, <4>3 DEF SumFunction
    <3> QED BY <3>1, <3>3, <3>4, <3>5
  <2> QED BY <2>1, <2>2 DEF PaidAsReported
<1> QED BY <1>1, <1>2, PTL
=============================================================================
