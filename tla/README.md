# A verification development for cobol-legacy-ledger

The repository runs a small banking network: five banks and a clearing house,
each a node with an SQLite database, a fixed-width file `ACCOUNTS.DAT` and a
chain of hashed entries, and a coordinator that settles transfers between them.
The posting logic exists twice: as COBOL programs that work on the files
("Mode A") and as Python that works on the database ("Mode B"). A simulation
engine, a REST server, a command line, a chat assistant and a payroll bridge
drive the nodes.

This directory holds TLA+ modules of the parts whose correctness depends on the
order of steps, the TLC runs that check them on small instances, and proofs,
checked by TLAPS, for every instance.

## 1. Inventory

### Banking node, Mode B (`python/bridge.py`)

*State.* One SQLite file per node (tables `accounts`, `transactions`,
`chain_entries`), one connection per `COBOLBridge` object, `ACCOUNTS.DAT`.

*Operations.* `process_transaction` (checks, row, chain entry, balance, and for a
transfer the second half), `update_account_status`, `run_interest_batch`,
`run_fee_batch`, `run_reconciliation` (reads only), `seed_demo_data`,
`load_accounts_from_dat`, `_write_accounts_to_dat`.

*Hard behaviour.* There is no transaction around an operation:
`IntegrityChain.append` commits the connection it shares with the bridge, so a
posting becomes durable in two pieces, and a batch in one piece per account, each
with the previous account's balance. The DAT file and the database drift apart,
because transactions write only the database and the batches start from the file.

*Correct when* nobody is overdrawn, the ledger and the chain tell the same story
and only grow, numbers are unique, a transfer makes no money, and a crash costs no
more than the posting it interrupted.

### The same database under several connections (`bridge.py`, `integrity.py`)

*State.* The committed database, each connection's open transaction and its
snapshot, the local variables of each thread.

*Interaction.* The server's bridges (`api/dependencies.py`), its settlement
coordinator, the simulation engine's coordinator and the chat tools open
connections of their own to the same files; WAL mode and `busy_timeout` arbitrate.

*Hard behaviour.* Balance, next number and latest hash are read by statements
that are not in the transaction that writes them. A statement that times out
raises, nothing rolls back, and the connection keeps its transaction.

*Correct when* no balance goes below zero, a row is never committed without its
chain entry, the chain links, no commit undoes another's, every request ends.

### Settlement (`python/settlement.py`)

*State.* The balances of customers and of the nostro accounts at the clearing
house, the chains, a counter of references per coordinator, the results.

*Operations.* `execute_transfer` (four postings at three nodes, none taken back),
`execute_batch_settlement`, `get_settlement_summary`.

*Hard behaviour.* Refusal, exception or a crash after each of the postings; two
coordinators at once; every coordinator counts its references from one.

*Correct when* a credit always has its debit, a result never claims what no chain
has, `steps_completed` tells what has to be put right, money is with a customer
or known to be on its way, and every order gets a result.

### Cross-node verification (`python/cross_verify.py`)

Reads all chains and files: linkage of each chain, drift between file and
database, classification of each settlement reference as MATCHED, PARTIAL or
MISMATCH. *Correct when* it flags what it says it can detect and does not flag an
honest history. `tamper_balance` edits `ACCOUNTS.DAT` for the demonstration.

### Banking node, Mode A, and the COBOL programs (`COBOL-BANKING/src/*.cob`)

*State.* `ACCOUNTS.DAT` and `TRANSACT.DAT`; each program loads all accounts, works
on its copy, and writes the whole file. *Operations.* `TRANSACT` (deposit,
withdraw, transfer, batch), `ACCOUNTS` (create, update, close), `INTEREST`,
`FEES`, `RECONCILE`, `VALIDATE`, `SETTLE`, `SIMULATE`; in Python
`process_transaction_via_cobol` runs a program, reads its output, resynchronises
the database, appends to the chain, and falls back to Mode B on status 99.
*Hard behaviour.* Whole-file rewrites by two processes; a call that timed out
after it had written; a table of fixed size. *Correct when* a transaction is
applied once, a transfer moves the amount, and the two modes decide alike.

### Simulation (`python/simulator.py`, `python/api/routes_simulation.py`)

*State.* The engine (day, pause and stop flags, which month's fees were taken,
scenario events), the module's `_engine` and `_thread`, the subscribers' queues.
*Operations.* start, stop, pause, resume, reset, status, the tamper demonstration,
the event stream; in the thread, the day loop. *Hard behaviour.* Handlers run concurrently with each other
and with the thread; the thread reads `_engine` only when it gets to run; reset
waits five seconds and then deletes the databases; an `OSError` skips the rest of a
day; a client's queue holds 2000 events. *Correct when* one engine runs at a time
and the globals are that engine and its thread, stop ends it also when it is paused,
fees and interest are taken once a month, an event takes effect once, and a client
misses no event between two it gets.

### Payroll (`python/payroll_bridge.py`, `python/api/routes_payroll.py`)

*State.* `EMPLOYEES.DAT`, which others edit; employees and pay stubs in SQLite; the
node's chain. *Operations.* list and look up employees, run payroll, read stubs.
*Hard behaviour.* The table is filled from the file only when it is empty or
somebody is not found; a stub becomes durable with its chain entry, employee by
employee; nothing keeps a period from being run again. *Correct when* a stub has
its entry, a run reports what it pays, and the table is what the file said when it
was last read.

### Roles (`python/auth.py`)

A constant table: four roles, eighteen permissions, demo users whose role no header
changes. *Correct when* nobody does what his role may not.

### Chat assistant (`python/llm/`, `python/api/routes_chat.py`)

*State.* The current provider, a conversation manager per user with its role,
provider and sessions, the table `tool_audit`. *Operations.* chat, history, switch
of the provider; inside a chat, rounds of model and tools; inside a tool call,
lookup, permission, validation, dispatch, audit row. *Hard behaviour.* Handlers
interleave at every await of a provider; a model answers anything, for ever, or not
at all; validation and the audit row may raise. *Correct when* every call in a
history has its results, the audit table tells what was done, what is done is done for
the user who asked and offered to the role he asked under (or, where the code keeps an
earlier one, had asked under before), a chat uses the provider chosen last and is
answered.

### COBOL workbench (`python/cobol_analyzer/`, `python/cobol_codegen/`)

*State.* None in the server: a client sends a text and gets a text or a report. The
state is the text in the client's hands, edited request after request.
*Operations.* parse, eight edits, generate, three program templates, validate; call
graph, dead code, trace, and three measures of a text. *Hard behaviour.* Whatever
the parser does not keep is lost with the first edit; renaming replaces text; ALTER,
GO TO, fall-through and PERFORM THRU make reachability a matter of executions.
*Correct when* nothing that runs is reported dead, no edit leaves a reference
without its paragraph, and what an edit does not name stays where it is, but for the
wear each trip through parser and generator means for all of the text.

### Parts without a state machine worth a model

The banking REST handlers (thin; what matters of them, several connections and
coordinators at once, is in the modules), the command line, the web console, scripts,
the COBOL payroll and merchant programs.

## 2. Plan

Most important behaviour first. Modules marked done are in this directory.

| order | module | what | builds on | state |
|---|---|---|---|---|
| 1 | `Ledger`, `BankNode` | one Mode B node with crashes | | done, proved |
| 2 | `Settlement` | four-leg transfers, several coordinators, verification | postings of 1 | done, proved |
| 3 | `Remittance` | the abstract service settlement implements | | done, refinement proved |
| 4 | `NodeSessions` | one database under several connections | 1, by statement | done, proved |
| 5 | `CobolPrograms`, `CobolBridge` | TRANSACT, ACCOUNTS, INTEREST, FEES over the files, Mode A in Python, fallback | `Ledger` | done, proved |
| 6 | `SimulationEngine` | the day loop | | done, proved |
| 7 | `SimulationControl` | request handlers, engine threads, event streams | | done, proved |
| 8 | `Roles`, `Payroll` | pay runs, repeated or cut short | | done, proved |
| 9 | `Assistant` | chats, tools, audit, provider switches | `Roles` | done, proved |
| 10 | `CallGraph`, `DeadCode` | the dead-code search against a machine that runs the text | | done, proved |
| 11 | `Codegen`, `Workbench` | parser, edits, generator, validator, request after request | 10 | done, proved but for one property |

Every module has one passing run that composes what it interacts with, and a
violation run stands only where the repository says in so many words what the code
does not do. Bounds as in section 4.

Dropped from the plan: the merchant programs and SETTLE and SIMULATE in COBOL,
which no Python code runs (section 6). Left for proofs:
`LaterEditsChangeOnlyTheirSubject` of `Workbench`.

## 3. The modules and the code

Amounts are integers of cents. Names, descriptions, dates and timestamps are left
out unless something depends on them; hashes and signatures are taken to be
unforgeable, so an entry's hash is its position.

### Ledger

What posting in Python computes from a database (`NewRow`, `Logged`, `Decision`,
`LastSeq`, `InterestOn`, `FeeOn`): values only, no state. `BankNode` and
`CobolBridge` are both built from it, since the fallback of Mode A is Mode B.

### BankNode

One bridge, one caller, and a process that may die.

| variable | in the code |
|---|---|
| `db` | what the open connection sees: `acct`, `txs`, `chain` are the three tables |
| `disk` | the same as of the last commit |
| `dat` | `ACCOUNTS.DAT`; its domain is the set of accounts it holds, empty after truncation |
| `job` | the handler that is running and its locals: `new_balance`, the accounts a batch works on |
| `edited`, `loose` | history only: balances edited in the file, balances once copied from it |
| `crashes` | how many there were |

A handler is cut exactly where something becomes durable: `Record` is
`process_transaction` up to the commit inside `chain.append`; `Post` and
`PostTransfer` the rest of it; `SetStatus`, `TruncateDat`, `WriteDat`, `LogStatus`
are `update_account_status`; `StartBatch`, `BatchStep`, `EndBatch`, `TruncateDat`,
`WriteDat` a monthly batch; `Reseed`, `TruncateDat`, `WriteDat`, `SyncAccounts`
`seed_demo_data`. In `BatchStep` the new `disk` has the row and the entry of this
account and the balance of the one before, as the shared connection commits it.
`Crash` keeps `disk` and `dat` and forgets `db` and `job`. `Tamper` is
`cross_verify.tamper_balance`.

`process_transaction` refuses an unknown account and leaves everything as it is:
such a step would be a stutter and has no action. The interest and fee formulas
are computed, with the half-up rounding of the code. The order of the accounts in
a batch is left open, which is more behaviours than the code has.

### Settlement and Remittance

`co[c]` holds the locals of `execute_transfer` at coordinator `c`: which of the
four postings is next, whether its row and entry are durable and its balance is
not (`"post"`), `steps_completed`, the rest of the batch. `Record` and `Post` are
the two durable pieces of `process_transaction` at the posting's node, `Refuse` its
error codes, `Unaddressed` the `KeyError` of `NOSTRO_MAP` or `self.nodes`, `Raise`
an exception of a statement, both answered FAILED with the steps so far as the
final `except` does. `Restart` is a coordinator whose process ends and the new one
that counts from zero; every CLI command is such a new coordinator. `ToggleFrozen`
is a status change by somebody else. A transfer's own number `id` is not in the
code: the properties use it to tell transfers apart where the code's reference
does not.

`Classify` is the classification of `cross_verify.py`, with the last entry seen
winning in the order of `NODES`; `NostroPosition` is `get_settlement_summary`.

`Remittance` is what customers are promised: a remittance leaves an account that
can pay it, is on its way, arrives once or stays on its way. The refinement maps
the customers' balances to its `money`, and a history variable to its `transit`.

### NodeSessions

The same postings, cut at every statement, for threads on several connections.
SQLite is external and modelled as the code uses it: deferred transactions as
Python's `sqlite3` opens them (a `BEGIN` before a writing statement), snapshots in
WAL mode, one write lock, a stale snapshot that may not be upgraded. `Locked` is
`sqlite3.OperationalError` after `busy_timeout`, or at once for a stale snapshot;
its transaction stays open, because no handler of the bridge rolls back.
`InsertRow` with a number that is taken is the `IntegrityError`, which leaves the
lock held. The requests are deposits, withdrawals and freezes of one node.

### CobolPrograms and CobolBridge

`CobolPrograms` is what each COBOL program makes of the table it has loaded: the
records it writes and the table it saves. A batch of TRANSACT posts its deposits,
withdrawals, transfers, interest and fees in memory, takes fee lines without a look
at the balance, and saves `ACCOUNTS.DAT` once, at its end. Its working storage
is modelled where it matters: PROCESS-TRANSFER keeps the payer's index in the
variable FIND-ACCOUNT counts with, so the payer found first is forgotten.

`CobolBridge` runs them. `run[c]` is one caller: the call, where program or bridge
resumes, the accounts the program has seen, the numbers it knows of, what its
output will say. `Load`, `Count`, `AppendRecord`, `Open`, `Save`, `List` are a
program's file operations; `Open` empties the file `Save` then writes. `OpenFails`
is a program that may not open a file another one has open for output, `Kill` the
bridge's timeout, after which `InModeB` decides and posts as Mode B does.
`ChainEntry` and `InsertRow` are the two commits after a success, `RowRefused` the
`IntegrityError` the bridge swallows, `ChainMonthly` the entries read off the
output of INTEREST and FEES, `Sync` the copy of a listing, `SetStatus`,
`TruncateDat`, `WriteDat`, `LogStatus` the status change.

### SimulationEngine

One thread. `pc` walks through `_run_day`: `OpenDay` with the month's due batches,
`FeeBatch` and `InterestBatch` per bank, `HandleEvent`, the transactions with the
two looks at `_stopped` and the wait on `_paused`, `EndOfDay`, `AfterDay`. `OsError`
may come anywhere in a day, also after the batch or the event it interrupts has had
its effect; `Crash` is any other exception. `Stop`, `Pause`, `Resume` are what the
handlers write to the flags. Dates are numbers; a month has a fixed length of three days or more, a week
five business days, as `_is_first_business_day` and its sibling compute them.

### SimulationControl

The globals `_engine` and `_thread` as positions in the lists of objects ever made,
so that an object nobody refers to any more is still there, with its thread. A
handler is cut between the statements that touch a global: `Start`, `MakeEngine`,
`RegisterCallback`, `MakeThread`, `StartThread`; `CheckFlag`, `SetFlag`; `Reset`,
`Join`, `Joined` or `JoinTimesOut`, `CloseBridges`, `ForgetEngine`, `ForgetThread`.
A thread first reads `_engine` (`ReadEngine`), as `run_engine` does, and then loops
as in `SimulationEngine`, reduced to where it looks at the flags or its bridges.

`streams` are the clients' queues: whether one is on the list `_event_queues`, how
many events wait in it, and, as history, which kinds of events it missed and after
which of those others came. `Broadcast` is the callback of `start`, which takes a
full queue off the list; `Announce` is ENGINE_ERROR and TAMPER_BALANCE, which leave
it there. `Fire` runs every callback an engine has, so an engine with two of them
reports twice.

### Roles and Payroll

`Roles` is the table of `auth.py` and, for each of the twenty tools, the permission
and the arguments it requires.

`Payroll` has `dat`, the file; `db` and `disk`, the tables as the connection sees
them and as of the last commit, the employees a set of rows with the rowid that orders
them; `job`, the locals of `run_payroll`; `answers`, what runs returned. `StartRun` is
the request up to the loop, with the filling of an empty table and its commit; `Skip`
is the loop's way past a row that is not active; `InsertStub` the INSERT that is not
committed; `AppendEntry` the chain's append, whose commit makes both durable, with the
transfer and the totals after it; `EndRun` the last
commit and the answer. `InsertRaises` and `Crash` end a run; `ListEmployees` and
`GetEmployee` read the file again where the code does; `Edit` is somebody else.
Gross pay, taxes and deductions are computed to the cent as the code computes them.
The handlers contain no await, so one runs at a time.

### Assistant

`chats[h]` is a handler of `POST /chat`: before the provider's availability check,
or waiting for a model's reply, with its manager and round. Everything between two
awaits is one action: `Checked` looks up or makes the user's manager and appends the
message, `CallTools` executes all calls of a reply one after the other
(`ToolExecutor.execute` is `Verdict`: unknown tool, permission, validation,
dispatch) and goes on, stops at the limit or ends with execute's exception. `Switch`
forgets the registered managers; handlers that wait keep theirs. The model is
external and may call any tool with any arguments. `managers` keeps every manager
there was. Two variables are history: `requests`, the users and roles requests came
with, and `acts`, what was carried out, each act with the manager's user and role,
under which execute() ran, and with the request's (`asker`). The two roles need not
be the same: `_get_conversation` (`routes_chat.py:97-111`) keeps the manager of a
user's first request, with its role. `AuditTellsActs` says how far they may differ
(`InEarlierRole`): never for a demo user, whose role no header changes, and for any
other only to a role the same user has asked under before. That the difference exists is
a disagreement with `auth.py:7-8` (section 6).

### CallGraph, DeadCode, Codegen, Workbench

A program text is a sequence of paragraphs, each a sequence of lines that say what
the statement does, to which paragraphs, what other words it has (literals, data names:
what a rename may hit), and whether a period ends it. Names are sequences of their
hyphenated parts, because a rename replaces text inside names. Data items have how
their VALUE is written (`quoted`, `bare`, a quoted `phrase` of several words, unquoted
`words`) and whether a comment stands above.

`CallGraph` gives the edges `call_graph.py` reads off a text, `DeadCode` the two
searches of `dead_code.py`, a turn of the loop per step, and after them a machine
that runs the same text: PERFORM with its return, THRU, GO TO altered or not,
DEPENDING ON, fall-through, STOP RUN. The machine is COBOL's and external; a
condition may come out either way.

`Codegen` is `Parse`, `Generate`, `Apply` (each operation of `editor.py` with its
answers), the templates and `Issues` of the validator: what each keeps, rewrites or
loses. `ReadValue` is what the parser's pattern makes of a VALUE: the quotes go, and
several words without quotes are not matched. `Workbench` is a client who edits a text, sends back what it got, then has
the dead code reported and runs the text.

## 4. The runs

| run | asks | expects |
|---|---|---|
| `BankNode` | Does one node keep its ledger, its chain and its balances through batches over a stale or edited file, reseeding and a crash at every durable cut? | pass |
| `Settlement` | Do two coordinators at once, with an exception, a restart and a freeze anywhere, ever record a credit without its debit or return a result that overstates? | pass |
| `SettlementMoney` | With one coordinator: is every cent with a customer or on its way, do results, verification and summary tell the truth, is `Remittance` implemented, is every order answered? | pass |
| `NodeSessions` | Two connections, statement by statement: balances, pairing of rows and entries, linkage, no lost commits, every request ends. | pass |
| `CobolBridge` | Two callers, three calls, a kill anywhere: funds, file against database against chain, what a number identifies. | pass |
| `SimulationEngine` | Are a month's fees and interest taken once whatever day is cut short, does an event take effect once, does a stop end the run? | pass |
| `SimulationControl` | Do the globals tell the truth, is no engine out of reach, has no stream a gap, do stopped engines end and requests get answers? | pass |
| `Payroll` | Do stubs and entries stay paired, is nobody paid more often than runs that reported or were cut short, does the table follow the file? | pass |
| `Assistant` | Do results follow their calls, does the audit table tell what was done and was it the asker's to do, do new chats use the provider chosen last, is every chat answered? | pass |
| `Workbench` | Is what runs never reported dead, do references survive edits, is what a later edit does not name still there, only worn? | pass |
| `CobolTransfer` | Does TRANSACT's transfer debit the source and credit the target? | violation |
| `AssistantAudit` | Does every invocation of a tool leave an audit row? | violation |

### What the violations show

* `CobolTransfer`: any transfer between two accounts. FIND-ACCOUNT's loop over the
  target overwrites the index of the source; the amount is taken from the target
  and given to it, the table saved is the one loaded, and the code is 00.
* `AssistantAudit`: a model passes an amount that is a string. `_validate_params`
  compares it with a number outside of `execute`'s try; the TypeError ends the
  invocation and the chat, and no row is written (`tool_executor.py:29-31` says that
  there is no such path).

### Bounds, and why they are enough

`BankNode`: a checking and a savings account, three rows, three entries, one crash.
Seed balances of 60.00 and 40.00 and an amount of 45.00 make withdrawals succeed at one account,
fail at the other and succeed there after a transfer; edits to -50.00 and 25.00
reach the batches' guards from both sides (a fee above the balance, interest on
none). Two accounts are what a transfer, a self-transfer and a batch with a
half-done state need; one crash reaches every cut, and `OneAccountPerCrash` counts
them. The proofs remove every bound of what they prove.

`Settlement`: two coordinators with one transfer each, in opposite directions over
the same nostro accounts, one exception, one restart, one status change.
`SettlementMoney`: one coordinator, up to three orders out of batches that contain
success, no funds at the payer (4 of 5, then again), no funds at the clearing
house (B's nostro has 3), no such account, no such bank, the clearing house as a
bank, and a transfer to oneself, so every posting is refused in some behaviour.

`NodeSessions`: two connections with one thread each, one account with 3, requests
of 1 and 2 and a freeze, four in all: enough for two withdrawals that do not both
fit, an abandoned transaction, and a request after it. `RowsAreChained` and
`OnlyStatusBreaks` are stated for a connection per thread, which is the case of
separate coordinators and bridges; the code itself disclaims more.

`CobolBridge`: a checking account with 60.00 and a savings account with 400.00, two
callers, three calls, one kill. The calls hold withdrawals that fit once, a
transfer, a freeze, both monthly programs and a batch with a deposit, a transfer,
a withdrawal that fits once and not twice, and interest. Three calls are needed for
two that overlap and one that finds what they left behind. A batch without fee
lines is checked, because fee lines are taken whatever the balance is and
`NeverOverdrawn` says so.

`SimulationEngine`: months of eight days, twelve days, and three dates to start on,
so that months begin on a Monday, in mid-week, on a Saturday and on a Sunday; two
banks, so that a batch can be half done; two events on one day and one in the next
month; two days cut short and two requests.

`SimulationControl`: two handlers, three requests of any kind, opened streams and
tamper demonstrations counted among them: start, reset and start again while the
first thread still runs, and any two that race with a third. A queue of two is
full after a few events, and a client that reads makes room again.

`Payroll`: three runs on three days, two of them in neighbouring periods and one
without a date, two interruptions, three edits of a file that is empty, has three
employees, or has them terminated, malformed, returned and joined by a fourth, who
has two records. Two
runs of a period and one of the next, any two cut short, are the least that could
pay somebody once too often.

`Assistant`: two handlers, two chats, one switch or request for a history, two
rounds, a user with a fixed role and one who asks as operator or as viewer, in either
order (so a viewer's chat does meet an operator's manager). The replies hold every
verdict of the pipeline, a row that cannot be written and calls after it. Two chats
of one session are what can tear calls and results apart; the limit of ten rounds is
two here, and `Assistant_proofs` has it for any. 188741 states.

`Workbench`: five texts (two in the way of PAYROLL.cob and MERCHANT.cob, three from
the templates), twelve requests, sequences of three edits, then analysis and a run
with at most three active PERFORMs. Three edits are the first one, which normalises
the text, and two whose effects may meet. Requests name names inside names, missing
ones, ones in use and one in lower case; the texts and requests have values of every
kind, comments, periods, a header and none, and literals that hold a renamed name.
40710 states.

Deadlock is checked in `BankNode` and `CobolBridge`, and not where the bounds or
the program end a behaviour: the last request, order or restart, the last day.

### Fairness

`SettlementMoney` assumes weak fairness of a coordinator's own steps: a call waits
for nobody and runs to its end, unless `Restart` (not fair) ends its process.
`NodeSessions` assumes weak fairness of each thread's steps: a thread that waits
for the lock either gets it or its five seconds pass (`Locked`), so a waiting
thread always has a step. `SimulationEngine` assumes that its thread is scheduled:
the polling of a pause ends when the flag changes. `SimulationControl` assumes weak
fairness of each handler and each engine thread; a join either ends or times out.
`Assistant` assumes weak fairness
of a handler that waits: the provider answers, fails or times out, as the client
timeout (`providers.py:190`; the library of Anthropic has its own) and the exception
handlers make it; that it ever stops
calling tools is not assumed, the limit of rounds ends it.
An engine may run for ever (`days` is optional), so the end of the days is only a
choice, and a stop is what ends it. Nothing is assumed of requests, freezes, exceptions or
crashes.

## 5. Proofs

### SumTheorems

`BankNode`, `Settlement`, `CobolBridge` and the simulation count and add: what all accounts hold, how
often an entry occurs, how many accounts are out of step. The lemmas all of them need are
proved once, over any finite set: a sum is that of a part and of the rest
(`SumSplit`), depends on nothing but its summands (`SumSame`), changes as one summand
does (`SumChange`), an appended element counts itself (`CountingUp`, `SumAppend`);
zeros at the end add nothing (`SumPadded`), and one term among them adds itself
(`SumExtended`). A fold over a finite set, such as a batch's over
its lines, has its values in any set that its step does not leave (`FoldExists`).
Since no induction theorem can be used here, `SumSplit` looks at a smallest subset
for which it fails, which a finite set of subsets has, and so do the lemmas on folds.

### BankNode_proofs

`Spec => []IInv`, for all accounts, seed balances, amounts, batches, edits and
bounds, then `TypeOK`, `NoOverdraft`, `LedgerChained`, `IdsDense` and the action
property `LedgerAppendOnly` from it.

`NoOverdraft` is not inductive: `Post` writes a balance computed two commits
earlier, a batch posts from its copy of the file. `IInv` adds what makes them safe:
a computed balance that waits to be written is not negative; an account that a
batch has still to do is one it may take the fee from; the connection's tables of
rows and entries are those on disk, so a crash loses at most a balance; and numbers
are dense, so `MAX + 1` is the length plus one (`LastSeqIsLen`) and the new entry
comes after all others (`LoggedKeeps`).

`BooksInv` then says what the balances have to do with the rows: a handler that posts
carries the effect of the row it has recorded (`Booked`), only a batch holds a
commit back, and the accounts that are out of step all the same (`Strays`) are no
more than there were crashes. From it follow `OneAccountPerCrash` and
`TransferConserves`. `OneAccountPerCrash` is proved where the requests are deposits,
withdrawals and transfers (`MovesOnly`), which is all the programs of the repository
ask for; the theorem says so in a hypothesis, because an interest or a fee asked for
as a transaction has a row that changes no balance (see the last section).

### Settlement_proofs

`Spec => []IInv` for any number of banks, accounts, coordinators and orders, then
`TypeOK`, `NoCreditWithoutDebit` and `ResultsAreRecorded`.

That an entry's predecessor is in the chains is not inductive either: it must be
known that a coordinator that is at posting k made the postings before it, that no
entry has the number of an order still in a queue, and that no two coordinators
have the same number. `IInv` states these three (`WorkOK`, `NumbersOK`, disjoint
`Mine`) and the proof has one lemma per action.

For one coordinator at a time, the case of the simulation engine and of the command
line: `Spec => []MoneyInv`, then `StepsTellTransit`, `MoneyAccounted`, and that
`Settlement` implements `Remittance` (`ImplementsRemittance`): initial states map to
initial states, and every step to a send, a delivery or a stutter. "One coordinator" is
a hypothesis of these theorems (`OneCoordinator`), not of the model; with two, the
withdrawals of one overwrite those of the other at the clearing house, and a result
says nothing of it.

`MoneyInv` adds to `IInv`: a number is unknown to `transit` until its first posting
is durable and known from then on (`FreshOK`); a transfer that has come to posting
k went through the banks those postings need (`RouteOK`); a balance that is computed
and not yet written is still what the account holds plus or minus the amount
(`NewBalOK`), which is where one coordinator is needed; and what is on its way is
what results and the transfer at work say (`StepsOK`). One lemma per action; the
refinement's only steps that are no stutters are `Post` of a customer's posting 1 (a
send) and of posting 4 (a delivery). `MoneyAccounted` is the sum over all customers and
all transfers on their way: a posting changes one summand of each (`SumChange`).

`ReportInv` is what the verification may rely on: an entry's mark is that of its leg
(`MarksOK`), one reference belongs to one transfer as long as its coordinator does not
restart (`ReferencesOK`), and, as long as no withdrawal at the clearing house was
refused and no exception cut a transfer short, a nostro account holds what it opened
with, the position the summary computes from the results, and what the transfer at
work has put there (`PositionsOK`). `ReportsTellTheTruth` follows, for every classification and every
position.

### NodeSessions_proofs

`Spec => []IInv` for any threads, connections, accounts and requests, then
`NeverBelowZero`, `RowsAreChained`, `OnlyStatusBreaks` and the action property
`LedgersOnlyGrow`.

The argument is about snapshots (`SnapshotsOK`): one that is read from is an earlier
state of the disk, one that is written to extends the disk, and there is only one of
those; so a commit, which replaces the disk by the connection's view, only adds. A
balance that waits to be written was computed non-negative and is written whatever
has happened meanwhile, which is why `NeverBelowZero` holds although updates can be
lost. Rows are numbered without gaps in every view (`ViewsOK`); between the row and
its entry a thread holds the write lock, and its view is one row ahead of its chain
(`PostingsOK`). The last is stated, as `RowsAreChained` and `OnlyStatusBreaks` are,
for a connection per thread; all else is proved for shared connections as well.

### Simulation_proofs

`SimulationEngine`: `EventsOnce` for any schedule, errors and requests. `EventsInv`
says for every event and every place of the loop whether it must have had its effect,
cannot have had it, or had its day cut short.

`MonthlyBatchesRight` needs two things. `FeesInv` and `InterestInv` count, for each
bank and month, the charges against the months that are marked and the days that were
cut short, also in the middle of a batch that has come to bank k; a fee batch that is
interrupted is repeated on the next day, an interest batch is not. They also say
that a first or a last business day that was simulated has marked its month or was
cut short. That every month has exactly one of each is the calendar's part: the
lemmas from `Divided` to `LastBusinessDay` prove, from the divisions the code does,
that of a month of three days or more the first or one of the first three is a weekday,
and that the scan of `_is_last_business_day` finds one day. For months of one or two
days it would not hold, so the constant excludes them.

`SimulationControl`: `ControlInv` has three parts. What streams missed is proved of
all interleavings (`StreamsOK`); the callback of `start` goes over all queues, so
its effect is that of the one queue it puts into, for each. `ReachInv` and `OrderlyInv`
hold while requests come one at a time: then at most one handler is anywhere but idle,
and what the handler knows at each of its cuts, that no thread is alive, that the
engine it joins was told to stop, that it hooked its callback once, is nobody else's to
change but the threads'. `NoneOutOfReach` and `GlobalsTellTheTruth` say that they hold
under just these conditions (`raced`, `Orderly`), so the theorems have no others.

### Payroll_proofs, Assistant_proofs

`Payroll`: `StubsAndEntriesPair` for any file, callers and interruptions. The
connection's tables are ahead by the run's last stub between the INSERT and the
chain entry, and only there (`OneAhead`).

`TableFollowsFile` needs what a run knows of the table while it reads it (`ThroughWith`):
the rows still to come are rows of the table and have no stub, and of a row that is
done with there is a stub exactly if it is active. That the table changes only between
runs, by whole files (`SyncedTable`), makes it last.

`PaidAsReported` counts and adds. `Explained` says of every person and period that the
stubs are those of the runs that reported and of the run in hand, and at most one more
for each run cut short. It needs that a run has one stub of anybody
(`OneEach`, from the rows that have none yet), that the stub a crash takes back is the
one not yet in the chain, which is one of the run in hand (`LastStubCounts`), and that a
reported run is added to the count as a whole (`ReportedMore`). `MoneyInv` adds up transfers
and what stubs keep back, of all stubs but the one being chained (`Counted`); a stub's gross is its
net and what it keeps back whatever the tax tables give (`KeptBackOfStub`).

`Assistant`: `RegisteredUseCurrent` for any handlers, users and replies, from the
types and the fact that managers are only added, so that what a waiting handler
holds stays valid. The types include that a waiting chat has rounds left.

`ResultsFollowCalls` counts the calls in all histories that no results follow
(`Unanswered`) and the chats that execute() ended. No step but `CallTools` writes calls
into a history, and it writes the results behind them, or ends the chat and leaves
exactly one more; the lemmas show that nothing else in the histories of all managers
changes its standing, however many chats of a session are appending to the same one.

`AuditTellsActs` compares the rows with what was carried out call by call. A reply's
calls are made in turn up to the first that raises, so of those a reply adds only one
can lack its row (`OneRaises`), and its chat ends. What is carried out passed the
permission of the manager's role (`DoneIsOffered`). Whose role that is follows from a
third invariant, `AskedInv`: every manager was made for a request, and a chat that waits
for a model has the manager of the user who sent it (`MadeForAsker`, `CheckedAsked`).
A demo user has one role in all of `Auths` (`DemoRole`), so his manager has the
role of the request; any other's has the role of this or an earlier request of the same
user.

### Cobol_proofs

Two components, `CobolBridge` and `DeadCode`.

Of `CobolBridge` three invariants are proved, for all accounts, calls, callers, batch
files and bounds, each with the help of the one before.

* `FundsInv`, hence `BridgeTypes` and `NobodyOverdrawn`. That nobody is overdrawn is not
  inductive: a program saves the table it made when it loaded the file, and the bridge
  writes a balance a program has displayed. What makes both safe is that a posting that
  was accepted is one that the accounts seen then can pay (`Decided`), and that
  what a program saves is never negative once what it loaded is not (for a batch, along
  the fold over its lines; lines that are fees are set aside by `NeverOverdrawn`).
* `NumbersInv`, hence `NumbersIdentify`. While calls come one at a time an accepted
  record has the number of its place in TRANSACT.DAT, a refused one has none, and what a
  program is to append it has not appended by halves; so the count it made when it began
  is right when it writes. With overlapping calls numbers come twice, and what is left is
  that the chain has the numbers of the table and those about to be inserted.
* `AgreeInv`, hence `DatabaseAgrees`. It follows the one caller at work: all its program
  has to do (`Undone`) and the table that leaves behind (`Result`); how much of the output
  of a monthly program has been said (`SaidSoFar`); and that the chain explains the
  balances the caller began with (`Explains`), up to the entry that is due. That
  the entries read off INTEREST's and FEES' output account for the new balances needs that
  each account has one line or none there (`MonthlyPays`), so that at most one of the
  new terms of an account's sum is not zero (`SumExtended`).

`DeadCode`:

`DeadCodeSpec => []ClassificationHolds`, for every text and any number of active
PERFORMs: a set that a search has finished is closed under the edges it follows,
each transfer of the machine that the graph has an edge for goes along it, and an
altered GO TO goes along the edge of the ALTER, from a paragraph entered before.
`DeadCodeSpec` is the analysis and the run of one text.

`Workbench`, which composes it with the edits, for any texts, any requests and any
number of them:

* `WorkbenchSpec => NoEditBreaksAReference`. The names of the paragraphs and the names
  their lines mention are followed through the parser (`ParsedParagraphs`), each
  operation and the generator (`GeneratedText`, which needs what is in the
  concatenation of a sequence of sequences, `FlattenElements`). Every operation but a
  rename keeps all names and mentions only what was mentioned or is brought
  (`Keeps`); `rename_paragraph` maps every name to its new one and every mention to
  what `str.replace` makes of it (`RenamesAll`). That this is the new name for the
  old one, and nothing new for a name the old one is no piece of (`Renamed`), is
  where the property's exception comes from: a name that only contains the old one
  changes in the lines and not at its paragraph. The invariant is the type of the
  text, which each edit keeps (`EditType`).
* `WorkbenchSpec => []ClassificationHolds`: edits come before the analysis and leave a
  text, which is all the proof above asks of one.

The proofs assume only the named ASSUMEs of the modules, which TLC evaluates in
every run: the network's shape (each bank has its own nostro account at the
clearing house, which is not a bank), that bounds are numbers, what kinds of
requests there are, that there are finitely many accounts (a sum over them
is meant) and that none is seeded with a negative balance, that a text is paragraphs
of lines and an edit request is one of the eight with names or lines to bring, that a batch file's
lines are of the five kinds with unsigned amounts, that a month has three days, that the
employees' file is a sequence of records whose numbers parse or do not; and the
hypotheses named above.

### Only model-checked

Liveness (`EveryOrderAnswered`, `EveryRequestEnds`, `StopEnds`, `StoppedEnginesEnd`,
`RequestsAnswered`, `EveryChatAnswered`): the prover has no ENABLED.
`LaterEditsChangeOnlyTheirSubject` compares what `SelectSeq` leaves of two texts, and
nothing can be cited about that but through theorems that take the test as an operator
parameter.
The types of `Settlement`, `NodeSessions` and `SimulationControl` are parts of proved
invariants, that of `CobolBridge` is proved; the TypeOK of `SimulationEngine` says what
its variables hold; no run repeats them.

## 6. Limits

* A crash of the operating system is a crash of the process: SQLite and the file
  system keep what was committed or closed.
* Everything in `Settlement` happens on one date; references of different days
  differ by their date.
* The verification's regular expression for references takes six digits; the
  counter is modelled without that width.
* In Mode A the container program of a killed `docker` client may go on; `Kill` ends
  it. The widths of the PICTURE clauses are left out; the amounts are far below them.
* `NoneOutOfReach` sets aside a join that times out before its thread has run at
  all: such a thread, five seconds late, picks up the engine of the next start.
* A thread's `is_alive` and the use of the global after it are one step.
* A client's generator takes up to fifty events at once and sends keepalives between
  them; `SimulationControl` has it take one at a time and leaves the keepalives out.
* In `Payroll` `round` on floats is the exact rounding to a cent; the amounts used
  have no ties.
* In `Codegen` a data name's OCCURS and REDEFINES are part of how its VALUE is written
  (`words`) or left out; a quoted VALUE of blanks alone is not distinguished from one
  word, which it stops being when printed without quotes; the parts of a name differ; and
  a rename whose old name is a COBOL verb is left out.
* The machine of `DeadCode` evaluates no conditions and bounds active PERFORMs;
  statements that span lines are the one line `call_graph.py` matches.

### Not modelled

* The command line (each command makes its bridges and coordinators anew, which is
  `Restart` and `Crash`; the rest is printing), the web console, scripts.
* The COBOL payroll and merchant programs: teaching material with planted
  anti-patterns, which no Python code runs. Two of them are the pattern of sources
  in `MCWorkbench`.
* SETTLE, SIMULATE, ACCOUNTS CREATE and CLOSE: Python does what they do itself and
  does not call them. RECONCILE, VALIDATE and the reports only read.
* `data_flow.py`, `complexity.py`, `cross_file.py`, `trace_execution` and the
  knowledge base: they count words of a text or walk over the same edges once more.
* The banking, health, mainframe and analysis routes: they call one function of
  the modules above and keep no state.
* The copybook template and the layout of generated text.

### Differences between text and code that have no run

Settlement and verification. An edited file balance is reported only until the next
batch, which copies the file into the database (`bridge.py:1194`, `1233`;
`cross_verify.py:23-24` promises detection). Two coordinators of a day use the same
references, so a transfer that lacks a leg can be called MATCHED
(`settlement.py:111-116`; `cross_verify.py:26`). A status change reads the latest
hash outside of a transaction (`bridge.py:825`, `integrity.py:132`), so a chain
nobody tampered with can fail verification, which says "tampering"
(`cross_verify.py:147-148`). A transfer's target may be frozen or closed
(`bridge.py:998-1016` does not look at its status); an exception in a settlement is
FAILED with steps kept where the docstring promises PARTIAL_FAILURE
(`settlement.py:269-271`); "the clearing house always nets to zero"
(`settlement.py:203-204`) does not hold after a refused withdrawal there; the
summary's balance check adds and subtracts the same amount and cannot fail; the end
of a chain can be cut off unnoticed.

Node. `run_reconciliation` (`bridge.py:1412`) subtracts the transactions from a file
that Mode B transactions never write, so a deposit larger than the seed balance is a
MISMATCH nobody caused. After a lock timeout (`bridge.py:130`, "Wait up to 5s for
locks instead of failing") the connection stays in its transaction, and once
somebody else has committed its writes fail at once. An interest or a fee asked for as
a transaction, as the API's pattern admits (`api/models.py:52`), gets a row and a chain
entry and changes no balance (`bridge.py:992`), while `run_reconciliation` counts it
(`bridge.py:1409-1410`). A COBOL transfer answered 00
gets neither a row nor a chain entry, because its line has fewer fields than the
bridge asks for; COBOL deposits and transfers know no daily limit, where
`bridge.py:939-940` says the codes match exactly. A killed call whose fallback
posted to the database is undone there by the next balance the COBOL program reports.

Simulation. Two starts that race both start an engine, though `start` answers 409
while one runs (`routes_simulation.py:64`, `84`), and an engine that outlives the
five seconds of a reset runs beside the next one (`138`, `172-182`) and feeds the
same streams. A client whose queue was full gets keepalives for ever. The end-of-day
log counts all failures where its comment says external ones.

Payroll. A run's transfers name the source bank "PAYROLL", which the settlement
coordinator does not know, and `routes_payroll.py` makes no use of its coordinator
and has no parameter `settle`, although its docstrings and `docs/ARCHITECTURE.md:328`
let payroll settle. A second run of a day duplicates its stubs (the docstring of
`python/tests/test_payroll_bridge.py:227` says it does not, the test's comment that
either will do). Days of
the year give 27 periods, and an entry's id uses three characters of the employee's.

Assistant. "A VIEWER cannot process transactions regardless of whether they use the CLI,
hit the API, or chat with the LLM" (`auth.py:7-8`). But a conversation's role is that of the user's first chat
since the last provider switch (`routes_chat.py:97-111`): a user without a demo account
who asks as operator and then as viewer has the viewer's chat carry out transfers. It
happens in the run `Assistant`, and `AuditTellsActs` excludes it by name
(`InEarlierRole`); without that disjunct TLC finds the property violated.

Workbench. The analyzer reports paragraphs of MERCHANT.cob dead that GO TO ..
DEPENDING ON reaches (`MERCHANT.cob:215`, `296`; `docs/LEARNING_PATH.md:293` has it
"find paragraphs that never execute"); `unseen` in `ClassificationHolds` names the
two kinds of transfer it has no edge for. The first edit loses periods, comments and
the items of 88 levels; the COPY of working storage replaces the last file's
copybook, whose fields vanish; `add_copybook_ref` answers that it was added and the
text stays as it was; `remove_field` finds nothing in a parsed text, whose tree is
flat; renaming P-030 renames part of P-030-EXIT where it is referenced, also when
the answer is an error. `editor.py`'s module text, that edits on the tree guarantee
valid COBOL, does not hold of a condition added with a value in quotes: the next edit
prints it without them (`parser.py:256-273`, `generator.py:193-215`), and of a value of
several words the edit after that prints nothing. Each edit adds two rules to the
header (`generator.py:225-232`); a period or a comment an edit brought is gone with the
next one (`parser.py:196`, `299`). `Worn` in `Workbench` is the list of these.
