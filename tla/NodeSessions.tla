---------------------------- MODULE NodeSessions ----------------------------
(***************************************************************************)
(* One node's database under several threads.  The server has a bridge per *)
(* node of its own, its settlement coordinator another, the simulation and *)
(* the chat tools further ones: each holds a connection to the same SQLite *)
(* file, and request threads share them.  A handler is cut at every        *)
(* statement of bridge.py and integrity.py that reads or writes the        *)
(* database.  Transfers within the node, which post twice, and ACCOUNTS.DAT*)
(* are in BankNode.                                                        *)
(*                                                                         *)
(* SQLite with journal_mode=WAL and Python's sqlite3 are external, as the  *)
(* code uses them: a statement that writes opens a transaction and takes   *)
(* the one write lock of the file; readers see the last commit, or the     *)
(* snapshot their open transaction has; and nothing in the code ever rolls *)
(* a transaction back.                                                     *)
(***************************************************************************)
EXTENDS Integers, Sequences, FiniteSets, FiniteSetsExt, SequencesExt

CONSTANTS
    Threads,        \* the threads that call the bridge
    Conns,          \* the connections
    ConnOf,         \* [Threads -> Conns]: the bridge a thread calls
    Accounts,       \* the accounts of the node
    Opening,        \* [Accounts -> Nat]: their balances
    Requests,       \* the records [kind, acct, amt] asked for
    MaxRequests     \* bound: requests over all threads

ASSUME SessionsAssumption ==
    /\ ConnOf \in [Threads -> Conns]
    /\ Opening \in [Accounts -> Nat]
    /\ Requests \subseteq [kind : {"D", "W", "S"}, acct : Accounts, amt : Nat]
    /\ MaxRequests \in Nat

VARIABLES
    disk,       \* the database as committed
    tx,         \* what transaction each connection has open
    job,        \* what each thread is doing, with its local variables
    asked,      \* how many requests there were
    answers     \* history: for each thread how its last request ended

vars == <<disk, tx, job, asked, answers>>

(* bal and frozen are the accounts table, txs the transactions table in the*)
(* order of insertion, chain the entries: row is the number of the row an  *)
(* entry is for (0: a change of status), prev the place of the entry whose *)
(* hash it holds as prev_hash (0: GENESIS).                                *)
EmptyNode == [bal |-> Opening, frozen |-> {}, txs |-> <<>>, chain |-> <<>>]

-----------------------------------------------------------------------------
(* SQLite                                                                  *)

(* mode: "auto" no transaction; "begun" BEGIN was executed and nothing     *)
(* read; "read" it has a snapshot; "write" it holds the write lock.        *)
NoTx == [mode |-> "auto", view |-> EmptyNode]

View(c) == IF tx[c].mode \in {"read", "write"} THEN tx[c].view ELSE disk

(* A SELECT in a transaction that has not read yet takes its snapshot.     *)
AfterRead(c) == IF tx[c].mode = "begun" THEN [mode |-> "read", view |-> disk] ELSE tx[c]

LockedByOther(c) == \E d \in Conns \ {c} : tx[d].mode = "write"

MayOverwrite(c) == ~ LockedByOther(c)    \* mutant: a stale snapshot may be written to

(* A connection that has a snapshot may write only if nobody committed     *)
(* since, and it does not wait for the lock.                               *)
MayWrite(c) ==
    /\ ~ LockedByOther(c)
    /\ tx[c].mode = "read" => tx[c].view = disk

Written(c, view) == [tx EXCEPT ![c] = [mode |-> "write", view |-> view]]

Committed(c) ==
    /\ disk' = IF tx[c].mode = "write" THEN tx[c].view ELSE disk
    /\ tx' = [tx EXCEPT ![c] = NoTx]

-----------------------------------------------------------------------------
NoRequest == [kind |-> "none"]
Idle == [pc |-> "idle", req |-> NoRequest, bal |-> 0, num |-> 0, prev |-> 0]

Init ==
    /\ disk = EmptyNode
    /\ tx = [c \in Conns |-> NoTx]
    /\ job = [t \in Threads |-> Idle]
    /\ asked = 0
    /\ answers = [t \in Threads |-> "none"]

(* A thread goes on to the next statement, with its local variables.       *)
Continue(t, pc, bal, num, prev) ==
    job' = [job EXCEPT ![t] = [pc |-> pc, req |-> job[t].req, bal |-> bal, num |-> num, prev |-> prev]]

Goto(t, pc) == Continue(t, pc, job[t].bal, job[t].num, job[t].prev)

Answer(t, how) ==
    /\ job' = [job EXCEPT ![t] = Idle]
    /\ answers' = [answers EXCEPT ![t] = how]

Ask(t, r) ==
    /\ job[t].pc = "idle" /\ asked < MaxRequests
    /\ asked' = asked + 1
    /\ job' = [job EXCEPT ![t] = [pc |-> "account", req |-> r, bal |-> 0, num |-> 0, prev |-> 0]]
    /\ answers' = [answers EXCEPT ![t] = "none"]
    /\ UNCHANGED <<disk, tx>>

RefusedFrozen(view, r) == r.kind # "S" /\ r.acct \in view.frozen    \* mutant: no check of funds

(* get_account, and process_transaction's checks.                          *)
Refused(view, r) ==
    /\ r.kind # "S"
    /\ r.acct \in view.frozen \/ (r.kind = "W" /\ view.bal[r.acct] < r.amt)

ReadAccount(t) ==
    LET c == ConnOf[t]
        r == job[t].req
    IN  /\ job[t].pc = "account"
        /\ tx' = [tx EXCEPT ![c] = AfterRead(c)]
        /\ IF Refused(View(c), r) THEN Answer(t, "refused")
           ELSE /\ Continue(t, IF r.kind = "S" THEN "status" ELSE "number",
                            View(c).bal[r.acct], job[t].num, job[t].prev)
                /\ UNCHANGED answers
        /\ UNCHANGED <<disk, asked>>

(* SELECT MAX(...) FROM transactions.                                      *)
ReadNumber(t) ==
    LET c == ConnOf[t]
    IN  /\ job[t].pc = "number"
        /\ tx' = [tx EXCEPT ![c] = AfterRead(c)]
        /\ Continue(t, "insert", job[t].bal,
                    1 + Max({0} \cup {View(c).txs[i].num : i \in DOMAIN View(c).txs}), job[t].prev)
        /\ UNCHANGED <<disk, asked, answers>>

(* INSERT INTO transactions.  A number that is taken raises IntegrityError,*)
(* with the transaction, and the lock, left open.                          *)
Taken(view, num) == \E i \in DOMAIN view.txs : view.txs[i].num = num

InsertRowAutocommit(t) ==    \* mutant: the row is committed by itself
    LET c == ConnOf[t]
        r == job[t].req
        row == [num |-> job[t].num, acct |-> r.acct, amt |-> IF r.kind = "D" THEN r.amt ELSE -r.amt]
    IN  /\ job[t].pc = "insert" /\ MayWrite(c)
        /\ tx' = [tx EXCEPT ![c] = NoTx]
        /\ IF Taken(View(c), row.num)
           THEN Answer(t, "collision") /\ UNCHANGED disk
           ELSE /\ disk' = [View(c) EXCEPT !.txs = Append(@, row)]
                /\ Goto(t, "link")
                /\ UNCHANGED answers
        /\ UNCHANGED asked

InsertRow(t) ==
    LET c == ConnOf[t]
        r == job[t].req
        row == [num |-> job[t].num, acct |-> r.acct, amt |-> IF r.kind = "D" THEN r.amt ELSE -r.amt]
    IN  /\ job[t].pc = "insert" /\ MayWrite(c)
        /\ IF Taken(View(c), row.num)
           THEN tx' = Written(c, View(c)) /\ Answer(t, "collision")
           ELSE /\ tx' = Written(c, [View(c) EXCEPT !.txs = Append(@, row)])
                /\ Goto(t, "link")
                /\ UNCHANGED answers
        /\ UNCHANGED <<disk, asked>>

(* chain.append: get_latest_hash ...                                       *)
ReadHash(t) ==
    LET c == ConnOf[t]
    IN  /\ job[t].pc = "link"
        /\ tx' = [tx EXCEPT ![c] = AfterRead(c)]
        /\ Continue(t, "entry", job[t].bal, job[t].num, Len(View(c).chain))
        /\ UNCHANGED <<disk, asked, answers>>

(* ... INSERT INTO chain_entries, numbered by the same statement ...       *)
InsertEntry(t) ==
    LET c == ConnOf[t]
        entry == [row |-> job[t].num, prev |-> job[t].prev]
    IN  /\ job[t].pc = "entry" /\ MayWrite(c)
        /\ tx' = Written(c, [View(c) EXCEPT !.chain = Append(@, entry)])
        /\ Goto(t, "commit")
        /\ UNCHANGED <<disk, asked, answers>>

(* ... and commit.                                                         *)
CommitEntry(t) ==
    /\ job[t].pc = "commit"
    /\ Committed(ConnOf[t])
    /\ IF job[t].req.kind = "S" THEN Answer(t, "done")
       ELSE Goto(t, "balance") /\ UNCHANGED answers
    /\ UNCHANGED asked

(* UPDATE accounts SET balance, to what was computed from the first read.  *)
NewBalance(t) ==
    LET r == job[t].req IN job[t].bal + IF r.kind = "D" THEN r.amt ELSE -r.amt

UpdateBalance(t) ==
    LET c == ConnOf[t]
    IN  /\ job[t].pc = "balance" /\ MayWrite(c)
        /\ tx' = Written(c, [View(c) EXCEPT !.bal[job[t].req.acct] = NewBalance(t)])
        /\ Goto(t, "finish")
        /\ UNCHANGED <<disk, asked, answers>>

CommitBalance(t) ==
    /\ job[t].pc = "finish"
    /\ Committed(ConnOf[t])
    /\ Answer(t, "done")
    /\ UNCHANGED asked

(* update_account_status: UPDATE and commit, then chain.append.            *)
UpdateStatus(t) ==
    LET c == ConnOf[t]
    IN  /\ job[t].pc = "status" /\ MayWrite(c)
        /\ tx' = Written(c, [View(c) EXCEPT !.frozen = @ \cup {job[t].req.acct}])
        /\ Goto(t, "commitStatus")
        /\ UNCHANGED <<disk, asked, answers>>

CommitStatus(t) ==
    /\ job[t].pc = "commitStatus"
    /\ Committed(ConnOf[t])
    /\ Goto(t, "link")
    /\ UNCHANGED <<asked, answers>>

LockedUntimed(t) ==    \* mutant: no busy_timeout ends the wait for the lock
    LET c == ConnOf[t]
    IN  /\ job[t].pc \in {"insert", "entry", "balance", "status"}
        /\ ~ MayWrite(c) /\ ~ LockedByOther(c)
        /\ Answer(t, "locked")
        /\ UNCHANGED <<disk, tx, asked>>

(* "database is locked" after busy_timeout, or at once for a snapshot that *)
(* can no longer be written to: the exception leaves the handler, and the  *)
(* BEGIN before the statement stays in effect.                             *)
Locked(t) ==
    LET c == ConnOf[t]
    IN  /\ job[t].pc \in {"insert", "entry", "balance", "status"}
        /\ ~ MayWrite(c)
        /\ tx' = IF tx[c].mode = "auto" THEN [tx EXCEPT ![c].mode = "begun"] ELSE tx
        /\ Answer(t, "locked")
        /\ UNCHANGED <<disk, asked>>

Step(t) ==
    \/ ReadAccount(t) \/ ReadNumber(t) \/ InsertRow(t) \/ ReadHash(t) \/ InsertEntry(t)
    \/ CommitEntry(t) \/ UpdateBalance(t) \/ CommitBalance(t)
    \/ UpdateStatus(t) \/ CommitStatus(t) \/ Locked(t)

Next ==
    \E t \in Threads :
        \/ \E r \in Requests : Ask(t, r)
        \/ ReadAccount(t) \/ ReadNumber(t) \/ InsertRow(t) \/ ReadHash(t) \/ InsertEntry(t)
        \/ CommitEntry(t) \/ UpdateBalance(t) \/ CommitBalance(t)
        \/ UpdateStatus(t) \/ CommitStatus(t) \/ Locked(t)

Spec == Init /\ [][Next]_vars

(* A thread that can go on does, and one that waits for the lock has it or *)
(* its five seconds are over.                                              *)
FairSpec == Spec /\ \A t \in Threads : WF_vars(Step(t))

-----------------------------------------------------------------------------
(* Properties                                                              *)

Row == [num : Nat, acct : Accounts, amt : Int]
Entry == [row : Nat, prev : Nat]
NodeDb == [bal : [Accounts -> Int], frozen : SUBSET Accounts, txs : Seq(Row), chain : Seq(Entry)]
Pcs == {"idle", "account", "number", "insert", "link", "entry", "commit", "balance", "finish",
        "status", "commitStatus"}
Job == [pc : Pcs, req : Requests \cup {NoRequest}, bal : Int, num : Nat, prev : Nat]
Transaction == [mode : {"auto", "begun", "read", "write"}, view : NodeDb]

(* Every variable keeps its type.                                          *)
TypeOK ==
    /\ disk \in NodeDb
    /\ tx \in [Conns -> Transaction]
    /\ job \in [Threads -> Job]
    /\ asked \in Nat
    /\ answers \in [Threads -> {"none", "done", "refused", "collision", "locked"}]

(* Each thread has a connection to itself.                                 *)
OwnConnections == \A t, u \in Threads : ConnOf[t] = ConnOf[u] => t = u

(* Whatever interleaving, collision or lock timeout: no balance is below   *)
(* zero, though it is written from a value read three commits before.      *)
NeverBelowZero == \A a \in Accounts : disk.bal[a] >= 0

(* With a connection per thread, what is committed of the transactions     *)
(* table is committed with its chain entry, once and in the same order.    *)
RowsAreChained ==
    LET txs == disk.txs
        chain == disk.chain
        ofRow == {k \in DOMAIN chain : chain[k].row > 0}
    IN  OwnConnections =>
          /\ {chain[k].row : k \in ofRow} = {txs[i].num : i \in DOMAIN txs}
          /\ \A k, l \in ofRow : k < l => chain[k].row < chain[l].row
          /\ \A i, j \in DOMAIN txs : i < j => txs[i].num < txs[j].num

(* Verification's linkage check, and the entries at which it breaks.       *)
Breaks(chain) == {i \in DOMAIN chain : chain[i].prev # i - 1}

(* With a connection per thread, a transaction's entry always links to the *)
(* entry before it: its hash is read under the write lock.  Only the entry *)
(* of a status change, whose hash is read without it, can break the chain. *)
OnlyStatusBreaks ==
    OwnConnections => \A i \in Breaks(disk.chain) : disk.chain[i].row = 0

(* A commit never takes back or overwrites rows and entries of another     *)
(* connection.                                                             *)
LedgersOnlyGrow ==
    [][IsPrefix(disk.txs, disk'.txs) /\ IsPrefix(disk.chain, disk'.chain)]_vars

(* The invariant that proves these four.  A snapshot that is read from is  *)
(* an earlier state of the disk, one that is written to is ahead of it and *)
(* the only one; rows are numbered without gaps; a balance that waits to   *)
(* be written is not below zero.                                           *)
Extends(new, old) == IsPrefix(old.txs, new.txs) /\ IsPrefix(old.chain, new.chain)

SnapshotsOK ==
    \A c \in Conns :
        /\ tx[c].mode = "read" => Extends(disk, tx[c].view)
        /\ tx[c].mode = "write" => Extends(tx[c].view, disk) /\ ~ LockedByOther(c)

ViewOK(view) ==
    /\ \A a \in Accounts : view.bal[a] >= 0
    /\ \A i \in DOMAIN view.txs : view.txs[i].num = i

ViewsOK == ViewOK(disk) /\ \A c \in Conns : ViewOK(tx[c].view)

JobOK(t) ==
    LET pc == job[t].pc
        r == job[t].req
    IN  /\ pc # "idle" => r \in Requests
        /\ pc \in {"number", "insert", "balance", "finish"} => r.kind # "S"
        /\ pc \in {"status", "commitStatus"} => r.kind = "S"
        /\ pc \in {"number", "insert", "link", "entry", "commit", "balance"} /\ r.kind # "S" =>
              NewBalance(t) >= 0
        /\ pc = "insert" => job[t].num \in 1 .. Len(View(ConnOf[t]).txs) + 1
        /\ pc # "idle" /\ r.kind = "S" => job[t].num = 0

(* With a connection per thread: from the row to the commit of its entry   *)
(* the thread holds the lock, and its snapshot is one row ahead of its     *)
(* chain until the entry is there.                                         *)
Posting(t) == job[t].pc \in {"link", "entry", "commit"} /\ job[t].req.kind # "S"
Ahead(c) == \E t \in Threads : ConnOf[t] = c /\ Posting(t) /\ job[t].pc # "commit"

ChainedUpTo(n, chain) ==
    /\ \A k \in DOMAIN chain : chain[k].row \in 0 .. n
    /\ \A i \in 1 .. n : \E k \in DOMAIN chain : chain[k].row = i
    /\ \A k, l \in DOMAIN chain :
          k < l /\ chain[k].row > 0 /\ chain[l].row > 0 => chain[k].row < chain[l].row
    /\ \A k \in Breaks(chain) : chain[k].row = 0

PostingsOK ==
    /\ ChainedUpTo(Len(disk.txs), disk.chain)
    /\ \A c \in Conns :
          ChainedUpTo(IF Ahead(c) THEN Len(tx[c].view.txs) - 1 ELSE Len(tx[c].view.txs),
                      tx[c].view.chain)
    /\ \A t \in Threads :
          /\ Posting(t) => tx[ConnOf[t]].mode = "write"
          /\ Posting(t) /\ job[t].pc # "commit" =>
                job[t].num = Len(tx[ConnOf[t]].view.txs) /\ job[t].num > 0
          /\ Posting(t) /\ job[t].pc = "entry" => job[t].prev = Len(tx[ConnOf[t]].view.chain)

IInv ==
    /\ TypeOK /\ SnapshotsOK /\ ViewsOK
    /\ \A t \in Threads : JobOK(t)
    /\ OwnConnections => PostingsOK

(* No set of threads ever waits for each other: every request ends.        *)
EveryRequestEnds == \A t \in Threads : job[t].pc # "idle" ~> job[t].pc = "idle"
=============================================================================
