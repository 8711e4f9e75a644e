------------------------------- MODULE Ledger -------------------------------
(***************************************************************************)
(* A node's database as a value, and what posting in Python (Mode B of     *)
(* python/bridge.py) computes from it.  A database d has d.acct, the table *)
(* of accounts, d.txs, the rows of the transactions table in the order of  *)
(* insertion, and d.chain, the entries of the hash chain.  The monthly     *)
(* formulas are those of the COBOL programs as well.                       *)
(***************************************************************************)
EXTENDS Integers, Sequences, FiniteSetsExt

DailyLimit == 5000000      \* 50000.00

(* The identifier TRX-<node>-<MAX+1>: the largest sequence number of the   *)
(* transactions table, plus one.                                           *)
LastSeqFromOne(txs) == Max({1} \cup {txs[i].id : i \in DOMAIN txs})    \* mutant
LastSeq(txs) == Max({0} \cup {txs[i].id : i \in DOMAIN txs})

NewRow(d, a, type, amt) ==
    [id |-> LastSeq(d.txs) + 1, acct |-> a, type |-> type, amt |-> amt]

(* INSERT INTO transactions, then chain.append of the same fields.         *)
LoggedUnchained(d, row) ==    \* mutant: the entry is forgotten
    [acct |-> d.acct, txs |-> Append(d.txs, row), chain |-> d.chain]
Logged(d, row) ==
    [acct |-> d.acct, txs |-> Append(d.txs, row), chain |-> Append(d.chain, row)]

SetBal(d, a, b) ==
    [acct |-> [d.acct EXCEPT ![a].bal = b], txs |-> d.txs, chain |-> d.chain]

(* process_transaction's checks, in the order it makes them.               *)
DecisionOnWithdrawals(d, r) ==    \* mutant: funds are not checked for transfers
    IF d.acct[r.acct].status = "F" THEN "04"
    ELSE IF r.type = "W" /\ d.acct[r.acct].bal < r.amt THEN "01"
    ELSE IF r.amt > DailyLimit THEN "02"
    ELSE "00"
Decision(d, r) ==
    IF d.acct[r.acct].status = "F" THEN "04"
    ELSE IF r.type \in {"W", "T"} /\ d.acct[r.acct].bal < r.amt THEN "01"
    ELSE IF r.amt > DailyLimit THEN "02"
    ELSE "00"

BalanceAfterNoTransfer(d, r) ==    \* mutant: a transfer is not debited
    d.acct[r.acct].bal + CASE r.type = "D" -> r.amt [] r.type = "W" -> -r.amt [] OTHER -> 0
BalanceAfter(d, r) ==
    d.acct[r.acct].bal + CASE r.type = "D"          -> r.amt
                           [] r.type \in {"W", "T"} -> -r.amt
                           [] OTHER                 -> 0

Rounded(n, d) == (n + d \div 2) \div d

(* Interest of one month at 0.5, 1.5 or 2 percent a year.                  *)
InterestOn(b) ==
    LET bp == IF b < 1000000 THEN 50 ELSE IF b < 10000000 THEN 150 ELSE 200
    IN  Rounded(b * bp, 120000)

(* 12.00 a month, 8.00 more below 500.00.                                  *)
FeeOn(b) == IF b < 50000 THEN 2000 ELSE 1200
=============================================================================
