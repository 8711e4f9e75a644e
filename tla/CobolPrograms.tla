---------------------------- MODULE CobolPrograms ----------------------------
(***************************************************************************)
(* What one run of a COBOL program of COBOL-BANKING/src computes from the  *)
(* accounts it has loaded: TRANSACT, ACCOUNTS UPDATE, INTEREST and FEES.    *)
(* Each loads the whole of ACCOUNTS.DAT into a table, works on the table,  *)
(* and writes the whole table back.                                        *)
(*                                                                         *)
(* A call k has k.op, the program and its operation, k.acct, k.amt, and    *)
(* k.to, the target account of a transfer or the status word of an update. *)
(***************************************************************************)
EXTENDS Ledger, FiniteSets, Functions, SequencesExt

CONSTANTS
    Accounts,     \* the account ids of the node
    AcctType,     \* [Accounts -> {"C", "S"}]: checking or savings
    BatchLines    \* BATCH-INPUT.DAT: a sequence of calls D, W, T, I and F

ASSUME AccountsAssumption == IsFiniteSet(Accounts)
ASSUME AcctTypeAssumption == AcctType \in [Accounts -> {"C", "S"}]
ASSUME LinesAssumption ==
    /\ BatchLines \in Seq(Range(BatchLines))
    /\ \A i \in DOMAIN BatchLines :
          BatchLines[i].op \in {"D", "W", "T", "I", "F"} /\ BatchLines[i].amt \in Nat

NoAccounts == [a \in {} |-> [bal |-> 0, status |-> "A"]]

Shifted(t, a, amt) == [t EXCEPT ![a].bal = @ + amt]

(* SUBTRACT from the entry at WS-ACCT-IDX, ADD to the entry at             *)
(* WS-FOUND-IDX.  WS-ACCT-IDX was to keep the source, but FIND-ACCOUNT     *)
(* uses it to look for the target and leaves it there.                     *)
Transferred(t, k) == Shifted(Shifted(t, k.to, -k.amt), k.to, k.amt)

TransactCodeUnfunded(t, k) ==    \* mutant: funds are not looked for
    IF k.acct \notin DOMAIN t THEN "03"
    ELSE IF t[k.acct].status = "F" THEN "04"
    ELSE IF k.op = "W" /\ k.amt > DailyLimit THEN "02"
    ELSE IF k.op = "T" /\ k.to \notin DOMAIN t THEN "03"
    ELSE "00"
TransactCode(t, k) ==
    IF k.acct \notin DOMAIN t THEN "03"
    ELSE IF t[k.acct].status = "F" THEN "04"
    ELSE IF k.op \in {"W", "T"} /\ t[k.acct].bal < k.amt THEN "01"
    ELSE IF k.op = "W" /\ k.amt > DailyLimit THEN "02"
    ELSE IF k.op = "T" /\ k.to \notin DOMAIN t THEN "03"
    ELSE "00"

Transacted(t, k) ==
    CASE k.op = "D" -> Shifted(t, k.acct, k.amt)
      [] k.op = "W" -> Shifted(t, k.acct, -k.amt)
      [] k.op = "T" -> Transferred(t, k)

(* What is left to do after loading: records for TRANSACT.DAT to append    *)
(* before and after the accounts are saved, the table to save if any, and  *)
(* the code the program will display.                                      *)
Work(before, save, after, code) ==
    [before |-> before, save |-> save, after |-> after, code |-> code]

TxRecord(a, type, amt, code) == [id |-> 0, acct |-> a, type |-> type, amt |-> amt, code |-> code]

(* A refusal is recorded, except that of a transfer to an unknown account. *)
(* Deposits and withdrawals leave TRANS-TYPE blank, and a transfer's       *)
(* record names its target, as WS-IN-ACCT-ID then does.                    *)
Transact(t, k) ==
    LET code == TransactCode(t, k)
        noTarget == k.op = "T" /\ code = "03" /\ k.acct \in DOMAIN t
    IN  IF noTarget THEN Work(<<>>, {}, <<>>, code)
        ELSE IF code # "00" THEN Work(<<TxRecord(k.acct, "-", k.amt, code)>>, {}, <<>>, code)
        ELSE LET record == IF k.op = "T" THEN TxRecord(k.to, "T", k.amt, code)
                           ELSE TxRecord(k.acct, "-", k.amt, code)
             IN  Work(<<>>, {Transacted(t, k)}, <<record>>, code)

(* A line of a batch, which may also be interest or a fee.  The funds of a *)
(* transfer are looked for at the target, those of a fee not at all, and   *)
(* there is no daily limit.                                                *)
LinePosted(t, k) ==
    CASE k.op \in {"D", "I"} -> Shifted(t, k.acct, k.amt)
      [] k.op \in {"W", "F"} -> Shifted(t, k.acct, -k.amt)
      [] k.op = "T"          -> Transferred(t, k)

BatchLine(t, k) ==
    IF \/ k.acct \notin DOMAIN t
       \/ t[k.acct].status = "F"
       \/ k.op = "W" /\ t[k.acct].bal < k.amt
       \/ k.op = "T" /\ k.to \notin DOMAIN t
       \/ k.op = "T" /\ t[k.to].bal < k.amt
    THEN t
    ELSE LinePosted(t, k)

(* The lines work on one table, which is saved at the end; nothing is      *)
(* recorded in TRANSACT.DAT.                                               *)
TransactBatch(t) == Work(<<>>, {FoldLeft(BatchLine, t, BatchLines)}, <<>>, "00")

-----------------------------------------------------------------------------
(* INTEREST and FEES record each posting before any balance is saved.      *)
BearsInterest(t, a) == AcctType[a] = "S" /\ t[a].status = "A" /\ t[a].bal > 0

OwesFee(t, a) ==
    /\ AcctType[a] = "C" /\ t[a].status = "A"
    /\ t[a].bal <= 500000
    /\ FeeOn(t[a].bal) <= t[a].bal

(* amount says what each of the accounts it is defined for gets.           *)
Paid(t, amount, sign) ==
    [a \in DOMAIN t |-> IF a \in DOMAIN amount THEN [t[a] EXCEPT !.bal = @ + sign * amount[a]] ELSE t[a]]
Monthly(t, type, amount, sign) ==
    LET order == SetToSeq(DOMAIN amount)
    IN  Work([i \in DOMAIN order |-> TxRecord(order[i], type, amount[order[i]], "00")],
             {Paid(t, amount, sign)}, <<>>, "00")

Interest(t) ==
    Monthly(t, "I", [a \in {b \in DOMAIN t : BearsInterest(t, b)} |-> InterestOn(t[a].bal)], 1)
Fees(t) ==
    Monthly(t, "F", [a \in {b \in DOMAIN t : OwesFee(t, b)} |-> FeeOn(t[a].bal)], -1)

(* ACCOUNTS UPDATE: the status is the first letter of its third word.      *)
Update(t, k) ==
    IF k.acct \in DOMAIN t THEN Work(<<>>, {[t EXCEPT ![k.acct].status = k.to]}, <<>>, "00")
    ELSE Work(<<>>, {}, <<>>, "03")

Loaded(t, k) ==
    CASE k.op \in {"D", "W", "T"} -> Transact(t, k)
      [] k.op = "BATCH"           -> TransactBatch(t)
      [] k.op = "INTEREST"        -> Interest(t)
      [] k.op = "FEES"            -> Fees(t)
      [] k.op = "UPDATE"          -> Update(t, k)
=============================================================================
