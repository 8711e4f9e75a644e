----------------------------- MODULE Settlement -----------------------------
(***************************************************************************)
(* Transfers between banks (python/settlement.py): a SettlementCoordinator *)
(* makes four postings at three nodes, one after the other, and never takes*)
(* one back.  Coordinators come and go: every command of the CLI has a new *)
(* one, the server one that lives on, and each counts its references from  *)
(* one.  A posting is process_transaction of BankNode, cut where it becomes*)
(* durable: the row with its chain entry, then the balance.                *)
(*                                                                         *)
(* cross_verify.py is here as operators over the chains: they only read.   *)
(* Everything happens on one date, so a reference is its number.           *)
(***************************************************************************)
EXTENDS Integers, Sequences, FiniteSets, FiniteSetsExt, SequencesExt

CONSTANTS
    Banks,          \* the nodes with a nostro account
    Clearing,       \* the clearing house's node
    Accounts,       \* all the accounts of all the nodes
    NodeOf,         \* [Accounts -> Banks \cup {Clearing}]
    Nostro,         \* [Banks -> Accounts]: NOSTRO_MAP
    Opening,        \* [Accounts -> Nat]: the balances of SEED_ACCOUNTS
    NodeRank,       \* [Banks \cup {Clearing} -> Nat]: the order of NODES
    Coordinators,   \* the coordinators that work at the same time
    Batches,        \* the sequences of orders that are asked for
    Freezable,      \* the accounts whose status is changed meanwhile
    MaxTransfers,   \* bound: orders accepted
    MaxErrors,      \* bound: exceptions raised by a posting
    MaxRestarts,    \* bound: coordinators replaced by new ones
    MaxToggles      \* bound: status changes

Nodes == Banks \cup {Clearing}
Customers == {a \in Accounts : NodeOf[a] \in Banks}

(* An order names nodes and accounts, and they need not exist.             *)
Orders == UNION {Range(b) : b \in Batches}

ASSUME NetworkAssumption ==
    /\ IsFiniteSet(Accounts)
    /\ Clearing \notin Banks
    /\ NodeOf \in [Accounts -> Nodes]
    /\ Nostro \in [Banks -> Accounts]
    /\ \A b \in Banks : NodeOf[Nostro[b]] = Clearing
    /\ \A b, c \in Banks : Nostro[b] = Nostro[c] => b = c
    /\ Opening \in [Accounts -> Nat]
    /\ NodeRank \in [Nodes -> Nat]
ASSUME OrdersAssumption ==
    /\ \A b \in Batches : b \in Seq(Range(b))
    /\ \A o \in Orders : DOMAIN o = {"from", "src", "to", "dst", "amt"} /\ o.amt \in Nat
ASSUME BoundsAssumption ==
    /\ Freezable \subseteq Accounts
    /\ {MaxTransfers, MaxErrors, MaxRestarts, MaxToggles} \subseteq Nat

DailyLimit == 5000000

VARIABLES
    bal,        \* the balance of every account, as it is durable
    frozen,     \* the accounts with status F
    log,        \* the chain entries of all nodes that name a reference
    co,         \* the coordinators, with the locals of execute_transfer
    results,    \* the SettlementResults that were returned
    issued,     \* how many orders were accepted
    faults,     \* [errors, restarts, toggles]: how many there were
    transit     \* history: customers' money that was debited and not credited

vars == <<bal, frozen, log, co, results, issued, faults, transit>>

-----------------------------------------------------------------------------
(* The four postings of an order                                           *)

Legs == 1 .. 4
LegNode(o, k) == CASE k = 1 -> o.from [] k = 4 -> o.to [] OTHER -> Clearing
LegTypeTaken(k) == IF k = 2 THEN "D" ELSE "W"    \* mutant: the payee is debited
LegType(k) == IF k \in {1, 3} THEN "W" ELSE "D"
Mark(k) == CASE k = 1 -> "XFER-TO" [] k = 4 -> "XFER-FROM" [] OTHER -> "SETTLE"

(* self.nodes[...] and NOSTRO_MAP[...] raise KeyError for a bank they do   *)
(* not know.                                                               *)
Addressed(o, k) ==
    CASE k = 1 -> o.from \in Nodes
      [] k = 2 -> o.from \in Banks
      [] k = 3 -> o.to \in Banks
      [] k = 4 -> o.to \in Nodes

LegAccount(o, k) ==
    CASE k = 1 -> o.src
      [] k = 2 -> Nostro[o.from]
      [] k = 3 -> Nostro[o.to]
      [] k = 4 -> o.dst

AnswerUnfunded(o, k) ==    \* mutant: funds are not checked
    LET a == LegAccount(o, k)
    IN  IF ~ (a \in Accounts /\ NodeOf[a] = LegNode(o, k)) THEN "03"
        ELSE IF a \in frozen THEN "04"
        ELSE IF o.amt > DailyLimit THEN "02"
        ELSE "00"

(* process_transaction's answer to posting k.                              *)
Answer(o, k) ==
    LET a == LegAccount(o, k)
    IN  IF ~ (a \in Accounts /\ NodeOf[a] = LegNode(o, k)) THEN "03"
        ELSE IF a \in frozen THEN "04"
        ELSE IF LegType(k) = "W" /\ bal[a] < o.amt THEN "01"
        ELSE IF o.amt > DailyLimit THEN "02"
        ELSE "00"

StepsPosted(k) == k                                                      \* mutant
StepsTried(k) == CASE k = 1 -> 0 [] k = 2 -> 1 [] k = 3 -> 2 [] k = 4 -> 3  \* mutant
StepsUntaken(k) == CASE k \in {1, 2} -> 0 [] OTHER -> 2                   \* mutant

(* steps_completed after posting k is made, and when it is refused.        *)
StepsAfter(k) == CASE k \in {1, 2} -> 1 [] k = 3 -> 2 [] k = 4 -> 3
StepsRefused(k) == CASE k = 1 -> 0 [] k = 2 -> 1 [] OTHER -> 2

(* pc:   "idle" between transfers, "leg" before posting leg, "post" when   *)
(*       its entry is durable and its balance, newbal, is not              *)
(* queue: the orders of the batch that are to do, with their numbers       *)
NoOrder == [id |-> 0, order |-> <<>>]
Locals(pc, counter, queue, cur, leg, newbal, steps) ==
    [pc |-> pc, counter |-> counter, queue |-> queue, cur |-> cur,
     leg |-> leg, newbal |-> newbal, steps |-> steps]
Fresh(counter, queue) == Locals("idle", counter, queue, NoOrder, 1, 0, 0)

Init ==
    /\ bal = Opening
    /\ frozen = {}
    /\ log = <<>>
    /\ co = [c \in Coordinators |-> Fresh(0, <<>>)]
    /\ results = <<>>
    /\ issued = 0
    /\ faults = [errors |-> 0, restarts |-> 0, toggles |-> 0]
    /\ transit = {}

Order(c) == co[c].cur.order

(* The transfer of coordinator c goes on.                                  *)
Proceed(c, pc, leg, newbal, steps) ==
    co' = [co EXCEPT ![c] = Locals(pc, co[c].counter, co[c].queue, co[c].cur, leg, newbal, steps)]

Return(c, status, steps) ==
    /\ results' = Append(results, [id |-> co[c].cur.id, order |-> Order(c), ref |-> co[c].counter,
                                   status |-> status, steps |-> steps])
    /\ co' = [co EXCEPT ![c] = Fresh(co[c].counter, co[c].queue)]

-----------------------------------------------------------------------------
(* execute_batch_settlement is called; a single transfer is a batch of one.*)
Submit(c, batch) ==
    /\ co[c].pc = "idle" /\ co[c].queue = <<>>
    /\ issued + Len(batch) <= MaxTransfers
    /\ co' = [co EXCEPT ![c] = Fresh(co[c].counter,
                 [i \in DOMAIN batch |-> [id |-> issued + i, order |-> batch[i]]])]
    /\ issued' = issued + Len(batch)
    /\ UNCHANGED <<bal, frozen, log, results, faults, transit>>

BeginSameRef(c) ==    \* mutant: the counter is not advanced
    /\ co[c].pc = "idle" /\ co[c].queue # <<>>
    /\ co' = [co EXCEPT ![c] = Locals("leg", 1, Tail(co[c].queue), Head(co[c].queue), 1, 0, 0)]
    /\ UNCHANGED <<bal, frozen, log, results, issued, faults, transit>>

(* execute_transfer takes the next reference.                              *)
Begin(c) ==
    /\ co[c].pc = "idle" /\ co[c].queue # <<>>
    /\ co' = [co EXCEPT ![c] = Locals("leg", co[c].counter + 1, Tail(co[c].queue),
                                      Head(co[c].queue), 1, 0, 0)]
    /\ UNCHANGED <<bal, frozen, log, results, issued, faults, transit>>

(* KeyError, caught by the except at the end.                              *)
Unaddressed(c) ==
    /\ co[c].pc = "leg"
    /\ ~ Addressed(Order(c), co[c].leg)
    /\ Return(c, "FAILED", co[c].steps)
    /\ UNCHANGED <<bal, frozen, log, issued, faults, transit>>

RefuseGoesOn(c) ==    \* mutant: a refusal at the clearing house is ignored
    /\ co[c].pc = "leg"
    /\ Addressed(Order(c), co[c].leg)
    /\ Answer(Order(c), co[c].leg) # "00"
    /\ IF co[c].leg \in {2, 3}
       THEN Proceed(c, "leg", co[c].leg + 1, 0, co[c].steps) /\ UNCHANGED results
       ELSE Return(c, "FAILED", StepsRefused(co[c].leg))
    /\ UNCHANGED <<bal, frozen, log, issued, faults, transit>>

RefuseStops(c) ==    \* mutant: a refusal ends the batch
    /\ co[c].pc = "leg"
    /\ Addressed(Order(c), co[c].leg)
    /\ Answer(Order(c), co[c].leg) # "00"
    /\ results' = Append(results, [id |-> co[c].cur.id, order |-> Order(c), ref |-> co[c].counter,
                                   status |-> "FAILED", steps |-> StepsRefused(co[c].leg)])
    /\ co' = [co EXCEPT ![c] = Fresh(co[c].counter, <<>>)]
    /\ UNCHANGED <<bal, frozen, log, issued, faults, transit>>

Refuse(c) ==
    /\ co[c].pc = "leg"
    /\ Addressed(Order(c), co[c].leg)
    /\ Answer(Order(c), co[c].leg) # "00"
    /\ Return(c, IF co[c].leg = 1 THEN "FAILED" ELSE "PARTIAL_FAILURE", StepsRefused(co[c].leg))
    /\ UNCHANGED <<bal, frozen, log, issued, faults, transit>>

(* The posting is accepted, its row and its chain entry are committed.     *)
Record(c) ==
    LET o == Order(c)
        k == co[c].leg
        a == LegAccount(o, k)
    IN  /\ co[c].pc = "leg"
        /\ Addressed(o, k)
        /\ Answer(o, k) = "00"
        /\ log' = Append(log, [id |-> co[c].cur.id, leg |-> k, ref |-> co[c].counter, mark |-> Mark(k),
                               node |-> LegNode(o, k), acct |-> a, amt |-> o.amt])
        /\ Proceed(c, "post", k, IF LegType(k) = "D" THEN bal[a] + o.amt ELSE bal[a] - o.amt, co[c].steps)
        /\ UNCHANGED <<bal, frozen, results, issued, faults, transit>>

(* What a customer's debit puts on its way, and a customer's credit takes. *)
InTransit(c) ==
    [id |-> co[c].cur.id, src |-> Order(c).src, dst |-> Order(c).dst, amt |-> Order(c).amt]
TransitAfter(c) ==
    CASE co[c].leg = 1 /\ Order(c).src \in Customers -> transit \cup {InTransit(c)}
      [] co[c].leg = 4                               -> transit \ {InTransit(c)}
      [] OTHER                                       -> transit

(* Its balance is committed, and the next posting follows.                 *)
Post(c) ==
    LET k == co[c].leg
    IN  /\ co[c].pc = "post"
        /\ bal' = [bal EXCEPT ![LegAccount(Order(c), k)] = co[c].newbal]
        /\ transit' = TransitAfter(c)
        /\ IF k = 4
           THEN Return(c, "COMPLETED", StepsAfter(k))
           ELSE Proceed(c, "leg", k + 1, 0, StepsAfter(k)) /\ UNCHANGED results
        /\ UNCHANGED <<frozen, log, issued, faults>>

(* A statement of a posting raises, for one "database is locked": before   *)
(* anything of it is durable, or when its balance is to be written.        *)
Raise(c) ==
    /\ co[c].pc \in {"leg", "post"}
    /\ faults.errors < MaxErrors
    /\ faults' = [faults EXCEPT !.errors = @ + 1]
    /\ Return(c, "FAILED", co[c].steps)
    /\ UNCHANGED <<bal, frozen, log, issued, transit>>

(* The process of a coordinator ends, between two transfers or by a crash, *)
(* and a new one counts from zero.  No result is returned for the rest.    *)
Restart(c) ==
    /\ faults.restarts < MaxRestarts
    /\ co[c].counter > 0
    /\ faults' = [faults EXCEPT !.restarts = @ + 1]
    /\ co' = [co EXCEPT ![c] = Fresh(0, <<>>)]
    /\ UNCHANGED <<bal, frozen, log, results, issued, transit>>

(* update_account_status, by somebody else.                                *)
ToggleFrozen(a) ==
    /\ faults.toggles < MaxToggles
    /\ faults' = [faults EXCEPT !.toggles = @ + 1]
    /\ frozen' = IF a \in frozen THEN frozen \ {a} ELSE frozen \cup {a}
    /\ UNCHANGED <<bal, log, co, results, issued, transit>>

Work(c) == Begin(c) \/ Unaddressed(c) \/ Refuse(c) \/ Record(c) \/ Post(c)

Next ==
    \/ \E c \in Coordinators :
          \/ \E b \in Batches : Submit(c, b)
          \/ Begin(c) \/ Unaddressed(c) \/ Refuse(c) \/ Record(c) \/ Post(c)
          \/ Raise(c)
          \/ Restart(c)
    \/ \E a \in Freezable : ToggleFrozen(a)

Spec == Init /\ [][Next]_vars

(* A call runs to its end: nothing in it waits for anybody.                *)
FairSpec == Spec /\ \A c \in Coordinators : WF_vars(Work(c))

-----------------------------------------------------------------------------
(* Cross-node verification and the batch's summary                         *)

Marked(ref, mark) == {i \in DOMAIN log : log[i].ref = ref /\ log[i].mark = mark}

(* The entry a walk over the nodes' chains sees last.                      *)
LastSeen(S) ==
    CHOOSE i \in S : \A j \in S \ {i} :
        \/ NodeRank[log[j].node] < NodeRank[log[i].node]
        \/ NodeRank[log[j].node] = NodeRank[log[i].node] /\ j < i

(* _cross_reference_settlement_indexed and _classify_settlement.  A        *)
(* reference comes from an entry, so it is never an ORPHAN.                *)
Classify(ref) ==
    LET source == Marked(ref, "XFER-TO")
        dest == Marked(ref, "XFER-FROM")
        clearing == Marked(ref, "SETTLE")
        amounts == {log[LastSeen(source)].amt, log[LastSeen(dest)].amt}
                      \cup {log[i].amt : i \in clearing}
    IN  IF source = {} \/ dest = {} \/ Cardinality(clearing) # 2 THEN "PARTIAL"
        ELSE IF Cardinality(amounts) = 1 THEN "MATCHED"
        ELSE "MISMATCH"

(* nostro_positions of get_settlement_summary.                             *)
Counted(res, b) ==
    LET o == res.order
        counts == res.status \in {"COMPLETED", "PARTIAL_FAILURE"} /\ res.steps >= 2
    IN  IF ~counts THEN 0
        ELSE (IF o.from = b THEN o.amt ELSE 0) - (IF o.to = b THEN o.amt ELSE 0)
NostroPosition(b) == SumFunction([i \in DOMAIN results |-> Counted(results[i], b)])

-----------------------------------------------------------------------------
(* Properties                                                              *)

Quiet == \A c \in Coordinators : co[c].pc = "idle"

LogEntry == [id : Nat, leg : Legs, ref : Nat, mark : {"XFER-TO", "XFER-FROM", "SETTLE"},
             node : Nodes, acct : Accounts, amt : Nat]
Item == [id : Nat, order : Orders]
Coordinator ==
    [pc : {"idle", "leg", "post"}, counter : Nat, queue : Seq(Item), cur : Item \cup {NoOrder},
     leg : Legs, newbal : Int, steps : 0 .. 3]
Result == [id : Nat, order : Orders, ref : Nat, steps : 0 .. 3,
           status : {"COMPLETED", "PARTIAL_FAILURE", "FAILED"}]
Remittance == [id : Nat, src : Customers, dst : {o.dst : o \in Orders}, amt : Nat]

(* Every variable keeps its type.                                          *)
TypeOK ==
    /\ bal \in [Accounts -> Int]
    /\ frozen \subseteq Accounts
    /\ log \in Seq(LogEntry)
    /\ co \in [Coordinators -> Coordinator]
    /\ results \in Seq(Result)
    /\ issued \in Nat
    /\ faults \in [errors : Nat, restarts : Nat, toggles : Nat]
    /\ transit \subseteq Remittance

Recorded(id) == {k \in Legs : \E i \in DOMAIN log : log[i].id = id /\ log[i].leg = k}

(* The chains tell each transfer's story in order and once: a posting is in*)
(* a chain only if the posting before it was, so no bank has a credit whose*)
(* debit no chain has, whatever coordinators interleave, fail and restart. *)
NoCreditWithoutDebit ==
    \A i \in DOMAIN log :
        /\ log[i].leg > 1 => \E j \in 1 .. i - 1 :
               log[j].id = log[i].id /\ log[j].leg = log[i].leg - 1 /\ log[j].amt = log[i].amt
        /\ \A j \in 1 .. i - 1 : log[j].id = log[i].id => log[j].leg < log[i].leg

(* What a result says was done is in the chains: steps_completed never     *)
(* overstates, and COMPLETED means all four entries.                       *)
ResultOK(r) ==
    /\ r.status = "COMPLETED" => Recorded(r.id) = Legs
    /\ r.steps >= 1 => 1 \in Recorded(r.id)
    /\ r.steps >= 3 => 4 \in Recorded(r.id)
ResultsAreRecorded == \A i \in DOMAIN results : ResultOK(results[i])

(* The invariant that proves them.  A number is with one coordinator at    *)
(* most, at work or in its queue, and one that waits has no entry; the     *)
(* transfer at work has the entries of the postings before its own.        *)
Active(s) == s.pc # "idle"
Pending(s) == {s.queue[i].id : i \in DOMAIN s.queue}
Mine(s) == Pending(s) \cup {id \in {s.cur.id} : Active(s)}
Done(s) == IF s.pc = "post" THEN s.leg ELSE s.leg - 1

NumbersOK(s) ==
    /\ \A id \in Mine(s) : id <= issued
    /\ Active(s) => s.cur.id \notin Pending(s)
    /\ \A i, j \in DOMAIN s.queue : s.queue[i].id = s.queue[j].id => i = j
    /\ \A i \in DOMAIN log : log[i].id \notin Pending(s)

WorkOK(s) ==
    /\ s.cur \in Item
    /\ \A i \in DOMAIN log : log[i].id = s.cur.id => log[i].leg <= Done(s)
    /\ \A k \in 1 .. Done(s) : \E i \in DOMAIN log :
          log[i].id = s.cur.id /\ log[i].leg = k /\ log[i].amt = s.cur.order.amt
    /\ s.steps = CASE s.leg = 1 -> 0 [] s.leg = 4 -> 2 [] OTHER -> 1

IInv ==
    /\ TypeOK
    /\ \A c \in Coordinators : NumbersOK(co[c]) /\ (Active(co[c]) => WorkOK(co[c]))
    /\ \A c, d \in Coordinators : c # d => Mine(co[c]) \cap Mine(co[d]) = {}
    /\ \A i \in DOMAIN log : log[i].id <= issued
    /\ NoCreditWithoutDebit
    /\ ResultsAreRecorded

(* With one coordinator at a time, what customers lack is exactly what is  *)
(* on its way, through refusals, exceptions and restarts at every point.   *)
OnItsWay(T) == MapThenSumSet(LAMBDA t : t.amt, T)
MoneyAccounted ==
    SumFunction([a \in Customers |-> bal[a]]) + OnItsWay(transit)
      = SumFunction([a \in Customers |-> Opening[a]])

(* The results that say so of a customer's transfer.                       *)
Stuck == {results[i].id : i \in {j \in DOMAIN results :
              results[j].steps \in {1, 2} /\ results[j].order.src \in Customers}}

(* And steps_completed is what a clerk needs to put things right: 1 or 2 in*)
(* a result, of whatever status, says the customer's money was taken and   *)
(* not delivered; 0 or 3 that nothing is on its way.                       *)
StepsTellTransit ==
    Quiet /\ faults.restarts = 0 => {t.id : t \in transit} = Stuck

(* The invariant that proves this, and the refinement below, for one       *)
(* coordinator at a time.  A number is unknown to transit until its first  *)
(* posting is durable; from then on the customer's money is on its way; a  *)
(* balance that waits to be written is still the right one; and the numbers*)
(* on their way are those of the results that say so and of the transfer   *)
(* at work.                                                                *)
OneCoordinator == \A c, d \in Coordinators : c = d

Sent(c) == Active(co[c]) /\ co[c].leg > 1 /\ Order(c).src \in Customers

FreshOK(c) ==
    /\ \A id \in Mine(co[c]) : id \in 1 .. MaxTransfers
    /\ \A id \in Pending(co[c]) : \A t \in transit : t.id # id
    /\ Active(co[c]) /\ co[c].leg = 1 => \A t \in transit : t.id # co[c].cur.id
    /\ Sent(c) => InTransit(c) \in transit

RouteOK(c) ==
    /\ Active(co[c]) /\ co[c].leg > 1 => Order(c).src \in Accounts /\ NodeOf[Order(c).src] = Order(c).from
    /\ Active(co[c]) /\ co[c].leg > 2 => Order(c).from \in Banks
    /\ Active(co[c]) /\ co[c].leg > 3 => Order(c).to \in Banks

NewBalOK(c) ==
    LET o == Order(c)
        k == co[c].leg
        a == LegAccount(o, k)
    IN  co[c].pc = "post" =>
          /\ Addressed(o, k) /\ a \in Accounts /\ NodeOf[a] = LegNode(o, k)
          /\ IF LegType(k) = "D" THEN co[c].newbal = bal[a] + o.amt
             ELSE co[c].newbal = bal[a] - o.amt /\ bal[a] >= o.amt

StepsOK ==
    /\ \A i \in DOMAIN results : results[i].id <= issued
    /\ \A i \in DOMAIN results : \A c \in Coordinators : results[i].id \notin Mine(co[c])
    /\ faults.restarts = 0 =>
          {t.id : t \in transit} = Stuck \cup {co[c].cur.id : c \in {d \in Coordinators : Sent(d)}}

MoneyInv ==
    /\ IInv /\ StepsOK
    /\ issued <= MaxTransfers
    /\ \A t \in transit : t.id <= issued
    /\ \A t, u \in transit : t.id = u.id => t = u
    /\ \A c \in Coordinators : FreshOK(c) /\ RouteOK(c) /\ NewBalOK(c)

(* What is reported between transfers is what happened, as long as         *)
(* references are unique: verification calls a settlement MATCHED exactly  *)
(* when all its four entries are in the chains; and the summary's nostro   *)
(* positions are the true changes of the nostro accounts when every failed *)
(* transfer moved nothing and no withdrawal at the clearing house was      *)
(* refused.  (When one is, steps_completed = 2 counts it as made.)         *)
MatchedIffRecorded ==
    \A i \in DOMAIN results :
        Classify(results[i].ref) = "MATCHED" <=> Recorded(results[i].id) = Legs

Orderly(r) ==
    /\ r.status = "FAILED" => r.steps = 0
    /\ r.status = "PARTIAL_FAILURE" => 2 \notin Recorded(r.id) \/ 3 \in Recorded(r.id)
SummaryMatchesNostros ==
    (\A i \in DOMAIN results : Orderly(results[i])) =>
        \A b \in Banks : bal[Nostro[b]] = Opening[Nostro[b]] + NostroPosition(b)

ReportsTellTheTruth ==
    Quiet /\ faults.restarts = 0 => MatchedIffRecorded /\ SummaryMatchesNostros

(* The invariant that proves this: as long as nobody counts anew, a        *)
(* reference is the number of one transfer's entries; and while everything *)
(* is orderly a nostro account holds what it opened with, its position and *)
(* what the transfer at work has put there.                                *)
RefersTo(ref, id) == \A j \in DOMAIN log : log[j].ref = ref <=> log[j].id = id

RefsOK(c) ==
    /\ \A i \in DOMAIN log : log[i].ref <= co[c].counter
    /\ \A i \in DOMAIN results : results[i].ref <= co[c].counter
    /\ Active(co[c]) =>
          /\ RefersTo(co[c].counter, co[c].cur.id)
          /\ \A i \in DOMAIN results : results[i].ref # co[c].counter

ReferencesOK ==
    faults.restarts = 0 =>
        /\ \A c \in Coordinators : RefsOK(c)
        /\ \A i \in DOMAIN results : RefersTo(results[i].ref, results[i].id)

AtWork(c, b) ==
    LET o == Order(c)
        put(k, now) == IF co[c].leg > k /\ now THEN o.amt ELSE 0
    IN  put(2, o.from = b) - put(3, o.to = b) - put(1, o.src = Nostro[b])

NostrosOK ==
    \A b \in Banks :
        LET change == bal[Nostro[b]] - Opening[Nostro[b]] - NostroPosition(b)
        IN  /\ (\A c \in Coordinators : ~ Active(co[c])) => change = 0
            /\ \A c \in Coordinators : Active(co[c]) => change = AtWork(c, b)

PositionsOK ==
    faults.restarts = 0 /\ (\A i \in DOMAIN results : Orderly(results[i])) => NostrosOK

MarksOK == \A i \in DOMAIN log : log[i].mark = Mark(log[i].leg)

ReportInv == MoneyInv /\ MarksOK /\ ReferencesOK /\ PositionsOK

(* Every order that was accepted gets a result, whatever happened to the   *)
(* orders before it in the batch ("Does NOT stop on individual transfer    *)
(* failure"), unless its coordinator's process ends.                       *)
Answered(id) == \E i \in DOMAIN results : results[i].id = id
EveryOrderAnswered ==
    \A id \in 1 .. MaxTransfers : issued >= id ~> Answered(id) \/ faults.restarts > 0

(* The customers' side of the network is the abstract remittance service.  *)
R == INSTANCE Remittance WITH
        money <- [a \in Customers |-> bal[a]],
        Opening <- [a \in Customers |-> Opening[a]],
        Remittances <- [id : 1 .. MaxTransfers, src : Customers,
                        dst : {o.dst : o \in Orders}, amt : {o.amt : o \in Orders}]
ImplementsRemittance == R!Spec
=============================================================================
