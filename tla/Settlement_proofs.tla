------------------------- MODULE Settlement_proofs -------------------------
(***************************************************************************)
(* What holds of settlement for any number of banks, accounts, orders,     *)
(* coordinators, failures and restarts.                                    *)
(***************************************************************************)
EXTENDS Settlement, SumTheorems, TLAPS

(* A batch is a sequence of orders.                                        *)
LEMMA BatchOrders == ASSUME NEW b \in Batches PROVE b \in Seq(Orders)
<1>1. b \in Seq(Range(b)) /\ Range(b) \subseteq Orders
  BY OrdersAssumption DEF Orders
<1> QED
  BY <1>1

(* Where a posting goes, once it is accepted.                              *)
LEMMA LegTypes ==
    ASSUME NEW o \in Orders, NEW k \in Legs, Addressed(o, k), Answer(o, k) = "00"
    PROVE  /\ LegAccount(o, k) \in Accounts
           /\ LegNode(o, k) \in Nodes
           /\ Mark(k) \in {"XFER-TO", "XFER-FROM", "SETTLE"}
<1>1. LegAccount(o, k) \in Accounts
  BY DEF Answer
<1>2. LegNode(o, k) \in Nodes
  <2>1. CASE k = 1
    BY <2>1 DEF Addressed, LegNode
  <2>2. CASE k = 4
    BY <2>2 DEF Addressed, LegNode
  <2>3. CASE k \notin {1, 4}
    BY <2>3 DEF LegNode, Nodes
  <2> QED
    BY <2>1, <2>2, <2>3
<1> QED
  BY <1>1, <1>2 DEF Mark

LEMMA InitInv == Init => IInv
<1> SUFFICES ASSUME Init PROVE IInv
  OBVIOUS
<1>1. \A c \in Coordinators : co[c] = Fresh(0, <<>>)
  BY DEF Init
<1>2. Fresh(0, <<>>) \in Coordinator
  BY DEF Fresh, Locals, Coordinator, Legs
<1>3. TypeOK
  BY <1>1, <1>2, NetworkAssumption DEF Init, TypeOK
<1>4. \A c \in Coordinators : ~ Active(co[c]) /\ Mine(co[c]) = {} /\ NumbersOK(co[c])
  BY <1>1 DEF Init, Fresh, Locals, Active, Mine, Pending, NumbersOK
<1>5. NoCreditWithoutDebit /\ ResultsAreRecorded
  BY DEF Init, NoCreditWithoutDebit, ResultsAreRecorded
<1> QED
  BY <1>3, <1>4, <1>5 DEF IInv, Init

-----------------------------------------------------------------------------
(* Steps that make no posting                                              *)

(* One coordinator goes from co[c] to s, without an entry in a chain.      *)
LEMMA SameLog ==
    ASSUME IInv, TypeOK',
           NEW c \in Coordinators, NEW s \in Coordinator,
           co' = [co EXCEPT ![c] = s], log' = log, issued <= issued',
           Mine(s) \subseteq Mine(co[c]) \cup (issued + 1) .. issued',
           Pending(s) \subseteq Pending(co[c]) \cup (issued + 1) .. issued',
           Active(s) => s.cur.id \notin Pending(s),
           \A i, j \in DOMAIN s.queue : s.queue[i].id = s.queue[j].id => i = j,
           Active(s) => WorkOK(s),
           results' = results \/ \E r \in Result : results' = Append(results, r) /\ ResultOK(r)
    PROVE  IInv'
<1>1. /\ co \in [Coordinators -> Coordinator] /\ issued \in Nat /\ issued' \in Nat
      /\ log \in Seq(LogEntry) /\ results \in Seq(Result)
  BY DEF IInv, TypeOK
<1>2. co'[c] = s /\ \A d \in Coordinators \ {c} : co'[d] = co[d]
  BY <1>1
<1>3. \A i \in DOMAIN log : log[i].id \in Nat /\ log[i].id <= issued
  <2>1. \A i \in DOMAIN log : log[i] \in LogEntry
    BY <1>1
  <2>2. \A e \in LogEntry : e.id \in Nat
    BY DEF LogEntry
  <2> QED
    BY <2>1, <2>2 DEF IInv
<1>4. \A d \in Coordinators : \A id \in Mine(co[d]) : id \in Nat /\ id <= issued
  <2> SUFFICES ASSUME NEW d \in Coordinators, NEW id \in Mine(co[d]) PROVE id \in Nat /\ id <= issued
    OBVIOUS
  <2>1. id <= issued
    BY DEF IInv, NumbersOK
  <2>2. co[d].queue \in Seq(Item)
    BY <1>1 DEF Coordinator
  <2>3. Active(co[d]) => co[d].cur \in Item
    BY DEF IInv, WorkOK
  <2>4. \A i \in DOMAIN co[d].queue : co[d].queue[i] \in Item
    BY <2>2
  <2>5. \A m \in Item : m.id \in Nat
    BY DEF Item
  <2>6. CASE id \in Pending(co[d])
    BY <2>1, <2>4, <2>5, <2>6 DEF Pending
  <2>7. CASE Active(co[d]) /\ id = co[d].cur.id
    <3>1. co[d].cur \in Item
      BY <2>3, <2>7
    <3> QED
      BY <2>5, <2>7, <3>1, <2>1
  <2>8. id \in Pending(co[d]) \/ (Active(co[d]) /\ id = co[d].cur.id)
    BY DEF Mine
  <2> QED
    BY <2>1, <2>6, <2>7, <2>8
<1>5. NumbersOK(s)'
  <2>1. \A id \in Mine(s) : id <= issued'
    BY <1>1, <1>4
  <2>2. \A i \in DOMAIN log : log[i].id \notin Pending(s)
    BY <1>1, <1>3 DEF IInv, NumbersOK
  <2> QED
    BY <2>1, <2>2 DEF NumbersOK, Mine, Pending, Active
<1>6. \A d \in Coordinators \ {c} : NumbersOK(co[d])'
  <2> SUFFICES ASSUME NEW d \in Coordinators \ {c} PROVE NumbersOK(co[d])'
    OBVIOUS
  <2>1. NumbersOK(co[d]) /\ co'[d] = co[d]
    BY <1>2 DEF IInv
  <2>2. \A id \in Mine(co[d]) : id <= issued'
    BY <1>1, <1>4
  <2> QED
    BY <2>1, <2>2 DEF NumbersOK, Mine, Pending, Active
<1>7. \A d \in Coordinators : Active(co[d])' => WorkOK(co[d])'
  <2>1. Active(s) => WorkOK(s)'
    BY DEF WorkOK, Done
  <2>2. \A d \in Coordinators \ {c} : Active(co[d]) => WorkOK(co[d])
    BY DEF IInv
  <2>3. \A d \in Coordinators \ {c} : Active(co[d])' => WorkOK(co[d])'
    BY <1>2, <2>2 DEF WorkOK, Done, Active
  <2> QED
    BY <1>2, <2>1, <2>3 DEF Active, WorkOK, Done
<1>8. \A d, e \in Coordinators : d # e => Mine(co[d])' \cap Mine(co[e])' = {}
  <2>1. \A d, e \in Coordinators : d # e => Mine(co[d]) \cap Mine(co[e]) = {}
    BY DEF IInv
  <2>2. \A d \in Coordinators \ {c} : Mine(s) \cap Mine(co[d]) = {}
    BY <1>1, <1>4, <2>1
  <2>3. Mine(co[c])' = Mine(s) /\ \A d \in Coordinators \ {c} : Mine(co[d])' = Mine(co[d])
    BY <1>2 DEF Mine, Pending, Active
  <2> QED
    BY <2>1, <2>2, <2>3
<1>9. NoCreditWithoutDebit'
  BY DEF IInv, NoCreditWithoutDebit
<1>10. ResultsAreRecorded'
  <2>1. \A r : ResultOK(r) => ResultOK(r)'
    BY DEF ResultOK, Recorded
  <2>2. \A i \in DOMAIN results : ResultOK(results[i])
    BY DEF IInv, ResultsAreRecorded
  <2>3. CASE results' = results
    BY <2>1, <2>2, <2>3 DEF ResultsAreRecorded
  <2>4. ASSUME NEW r \in Result, results' = Append(results, r), ResultOK(r)
        PROVE  ResultsAreRecorded'
    <3>1. \A i \in DOMAIN results' : results'[i] = r \/ (i \in DOMAIN results /\ results'[i] = results[i])
      BY <1>1, <2>4
    <3> QED
      BY <2>1, <2>2, <2>4, <3>1 DEF ResultsAreRecorded
  <2> QED
    BY <2>3, <2>4
<1>11. \A i \in DOMAIN log' : log'[i].id <= issued'
  BY <1>1, <1>3
<1> QED
  BY <1>2, <1>5, <1>6, <1>7, <1>8, <1>9, <1>10, <1>11 DEF IInv

-----------------------------------------------------------------------------
(* The types of a coordinator, one field at a time.                        *)
LEMMA LocalsType ==
    ASSUME NEW pc \in {"idle", "leg", "post"}, NEW counter \in Nat, NEW queue \in Seq(Item),
           NEW cur \in Item \cup {NoOrder}, NEW leg \in Legs, NEW newbal \in Int, NEW steps \in 0 .. 3
    PROVE  /\ Locals(pc, counter, queue, cur, leg, newbal, steps) \in Coordinator
           /\ Fresh(counter, queue) \in Coordinator
<1>1. Locals(pc, counter, queue, cur, leg, newbal, steps) \in Coordinator
  BY DEF Locals, Coordinator
<1>2. NoOrder \in Item \cup {NoOrder} /\ 1 \in Legs /\ 0 \in Int /\ 0 \in 0 .. 3
  BY DEF Legs
<1>3. Fresh(counter, queue) \in Coordinator
  BY <1>2 DEF Fresh, Locals, Coordinator
<1> QED
  BY <1>1, <1>3

LEMMA CoordinatorFields ==
    ASSUME TypeOK, NEW c \in Coordinators
    PROVE  /\ co[c].pc \in {"idle", "leg", "post"} /\ co[c].counter \in Nat
           /\ co[c].queue \in Seq(Item) /\ co[c].cur \in Item \cup {NoOrder}
           /\ co[c].leg \in Legs /\ co[c].newbal \in Int /\ co[c].steps \in 0 .. 3
<1>1. co[c] \in Coordinator
  BY DEF TypeOK
<1> QED
  BY <1>1 DEF Coordinator

(* A coordinator that returns, or is replaced, drops its transfer.         *)
LEMMA ReturnsFresh ==
    ASSUME NEW s \in Coordinator, NEW counter \in Nat, NEW queue \in {s.queue, <<>>},
           \A i, j \in DOMAIN s.queue : s.queue[i].id = s.queue[j].id => i = j
    PROVE  /\ Fresh(counter, queue) \in Coordinator
           /\ ~ Active(Fresh(counter, queue))
           /\ Pending(Fresh(counter, queue)) \subseteq Pending(s)
           /\ Mine(Fresh(counter, queue)) \subseteq Mine(s)
           /\ \A i, j \in DOMAIN Fresh(counter, queue).queue :
                 Fresh(counter, queue).queue[i].id = Fresh(counter, queue).queue[j].id => i = j
<1>1. queue \in Seq(Item)
  <2>1. s.queue \in Seq(Item)
    BY DEF Coordinator
  <2>2. <<>> \in Seq(Item)
    OBVIOUS
  <2> QED
    BY <2>1, <2>2
<1>2. Fresh(counter, queue) \in Coordinator
  <2>1. NoOrder \in Item \cup {NoOrder} /\ 1 \in Legs /\ 0 \in Int /\ 0 \in 0 .. 3
    BY DEF Legs
  <2> QED
    BY <1>1, <2>1 DEF Locals, Fresh, Coordinator
<1>3. /\ Fresh(counter, queue).pc = "idle" /\ Fresh(counter, queue).queue = queue
  BY DEF Fresh, Locals
<1>4. ~ Active(Fresh(counter, queue))
  BY <1>3 DEF Active
<1>5. Pending(Fresh(counter, queue)) \subseteq Pending(s)
  BY <1>3 DEF Pending
<1>6. Mine(Fresh(counter, queue)) \subseteq Mine(s)
  BY <1>4, <1>5 DEF Mine
<1> QED
  BY <1>2, <1>3, <1>4, <1>5, <1>6

(* Return ends the transfer with a result that is true of the chains.      *)
LEMMA ReturnKeeps ==
    ASSUME IInv, NEW c \in Coordinators, NEW status, NEW steps \in 0 .. 3, Active(co[c]),
           status \in {"COMPLETED", "PARTIAL_FAILURE", "FAILED"},
           Return(c, status, steps), log' = log, issued' = issued,
           bal' \in [Accounts -> Int], frozen' \subseteq Accounts,
           faults' \in [errors : Nat, restarts : Nat, toggles : Nat], transit' \subseteq Remittance,
           status = "COMPLETED" => co[c].leg = 4 /\ co[c].pc = "post",
           steps >= 1 => Done(co[c]) >= 1,
           steps >= 3 => Done(co[c]) >= 4
    PROVE  IInv'
<1>1. /\ TypeOK /\ co \in [Coordinators -> Coordinator] /\ results \in Seq(Result) /\ issued \in Nat
      /\ WorkOK(co[c]) /\ NumbersOK(co[c])
  BY DEF IInv, TypeOK
<1>2. co[c].counter \in Nat /\ co[c].cur \in Item /\ co[c].leg \in Legs
  BY <1>1, CoordinatorFields DEF WorkOK
<1> DEFINE r == [id |-> co[c].cur.id, order |-> Order(c), ref |-> co[c].counter,
                 status |-> status, steps |-> steps]
           s == Fresh(co[c].counter, co[c].queue)
<1>3. r \in Result
  BY <1>2 DEF Result, Order, Item
<1>4. results' = Append(results, r) /\ co' = [co EXCEPT ![c] = s]
  BY DEF Return
<1>5. ResultOK(r)
  <2>1. \A k \in 1 .. Done(co[c]) : k \in Legs => k \in Recorded(r.id)
    BY <1>1 DEF WorkOK, Recorded
  <2>2. Done(co[c]) \in Int
    BY <1>2 DEF Done, Legs
  <2>3. status = "COMPLETED" => Done(co[c]) = 4
    BY DEF Done
  <2>4. \A k \in Legs : k <= Done(co[c]) => k \in Recorded(r.id)
    BY <2>1, <2>2 DEF Legs
  <2>5. r.status = "COMPLETED" => Recorded(r.id) = Legs
    BY <2>3, <2>4 DEF Recorded, Legs
  <2> QED
    BY <2>2, <2>4, <2>5 DEF ResultOK, Legs
<1>6. s \in Coordinator /\ ~ Active(s) /\ Pending(s) \subseteq Pending(co[c]) /\ Mine(s) \subseteq Mine(co[c])
      /\ \A i, j \in DOMAIN s.queue : s.queue[i].id = s.queue[j].id => i = j
  BY <1>1, <1>2, ReturnsFresh DEF NumbersOK
<1> HIDE DEF r, s
<1>7. TypeOK'
  BY <1>1, <1>3, <1>4, <1>6 DEF TypeOK
<1>8. /\ issued <= issued'
      /\ Mine(s) \subseteq Mine(co[c]) \cup (issued + 1) .. issued'
      /\ Pending(s) \subseteq Pending(co[c]) \cup (issued + 1) .. issued'
  BY <1>1, <1>6
<1>9. results' = results \/ \E x \in Result : results' = Append(results, x) /\ ResultOK(x)
  BY <1>3, <1>4, <1>5
<1> QED
  BY <1>4, <1>6, <1>7, <1>8, <1>9, SameLog

LEMMA RefuseKeeps == ASSUME IInv, NEW c \in Coordinators, Refuse(c) PROVE IInv'
<1>1. TypeOK /\ Active(co[c]) /\ co[c].pc = "leg" /\ co[c].leg \in Legs
  BY CoordinatorFields DEF IInv, Refuse, Active
<1>2. /\ Return(c, IF co[c].leg = 1 THEN "FAILED" ELSE "PARTIAL_FAILURE", StepsRefused(co[c].leg))
      /\ UNCHANGED <<bal, frozen, log, issued, faults, transit>>
  BY DEF Refuse
<1>3. /\ StepsRefused(co[c].leg) \in 0 .. 3
      /\ StepsRefused(co[c].leg) >= 1 => Done(co[c]) >= 1
      /\ ~ StepsRefused(co[c].leg) >= 3
  BY <1>1 DEF StepsRefused, Done, Legs
<1>4. (IF co[c].leg = 1 THEN "FAILED" ELSE "PARTIAL_FAILURE") \in {"PARTIAL_FAILURE", "FAILED"}
  OBVIOUS
<1>5. /\ bal' \in [Accounts -> Int] /\ frozen' \subseteq Accounts
      /\ faults' \in [errors : Nat, restarts : Nat, toggles : Nat] /\ transit' \subseteq Remittance
  BY <1>1, <1>2 DEF TypeOK
<1> QED
  BY <1>1, <1>2, <1>3, <1>4, <1>5, ReturnKeeps

(* An exception, or an unknown bank, ends the transfer with the steps it   *)
(* had got to.                                                             *)
LEMMA FailKeeps ==
    ASSUME IInv, NEW c \in Coordinators, Active(co[c]), Return(c, "FAILED", co[c].steps),
           UNCHANGED <<bal, frozen, log, issued, transit>>,
           faults' \in [errors : Nat, restarts : Nat, toggles : Nat]
    PROVE  IInv'
<1>1. TypeOK /\ WorkOK(co[c])
  BY DEF IInv
<1>2. co[c].leg \in Legs /\ co[c].steps \in 0 .. 3 /\ co[c].pc \in {"leg", "post"}
  BY <1>1, CoordinatorFields DEF Active
<1>3. /\ co[c].steps >= 1 => Done(co[c]) >= 1
      /\ ~ co[c].steps >= 3
  BY <1>1, <1>2 DEF WorkOK, Done, Legs
<1>4. /\ bal' \in [Accounts -> Int] /\ frozen' \subseteq Accounts /\ transit' \subseteq Remittance
  BY <1>1 DEF TypeOK
<1> QED
  BY <1>2, <1>3, <1>4, ReturnKeeps

LEMMA UnaddressedKeeps == ASSUME IInv, NEW c \in Coordinators, Unaddressed(c) PROVE IInv'
<1>1. Active(co[c]) /\ faults' \in [errors : Nat, restarts : Nat, toggles : Nat]
  BY DEF Unaddressed, Active, IInv, TypeOK
<1> QED
  BY <1>1, FailKeeps DEF Unaddressed

LEMMA FaultsCounted ==
    ASSUME TypeOK
    PROVE  /\ [faults EXCEPT !.errors = @ + 1] \in [errors : Nat, restarts : Nat, toggles : Nat]
           /\ [faults EXCEPT !.restarts = @ + 1] \in [errors : Nat, restarts : Nat, toggles : Nat]
           /\ [faults EXCEPT !.toggles = @ + 1] \in [errors : Nat, restarts : Nat, toggles : Nat]
BY DEF TypeOK

LEMMA RaiseKeeps == ASSUME IInv, NEW c \in Coordinators, Raise(c) PROVE IInv'
<1>1. Active(co[c]) /\ faults' \in [errors : Nat, restarts : Nat, toggles : Nat]
  BY FaultsCounted DEF Raise, Active, IInv
<1> QED
  BY <1>1, FailKeeps DEF Raise

LEMMA RestartKeeps == ASSUME IInv, NEW c \in Coordinators, Restart(c) PROVE IInv'
<1> DEFINE s == Fresh(0, <<>>)
<1>1. /\ TypeOK /\ co \in [Coordinators -> Coordinator] /\ issued \in Nat /\ NumbersOK(co[c])
  BY DEF IInv, TypeOK
<1>2. s \in Coordinator /\ ~ Active(s) /\ Pending(s) \subseteq Pending(co[c]) /\ Mine(s) \subseteq Mine(co[c])
      /\ \A i, j \in DOMAIN s.queue : s.queue[i].id = s.queue[j].id => i = j
  BY <1>1, ReturnsFresh DEF NumbersOK
<1>3. co' = [co EXCEPT ![c] = s] /\ UNCHANGED <<bal, frozen, log, results, issued, transit>>
  BY DEF Restart
<1> HIDE DEF s
<1>4. TypeOK'
  BY <1>1, <1>2, <1>3, FaultsCounted DEF TypeOK, Restart
<1>5. /\ issued <= issued'
      /\ Mine(s) \subseteq Mine(co[c]) \cup (issued + 1) .. issued'
      /\ Pending(s) \subseteq Pending(co[c]) \cup (issued + 1) .. issued'
  BY <1>1, <1>2, <1>3
<1> QED
  BY <1>2, <1>3, <1>4, <1>5, SameLog

(* The invariant is about the chains, the coordinators and the results.    *)
LEMMA SameWork == ASSUME IInv, TypeOK', UNCHANGED <<log, co, results, issued>> PROVE IInv'
<1>1. \A c \in Coordinators : NumbersOK(co[c])' /\ (Active(co[c])' => WorkOK(co[c])')
  BY DEF IInv, NumbersOK, WorkOK, Active, Mine, Pending, Done
<1>2. \A c, d \in Coordinators : c # d => Mine(co[c])' \cap Mine(co[d])' = {}
  <2>1. \A c \in Coordinators : Mine(co[c])' = Mine(co[c])
    BY DEF Mine, Pending, Active
  <2> QED
    BY <2>1 DEF IInv
<1>3. NoCreditWithoutDebit' /\ ResultsAreRecorded'
  BY DEF IInv, NoCreditWithoutDebit, ResultsAreRecorded, ResultOK, Recorded
<1> QED
  BY <1>1, <1>2, <1>3 DEF IInv

LEMMA ToggleKeeps == ASSUME IInv, NEW a \in Freezable, ToggleFrozen(a) PROVE IInv'
<1>1. TypeOK /\ a \in Accounts
  BY BoundsAssumption DEF IInv
<1>2. frozen' \subseteq Accounts
  BY <1>1 DEF TypeOK, ToggleFrozen
<1>3. TypeOK'
  BY <1>1, <1>2, FaultsCounted DEF TypeOK, ToggleFrozen
<1> QED
  BY <1>3, SameWork DEF ToggleFrozen

-----------------------------------------------------------------------------
(* Orders are numbered as they come, and are begun in their order.         *)

LEMMA SubmitKeeps == ASSUME IInv, NEW c \in Coordinators, NEW b \in Batches, Submit(c, b) PROVE IInv'
<1> DEFINE q == [i \in DOMAIN b |-> [id |-> issued + i, order |-> b[i]]]
           s == Fresh(co[c].counter, q)
<1>1. TypeOK /\ co \in [Coordinators -> Coordinator] /\ issued \in Nat /\ b \in Seq(Orders)
  BY BatchOrders DEF IInv, TypeOK
<1>2. co' = [co EXCEPT ![c] = s] /\ issued' = issued + Len(b)
      /\ UNCHANGED <<bal, frozen, log, results, faults, transit>>
  BY DEF Submit
<1>3. DOMAIN b = 1 .. Len(b) /\ Len(b) \in Nat /\ \A i \in 1 .. Len(b) : b[i] \in Orders
  BY <1>1
<1>4. \A i \in 1 .. Len(b) : issued + i \in Nat /\ issued + i \in (issued + 1) .. issued'
  BY <1>1, <1>2, <1>3
<1>5. q \in Seq(Item)
  <2>1. \A i \in 1 .. Len(b) : [id |-> issued + i, order |-> b[i]] \in Item
    BY <1>3, <1>4 DEF Item
  <2>2. q \in [1 .. Len(b) -> Item]
    BY <1>3, <2>1
  <2> QED
    BY <1>3, <2>2
<1>6. DOMAIN q = 1 .. Len(b) /\ \A i \in 1 .. Len(b) : q[i].id = issued + i
  BY <1>3
<1> HIDE DEF q
<1>7. s \in Coordinator
  BY <1>1, <1>5, CoordinatorFields, LocalsType
<1>8. s.pc = "idle" /\ s.queue = q
  BY DEF Fresh, Locals
<1> HIDE DEF s
<1>9. ~ Active(s) /\ Pending(s) \subseteq (issued + 1) .. issued' /\ Mine(s) = Pending(s)
  BY <1>4, <1>6, <1>8 DEF Active, Pending, Mine
<1>10. \A i, j \in DOMAIN s.queue : s.queue[i].id = s.queue[j].id => i = j
  <2>1. \A i, j \in 1 .. Len(b) : issued + i = issued + j => i = j
    BY <1>1, <1>3
  <2> QED
    BY <1>6, <1>8, <2>1
<1>11. TypeOK' /\ issued <= issued'
  <2>1. issued' \in Nat /\ issued <= issued'
    BY <1>1, <1>2, <1>3
  <2> QED
    BY <1>1, <1>2, <1>7, <2>1 DEF TypeOK
<1>12. /\ Mine(s) \subseteq Mine(co[c]) \cup (issued + 1) .. issued'
       /\ Pending(s) \subseteq Pending(co[c]) \cup (issued + 1) .. issued'
  BY <1>9
<1> QED
  BY <1>2, <1>7, <1>9, <1>10, <1>11, <1>12, SameLog

LEMMA BeginKeeps == ASSUME IInv, NEW c \in Coordinators, Begin(c) PROVE IInv'
<1> DEFINE q == co[c].queue
           s == Locals("leg", co[c].counter + 1, Tail(q), Head(q), 1, 0, 0)
<1>1. TypeOK /\ co \in [Coordinators -> Coordinator] /\ issued \in Nat /\ NumbersOK(co[c])
  BY DEF IInv, TypeOK
<1>2. co' = [co EXCEPT ![c] = s] /\ q # <<>>
      /\ UNCHANGED <<bal, frozen, log, results, issued, faults, transit>>
  BY DEF Begin
<1>3. q \in Seq(Item) /\ co[c].counter \in Nat
  BY <1>1, CoordinatorFields
<1>4. Pending(co[c]) = {q[i].id : i \in DOMAIN q} /\ \A i, j \in DOMAIN q : q[i].id = q[j].id => i = j
  BY <1>1 DEF Pending, NumbersOK
<1> HIDE DEF q
<1>5. Head(q) \in Item /\ Head(q) = q[1] /\ 1 \in DOMAIN q /\ Tail(q) \in Seq(Item)
  BY <1>2, <1>3
<1>6. \A i \in DOMAIN Tail(q) : i + 1 \in DOMAIN q /\ i + 1 # 1 /\ Tail(q)[i] = q[i + 1]
  BY <1>2, <1>3
<1>7. s \in Coordinator
  <2>1. co[c].counter + 1 \in Nat /\ 1 \in Legs /\ 0 \in Int /\ 0 \in 0 .. 3
    BY <1>3 DEF Legs
  <2> QED
    BY <1>5, <2>1, LocalsType
<1>8. s.pc = "leg" /\ s.queue = Tail(q) /\ s.cur = Head(q) /\ s.leg = 1 /\ s.steps = 0
  BY DEF Locals
<1> HIDE DEF s
<1>9. /\ Pending(s) \subseteq Pending(co[c])
      /\ s.cur.id \in Pending(co[c]) /\ s.cur.id \notin Pending(s)
  <2>1. Pending(s) = {Tail(q)[i].id : i \in DOMAIN Tail(q)}
    BY <1>8 DEF Pending
  <2>2. \A i \in DOMAIN Tail(q) : Tail(q)[i].id \in Pending(co[c])
    BY <1>4, <1>6
  <2>3. \A i \in DOMAIN Tail(q) : Tail(q)[i].id # q[1].id
    BY <1>4, <1>5, <1>6
  <2>4. q[1].id \in Pending(co[c])
    BY <1>4, <1>5
  <2> QED
    BY <1>5, <1>8, <2>1, <2>2, <2>3, <2>4
<1>10. \A i, j \in DOMAIN s.queue : s.queue[i].id = s.queue[j].id => i = j
  <2>1. \A i, j \in DOMAIN Tail(q) : i \in Int /\ j \in Int
    BY <1>5
  <2>2. \A i, j \in DOMAIN Tail(q) : Tail(q)[i].id = Tail(q)[j].id => i + 1 = j + 1
    BY <1>4, <1>6
  <2> QED
    BY <1>8, <2>1, <2>2
<1>11. WorkOK(s)
  <2>1. Done(s) = 0
    BY <1>8 DEF Done
  <2>2. \A i \in DOMAIN log : log[i].id # s.cur.id
    BY <1>1, <1>9 DEF NumbersOK
  <2> QED
    BY <1>5, <1>8, <2>1, <2>2 DEF WorkOK
<1>12. TypeOK'
  BY <1>1, <1>2, <1>7 DEF TypeOK
<1>13. /\ issued <= issued'
       /\ Mine(s) \subseteq Mine(co[c]) \cup (issued + 1) .. issued'
       /\ Pending(s) \subseteq Pending(co[c]) \cup (issued + 1) .. issued'
  BY <1>1, <1>2, <1>9 DEF Mine
<1> QED
  BY <1>2, <1>7, <1>9, <1>10, <1>11, <1>12, <1>13, SameLog

-----------------------------------------------------------------------------
(* The two halves of a posting                                             *)

(* A customer's money on its way is a remittance.                          *)
LEMMA TransitType == ASSUME IInv, NEW c \in Coordinators, Active(co[c]) PROVE TransitAfter(c) \subseteq Remittance
<1>1. transit \subseteq Remittance /\ co[c].cur \in Item
  BY DEF IInv, TypeOK, WorkOK
<1>2. co[c].cur.id \in Nat /\ Order(c) \in Orders
  BY <1>1 DEF Item, Order
<1>3. Order(c).amt \in Nat
  BY <1>2, OrdersAssumption
<1>4. Order(c).src \in Customers => InTransit(c) \in Remittance
  BY <1>2, <1>3 DEF InTransit, Remittance
<1> QED
  BY <1>1, <1>4 DEF TransitAfter

LEMMA PostKeeps == ASSUME IInv, NEW c \in Coordinators, Post(c) PROVE IInv'
<1> DEFINE k == co[c].leg
<1>1. /\ TypeOK /\ co \in [Coordinators -> Coordinator] /\ issued \in Nat
      /\ co[c].pc = "post" /\ Active(co[c]) /\ WorkOK(co[c]) /\ NumbersOK(co[c])
  BY DEF IInv, TypeOK, Active, Post
<1>2. /\ k \in Legs /\ co[c].counter \in Nat /\ co[c].queue \in Seq(Item) /\ co[c].newbal \in Int
      /\ co[c].cur \in Item
  BY <1>1, CoordinatorFields DEF WorkOK
<1>3. /\ bal' \in [Accounts -> Int] /\ frozen' \subseteq Accounts /\ transit' \subseteq Remittance
      /\ faults' \in [errors : Nat, restarts : Nat, toggles : Nat]
      /\ log' = log /\ issued' = issued
  BY <1>1, <1>2, TransitType DEF Post, TypeOK
<1>4. CASE k = 4
  <2>1. Return(c, "COMPLETED", 3)
    BY <1>4 DEF Post, StepsAfter
  <2>2. Done(co[c]) = 4
    BY <1>1, <1>4 DEF Done
  <2> QED
    BY <1>1, <1>3, <1>4, <2>1, <2>2, ReturnKeeps
<1>5. CASE k # 4
  <2> DEFINE s == Locals("leg", co[c].counter, co[c].queue, co[c].cur, k + 1, 0, StepsAfter(k))
  <2>1. co' = [co EXCEPT ![c] = s] /\ results' = results
    BY <1>5 DEF Post, Proceed
  <2>2. k + 1 \in Legs /\ StepsAfter(k) \in 0 .. 3 /\ 0 \in Int
    BY <1>2, <1>5 DEF Legs, StepsAfter
  <2>3. s \in Coordinator
    BY <1>2, <2>2, LocalsType
  <2>4. /\ s.pc = "leg" /\ s.queue = co[c].queue /\ s.cur = co[c].cur /\ s.leg = k + 1
        /\ s.steps = StepsAfter(k)
    BY DEF Locals
  <2> HIDE DEF s
  <2>5. Pending(s) = Pending(co[c]) /\ Mine(s) = Mine(co[c])
    BY <1>1, <2>4 DEF Pending, Mine, Active
  <2>6. s.cur.id \notin Pending(s)
    BY <1>1, <2>4, <2>5 DEF NumbersOK
  <2>7. \A i, j \in DOMAIN s.queue : s.queue[i].id = s.queue[j].id => i = j
    BY <1>1, <2>4 DEF NumbersOK
  <2>8. WorkOK(s)
    <3>1. Done(s) = Done(co[c])
      BY <1>1, <1>2, <2>4 DEF Done, Legs
    <3>2. s.steps = CASE s.leg = 1 -> 0 [] s.leg = 4 -> 2 [] OTHER -> 1
      BY <1>2, <1>5, <2>4 DEF StepsAfter, Legs
    <3> QED
      BY <1>1, <2>4, <3>1, <3>2 DEF WorkOK
  <2>9. TypeOK'
    BY <1>1, <1>3, <2>1, <2>3 DEF TypeOK
  <2>10. /\ issued <= issued'
         /\ Mine(s) \subseteq Mine(co[c]) \cup (issued + 1) .. issued'
         /\ Pending(s) \subseteq Pending(co[c]) \cup (issued + 1) .. issued'
    BY <1>1, <1>3, <2>5
  <2> QED
    BY <1>3, <2>1, <2>3, <2>6, <2>7, <2>8, <2>9, <2>10, SameLog
<1> QED
  BY <1>4, <1>5

(* One more entry, of the transfer that c has at work.                     *)
LEMMA NewEntry ==
    ASSUME IInv, TypeOK', NEW c \in Coordinators, NEW s \in Coordinator, NEW e \in LogEntry,
           co' = [co EXCEPT ![c] = s], log' = Append(log, e), results' = results, issued' = issued,
           co[c].pc = "leg", s.pc = "post", s.queue = co[c].queue, s.cur = co[c].cur,
           s.leg = co[c].leg, s.steps = co[c].steps,
           e.id = co[c].cur.id, e.leg = co[c].leg, e.amt = co[c].cur.order.amt
    PROVE  IInv'
<1> DEFINE k == co[c].leg
<1>1. /\ TypeOK /\ co \in [Coordinators -> Coordinator] /\ issued \in Nat /\ log \in Seq(LogEntry)
      /\ Active(co[c]) /\ WorkOK(co[c]) /\ NumbersOK(co[c])
  BY DEF IInv, TypeOK, Active
<1>2. k \in Legs
  BY <1>1, CoordinatorFields
<1>3. Pending(s) = Pending(co[c]) /\ Mine(s) = Mine(co[c])
  BY <1>1 DEF Pending, Mine, Active
<1>4. /\ DOMAIN log' = DOMAIN log \cup {Len(log) + 1} /\ log'[Len(log) + 1] = e
       /\ DOMAIN log = 1 .. Len(log) /\ Len(log) \in Nat
       /\ \A i \in DOMAIN log : log'[i] = log[i]
  BY <1>1
<1>5. \A id : (\A i \in DOMAIN log : log[i].id # id) /\ e.id # id => \A i \in DOMAIN log' : log'[i].id # id
  BY <1>4
<1>6. \A d \in Coordinators \ {c} : co'[d] = co[d] /\ e.id \notin Mine(co[d])
  <2>1. e.id \in Mine(co[c])
    BY <1>1 DEF Mine
  <2> QED
    BY <1>1, <2>1 DEF IInv
<1>7. co'[c] = s
  BY <1>1
<1>8. NumbersOK(s)'
  <2>1. \A id \in Mine(s) : id <= issued'
    BY <1>1, <1>3 DEF NumbersOK
  <2>2. s.cur.id \notin Pending(s) /\ \A i, j \in DOMAIN s.queue : s.queue[i].id = s.queue[j].id => i = j
    BY <1>1, <1>3 DEF NumbersOK
  <2>3. \A i \in DOMAIN log' : log'[i].id \notin Pending(s)
    BY <1>1, <1>3, <1>4, <2>2 DEF NumbersOK
  <2> QED
    BY <2>1, <2>2, <2>3 DEF NumbersOK, Mine, Pending, Active
<1>9. \A d \in Coordinators \ {c} : NumbersOK(co[d])'
  <2> SUFFICES ASSUME NEW d \in Coordinators \ {c} PROVE NumbersOK(co[d])'
    OBVIOUS
  <2>1. NumbersOK(co[d]) /\ co'[d] = co[d] /\ e.id \notin Pending(co[d])
    BY <1>6 DEF IInv, Mine
  <2>2. \A i \in DOMAIN log' : log'[i].id \notin Pending(co[d])
    BY <1>4, <2>1 DEF NumbersOK
  <2>3. \A id \in Mine(co[d]) : id <= issued'
    BY <2>1 DEF NumbersOK
  <2>4. /\ Active(co[d]) => co[d].cur.id \notin Pending(co[d])
        /\ \A i, j \in DOMAIN co[d].queue : co[d].queue[i].id = co[d].queue[j].id => i = j
    BY <2>1 DEF NumbersOK
  <2>5. co'[d] = co[d]
    BY <2>1
  <2> HIDE <2>1
  <2> QED
    BY <2>2, <2>3, <2>4, <2>5 DEF NumbersOK, Mine, Pending, Active
<1>10. Done(s) = k /\ Done(co[c]) = k - 1
  BY <1>1, <1>2 DEF Done, Legs
<1>11. WorkOK(s)'
  <2>1. \A i \in DOMAIN log' : log'[i].id = s.cur.id => log'[i].leg <= k
    <3>1. \A i \in DOMAIN log : log[i].id = co[c].cur.id => log[i].leg <= k - 1
      BY <1>1, <1>10 DEF WorkOK
    <3>2. \A i \in DOMAIN log : log[i].leg \in Int
      <4>1. \A i \in DOMAIN log : log[i] \in LogEntry
        BY <1>1
      <4>2. \A x \in LogEntry : x.leg \in Int
        BY DEF LogEntry, Legs
      <4> QED
        BY <4>1, <4>2
    <3>3. \A i \in DOMAIN log : log[i].id = co[c].cur.id => log[i].leg <= k
      BY <1>2, <3>1, <3>2 DEF Legs
    <3>4. k <= k
      BY <1>2 DEF Legs
    <3> QED
      BY <1>4, <3>3, <3>4
  <2>2. \A l \in 1 .. k : \E i \in DOMAIN log' :
            log'[i].id = s.cur.id /\ log'[i].leg = l /\ log'[i].amt = s.cur.order.amt
    <3> SUFFICES ASSUME NEW l \in 1 .. k
                 PROVE  \E i \in DOMAIN log' :
                            log'[i].id = s.cur.id /\ log'[i].leg = l /\ log'[i].amt = s.cur.order.amt
      OBVIOUS
    <3>1. CASE l = k
      BY <1>4, <3>1 DEF Order
    <3>2. CASE l # k
      <4>1. l \in 1 .. Done(co[c])
        BY <1>2, <1>10, <3>2 DEF Legs
      <4>2. \E i \in DOMAIN log :
               log[i].id = co[c].cur.id /\ log[i].leg = l /\ log[i].amt = co[c].cur.order.amt
        BY <1>1, <4>1 DEF WorkOK
      <4> QED
        BY <1>4, <4>2
    <3> QED
      BY <3>1, <3>2
  <2>3. s.cur \in Item /\ s.steps = CASE s.leg = 1 -> 0 [] s.leg = 4 -> 2 [] OTHER -> 1
    BY <1>1 DEF WorkOK
  <2>4. Done(s)' = k
    BY <1>10 DEF Done
  <2> QED
    BY <2>1, <2>2, <2>3, <2>4 DEF WorkOK
<1>12. \A d \in Coordinators \ {c} : Active(co[d])' => WorkOK(co[d])'
  <2> SUFFICES ASSUME NEW d \in Coordinators \ {c}, Active(co[d])' PROVE WorkOK(co[d])'
    OBVIOUS
  <2>1. co'[d] = co[d] /\ Active(co[d]) /\ WorkOK(co[d])
    BY <1>6 DEF IInv, Active
  <2>2. e.id # co[d].cur.id
    BY <1>6, <2>1 DEF Mine
  <2>3. Done(co[d])' = Done(co[d])
    BY <2>1 DEF Done
  <2>4. \A i \in DOMAIN log' : log'[i].id = co[d].cur.id => log'[i].leg <= Done(co[d])
    BY <1>4, <2>1, <2>2 DEF WorkOK
  <2>5. \A l \in 1 .. Done(co[d]) : \E i \in DOMAIN log' :
            log'[i].id = co[d].cur.id /\ log'[i].leg = l /\ log'[i].amt = co[d].cur.order.amt
    BY <1>4, <2>1 DEF WorkOK
  <2> QED
    BY <2>1, <2>3, <2>4, <2>5 DEF WorkOK
<1>13. \A d, f \in Coordinators : d # f => Mine(co[d])' \cap Mine(co[f])' = {}
  <2>1. \A d \in Coordinators : Mine(co[d])' = Mine(co[d])
    BY <1>3, <1>6, <1>7 DEF Mine, Pending, Active
  <2> QED
    BY <2>1 DEF IInv
<1>14. \A i \in DOMAIN log' : log'[i].id <= issued'
  <2>1. e.id <= issued
    BY <1>1 DEF NumbersOK, Mine
  <2> QED
    BY <1>4, <2>1 DEF IInv
<1>15. NoCreditWithoutDebit'
  <2> SUFFICES ASSUME NEW i \in DOMAIN log'
               PROVE  /\ log'[i].leg > 1 => \E j \in 1 .. i - 1 :
                             log'[j].id = log'[i].id /\ log'[j].leg = log'[i].leg - 1
                                /\ log'[j].amt = log'[i].amt
                      /\ \A j \in 1 .. i - 1 : log'[j].id = log'[i].id => log'[j].leg < log'[i].leg
    BY DEF NoCreditWithoutDebit
  <2>1. CASE i \in DOMAIN log
    <3>1. \A j \in 1 .. i - 1 : j \in DOMAIN log
      BY <1>4, <2>1
    <3> QED
      BY <1>4, <2>1, <3>1 DEF IInv, NoCreditWithoutDebit
  <2>2. CASE i = Len(log) + 1
    <3>1. 1 .. i - 1 = DOMAIN log /\ log'[i] = e
      BY <1>4, <2>2
    <3>2. k > 1 => \E j \in DOMAIN log : log[j].id = e.id /\ log[j].leg = k - 1 /\ log[j].amt = e.amt
      <4>1. k > 1 => k - 1 \in 1 .. Done(co[c])
        BY <1>2, <1>10 DEF Legs
      <4> QED
        BY <1>1, <4>1 DEF WorkOK
    <3>3. \A j \in DOMAIN log : log[j].id = e.id => log[j].leg < k
      <4>1. \A j \in DOMAIN log : log[j].id = e.id => log[j].leg <= k - 1
        BY <1>1, <1>10 DEF WorkOK
      <4>2. \A j \in DOMAIN log : log[j] \in LogEntry
        BY <1>1
      <4>3. \A x \in LogEntry : x.leg \in Int
        BY DEF LogEntry, Legs
      <4> QED
        BY <1>2, <4>1, <4>2, <4>3 DEF Legs
    <3> QED
      BY <1>4, <3>1, <3>2, <3>3
  <2> QED
    BY <1>4, <2>1, <2>2
<1>16. ResultsAreRecorded'
  <2>1. \A id : Recorded(id) \subseteq Recorded(id)'
    BY <1>4 DEF Recorded
  <2>2. \A id : Recorded(id)' \subseteq Legs
    BY DEF Recorded
  <2>3. \A r : ResultOK(r) => ResultOK(r)'
    BY <2>1, <2>2 DEF ResultOK
  <2> QED
    BY <2>3 DEF IInv, ResultsAreRecorded
<1> QED
  BY <1>7, <1>8, <1>9, <1>11, <1>12, <1>13, <1>14, <1>15, <1>16 DEF IInv

LEMMA RecordKeeps == ASSUME IInv, NEW c \in Coordinators, Record(c) PROVE IInv'
<1> DEFINE o == Order(c)
           k == co[c].leg
           e == [id |-> co[c].cur.id, leg |-> k, ref |-> co[c].counter, mark |-> Mark(k),
                 node |-> LegNode(o, k), acct |-> LegAccount(o, k), amt |-> o.amt]
           v == IF LegType(k) = "D" THEN bal[LegAccount(o, k)] + o.amt ELSE bal[LegAccount(o, k)] - o.amt
           s == Locals("post", co[c].counter, co[c].queue, co[c].cur, k, v, co[c].steps)
<1>1. /\ TypeOK /\ co \in [Coordinators -> Coordinator] /\ issued \in Nat /\ log \in Seq(LogEntry)
      /\ bal \in [Accounts -> Int] /\ results \in Seq(Result)
      /\ co[c].pc = "leg" /\ Active(co[c]) /\ WorkOK(co[c]) /\ NumbersOK(co[c])
  BY DEF IInv, TypeOK, Active, Record
<1>2. /\ k \in Legs /\ co[c].counter \in Nat /\ co[c].queue \in Seq(Item) /\ co[c].steps \in 0 .. 3
      /\ co[c].cur \in Item
  BY <1>1, CoordinatorFields DEF WorkOK
<1>3. co[c].cur.id \in Nat /\ o \in Orders /\ o.amt \in Nat
  <2>1. co[c].cur.id \in Nat /\ o \in Orders
    BY <1>2 DEF Item, Order
  <2> QED
    BY <2>1, OrdersAssumption
<1>4. /\ LegAccount(o, k) \in Accounts /\ LegNode(o, k) \in Nodes
      /\ Mark(k) \in {"XFER-TO", "XFER-FROM", "SETTLE"}
  BY <1>2, <1>3, LegTypes DEF Record
<1>5. /\ log' = Append(log, e) /\ co' = [co EXCEPT ![c] = s]
      /\ UNCHANGED <<bal, frozen, results, issued, faults, transit>>
  BY DEF Record, Proceed
<1>6. e \in LogEntry
  BY <1>2, <1>3, <1>4 DEF LogEntry
<1>7. s \in Coordinator
  <2>1. v \in Int
    BY <1>1, <1>3, <1>4
  <2> HIDE DEF v
  <2> QED
    BY <1>2, <2>1, LocalsType
<1>8. s.pc = "post" /\ s.queue = co[c].queue /\ s.cur = co[c].cur /\ s.leg = k /\ s.steps = co[c].steps
  BY DEF Locals
<1>9. e.id = co[c].cur.id /\ e.leg = k /\ e.amt = o.amt
  OBVIOUS
<1> HIDE DEF e, s
<1>10. TypeOK'
  BY <1>1, <1>5, <1>6, <1>7 DEF TypeOK
<1> QED
  BY <1>1, <1>5, <1>6, <1>7, <1>8, <1>9, <1>10, NewEntry DEF Order

-----------------------------------------------------------------------------
(* Every step keeps the invariant, so it always holds.                     *)

LEMMA NextInv == IInv /\ [Next]_vars => IInv'
<1> SUFFICES ASSUME IInv, [Next]_vars PROVE IInv'
  OBVIOUS
<1>1. ASSUME NEW c \in Coordinators, NEW b \in Batches, Submit(c, b) PROVE IInv'
  BY <1>1, SubmitKeeps
<1>2. ASSUME NEW c \in Coordinators, Begin(c) PROVE IInv'
  BY <1>2, BeginKeeps
<1>3. ASSUME NEW c \in Coordinators, Unaddressed(c) PROVE IInv'
  BY <1>3, UnaddressedKeeps
<1>4. ASSUME NEW c \in Coordinators, Refuse(c) PROVE IInv'
  BY <1>4, RefuseKeeps
<1>5. ASSUME NEW c \in Coordinators, Record(c) PROVE IInv'
  BY <1>5, RecordKeeps
<1>6. ASSUME NEW c \in Coordinators, Post(c) PROVE IInv'
  BY <1>6, PostKeeps
<1>7. ASSUME NEW c \in Coordinators, Raise(c) PROVE IInv'
  BY <1>7, RaiseKeeps
<1>8. ASSUME NEW c \in Coordinators, Restart(c) PROVE IInv'
  BY <1>8, RestartKeeps
<1>9. ASSUME NEW a \in Freezable, ToggleFrozen(a) PROVE IInv'
  BY <1>9, ToggleKeeps
<1>10. CASE UNCHANGED vars
  <2>1. TypeOK'
    BY <1>10 DEF IInv, TypeOK, vars
  <2> QED
    BY <1>10, <2>1, SameWork DEF vars
<1> QED
  BY <1>1, <1>2, <1>3, <1>4, <1>5, <1>6, <1>7, <1>8, <1>9, <1>10 DEF Next

THEOREM Invariance == Spec => []IInv
<1> QED
  BY InitInv, NextInv, PTL DEF Spec

(* Every variable keeps its type.                                          *)
THEOREM TypeCorrect == Spec => []TypeOK
<1>1. IInv => TypeOK
  BY DEF IInv
<1> QED
  BY <1>1, Invariance, PTL

(* However many coordinators post at once, fail and are replaced, no chain *)
(* of the network has a posting whose predecessor no chain has.            *)
THEOREM CreditsHaveDebits == Spec => []NoCreditWithoutDebit
<1>1. IInv => NoCreditWithoutDebit
  BY DEF IInv
<1> QED
  BY <1>1, Invariance, PTL

(* And no result that a coordinator returns says more than the chains do.  *)
THEOREM ResultsAreTrue == Spec => []ResultsAreRecorded
<1>1. IInv => ResultsAreRecorded
  BY DEF IInv
<1> QED
  BY <1>1, Invariance, PTL

-----------------------------------------------------------------------------
(* One coordinator at a time: what becomes of customers' money.  With two  *)
(* coordinators that is lost, since both may compute a balance from the    *)
(* same read.                                                              *)
-----------------------------------------------------------------------------
(* The coordinator's local variables before and after a step               *)

LEMMA WorkFacts ==
    ASSUME IInv, NEW c \in Coordinators, Active(co[c])
    PROVE  /\ co[c].pc \in {"leg", "post"} /\ co[c].leg \in Legs /\ co[c].cur \in Item
           /\ co[c].cur.id \in Nat /\ Order(c) \in Orders /\ Order(c).amt \in Nat
           /\ co[c].cur.id \notin Pending(co[c]) /\ co[c].cur.id \in Mine(co[c])
           /\ co[c].steps = CASE co[c].leg = 1 -> 0 [] co[c].leg = 4 -> 2 [] OTHER -> 1
<1>1. WorkOK(co[c]) /\ NumbersOK(co[c]) /\ TypeOK
  BY DEF IInv
<1>2. co[c].pc \in {"leg", "post"} /\ co[c].leg \in Legs /\ co[c].cur \in Item
  BY <1>1, CoordinatorFields DEF Active, WorkOK
<1>3. co[c].cur.id \in Nat /\ Order(c) \in Orders
  BY <1>2 DEF Item, Order
<1>4. Order(c).amt \in Nat
  BY <1>3, OrdersAssumption
<1>5. co[c].cur.id \notin Pending(co[c]) /\ co[c].cur.id \in Mine(co[c])
  BY <1>1 DEF NumbersOK, Mine
<1> QED
  BY <1>1, <1>2, <1>3, <1>4, <1>5 DEF WorkOK

LEMMA AfterFresh ==
    ASSUME NEW c \in Coordinators, NEW n, NEW q, co'[c] = Fresh(n, q)
    PROVE  /\ co'[c].pc = "idle" /\ co'[c].queue = q
           /\ ~ Active(co[c])' /\ Mine(co[c])' = Pending(co[c])'
           /\ ~ Sent(c)' /\ RouteOK(c)' /\ NewBalOK(c)'
<1>2. co'[c].pc = "idle" /\ co'[c].queue = q
  BY DEF Fresh, Locals
<1>3. ~ Active(co[c])'
  BY <1>2 DEF Active
<1> QED
  BY <1>2, <1>3 DEF Mine, Sent, RouteOK, NewBalOK

LEMMA AfterProceed ==
    ASSUME IInv, NEW c \in Coordinators, Active(co[c]), NEW pc \in {"leg", "post"}, NEW leg,
           NEW newbal, NEW steps, Proceed(c, pc, leg, newbal, steps)
    PROVE  /\ co'[c].pc = pc /\ co'[c].leg = leg /\ co'[c].newbal = newbal
           /\ co'[c].cur = co[c].cur /\ Active(co[c])'
           /\ Pending(co[c])' = Pending(co[c]) /\ Mine(co[c])' = Mine(co[c])
           /\ Order(c)' = Order(c) /\ InTransit(c)' = InTransit(c)
<1>1. co'[c] = Locals(pc, co[c].counter, co[c].queue, co[c].cur, leg, newbal, steps)
  BY DEF Proceed, IInv, TypeOK
<1>2. /\ co'[c].pc = pc /\ co'[c].leg = leg /\ co'[c].newbal = newbal
      /\ co'[c].cur = co[c].cur /\ co'[c].queue = co[c].queue
  BY <1>1 DEF Locals
<1>3. Active(co[c])'
  BY <1>2 DEF Active
<1>4. Pending(co[c])' = Pending(co[c])
  BY <1>2 DEF Pending
<1>5. Mine(co[c])' = Mine(co[c])
  BY <1>2, <1>3, <1>4 DEF Mine
<1> QED
  BY <1>2, <1>3, <1>4, <1>5 DEF Order, InTransit

LEMMA StuckAppend ==
    ASSUME results \in Seq(Result), NEW r \in Result, results' = Append(results, r)
    PROVE  /\ Stuck' = Stuck \cup {id \in {r.id} : r.steps \in {1, 2} /\ r.order.src \in Customers}
           /\ \A i \in DOMAIN results' : results'[i] = r \/ \E j \in DOMAIN results : results'[i] = results[j]
<1>1. /\ DOMAIN results' = DOMAIN results \cup {Len(results) + 1}
      /\ results'[Len(results) + 1] = r
      /\ \A i \in DOMAIN results : results'[i] = results[i]
  OBVIOUS
<1> QED
  BY <1>1 DEF Stuck

-----------------------------------------------------------------------------
(* Steps that move no money                                                *)

LEMMA ReturnMoney ==
    ASSUME MoneyInv, IInv', OneCoordinator, NEW c \in Coordinators, NEW status, NEW n,
           Active(co[c]), Return(c, status, n), UNCHANGED <<bal, transit, issued>>,
           faults'.restarts = faults.restarts,
           Order(c).src \in Customers => (n \in {1, 2} <=> co[c].leg > 1)
    PROVE  MoneyInv'
<1> DEFINE r == [id |-> co[c].cur.id, order |-> Order(c), ref |-> co[c].counter,
                 status |-> status, steps |-> n]
<1>1. /\ IInv /\ TypeOK /\ issued \in Nat /\ FreshOK(c)
      /\ results \in Seq(Result) /\ results' \in Seq(Result) /\ results' = Append(results, r)
      /\ co'[c] = Fresh(co[c].counter, co[c].queue)
      /\ \A d \in Coordinators : d = c
  BY DEF MoneyInv, IInv, TypeOK, Return, OneCoordinator
<1>2. r \in Result /\ r.id = co[c].cur.id /\ r.order = Order(c) /\ r.steps = n
  <2>1. r = results'[Len(results) + 1] /\ Len(results) + 1 \in DOMAIN results'
    BY <1>1
  <2> QED
    BY <1>1, <2>1
<1> HIDE DEF r
<1>3. /\ ~ Sent(c)' /\ RouteOK(c)' /\ NewBalOK(c)' /\ Mine(co[c])' = Pending(co[c])'
      /\ ~ Active(co[c])' /\ co'[c].queue = co[c].queue
  BY <1>1, AfterFresh
<1>4. /\ Pending(co[c])' = Pending(co[c]) /\ Pending(co[c]) \subseteq Mine(co[c])
      /\ co[c].cur.id \notin Pending(co[c]) /\ co[c].cur.id \in Mine(co[c])
  BY <1>1, <1>3, WorkFacts DEF Pending, Mine
<1>5. FreshOK(c)'
  BY <1>1, <1>3, <1>4 DEF FreshOK
<1>6. StepsOK'
  <2>1. /\ Stuck' = Stuck \cup {id \in {r.id} : r.steps \in {1, 2} /\ r.order.src \in Customers}
        /\ \A i \in DOMAIN results' : results'[i] = r \/ \E j \in DOMAIN results : results'[i] = results[j]
    BY <1>1, <1>2, StuckAppend
  <2>2. \A i \in DOMAIN results' : results'[i].id <= issued' /\ results'[i].id \notin Mine(co[c])'
    <3>1. co[c].cur.id <= issued
      BY <1>1, <1>4 DEF IInv, NumbersOK
    <3> QED
      BY <1>2, <1>3, <1>4, <2>1, <3>1 DEF MoneyInv, StepsOK
  <2>3. {co[d].cur.id : d \in {e \in Coordinators : Sent(e)}} = {id \in {co[c].cur.id} : Sent(c)}
    BY <1>1
  <2>4. {co[d].cur.id : d \in {e \in Coordinators : Sent(e)}}' = {}
    BY <1>1, <1>3
  <2>5. {id \in {co[c].cur.id} : Sent(c)}
          = {id \in {r.id} : r.steps \in {1, 2} /\ r.order.src \in Customers}
    BY <1>2 DEF Sent
  <2> QED
    BY <1>1, <2>1, <2>2, <2>3, <2>4, <2>5 DEF MoneyInv, StepsOK
<1> QED
  BY <1>1, <1>3, <1>5, <1>6 DEF MoneyInv

LEMMA RefuseMoney ==
    ASSUME MoneyInv, IInv', OneCoordinator, NEW c \in Coordinators, Refuse(c)
    PROVE  MoneyInv'
<1>1. Active(co[c]) /\ co[c].leg \in Legs
  BY CoordinatorFields DEF Refuse, Active, MoneyInv, IInv
<1>2. StepsRefused(co[c].leg) \in {1, 2} <=> co[c].leg > 1
  BY <1>1 DEF StepsRefused, Legs
<1> QED
  BY <1>1, <1>2, ReturnMoney DEF Refuse

LEMMA FailMoney ==
    ASSUME MoneyInv, IInv', OneCoordinator, NEW c \in Coordinators, Unaddressed(c) \/ Raise(c)
    PROVE  MoneyInv'
<1>1. /\ Active(co[c]) /\ Return(c, "FAILED", co[c].steps) /\ UNCHANGED <<bal, transit, issued>>
      /\ IInv
  BY DEF Unaddressed, Raise, Active, MoneyInv
<1>2. faults'.restarts = faults.restarts
  <2>1. faults \in [errors : Nat, restarts : Nat, toggles : Nat]
    BY <1>1 DEF IInv, TypeOK
  <2> QED
    BY <2>1 DEF Unaddressed, Raise
<1>3. co[c].steps \in {1, 2} <=> co[c].leg > 1
  BY <1>1, WorkFacts DEF Legs
<1> QED
  BY <1>1, <1>2, <1>3, ReturnMoney

LEMMA RestartMoney ==
    ASSUME MoneyInv, IInv', OneCoordinator, NEW c \in Coordinators, Restart(c)
    PROVE  MoneyInv'
<1>1. /\ TypeOK /\ co'[c] = Fresh(0, <<>>) /\ UNCHANGED <<bal, results, issued, transit>>
      /\ \A d \in Coordinators : d = c
  BY DEF MoneyInv, IInv, TypeOK, Restart, OneCoordinator
<1>2. /\ ~ Sent(c)' /\ RouteOK(c)' /\ NewBalOK(c)' /\ Mine(co[c])' = Pending(co[c])'
      /\ ~ Active(co[c])' /\ co'[c].queue = <<>>
  BY <1>1, AfterFresh
<1>3. Pending(co[c])' = {}
  BY <1>2 DEF Pending
<1>4. FreshOK(c)'
  BY <1>2, <1>3 DEF FreshOK
<1>5. faults'.restarts # 0
  <2>1. faults \in [errors : Nat, restarts : Nat, toggles : Nat] /\ faults' = [faults EXCEPT !.restarts = @ + 1]
    BY <1>1 DEF TypeOK, Restart
  <2> QED
    BY <2>1
<1>6. StepsOK'
  BY <1>1, <1>2, <1>3, <1>5 DEF MoneyInv, StepsOK
<1> QED
  BY <1>1, <1>2, <1>4, <1>6 DEF MoneyInv

LEMMA ToggleMoney ==
    ASSUME MoneyInv, IInv', NEW a \in Freezable, ToggleFrozen(a)
    PROVE  MoneyInv'
<1>1. UNCHANGED <<bal, co, results, issued, transit>>
  BY DEF ToggleFrozen
<1>2. faults'.restarts = faults.restarts
  <2>1. faults \in [errors : Nat, restarts : Nat, toggles : Nat] /\ faults' = [faults EXCEPT !.toggles = @ + 1]
    BY DEF MoneyInv, IInv, TypeOK, ToggleFrozen
  <2> QED
    BY <2>1
<1>3. StepsOK'
  <2>1. /\ \A c \in Coordinators : Mine(co[c])' = Mine(co[c]) /\ Sent(c)' = Sent(c)
        /\ Stuck' = Stuck
    BY <1>1 DEF Stuck, Sent, Active, Mine, Pending, Order
  <2>2. {co[c].cur.id : c \in {d \in Coordinators : Sent(d)}}'
          = {co[c].cur.id : c \in {d \in Coordinators : Sent(d)}}
    BY <1>1, <2>1
  <2> QED
    BY <1>1, <1>2, <2>1, <2>2 DEF MoneyInv, StepsOK
<1>4. \A c \in Coordinators : FreshOK(c)' /\ RouteOK(c)' /\ NewBalOK(c)'
  BY <1>1 DEF MoneyInv, FreshOK, RouteOK, NewBalOK, Sent, Active, Mine, Pending, Order, InTransit
<1> QED
  BY <1>1, <1>3, <1>4 DEF MoneyInv

LEMMA SubmitMoney ==
    ASSUME MoneyInv, IInv', OneCoordinator, NEW c \in Coordinators, NEW b \in Batches, Submit(c, b)
    PROVE  MoneyInv'
<1> DEFINE q == [i \in DOMAIN b |-> [id |-> issued + i, order |-> b[i]]]
<1>1. /\ IInv /\ TypeOK /\ issued \in Nat /\ MaxTransfers \in Nat
      /\ co'[c] = Fresh(co[c].counter, q)
      /\ issued' = issued + Len(b) /\ issued + Len(b) <= MaxTransfers
      /\ UNCHANGED <<bal, results, faults, transit>>
      /\ ~ Active(co[c]) /\ \A d \in Coordinators : d = c
  BY BoundsAssumption DEF MoneyInv, IInv, TypeOK, Submit, OneCoordinator, Active
<1>2. b \in Seq(Orders) /\ Len(b) \in Nat /\ DOMAIN b = 1 .. Len(b)
  BY BatchOrders
<1> HIDE DEF q
<1>3. /\ ~ Sent(c)' /\ RouteOK(c)' /\ NewBalOK(c)' /\ Mine(co[c])' = Pending(co[c])'
      /\ ~ Active(co[c])' /\ co'[c].queue = q
  BY <1>1, AfterFresh
<1>4. \A id \in Pending(co[c])' : id \in issued + 1 .. issued'
  <2>1. \A i \in DOMAIN q : i \in 1 .. Len(b) /\ q[i].id = issued + i
    BY <1>2 DEF q
  <2> QED
    BY <1>1, <1>2, <1>3, <2>1 DEF Pending
<1>5. /\ \A t \in transit : t.id \in Nat /\ t.id <= issued
      /\ \A i \in DOMAIN results : results[i].id \in Nat /\ results[i].id <= issued
  <2>1. \A t \in transit : t \in Remittance
    BY <1>1 DEF TypeOK
  <2>2. \A i \in DOMAIN results : results[i] \in Result
    BY <1>1 DEF TypeOK
  <2> QED
    BY <2>1, <2>2 DEF Remittance, Result, MoneyInv, StepsOK
<1>6. FreshOK(c)'
  BY <1>1, <1>2, <1>3, <1>4, <1>5 DEF FreshOK
<1>7. StepsOK'
  <2>1. \A d \in Coordinators : ~ Sent(d) /\ ~ Sent(d)'
    BY <1>1, <1>3 DEF Sent
  <2>2. Stuck' = Stuck
    BY <1>1 DEF Stuck
  <2> QED
    BY <1>1, <1>2, <1>3, <1>4, <1>5, <2>1, <2>2 DEF MoneyInv, StepsOK
<1> QED
  BY <1>1, <1>2, <1>3, <1>5, <1>6, <1>7 DEF MoneyInv

LEMMA BeginMoney ==
    ASSUME MoneyInv, IInv', OneCoordinator, NEW c \in Coordinators, Begin(c)
    PROVE  MoneyInv'
<1> DEFINE q == co[c].queue
<1>1. /\ IInv /\ TypeOK /\ NumbersOK(co[c]) /\ FreshOK(c) /\ ~ Active(co[c])
      /\ co'[c] = Locals("leg", co[c].counter + 1, Tail(q), Head(q), 1, 0, 0)
      /\ UNCHANGED <<bal, results, issued, faults, transit>> /\ q # <<>> /\ q \in Seq(Item)
      /\ \A d \in Coordinators : d = c
  BY CoordinatorFields DEF MoneyInv, IInv, TypeOK, Begin, OneCoordinator, Active
<1> HIDE DEF q
<1>2. /\ co'[c].pc = "leg" /\ co'[c].leg = 1 /\ co'[c].cur = Head(q) /\ Active(co[c])'
      /\ Pending(co[c])' = {Tail(q)[i].id : i \in DOMAIN Tail(q)}
      /\ Mine(co[c])' = Pending(co[c])' \cup {Head(q).id}
  <2>1. /\ co'[c].pc = "leg" /\ co'[c].leg = 1 /\ co'[c].cur = Head(q) /\ co'[c].queue = Tail(q)
    BY <1>1 DEF Locals
  <2>2. Active(co[c])'
    BY <2>1 DEF Active
  <2> QED
    BY <2>1, <2>2 DEF Pending, Mine
<1>3. Mine(co[c])' \subseteq Pending(co[c])
  <2>1. Head(q) = q[1] /\ 1 \in DOMAIN q
    BY <1>1
  <2>2. \A i \in DOMAIN Tail(q) : i + 1 \in DOMAIN q /\ Tail(q)[i] = q[i + 1]
    BY <1>1
  <2> QED
    BY <1>2, <2>1, <2>2 DEF Pending, q
<1>4. Pending(co[c]) \subseteq Mine(co[c]) /\ Pending(co[c])' \subseteq Mine(co[c])'
      /\ co'[c].cur.id \in Mine(co[c])'
  BY <1>2 DEF Mine
<1>5. ~ Sent(c) /\ ~ Sent(c)'
  BY <1>1, <1>2 DEF Sent
<1>6. FreshOK(c)'
  BY <1>1, <1>3, <1>4, <1>5 DEF FreshOK
<1>7. StepsOK'
  <2>1. \A d \in Coordinators : ~ Sent(d) /\ ~ Sent(d)'
    BY <1>1, <1>5
  <2>2. {co[d].cur.id : d \in {e \in Coordinators : Sent(e)}} = {}
        /\ {co[d].cur.id : d \in {e \in Coordinators : Sent(e)}}' = {}
    BY <2>1
  <2>3. Stuck' = Stuck
    BY <1>1 DEF Stuck
  <2> QED
    BY <1>1, <1>3, <1>4, <2>2, <2>3 DEF MoneyInv, StepsOK
<1>8. RouteOK(c)' /\ NewBalOK(c)'
  BY <1>2 DEF RouteOK, NewBalOK
<1> QED
  BY <1>1, <1>6, <1>7, <1>8 DEF MoneyInv

-----------------------------------------------------------------------------
(* The postings                                                            *)

LEMMA RecordMoney ==
    ASSUME MoneyInv, IInv', OneCoordinator, NEW c \in Coordinators, Record(c)
    PROVE  MoneyInv'
<1> DEFINE o == Order(c)
           k == co[c].leg
           a == LegAccount(o, k)
           v == IF LegType(k) = "D" THEN bal[a] + o.amt ELSE bal[a] - o.amt
<1>1. /\ IInv /\ TypeOK /\ FreshOK(c) /\ RouteOK(c) /\ Active(co[c]) /\ co[c].pc = "leg"
      /\ Proceed(c, "post", k, v, co[c].steps) /\ Addressed(o, k) /\ Answer(o, k) = "00"
      /\ UNCHANGED <<bal, results, issued, faults, transit>>
      /\ \A d \in Coordinators : d = c
  BY DEF MoneyInv, IInv, Record, OneCoordinator, Active
<1>2. o \in Orders /\ o.amt \in Nat /\ k \in Legs /\ bal \in [Accounts -> Int]
  BY <1>1, WorkFacts DEF TypeOK
<1>3. /\ co'[c].pc = "post" /\ co'[c].leg = k /\ co'[c].newbal = v /\ co'[c].cur = co[c].cur
      /\ Active(co[c])' /\ Pending(co[c])' = Pending(co[c]) /\ Mine(co[c])' = Mine(co[c])
      /\ Order(c)' = Order(c) /\ InTransit(c)' = InTransit(c)
  BY <1>1, AfterProceed
<1>4. Sent(c)' = Sent(c)
  BY <1>1, <1>3 DEF Sent
<1>5. FreshOK(c)'
  BY <1>1, <1>3, <1>4 DEF FreshOK
<1>6. RouteOK(c)'
  BY <1>1, <1>3 DEF RouteOK
<1>7. NewBalOK(c)'
  <2>1. a \in Accounts /\ NodeOf[a] = LegNode(o, k)
    BY <1>1 DEF Answer
  <2>2. LegType(k) = "W" => bal[a] >= o.amt
    BY <1>1, <1>2, <2>1 DEF Answer
  <2>3. LegType(k) \in {"D", "W"}
    BY DEF LegType
  <2>4. /\ IF LegType(k) = "D" THEN v = bal[a] + o.amt ELSE v = bal[a] - o.amt /\ bal[a] >= o.amt
    BY <2>2, <2>3
  <2> HIDE DEF v
  <2> QED
    BY <1>1, <1>3, <2>1, <2>4 DEF NewBalOK
<1>8. StepsOK'
  <2>1. Stuck' = Stuck
    BY <1>1 DEF Stuck
  <2>2. {co[d].cur.id : d \in {e \in Coordinators : Sent(e)}} = {id \in {co[c].cur.id} : Sent(c)}
    BY <1>1
  <2>3. {co[d].cur.id : d \in {e \in Coordinators : Sent(e)}}' = {id \in {co[c].cur.id} : Sent(c)}
    BY <1>1, <1>3, <1>4
  <2> QED
    BY <1>1, <1>3, <2>1, <2>2, <2>3 DEF MoneyInv, StepsOK
<1> QED
  BY <1>1, <1>5, <1>6, <1>7, <1>8 DEF MoneyInv

(* Where the four postings go: the first and the last are a customer's, or *)
(* the order names the clearing house as a bank.                           *)
LEMMA PostRoute ==
    ASSUME MoneyInv, NEW c \in Coordinators, Post(c)
    PROVE  /\ Active(co[c]) /\ IInv /\ co[c].leg \in Legs /\ Order(c) \in Orders /\ Order(c).amt \in Nat
           /\ LegAccount(Order(c), co[c].leg) \in Accounts
           /\ co[c].leg = 1 => /\ LegAccount(Order(c), co[c].leg) = Order(c).src
                               /\ Order(c).src \in Accounts /\ NodeOf[Order(c).src] = Order(c).from
           /\ co[c].leg = 2 => Order(c).from \in Banks
           /\ co[c].leg = 3 => Order(c).to \in Banks
           /\ co[c].leg \in {2, 3} => LegAccount(Order(c), co[c].leg) \notin Customers
           /\ co[c].leg = 4 => /\ LegAccount(Order(c), co[c].leg) = Order(c).dst
                               /\ Order(c).src \in Customers /\ Order(c).dst \in Customers
                               /\ Sent(c) /\ InTransit(c) \in transit
<1> DEFINE o == Order(c)
           k == co[c].leg
<1>1. co[c].pc = "post" /\ Active(co[c]) /\ IInv /\ NewBalOK(c) /\ RouteOK(c) /\ FreshOK(c)
  BY DEF Post, Active, MoneyInv
<1>2. k \in Legs /\ o \in Orders /\ o.amt \in Nat
  BY <1>1, WorkFacts
<1>3. Addressed(o, k) /\ LegAccount(o, k) \in Accounts /\ NodeOf[LegAccount(o, k)] = LegNode(o, k)
  BY <1>1 DEF NewBalOK
<1>4. k = 1 => LegAccount(o, k) = o.src /\ o.src \in Accounts /\ NodeOf[o.src] = o.from
  BY <1>3 DEF LegAccount, LegNode
<1>5. (k = 2 => o.from \in Banks) /\ (k = 3 => o.to \in Banks)
  <2>1. CASE k = 2
    BY <1>3, <2>1 DEF Addressed
  <2>2. CASE k = 3
    BY <1>3, <2>2 DEF Addressed
  <2> QED
    BY <2>1, <2>2
<1>6. k \in {2, 3} => LegAccount(o, k) \notin Customers
  BY <1>3, NetworkAssumption DEF LegNode, Customers
<1>7. ASSUME k = 4
      PROVE  /\ LegAccount(o, k) = o.dst /\ o.src \in Customers /\ o.dst \in Customers
             /\ Sent(c) /\ InTransit(c) \in transit
  <2>1. LegAccount(o, k) = o.dst /\ LegNode(o, k) = o.to
    BY <1>7 DEF LegAccount, LegNode
  <2>2. o.to \in Banks /\ o.from \in Banks /\ o.src \in Accounts /\ NodeOf[o.src] = o.from
    BY <1>1, <1>7 DEF RouteOK
  <2>3. o.src \in Customers /\ o.dst \in Customers
    BY <1>3, <2>1, <2>2 DEF Customers
  <2>4. Sent(c)
    BY <1>1, <1>7, <2>3 DEF Sent
  <2> QED
    BY <1>1, <2>1, <2>3, <2>4 DEF FreshOK
<1> QED
  BY <1>1, <1>2, <1>3, <1>4, <1>5, <1>6, <1>7

(* After one of the first three postings the transfer goes on.             *)
LEMMA PostMoney ==
    ASSUME MoneyInv, IInv', OneCoordinator, NEW c \in Coordinators, Post(c), co[c].leg # 4
    PROVE  MoneyInv'
<1> DEFINE o == Order(c)
           k == co[c].leg
           t == InTransit(c)
<1>1. /\ IInv /\ FreshOK(c) /\ RouteOK(c) /\ Active(co[c]) /\ k \in {1, 2, 3}
      /\ Proceed(c, "leg", k + 1, 0, StepsAfter(k)) /\ transit' = TransitAfter(c)
      /\ UNCHANGED <<results, issued, faults>>
      /\ \A d \in Coordinators : d = c
  <2>1. IInv /\ FreshOK(c) /\ RouteOK(c) /\ \A d \in Coordinators : d = c
    BY DEF MoneyInv, OneCoordinator
  <2>2. Active(co[c]) /\ k \in {1, 2, 3}
    BY PostRoute DEF Legs
  <2>3. /\ Proceed(c, "leg", k + 1, 0, StepsAfter(k)) /\ transit' = TransitAfter(c)
        /\ UNCHANGED <<results, issued, faults>>
    BY DEF Post
  <2> QED
    BY <2>1, <2>2, <2>3
<1>2. /\ co[c].cur.id \in Nat /\ co[c].cur.id <= issued /\ co[c].cur.id \in Mine(co[c])
      /\ co[c].cur.id \notin Pending(co[c])
      /\ t.id = co[c].cur.id
  BY <1>1, WorkFacts DEF IInv, NumbersOK, InTransit
<1>3. /\ co'[c].pc = "leg" /\ co'[c].leg = k + 1 /\ co'[c].cur = co[c].cur
      /\ Active(co[c])' /\ Pending(co[c])' = Pending(co[c]) /\ Mine(co[c])' = Mine(co[c])
      /\ Order(c)' = Order(c) /\ InTransit(c)' = t
  BY <1>1, AfterProceed
<1>4. Sent(c)' <=> o.src \in Customers
  BY <1>1, <1>3 DEF Sent
<1>5. transit' = transit \cup {x \in {t} : o.src \in Customers}
  <2>1. CASE k = 1 /\ o.src \in Customers
    BY <1>1, <2>1 DEF TransitAfter
  <2>2. CASE k = 1 /\ o.src \notin Customers
    BY <1>1, <2>2 DEF TransitAfter
  <2>3. CASE k # 1
    <3>1. transit' = transit
      BY <1>1, <2>3 DEF TransitAfter
    <3>2. o.src \in Customers => t \in transit
      BY <1>1, <2>3 DEF FreshOK, Sent
    <3> QED
      BY <3>1, <3>2
  <2> QED
    BY <2>1, <2>2, <2>3
<1> HIDE DEF t
<1>6. \A x, y \in transit' : x.id = y.id => x = y
  <2>1. \A x, y \in transit : x.id = y.id => x = y
    BY DEF MoneyInv
  <2>2. o.src \in Customers => t \in transit \/ \A x \in transit : x.id # t.id
    BY <1>1, <1>2 DEF FreshOK, Sent, t
  <2> QED
    BY <1>5, <2>1, <2>2
<1>7. \A x \in transit' : x.id <= issued'
  BY <1>1, <1>2, <1>5 DEF MoneyInv
<1>8. FreshOK(c)'
  <2>1. \A id \in Pending(co[c])' : \A x \in transit' : x.id # id
    BY <1>1, <1>2, <1>3, <1>5 DEF FreshOK
  <2>2. Sent(c)' => InTransit(c)' \in transit'
    BY <1>3, <1>4, <1>5
  <2>3. co'[c].leg # 1
    BY <1>1, <1>3
  <2> QED
    BY <1>1, <1>3, <2>1, <2>2, <2>3 DEF FreshOK
<1>9. RouteOK(c)' /\ NewBalOK(c)'
  <2>1. o.src \in Accounts /\ NodeOf[o.src] = o.from
    BY <1>1, PostRoute DEF RouteOK
  <2>2. k >= 2 => o.from \in Banks
    BY <1>1, PostRoute DEF RouteOK
  <2>3. k = 3 => o.to \in Banks
    BY PostRoute
  <2> QED
    BY <1>1, <1>3, <2>1, <2>2, <2>3 DEF RouteOK, NewBalOK
<1>10. StepsOK'
  <2>1. Stuck' = Stuck
    BY <1>1 DEF Stuck
  <2>2. {co[d].cur.id : d \in {e \in Coordinators : Sent(e)}} = {id \in {co[c].cur.id} : Sent(c)}
    BY <1>1
  <2>3. {co[d].cur.id : d \in {e \in Coordinators : Sent(e)}}'
          = {id \in {co[c].cur.id} : o.src \in Customers}
    BY <1>1, <1>3, <1>4
  <2>4. Sent(c) => o.src \in Customers
    BY DEF Sent
  <2>5. {x.id : x \in transit'} = {x.id : x \in transit} \cup {id \in {co[c].cur.id} : o.src \in Customers}
    BY <1>2, <1>5
  <2> QED
    BY <1>1, <1>3, <2>1, <2>2, <2>3, <2>4, <2>5 DEF MoneyInv, StepsOK
<1> QED
  BY <1>1, <1>6, <1>7, <1>8, <1>9, <1>10 DEF MoneyInv

(* The last posting delivers.                                              *)
LEMMA DeliverMoney ==
    ASSUME MoneyInv, IInv', OneCoordinator, NEW c \in Coordinators, Post(c), co[c].leg = 4
    PROVE  MoneyInv'
<1> DEFINE t == InTransit(c)
           r == [id |-> co[c].cur.id, order |-> Order(c), ref |-> co[c].counter,
                 status |-> "COMPLETED", steps |-> 3]
<1>1. /\ IInv /\ FreshOK(c) /\ Active(co[c]) /\ Sent(c) /\ t \in transit
      /\ transit' = transit \ {t} /\ UNCHANGED <<issued, faults>>
      /\ results \in Seq(Result) /\ results' \in Seq(Result) /\ results' = Append(results, r)
      /\ co'[c] = Fresh(co[c].counter, co[c].queue)
      /\ \A d \in Coordinators : d = c
  <2>1. IInv /\ TypeOK /\ TypeOK' /\ FreshOK(c) /\ \A d \in Coordinators : d = c
    BY DEF MoneyInv, IInv, OneCoordinator
  <2>2. Active(co[c]) /\ Sent(c) /\ t \in transit
    BY PostRoute
  <2>3. StepsAfter(co[c].leg) = 3 /\ TransitAfter(c) = transit \ {t}
    BY DEF StepsAfter, TransitAfter
  <2>4. Return(c, "COMPLETED", 3) /\ transit' = transit \ {t} /\ UNCHANGED <<issued, faults>>
    BY <2>3 DEF Post
  <2>5. results' = Append(results, r) /\ co'[c] = Fresh(co[c].counter, co[c].queue)
    BY <2>1, <2>4 DEF Return, TypeOK
  <2>6. results \in Seq(Result) /\ results' \in Seq(Result)
    BY <2>1 DEF TypeOK
  <2> QED
    BY <2>1, <2>2, <2>4, <2>5, <2>6
<1>2. r \in Result /\ r.id = co[c].cur.id /\ r.order = Order(c) /\ r.steps = 3
  <2>1. r = results'[Len(results) + 1] /\ Len(results) + 1 \in DOMAIN results'
    BY <1>1
  <2> QED
    BY <1>1, <2>1
<1> HIDE DEF r
<1>3. /\ ~ Sent(c)' /\ RouteOK(c)' /\ NewBalOK(c)' /\ Mine(co[c])' = Pending(co[c])'
      /\ ~ Active(co[c])' /\ co'[c].queue = co[c].queue
  BY <1>1, AfterFresh
<1>4. /\ Pending(co[c])' = Pending(co[c]) /\ Pending(co[c]) \subseteq Mine(co[c])
      /\ co[c].cur.id \notin Pending(co[c]) /\ co[c].cur.id \in Mine(co[c])
      /\ t.id = co[c].cur.id
  BY <1>1, <1>3, WorkFacts DEF Pending, Mine, InTransit
<1> HIDE DEF t
<1>5. FreshOK(c)'
  BY <1>1, <1>3, <1>4 DEF FreshOK
<1>6. StepsOK'
  <2>1. /\ Stuck' = Stuck
        /\ \A i \in DOMAIN results' : results'[i] = r \/ \E j \in DOMAIN results : results'[i] = results[j]
    <3>1. {id \in {r.id} : r.steps \in {1, 2} /\ r.order.src \in Customers} = {}
      BY <1>2
    <3> QED
      BY <1>1, <1>2, <3>1, StuckAppend
  <2>2. \A i \in DOMAIN results' : results'[i].id <= issued' /\ results'[i].id \notin Mine(co[c])'
    <3>1. co[c].cur.id <= issued
      BY <1>1, <1>4 DEF IInv, NumbersOK
    <3> QED
      BY <1>1, <1>2, <1>3, <1>4, <2>1, <3>1 DEF MoneyInv, StepsOK
  <2>3. {co[d].cur.id : d \in {e \in Coordinators : Sent(e)}} = {co[c].cur.id}
    BY <1>1
  <2>4. {co[d].cur.id : d \in {e \in Coordinators : Sent(e)}}' = {}
    BY <1>1, <1>3
  <2>5. co[c].cur.id \notin Stuck
    BY <1>4 DEF MoneyInv, StepsOK, Stuck
  <2>6. {x.id : x \in transit'} = {x.id : x \in transit} \ {co[c].cur.id}
    BY <1>1, <1>4 DEF MoneyInv
  <2> QED
    BY <1>1, <2>1, <2>2, <2>3, <2>4, <2>5, <2>6 DEF MoneyInv, StepsOK
<1> QED
  BY <1>1, <1>3, <1>5, <1>6 DEF MoneyInv

-----------------------------------------------------------------------------
(* Theorems                                                                *)

LEMMA InitMoney == Init => MoneyInv
<1> SUFFICES ASSUME Init PROVE MoneyInv
  OBVIOUS
<1>1. \A c \in Coordinators : ~ Active(co[c]) /\ Pending(co[c]) = {} /\ co[c].pc = "idle"
  BY DEF Init, Fresh, Locals, Active, Pending
<1>2. \A c \in Coordinators : Mine(co[c]) = {} /\ ~ Sent(c)
  BY <1>1 DEF Mine, Sent
<1>3. \A c \in Coordinators : FreshOK(c) /\ RouteOK(c) /\ NewBalOK(c)
  BY <1>1, <1>2 DEF FreshOK, RouteOK, NewBalOK
<1>4. StepsOK
  <2>1. transit = {} /\ DOMAIN results = {}
    BY DEF Init
  <2>2. Stuck = {} /\ {co[c].cur.id : c \in {d \in Coordinators : Sent(d)}} = {}
    BY <1>2, <2>1 DEF Stuck
  <2> QED
    BY <2>1, <2>2 DEF StepsOK
<1>5. issued = 0 /\ issued <= MaxTransfers /\ transit = {}
  BY BoundsAssumption DEF Init
<1> QED
  BY <1>3, <1>4, <1>5, InitInv DEF MoneyInv

LEMMA MoneyStep == ASSUME OneCoordinator, MoneyInv, [Next]_vars PROVE MoneyInv'
<1>1. IInv'
  BY NextInv DEF MoneyInv
<1>2. CASE Next
  <2>1. ASSUME NEW c \in Coordinators, Post(c) PROVE MoneyInv'
    BY <1>1, <2>1, PostMoney, DeliverMoney
  <2> QED
    BY <1>1, <1>2, <2>1, SubmitMoney, BeginMoney, FailMoney, RefuseMoney, RecordMoney,
       RestartMoney, ToggleMoney DEF Next
<1>3. CASE UNCHANGED vars
  <2>1. UNCHANGED <<bal, co, results, issued, transit, faults>>
    BY <1>3 DEF vars
  <2>2. /\ \A c \in Coordinators : Mine(co[c])' = Mine(co[c]) /\ Sent(c)' = Sent(c)
        /\ Stuck' = Stuck
    BY <2>1 DEF Stuck, Sent, Active, Mine, Pending, Order
  <2>3. {co[c].cur.id : c \in {d \in Coordinators : Sent(d)}}'
          = {co[c].cur.id : c \in {d \in Coordinators : Sent(d)}}
    BY <2>1, <2>2
  <2>4. StepsOK'
    BY <2>1, <2>2, <2>3 DEF MoneyInv, StepsOK
  <2>5. \A c \in Coordinators : FreshOK(c)' /\ RouteOK(c)' /\ NewBalOK(c)'
    BY <2>1 DEF MoneyInv, FreshOK, RouteOK, NewBalOK, Sent, Active, Mine, Pending, Order, InTransit
  <2> QED
    BY <1>1, <2>1, <2>4, <2>5 DEF MoneyInv
<1> QED
  BY <1>2, <1>3

THEOREM MoneyInvariance == ASSUME OneCoordinator PROVE Spec => []MoneyInv
<1>1. MoneyInv /\ [Next]_vars => MoneyInv'
  BY MoneyStep
<1> QED
  BY <1>1, InitMoney, PTL DEF Spec

(* One coordinator at a time, no restart: between transfers, the transfers *)
(* whose result has steps_completed 1 or 2 are exactly those whose money   *)
(* was taken and not delivered, whatever was refused or raised.            *)
THEOREM StepsSayWhatIsOnItsWay == ASSUME OneCoordinator PROVE Spec => []StepsTellTransit
<1>1. MoneyInv => StepsTellTransit
  <2>1. ASSUME MoneyInv, Quiet, faults.restarts = 0 PROVE {t.id : t \in transit} = Stuck
    <3>1. \A c \in Coordinators : ~ Sent(c)
      BY <2>1 DEF Quiet, Sent, Active
    <3>2. {co[c].cur.id : c \in {d \in Coordinators : Sent(d)}} = {}
      BY <3>1
    <3> QED
      BY <2>1, <3>2 DEF MoneyInv, StepsOK
  <2> QED
    BY <2>1 DEF StepsTellTransit
<1> QED
  BY <1>1, MoneyInvariance, PTL

-----------------------------------------------------------------------------
(* The customers' side of the network                                      *)

Money == [a \in Customers |-> bal[a]]
Payments ==
    [id : 1 .. MaxTransfers, src : Customers, dst : {p.dst : p \in Orders}, amt : {p.amt : p \in Orders}]

(* What one posting does to it.                                            *)
LEMMA SendsOrDelivers ==
    ASSUME OneCoordinator, MoneyInv, NEW c \in Coordinators, Post(c)
    PROVE  \/ \E r \in Payments : R!Send(r) \/ (R!Deliver(r) /\ r.dst \in Customers)
           \/ Money' = Money /\ transit' = transit
<1> DEFINE o == Order(c)
           k == co[c].leg
           a == LegAccount(o, k)
           t == InTransit(c)
<1>1. /\ IInv /\ Active(co[c]) /\ k \in Legs /\ o \in Orders /\ o.amt \in Nat /\ a \in Accounts
      /\ co[c].pc = "post" /\ bal \in [Accounts -> Int] /\ NewBalOK(c) /\ FreshOK(c)
      /\ bal' = [bal EXCEPT ![a] = co[c].newbal] /\ transit' = TransitAfter(c)
  BY PostRoute DEF MoneyInv, IInv, TypeOK, Post
<1>2. /\ co[c].cur.id \in 1 .. MaxTransfers
      /\ t.id = co[c].cur.id /\ t.src = o.src /\ t.dst = o.dst /\ t.amt = o.amt
  BY <1>1, WorkFacts DEF FreshOK, InTransit
<1>3. IF LegType(k) = "D" THEN co[c].newbal = bal[a] + o.amt
      ELSE co[c].newbal = bal[a] - o.amt /\ bal[a] >= o.amt
  BY <1>1 DEF NewBalOK
<1>4. \A x \in Customers : x \in Accounts
  BY DEF Customers
<1>5. o.src \in Customers => t \in Payments
  BY <1>1, <1>2 DEF InTransit, Payments
<1> HIDE DEF t
<1>6. CASE a \notin Customers
  <2>1. Money' = Money
    BY <1>1, <1>4, <1>6 DEF Money
  <2>2. transit' = transit
    <3>1. k # 4 /\ (k = 1 => o.src \notin Customers)
      BY <1>6, PostRoute
    <3> QED
      BY <1>1, <3>1 DEF TransitAfter
  <2> QED
    BY <2>1, <2>2
<1>7. CASE k = 1 /\ a \in Customers
  <2>1. a = o.src /\ LegType(k) = "W"
    BY <1>7, PostRoute DEF LegType
  <2>2. transit' = transit \cup {t}
    BY <1>1, <1>7, <2>1 DEF TransitAfter, t
  <2>3. \A x \in transit : x.id # t.id
    BY <1>1, <1>2, <1>7 DEF FreshOK
  <2>4. Money[t.src] >= t.amt /\ Money' = [Money EXCEPT ![t.src] = @ - t.amt]
    BY <1>1, <1>2, <1>3, <1>4, <1>7, <2>1 DEF Money
  <2>5. PICK r \in Payments : r = t
    BY <1>5, <1>7, <2>1
  <2>6. R!Send(r)
    BY <2>2, <2>3, <2>4, <2>5 DEF R!Send, Money
  <2> QED
    BY <2>6
<1>8. CASE k = 4
  <2>1. a = o.dst /\ LegType(k) = "D" /\ o.src \in Customers /\ o.dst \in Customers /\ t \in transit
    BY <1>8, PostRoute DEF LegType, t
  <2>2. transit' = transit \ {t}
    BY <1>1, <1>8 DEF TransitAfter, t
  <2>3. Money' = [Money EXCEPT ![t.dst] = @ + t.amt]
    BY <1>1, <1>2, <1>3, <1>4, <2>1 DEF Money
  <2>4. PICK r \in Payments : r = t
    BY <1>5, <2>1
  <2>5. R!Deliver(r)
    BY <2>1, <2>2, <2>3, <2>4 DEF R!Deliver, Money
  <2> QED
    BY <1>2, <2>1, <2>4, <2>5
<1> QED
  BY <1>1, <1>6, <1>7, <1>8, PostRoute DEF Legs

LEMMA MoneyMoves ==
    ASSUME OneCoordinator, MoneyInv, [Next]_vars
    PROVE  \/ \E r \in Payments : R!Send(r) \/ (R!Deliver(r) /\ r.dst \in Customers)
           \/ Money' = Money /\ transit' = transit
<1>1. ASSUME bal' = bal, transit' = transit
      PROVE  Money' = Money /\ transit' = transit
  BY <1>1 DEF Money
<1>2. ASSUME UNCHANGED vars
      PROVE  Money' = Money /\ transit' = transit
  BY <1>2 DEF vars, Money
<1> QED
  BY <1>1, <1>2, SendsOrDelivers DEF Next, Submit, Begin, Unaddressed, Refuse, Record, Raise,
     Restart, ToggleFrozen

(* Every step of settlement is, for the customers' accounts and the money  *)
(* on its way, a remittance sent or delivered, or nothing.                 *)
THEOREM SettlementImplementsRemittance == ASSUME OneCoordinator PROVE Spec => ImplementsRemittance
<1>1. Init => R!Init
  BY DEF Init, R!Init, Customers
<1>2. MoneyInv /\ [Next]_vars => [R!Next]_<<Money, transit>>
  <2>1. ASSUME NEW r \in Payments, R!Send(r) \/ R!Deliver(r)
        PROVE  R!Next
    BY <2>1, Zenon DEF R!Next, Payments
  <2> QED
    BY <2>1, MoneyMoves
<1> QED
  BY <1>1, <1>2, MoneyInvariance, PTL DEF Spec, ImplementsRemittance, R!Spec, Money

-----------------------------------------------------------------------------
(* The account of it                                                       *)
(* What is on its way, as a sum of the library.                            *)
LEMMA TransitSum ==
    ASSUME NEW T, IsFiniteSet(T)
    PROVE  OnItsWay(T) = SumFunctionOnSet([t \in T |-> t.amt], T)
<1> DEFINE w == [t \in T |-> t.amt]
           it == CHOOSE g : g = [s \in SUBSET T |-> IF s = {} THEN 0 ELSE (CHOOSE x \in s : TRUE).amt + g[s \ {CHOOSE x \in s : TRUE}]]
<1>1. OnItsWay(T) = it[T]
  BY DEF OnItsWay, MapThenSumSet, MapThenFoldSet
<1>2. ASSUME NEW g
      PROVE  PartialSums(w, T, g) <=>
               g = [s \in SUBSET T |-> IF s = {} THEN 0 ELSE (CHOOSE x \in s : TRUE).amt + g[s \ {CHOOSE x \in s : TRUE}]]
  <2>1. ASSUME NEW s \in SUBSET T
        PROVE  (IF s = {} THEN 0 ELSE w[FirstOf(s)] + g[s \ {FirstOf(s)}])
                 = (IF s = {} THEN 0 ELSE FirstOf(s).amt + g[s \ {FirstOf(s)}])
    <3>1. CASE s = {}
      BY <3>1
    <3>2. CASE s # {}
      <4>1. FirstOf(s) \in T
        BY <3>2 DEF FirstOf
      <4>2. w[FirstOf(s)] = FirstOf(s).amt
        BY <4>1
      <4> HIDE DEF w
      <4> QED
       BY <3>2, <4>2
    <3> QED
     BY <3>1, <3>2
  <2>2. [s \in SUBSET T |-> IF s = {} THEN 0 ELSE w[FirstOf(s)] + g[s \ {FirstOf(s)}]]
          = [s \in SUBSET T |-> IF s = {} THEN 0 ELSE FirstOf(s).amt + g[s \ {FirstOf(s)}]]
    <3> HIDE DEF w
    <3> QED
     BY <2>1, Zenon
  <2> HIDE DEF w
  <2> QED
   BY <2>2, Zenon DEF PartialSums, FirstOf
<1>3. PICK h : PartialSums(w, T, h) /\ SumFunctionOnSet(w, T) = h[T]
  BY SumIsTotal
<1>4. PartialSums(w, T, it)
  <2> HIDE DEF w
  <2> QED
   BY <1>2, <1>3, Zenon
<1>5. it[T] = h[T]
  <2> HIDE DEF w, it
  <2> QED
   BY <1>3, <1>4, PartialSumsAgree
<1> QED
 BY <1>1, <1>3, <1>5

(* It changes by what is put on its way or taken off.                      *)
LEMMA TransitGrows ==
    ASSUME NEW T, IsFiniteSet(T), \A t \in T : t.amt \in Int, NEW x, x \notin T, x.amt \in Int
    PROVE  /\ OnItsWay(T) \in Int
           /\ IsFiniteSet(T \cup {x}) /\ OnItsWay(T \cup {x}) = OnItsWay(T) + x.amt
<1> DEFINE U == T \cup {x}
           w == [t \in T |-> t.amt]
           v == [t \in U |-> t.amt]
<1>1. IsFiniteSet(U) /\ U \ {x} = T /\ x \in U
  BY FS_AddElement
<1>2. /\ \A t \in T : w[t] \in Int /\ v[t] = w[t]
      /\ \A t \in U : v[t] \in Int
      /\ v[x] = x.amt
  OBVIOUS
<1>3. OnItsWay(T) = SumFunctionOnSet(w, T) /\ OnItsWay(U) = SumFunctionOnSet(v, U)
  BY <1>1, TransitSum
<1> HIDE DEF U, w, v
<1>4. SumFunctionOnSet(v, U) = x.amt + SumFunctionOnSet(v, T)
  <2>1. SumFunctionOnSet(v, U) = v[x] + SumFunctionOnSet(v, U \ {x})
    BY <1>1, <1>2, SumSplit
  <2> QED
    BY <1>1, <1>2, <2>1
<1>5. SumFunctionOnSet(w, T) = SumFunctionOnSet(v, T) /\ SumFunctionOnSet(w, T) \in Int
  <2>1. SumFunctionOnSet(w, T) = SumFunctionOnSet(v, T)
    BY <1>2, SumSame
  <2>2. SumFunctionOnSet(w, T) \in Int
    BY <1>2, SumSplit
  <2> QED
    BY <2>1, <2>2
<1>6. OnItsWay(T) \in Int /\ OnItsWay(U) = OnItsWay(T) + x.amt
  <2> DEFINE n == SumFunctionOnSet(w, T)
  <2>1. n \in Int /\ OnItsWay(T) = n /\ OnItsWay(U) = x.amt + n
    BY <1>3, <1>4, <1>5
  <2> HIDE DEF n
  <2> QED
    BY <2>1
<1> QED
  BY <1>1, <1>6 DEF U

LEMMA MoneySums ==
    ASSUME TypeOK, TypeOK', NEW a \in Customers, NEW d \in Int, Money' = [Money EXCEPT ![a] = @ + d]
    PROVE  SumFunction(Money) \in Int /\ SumFunction(Money') = SumFunction(Money) + d
<1>1. IsFiniteSet(Customers)
  <2>1. Customers \in SUBSET Accounts
    BY DEF Customers
  <2> QED
    BY <2>1, NetworkAssumption, FS_Subset
<1>2. Money \in [Customers -> Int] /\ Money' \in [Customers -> Int]
  BY DEF TypeOK, Customers, Money
<1> DEFINE w == Money
           v == Money'
<1>3. /\ w \in [Customers -> Int] /\ v \in [Customers -> Int] /\ v[a] = w[a] + d
      /\ \A x \in Customers \ {a} : w[x] = v[x]
  BY <1>2
<1>4. DOMAIN Money = Customers /\ DOMAIN Money' = Customers
  BY DEF Money
<1>5. SumFunction(Money) = SumFunctionOnSet(w, Customers) /\ SumFunction(Money') = SumFunctionOnSet(v, Customers)
  BY <1>4 DEF SumFunction
<1> HIDE DEF w, v
<1>6. SumFunctionOnSet(w, Customers) \in Int
  BY <1>1, <1>3, SumSplit
<1>7. SumFunctionOnSet(v, Customers) = SumFunctionOnSet(w, Customers) - w[a] + v[a]
  BY <1>1, <1>3, SumChange
<1> QED
  BY <1>3, <1>5, <1>6, <1>7

(* A remittance sent or delivered takes from one side of the account what  *)
(* it gives to the other.                                                  *)
AccountInv == IsFiniteSet(transit) /\ MoneyAccounted

LEMMA AccountStep ==
    ASSUME TypeOK, TypeOK', AccountInv, NEW r \in Payments,
           R!Send(r) \/ (R!Deliver(r) /\ r.dst \in Customers)
    PROVE  AccountInv'
<1>1. /\ \A t \in transit : t.amt \in Int
      /\ r.src \in Customers /\ r.amt \in Int /\ - r.amt \in Int
  BY OrdersAssumption DEF TypeOK, Remittance, Payments
<1>2. IsFiniteSet(transit) /\ SumFunction(Money) + OnItsWay(transit) = SumFunction([a \in Customers |-> Opening[a]])
  BY DEF AccountInv, MoneyAccounted, Money
<1>3. CASE R!Send(r)
  <2>1. r \notin transit /\ transit' = transit \cup {r} /\ Money' = [Money EXCEPT ![r.src] = @ - r.amt]
    BY <1>3, Zenon DEF R!Send, Money
  <2>2. Money' = [Money EXCEPT ![r.src] = @ + (- r.amt)]
    <3>1. Money[r.src] \in Int
      BY <1>1 DEF TypeOK, Money, Customers
    <3>2. Money[r.src] - r.amt = Money[r.src] + (- r.amt)
      BY <1>1, <3>1
    <3> QED
      BY <2>1, <3>2, Zenon
  <2>3. SumFunction(Money) \in Int /\ SumFunction(Money') = SumFunction(Money) + (- r.amt)
    BY <1>1, <2>2, MoneySums
  <2>4. /\ OnItsWay(transit) \in Int /\ IsFiniteSet(transit')
        /\ OnItsWay(transit') = OnItsWay(transit) + r.amt
    BY <1>1, <1>2, <2>1, TransitGrows
  <2>5. SumFunction(Money') + OnItsWay(transit') = SumFunction([a \in Customers |-> Opening[a]])
    BY <1>1, <1>2, <2>3, <2>4
  <2> QED
    BY <2>4, <2>5 DEF AccountInv, MoneyAccounted, Money
<1>4. CASE R!Deliver(r) /\ r.dst \in Customers
  <2> DEFINE left == transit \ {r}
  <2>1. r \in transit /\ transit' = left /\ Money' = [Money EXCEPT ![r.dst] = @ + r.amt]
    BY <1>4, Zenon DEF R!Deliver, Money
  <2>2. SumFunction(Money) \in Int /\ SumFunction(Money') = SumFunction(Money) + r.amt
    BY <1>1, <1>4, <2>1, MoneySums
  <2>3. left \cup {r} = transit /\ r \notin left /\ IsFiniteSet(left) /\ \A t \in left : t.amt \in Int
    BY <1>1, <1>2, <2>1, FS_RemoveElement
  <2> HIDE DEF left
  <2>4. OnItsWay(left) \in Int /\ OnItsWay(transit) = OnItsWay(left) + r.amt
    BY <1>1, <2>3, TransitGrows
  <2>5. SumFunction(Money') + OnItsWay(transit') = SumFunction([a \in Customers |-> Opening[a]])
    BY <1>1, <1>2, <2>1, <2>2, <2>4
  <2> QED
    BY <2>1, <2>3, <2>5 DEF AccountInv, MoneyAccounted, Money
<1> QED
  BY <1>3, <1>4

(* With one coordinator at a time the customers' money is accounted for:   *)
(* what their accounts lack is what is on its way, to the cent, whatever   *)
(* is refused or raises and wherever the process ends.                     *)
THEOREM MoneyIsAccounted == ASSUME OneCoordinator PROVE Spec => []MoneyAccounted
<1>1. Init => AccountInv
  <2> SUFFICES ASSUME Init PROVE AccountInv
    OBVIOUS
  <2>1. transit = {} /\ bal = Opening
    BY DEF Init
  <2>2. OnItsWay({}) = 0
    <3>1. OnItsWay({}) = SumFunctionOnSet([t \in {} |-> t.amt], {})
      BY FS_EmptySet, TransitSum
    <3>2. SumFunctionOnSet([t \in {} |-> t.amt], {}) = 0
      BY FS_EmptySet, SumSplit
    <3> QED
      BY <3>1, <3>2
  <2>3. SumFunction([a \in Customers |-> Opening[a]]) \in Int
    <3> DEFINE w == [a \in Customers |-> Opening[a]]
    <3>1. Customers \in SUBSET Accounts
      BY DEF Customers
    <3>2. IsFiniteSet(Customers) /\ \A a \in Customers : w[a] \in Int
      BY <3>1, NetworkAssumption, FS_Subset
    <3>3. SumFunction(w) = SumFunctionOnSet(w, Customers)
      BY DEF SumFunction
    <3> HIDE DEF w
    <3>4. SumFunction(w) \in Int
      BY <3>2, <3>3, SumSplit
    <3> QED
      BY <3>4 DEF w
  <2>4. MoneyAccounted
    BY <2>1, <2>2, <2>3 DEF MoneyAccounted
  <2> QED
    BY <2>1, <2>4, FS_EmptySet DEF AccountInv
<1>2. AccountInv /\ MoneyInv /\ MoneyInv' /\ [Next]_vars => AccountInv'
  <2> SUFFICES ASSUME AccountInv, MoneyInv, MoneyInv', [Next]_vars PROVE AccountInv'
    OBVIOUS
  <2>1. TypeOK /\ TypeOK'
    BY DEF MoneyInv, IInv
  <2>2. ASSUME Money' = Money, transit' = transit
        PROVE  AccountInv'
    BY <2>2 DEF AccountInv, MoneyAccounted, Money
  <2> QED
    BY <2>1, <2>2, MoneyMoves, AccountStep
<1>3. AccountInv => MoneyAccounted
  BY DEF AccountInv
<1> QED
  BY <1>1, <1>2, <1>3, MoneyInvariance, PTL DEF Spec

-----------------------------------------------------------------------------
(* Reports: references                                                     *)

LEMMA QuietRefs ==
    ASSUME ReferencesOK, UNCHANGED <<log, results>>, faults'.restarts = faults.restarts,
           \A d \in Coordinators :
               /\ co'[d].counter = co[d].counter
               /\ Active(co[d])' => Active(co[d]) /\ co'[d].cur = co[d].cur
    PROVE  ReferencesOK'
<1> SUFFICES ASSUME faults'.restarts = 0
             PROVE  /\ \A d \in Coordinators : RefsOK(d)'
                    /\ \A i \in DOMAIN results : RefersTo(results[i].ref, results[i].id)
  BY DEF ReferencesOK, RefersTo
<1> QED
  BY DEF ReferencesOK, RefsOK, RefersTo

LEMMA ReturnRefs ==
    ASSUME MoneyInv, MoneyInv', ReferencesOK, OneCoordinator, NEW c \in Coordinators, Active(co[c]),
           NEW status, NEW n, Return(c, status, n), UNCHANGED log, faults'.restarts = faults.restarts
    PROVE  ReferencesOK'
<1> DEFINE r == [id |-> co[c].cur.id, order |-> Order(c), ref |-> co[c].counter,
                 status |-> status, steps |-> n]
<1>1. /\ co'[c] = Fresh(co[c].counter, co[c].queue) /\ \A d \in Coordinators : d = c
      /\ results \in Seq(Result) /\ results' = Append(results, r)
      /\ r.ref = co[c].counter /\ r.id = co[c].cur.id
  BY DEF MoneyInv, IInv, TypeOK, Return, OneCoordinator
<1> HIDE DEF r
<1>2. \A i \in DOMAIN results' : results'[i] = r \/ \E j \in DOMAIN results : results'[i] = results[j]
  BY <1>1
<1>3. co'[c].counter = co[c].counter /\ co[c].counter \in Nat /\ ~ Active(co[c])'
  <2>1. co'[c].counter = co[c].counter /\ co'[c].pc = "idle"
    BY <1>1 DEF Fresh, Locals
  <2> QED
    BY <2>1, CoordinatorFields DEF MoneyInv, IInv, Active
<1> SUFFICES ASSUME faults'.restarts = 0
             PROVE  RefsOK(c)' /\ \A i \in DOMAIN results' : RefersTo(results'[i].ref, results'[i].id)
  BY <1>1 DEF ReferencesOK, RefersTo
<1>4. RefsOK(c) /\ \A i \in DOMAIN results : RefersTo(results[i].ref, results[i].id)
  BY DEF ReferencesOK
<1>5. RefersTo(r.ref, r.id)
  BY <1>1, <1>4 DEF RefsOK
<1> QED
  BY <1>1, <1>2, <1>3, <1>4, <1>5 DEF RefsOK

LEMMA BeginRefs ==
    ASSUME MoneyInv, ReferencesOK, OneCoordinator, NEW c \in Coordinators, Begin(c)
    PROVE  ReferencesOK'
<1> DEFINE q == co[c].queue
<1>1. /\ q \in Seq(Item) /\ q # <<>> /\ co[c].counter \in Nat
      /\ co'[c] = Locals("leg", co[c].counter + 1, Tail(q), Head(q), 1, 0, 0)
      /\ \A d \in Coordinators : d = c
      /\ UNCHANGED <<log, results, faults>>
      /\ NumbersOK(co[c])
      /\ log \in Seq(LogEntry) /\ results \in Seq(Result)
  BY CoordinatorFields DEF MoneyInv, IInv, TypeOK, Begin, OneCoordinator
<1>2. co'[c].counter = co[c].counter + 1 /\ co'[c].cur = Head(q)
  BY <1>1 DEF Locals
<1>3. \A j \in DOMAIN log : log[j].id # Head(q).id
  <2>1. Head(q).id \in Pending(co[c])
    <3>1. 1 \in DOMAIN q /\ q[1] = Head(q)
      BY <1>1
    <3> QED
      BY <3>1 DEF Pending
  <2> QED
    BY <1>1, <2>1 DEF NumbersOK
<1> SUFFICES ASSUME faults'.restarts = 0
             PROVE  RefsOK(c)' /\ \A i \in DOMAIN results : RefersTo(results[i].ref, results[i].id)
  BY <1>1 DEF ReferencesOK, RefersTo
<1>4. RefsOK(c) /\ \A i \in DOMAIN results : RefersTo(results[i].ref, results[i].id)
  BY <1>1 DEF ReferencesOK
<1>5. /\ \A i \in DOMAIN log : log[i].ref \in Nat /\ log[i].ref <= co[c].counter
      /\ \A i \in DOMAIN results : results[i].ref \in Nat /\ results[i].ref <= co[c].counter
  <2>1. /\ \A i \in DOMAIN log : log[i] \in LogEntry
        /\ \A i \in DOMAIN results : results[i] \in Result
    BY <1>1
  <2>2. /\ \A i \in DOMAIN log : log[i].ref \in Nat
        /\ \A i \in DOMAIN results : results[i].ref \in Nat
    BY <2>1 DEF LogEntry, Result
  <2> QED
    BY <1>4, <2>2 DEF RefsOK
<1>6. RefersTo(co[c].counter + 1, Head(q).id)
  BY <1>1, <1>3, <1>5 DEF RefersTo
<1> HIDE DEF q
<1>7. RefsOK(c)'
  <2>1. RefersTo(co[c].counter, co[c].cur.id)'
    BY <1>1, <1>2, <1>6 DEF RefersTo
  <2>2. \A i \in DOMAIN log : log[i].ref <= co[c].counter + 1
    BY <1>1, <1>5
  <2>3. \A i \in DOMAIN results : results[i].ref <= co[c].counter + 1 /\ results[i].ref # co[c].counter + 1
    BY <1>1, <1>5
  <2> QED
    BY <1>1, <1>2, <2>1, <2>2, <2>3 DEF RefsOK
<1> QED
  BY <1>4, <1>7

LEMMA LogAppend ==
    ASSUME IInv, NEW c \in Coordinators, Record(c)
    PROVE  \E e : /\ log' = Append(log, e)
                 /\ e.id = co[c].cur.id /\ e.leg = co[c].leg /\ e.ref = co[c].counter
                 /\ e.mark = Mark(co[c].leg)
                 /\ DOMAIN log' = DOMAIN log \cup {Len(log) + 1}
                 /\ log'[Len(log) + 1] = e
                 /\ \A i \in DOMAIN log : i # Len(log) + 1 /\ log'[i] = log[i]
<1> DEFINE e == [id |-> co[c].cur.id, leg |-> co[c].leg, ref |-> co[c].counter, mark |-> Mark(co[c].leg),
                 node |-> LegNode(Order(c), co[c].leg), acct |-> LegAccount(Order(c), co[c].leg),
                 amt |-> Order(c).amt]
<1>1. /\ log' = Append(log, e) /\ log \in Seq(LogEntry)
      /\ e.id = co[c].cur.id /\ e.leg = co[c].leg /\ e.ref = co[c].counter
      /\ e.mark = Mark(co[c].leg)
  BY DEF Record, IInv, TypeOK
<1> HIDE DEF e
<1> QED
  BY <1>1

LEMMA RecordRefs ==
    ASSUME MoneyInv, ReferencesOK, OneCoordinator, NEW c \in Coordinators, Record(c)
    PROVE  ReferencesOK'
<1>1. PICK e : /\ log' = Append(log, e)
               /\ e.id = co[c].cur.id /\ e.ref = co[c].counter
               /\ DOMAIN log' = DOMAIN log \cup {Len(log) + 1}
               /\ log'[Len(log) + 1] = e
               /\ \A i \in DOMAIN log : i # Len(log) + 1 /\ log'[i] = log[i]
  BY LogAppend DEF MoneyInv
<1>2. /\ IInv /\ Active(co[c]) /\ co[c].counter \in Nat /\ UNCHANGED <<results, faults>>
      /\ \A d \in Coordinators : d = c
      /\ \A i \in DOMAIN results : results[i].id \notin Mine(co[c])
      /\ co[c].cur.id \in Mine(co[c])
  <2>1. IInv /\ Active(co[c])
    BY DEF MoneyInv, Record, Active
  <2> QED
    BY <2>1, WorkFacts, CoordinatorFields DEF MoneyInv, IInv, StepsOK, Record, OneCoordinator
<1>3. co'[c].counter = co[c].counter /\ co'[c].cur = co[c].cur
  <2>1. PICK newbal : Proceed(c, "post", co[c].leg, newbal, co[c].steps)
    BY DEF Record
  <2>2. co'[c] = Locals("post", co[c].counter, co[c].queue, co[c].cur, co[c].leg, newbal, co[c].steps)
    BY <1>2, <2>1 DEF Proceed, IInv, TypeOK
  <2> QED
    BY <2>2 DEF Locals
<1> SUFFICES ASSUME faults'.restarts = 0
             PROVE  RefsOK(c)' /\ \A i \in DOMAIN results : RefersTo(results[i].ref, results[i].id)'
  BY <1>2 DEF ReferencesOK, RefersTo
<1>4. RefsOK(c) /\ \A i \in DOMAIN results : RefersTo(results[i].ref, results[i].id)
  BY <1>2 DEF ReferencesOK
<1>5. RefersTo(co[c].counter, co[c].cur.id) /\ \A i \in DOMAIN results : results[i].ref # co[c].counter
  BY <1>2, <1>4 DEF RefsOK
<1>6. ASSUME NEW i \in DOMAIN results
      PROVE  RefersTo(results[i].ref, results[i].id)'
  <2>1. e.ref # results[i].ref /\ e.id # results[i].id
    BY <1>1, <1>2, <1>5
  <2>2. RefersTo(results[i].ref, results[i].id)
    BY <1>4
  <2> QED
    BY <1>1, <1>2, <2>1, <2>2 DEF RefersTo
<1>7. RefersTo(co[c].counter, co[c].cur.id)'
  BY <1>1, <1>3, <1>5 DEF RefersTo
<1>8. RefsOK(c)'
  BY <1>1, <1>2, <1>3, <1>4, <1>5, <1>7 DEF RefsOK
<1> QED
  BY <1>6, <1>8

-----------------------------------------------------------------------------
(* Reports: positions                                                      *)

LEMMA CountedType ==
    ASSUME NEW r, r.order \in Orders, NEW b
    PROVE  Counted(r, b) \in Int
<1>1. r.order.amt \in Nat
  BY OrdersAssumption
<1> QED
  BY <1>1 DEF Counted

(* A result that is returned adds what it counts for.                      *)
LEMMA PositionAppend ==
    ASSUME results \in Seq(Result), results' \in Seq(Result), NEW r, results' = Append(results, r), NEW b
    PROVE  /\ NostroPosition(b) \in Int
           /\ NostroPosition(b)' = NostroPosition(b) + Counted(r, b)
<1> DEFINE n == Len(results)
           w == [i \in DOMAIN results |-> Counted(results[i], b)]
           v == [i \in DOMAIN results' |-> Counted(results'[i], b)]
<1>1. /\ n \in Nat /\ DOMAIN results = 1 .. n /\ DOMAIN results' = 1 .. n + 1
      /\ results'[n + 1] = r
      /\ \A i \in 1 .. n : results'[i] = results[i]
  OBVIOUS
<1>2. \A i \in 1 .. n + 1 : results'[i].order \in Orders
  <2>1. \A i \in 1 .. n + 1 : results'[i] \in Result
    BY <1>1
  <2> QED
    BY <2>1 DEF Result
<1>3. \A i \in 1 .. n + 1 : v[i] = Counted(results'[i], b) /\ v[i] \in Int
  BY <1>1, <1>2, CountedType
<1>4. \A i \in 1 .. n : w[i] = v[i]
  BY <1>1
<1>5. v[n + 1] = Counted(r, b)
  BY <1>1, <1>3
<1>6. NostroPosition(b) = SumFunctionOnSet(w, 1 .. n) /\ NostroPosition(b)' = SumFunctionOnSet(v, 1 .. n + 1)
  <2>1. DOMAIN w = 1 .. n /\ DOMAIN v = 1 .. n + 1
    BY <1>1
  <2>2. NostroPosition(b) = SumFunction(w) /\ NostroPosition(b)' = SumFunction(v)
    BY DEF NostroPosition
  <2> HIDE DEF w, v, n
  <2> QED
    BY <2>1, <2>2 DEF SumFunction
<1>7. n \in Nat /\ \A i \in 1 .. n + 1 : v[i] \in Int
  BY <1>1, <1>3
<1> HIDE DEF w, v, n
<1>8. /\ SumFunctionOnSet(w, 1 .. n) \in Int
      /\ SumFunctionOnSet(v, 1 .. n + 1) = SumFunctionOnSet(w, 1 .. n) + v[n + 1]
  BY <1>4, <1>7, SumAppend
<1> QED
  BY <1>5, <1>6, <1>8

LEMMA NostroFacts ==
    ASSUME TypeOK, NEW b \in Banks
    PROVE  /\ Nostro[b] \in Accounts /\ bal[Nostro[b]] \in Int /\ Opening[Nostro[b]] \in Int
           /\ NodeOf[Nostro[b]] \notin Banks
           /\ NostroPosition(b) \in Int
<1>1. Nostro[b] \in Accounts /\ bal[Nostro[b]] \in Int /\ Opening[Nostro[b]] \in Int /\ NodeOf[Nostro[b]] \notin Banks
  BY NetworkAssumption DEF TypeOK
<1> DEFINE S == DOMAIN results
           w == [i \in DOMAIN results |-> Counted(results[i], b)]
<1>2. IsFiniteSet(S)
  BY FS_Interval DEF TypeOK
<1>3. \A i \in S : w[i] \in Int
  <2>1. \A i \in DOMAIN results : results[i] \in Result
    BY DEF TypeOK
  <2>2. \A i \in DOMAIN results : results[i].order \in Orders
    BY <2>1 DEF Result
  <2> QED
    BY <2>2, CountedType
<1>4. NostroPosition(b) = SumFunctionOnSet(w, S)
  <2>1. NostroPosition(b) = SumFunction(w) /\ DOMAIN w = S
    BY DEF NostroPosition
  <2> HIDE DEF w, S
  <2> QED
    BY <2>1 DEF SumFunction
<1> HIDE DEF w, S
<1>5. NostroPosition(b) \in Int
  BY <1>2, <1>3, <1>4, SumSplit
<1> QED
  BY <1>1, <1>5

LEMMA AtWorkType ==
    ASSUME IInv, NEW c \in Coordinators, Active(co[c]), NEW b
    PROVE  AtWork(c, b) \in Int
  BY WorkFacts DEF AtWork

(* A transfer ends: what it has put into a nostro account is what its      *)
(* result counts for, if the result is an orderly one.                     *)
LEMMA ReturnPositions ==
    ASSUME MoneyInv, MoneyInv', PositionsOK, OneCoordinator, NEW c \in Coordinators, Active(co[c]),
           NEW status, NEW n, Return(c, status, n), UNCHANGED log, faults'.restarts = faults.restarts,
           NEW r, r = [id |-> co[c].cur.id, order |-> Order(c), ref |-> co[c].counter,
                       status |-> status, steps |-> n],
           \A b \in Banks : Orderly(r) =>
               bal'[Nostro[b]] = bal[Nostro[b]] /\ Counted(r, b) = AtWork(c, b)
    PROVE  PositionsOK'
<1>1. /\ results \in Seq(Result) /\ results' \in Seq(Result) /\ results' = Append(results, r)
      /\ \A d \in Coordinators : d = c
      /\ ~ Active(co[c])' /\ TypeOK /\ TypeOK' /\ IInv
  <2>1. /\ results \in Seq(Result) /\ results' \in Seq(Result) /\ results' = Append(results, r)
        /\ \A d \in Coordinators : d = c
        /\ TypeOK /\ TypeOK' /\ IInv
        /\ co'[c] = Fresh(co[c].counter, co[c].queue)
    BY DEF MoneyInv, IInv, TypeOK, Return, OneCoordinator
  <2>2. co'[c].pc = "idle"
    BY <2>1 DEF Fresh, Locals
  <2> QED
    BY <2>1, <2>2 DEF Active
<1> SUFFICES ASSUME faults'.restarts = 0, (\A i \in DOMAIN results : Orderly(results[i]))'
             PROVE  NostrosOK'
  BY DEF PositionsOK
<1>2. Orderly(r) /\ \A i \in DOMAIN results : Orderly(results[i])
  <2>1. \A i \in DOMAIN results' : Orderly(results'[i])
    BY DEF Orderly, Recorded
  <2>2. /\ Len(results) + 1 \in DOMAIN results' /\ results'[Len(results) + 1] = r
        /\ \A i \in DOMAIN results : i \in DOMAIN results' /\ results'[i] = results[i]
    BY <1>1
  <2>3. \A i \in DOMAIN results : Orderly(results[i])
    BY <2>1, <2>2
  <2> QED
    BY <2>1, <2>2, <2>3
<1>3. NostrosOK
  BY <1>2 DEF PositionsOK
<1>4. ASSUME NEW b \in Banks
      PROVE  bal'[Nostro[b]] - Opening[Nostro[b]] - NostroPosition(b)' = 0
  <2>1. bal[Nostro[b]] - Opening[Nostro[b]] - NostroPosition(b) = AtWork(c, b)
    BY <1>3 DEF NostrosOK
  <2>2. NostroPosition(b) \in Int /\ NostroPosition(b)' = NostroPosition(b) + Counted(r, b)
    BY <1>1, PositionAppend
  <2>3. bal'[Nostro[b]] = bal[Nostro[b]] /\ Counted(r, b) = AtWork(c, b)
    BY <1>2
  <2>4. AtWork(c, b) \in Int /\ bal[Nostro[b]] \in Int /\ Opening[Nostro[b]] \in Int
    BY <1>1, AtWorkType, NostroFacts
  <2> QED
    BY <2>1, <2>2, <2>3, <2>4
<1> QED
  BY <1>1, <1>4 DEF NostrosOK

(* It goes on, and what it puts into a nostro account is at work.          *)
LEMMA ProceedPositions ==
    ASSUME MoneyInv, TypeOK', PositionsOK, OneCoordinator, NEW c \in Coordinators, Active(co[c]), Active(co[c])',
           UNCHANGED results, faults'.restarts = faults.restarts,
           \A i \in DOMAIN results : Orderly(results[i])' => Orderly(results[i]),
           \A b \in Banks : bal'[Nostro[b]] - AtWork(c, b)' = bal[Nostro[b]] - AtWork(c, b),
           \A b \in Banks : AtWork(c, b)' \in Int
    PROVE  PositionsOK'
<1>1. /\ TypeOK /\ IInv /\ \A d \in Coordinators : d = c
  BY DEF MoneyInv, IInv, OneCoordinator
<1> SUFFICES ASSUME faults'.restarts = 0, (\A i \in DOMAIN results : Orderly(results[i]))'
             PROVE  NostrosOK'
  BY DEF PositionsOK
<1>2. NostrosOK
  <2>1. \A i \in DOMAIN results : Orderly(results[i])'
    OBVIOUS
  <2> QED
    BY <2>1 DEF PositionsOK
<1>3. ASSUME NEW b \in Banks
      PROVE  bal'[Nostro[b]] - Opening[Nostro[b]] - NostroPosition(b)' = AtWork(c, b)'
  <2>1. bal[Nostro[b]] - Opening[Nostro[b]] - NostroPosition(b) = AtWork(c, b)
    BY <1>2 DEF NostrosOK
  <2>2. NostroPosition(b)' = NostroPosition(b)
    BY DEF NostroPosition
  <2>3. /\ AtWork(c, b) \in Int /\ bal[Nostro[b]] \in Int /\ Opening[Nostro[b]] \in Int
        /\ NostroPosition(b) \in Int /\ bal'[Nostro[b]] \in Int /\ AtWork(c, b)' \in Int
    BY <1>1, AtWorkType, NostroFacts DEF TypeOK
  <2>4. bal'[Nostro[b]] - AtWork(c, b)' = bal[Nostro[b]] - AtWork(c, b)
    OBVIOUS
  <2> QED
    BY <2>1, <2>2, <2>3, <2>4
<1>4. \A b \in Banks : \A d \in Coordinators : Active(co[d])' =>
          bal'[Nostro[b]] - Opening[Nostro[b]] - NostroPosition(b)' = AtWork(d, b)'
  BY <1>1, <1>3
<1>5. ~ \A d \in Coordinators : ~ Active(co[d])'
  OBVIOUS
<1> QED
  BY <1>4, <1>5 DEF NostrosOK

(* What is recorded of the transfer at work.                               *)
LEMMA RecordedOfWork ==
    ASSUME IInv, NEW c \in Coordinators, co[c].pc = "leg"
    PROVE  \A k \in Legs : k \in Recorded(co[c].cur.id) <=> k < co[c].leg
<1>1. WorkOK(co[c]) /\ Done(co[c]) = co[c].leg - 1 /\ co[c].leg \in Legs
  BY WorkFacts DEF IInv, Active, Done
<1>2. log \in Seq(LogEntry)
  BY DEF IInv, TypeOK
<1>3. ASSUME NEW k \in Legs, k \in Recorded(co[c].cur.id)
      PROVE  k < co[c].leg
  <2>1. PICK i \in DOMAIN log : log[i].id = co[c].cur.id /\ log[i].leg = k
    BY <1>3 DEF Recorded
  <2>2. k <= co[c].leg - 1
    BY <1>1, <2>1 DEF WorkOK
  <2> QED
    BY <1>1, <2>2 DEF Legs
<1>4. ASSUME NEW k \in Legs, k < co[c].leg
      PROVE  k \in Recorded(co[c].cur.id)
  <2>1. k \in 1 .. co[c].leg - 1
    BY <1>1, <1>4 DEF Legs
  <2> QED
    BY <1>1, <2>1 DEF WorkOK, Recorded
<1> QED
  BY <1>3, <1>4

(* An account of a bank is no nostro account.                              *)
LEMMA SourceIsNoNostro ==
    ASSUME MoneyInv, NEW c \in Coordinators, Active(co[c]), co[c].leg > 1, Order(c).from \in Banks, NEW b \in Banks
    PROVE  Order(c).src # Nostro[b]
  BY NostroFacts DEF MoneyInv, RouteOK, IInv

LEMMA RefusePositions ==
    ASSUME MoneyInv, MoneyInv', PositionsOK, OneCoordinator, NEW c \in Coordinators, Refuse(c)
    PROVE  PositionsOK'
<1> DEFINE k == co[c].leg
           status == IF k = 1 THEN "FAILED" ELSE "PARTIAL_FAILURE"
           r == [id |-> co[c].cur.id, order |-> Order(c), ref |-> co[c].counter,
                 status |-> status, steps |-> StepsRefused(k)]
<1>1. /\ Active(co[c]) /\ co[c].pc = "leg" /\ IInv /\ Addressed(Order(c), k)
      /\ Return(c, status, StepsRefused(k)) /\ UNCHANGED <<bal, log, faults>>
  BY DEF Refuse, Active, MoneyInv
<1>2. k \in Legs /\ Order(c).amt \in Nat
  BY <1>1, WorkFacts
<1>3. /\ r.order = Order(c) /\ r.status = status /\ r.steps = StepsRefused(k)
      /\ r.id = co[c].cur.id
  OBVIOUS
<1> HIDE DEF r
<1>4. ASSUME NEW b \in Banks, Orderly(r)
      PROVE  Counted(r, b) = AtWork(c, b)
  <2>1. CASE k = 1
    BY <1>2, <1>3, <2>1 DEF Counted, AtWork, StepsRefused
  <2>2. CASE k = 2
    <3>1. Order(c).src # Nostro[b]
      BY <1>1, <2>2, SourceIsNoNostro DEF Addressed
    <3> QED
      BY <1>2, <1>3, <2>2, <3>1 DEF Counted, AtWork, StepsRefused
  <2>3. CASE k = 3
    <3>1. 2 \in Recorded(r.id) /\ 3 \notin Recorded(r.id)
      BY <1>1, <1>3, <2>3, RecordedOfWork DEF Legs
    <3>2. r.status = "PARTIAL_FAILURE"
      BY <1>3, <2>3
    <3> QED
      BY <1>4, <3>1, <3>2 DEF Orderly
  <2>4. CASE k = 4
    <3>1. Order(c).from \in Banks
      BY <1>1, <2>4 DEF MoneyInv, RouteOK
    <3>2. Order(c).src # Nostro[b]
      BY <1>1, <2>4, <3>1, SourceIsNoNostro
    <3> QED
      BY <1>2, <1>3, <2>4, <3>2 DEF Counted, AtWork, StepsRefused
  <2> QED
    BY <1>2, <2>1, <2>2, <2>3, <2>4 DEF Legs
<1> QED
  <2>1. faults'.restarts = faults.restarts /\ UNCHANGED log
    BY <1>1
  <2>2. \A b \in Banks : Orderly(r) => bal'[Nostro[b]] = bal[Nostro[b]] /\ Counted(r, b) = AtWork(c, b)
    BY <1>1, <1>4
  <2> HIDE DEF status
  <2>3. Return(c, status, StepsRefused(k))
    BY <1>1
  <2> QED
    BY <1>1, <2>1, <2>2, <2>3, ReturnPositions DEF r

LEMMA FailPositions ==
    ASSUME MoneyInv, MoneyInv', PositionsOK, OneCoordinator, NEW c \in Coordinators,
           Unaddressed(c) \/ Raise(c)
    PROVE  PositionsOK'
<1> DEFINE r == [id |-> co[c].cur.id, order |-> Order(c), ref |-> co[c].counter,
                 status |-> "FAILED", steps |-> co[c].steps]
<1>1. /\ Active(co[c]) /\ IInv
      /\ Return(c, "FAILED", co[c].steps) /\ UNCHANGED <<bal, log>>
      /\ faults'.restarts = faults.restarts
  BY DEF Unaddressed, Raise, Active, MoneyInv, IInv, TypeOK
<1>2. /\ co[c].leg \in Legs /\ Order(c).amt \in Nat
      /\ co[c].steps = CASE co[c].leg = 1 -> 0 [] co[c].leg = 4 -> 2 [] OTHER -> 1
  BY <1>1, WorkFacts
<1>3. r.order = Order(c) /\ r.status = "FAILED" /\ r.steps = co[c].steps
  OBVIOUS
<1> HIDE DEF r
<1>4. ASSUME NEW b \in Banks, Orderly(r)
      PROVE  Counted(r, b) = AtWork(c, b)
  <2>1. co[c].leg = 1
    BY <1>2, <1>3, <1>4 DEF Orderly, Legs
  <2> QED
    BY <1>2, <1>3, <2>1 DEF Counted, AtWork
<1> QED
  BY <1>1, <1>4, ReturnPositions DEF r

(* The last posting is at a bank.                                          *)
LEMMA DeliverPositions ==
    ASSUME MoneyInv, MoneyInv', PositionsOK, OneCoordinator, NEW c \in Coordinators, Post(c), co[c].leg = 4
    PROVE  PositionsOK'
<1> DEFINE r == [id |-> co[c].cur.id, order |-> Order(c), ref |-> co[c].counter,
                 status |-> "COMPLETED", steps |-> 3]
<1>1. /\ Active(co[c]) /\ IInv /\ Order(c).amt \in Nat
      /\ Return(c, "COMPLETED", 3) /\ UNCHANGED <<log, faults>>
      /\ bal' = [bal EXCEPT ![Order(c).dst] = co[c].newbal] /\ Order(c).dst \in Customers
  <2>1. StepsAfter(co[c].leg) = 3
    BY DEF StepsAfter
  <2> QED
    BY <2>1, PostRoute DEF Post
<1>2. r.order = Order(c) /\ r.status = "COMPLETED" /\ r.steps = 3
  OBVIOUS
<1> HIDE DEF r
<1>3. ASSUME NEW b \in Banks
      PROVE  bal'[Nostro[b]] = bal[Nostro[b]] /\ Counted(r, b) = AtWork(c, b)
  <2>1. Order(c).dst # Nostro[b] /\ bal \in [Accounts -> Int]
    BY <1>1, NostroFacts DEF Customers, IInv, TypeOK
  <2>2. Order(c).src # Nostro[b]
    <3>1. Order(c).from \in Banks
      BY <1>1 DEF MoneyInv, RouteOK
    <3> QED
      BY <1>1, <3>1, SourceIsNoNostro
  <2>3. Counted(r, b) = AtWork(c, b)
    BY <1>1, <1>2, <2>2 DEF Counted, AtWork
  <2>4. bal'[Nostro[b]] = bal[Nostro[b]]
    BY <1>1, <2>1, NostroFacts DEF IInv
  <2> QED
    BY <2>3, <2>4
<1> QED
  BY <1>1, <1>3, ReturnPositions DEF r

LEMMA PostPositions ==
    ASSUME MoneyInv, MoneyInv', PositionsOK, OneCoordinator, NEW c \in Coordinators, Post(c), co[c].leg # 4
    PROVE  PositionsOK'
<1> DEFINE k == co[c].leg
           o == Order(c)
           a == LegAccount(o, k)
<1>1. /\ Active(co[c]) /\ IInv /\ k \in {1, 2, 3} /\ o.amt \in Nat /\ a \in Accounts
      /\ Proceed(c, "leg", k + 1, 0, StepsAfter(k)) /\ UNCHANGED <<log, faults, results>>
      /\ bal' = [bal EXCEPT ![a] = co[c].newbal] /\ bal \in [Accounts -> Int]
      /\ TypeOK'
  <2>1. /\ Active(co[c]) /\ IInv /\ k \in Legs /\ o.amt \in Nat /\ a \in Accounts
    BY PostRoute
  <2>2. k \in {1, 2, 3}
    BY <2>1 DEF Legs
  <2>3. TypeOK /\ TypeOK'
    BY DEF MoneyInv, IInv
  <2> QED
    BY <2>1, <2>2, <2>3 DEF Post, TypeOK
<1>2. Active(co[c])' /\ co'[c].leg = k + 1 /\ Order(c)' = o
  BY <1>1, AfterProceed
<1>3. IF LegType(k) = "D" THEN co[c].newbal = bal[a] + o.amt ELSE co[c].newbal = bal[a] - o.amt
  BY DEF MoneyInv, NewBalOK, Post
<1>4. ASSUME NEW b \in Banks
      PROVE  /\ AtWork(c, b)' \in Int
             /\ bal'[Nostro[b]] - AtWork(c, b)' = bal[Nostro[b]] - AtWork(c, b)
  <2>1. /\ Nostro[b] \in Accounts /\ bal[Nostro[b]] \in Int
        /\ bal'[Nostro[b]] = IF a = Nostro[b] THEN co[c].newbal ELSE bal[Nostro[b]]
    BY <1>1, NostroFacts DEF IInv
  <2>2. CASE k = 1
    <3>1. a = o.src /\ co[c].newbal = bal[a] - o.amt
      BY <1>3, <2>2, PostRoute DEF LegType
    <3> QED
      BY <1>1, <1>2, <2>1, <2>2, <3>1 DEF AtWork
  <2>3. CASE k = 2
    <3>1. a = Nostro[o.from] /\ co[c].newbal = bal[a] + o.amt /\ (a = Nostro[b] <=> o.from = b)
      BY <1>3, <2>3, PostRoute, NetworkAssumption DEF LegType, LegAccount
    <3>2. o.src # Nostro[b]
      BY <1>1, <2>3, PostRoute, SourceIsNoNostro
    <3> QED
      BY <1>1, <1>2, <2>1, <2>3, <3>1, <3>2 DEF AtWork
  <2>4. CASE k = 3
    <3>1. a = Nostro[o.to] /\ co[c].newbal = bal[a] - o.amt /\ (a = Nostro[b] <=> o.to = b)
      BY <1>3, <2>4, PostRoute, NetworkAssumption DEF LegType, LegAccount
    <3>2. o.src # Nostro[b]
      <4>1. o.from \in Banks
        BY <1>1, <2>4 DEF MoneyInv, RouteOK
      <4> QED
        BY <1>1, <2>4, <4>1, SourceIsNoNostro
    <3> QED
      BY <1>1, <1>2, <2>1, <2>4, <3>1, <3>2 DEF AtWork
  <2> QED
    BY <1>1, <2>2, <2>3, <2>4
<1>5. \A i \in DOMAIN results : Orderly(results[i])' => Orderly(results[i])
  BY <1>1 DEF Orderly, Recorded
<1> QED
  BY <1>1, <1>2, <1>4, <1>5, ProceedPositions

(* An entry of another transfer changes no result.                         *)
LEMMA RecordPositions ==
    ASSUME MoneyInv, MoneyInv', PositionsOK, OneCoordinator, NEW c \in Coordinators, Record(c)
    PROVE  PositionsOK'
<1>1. /\ Active(co[c]) /\ IInv /\ TypeOK' /\ UNCHANGED <<bal, results, faults>>
      /\ co[c].cur.id \in Mine(co[c])
      /\ \A i \in DOMAIN results : results[i].id \notin Mine(co[c])
  <2>1. Active(co[c]) /\ IInv
    BY DEF Record, MoneyInv, Active
  <2> QED
    BY <2>1, WorkFacts DEF Record, MoneyInv, IInv, StepsOK
<1>2. PICK e : /\ e.id = co[c].cur.id
               /\ DOMAIN log' = DOMAIN log \cup {Len(log) + 1}
               /\ log'[Len(log) + 1] = e
               /\ \A i \in DOMAIN log : i # Len(log) + 1 /\ log'[i] = log[i]
  BY <1>1, LogAppend
<1>3. PICK newbal : Proceed(c, "post", co[c].leg, newbal, co[c].steps)
  BY DEF Record
<1>4. Active(co[c])' /\ co'[c].leg = co[c].leg /\ Order(c)' = Order(c)
  BY <1>1, <1>3, AfterProceed
<1>5. ASSUME NEW i \in DOMAIN results
      PROVE  Orderly(results[i])' => Orderly(results[i])
  <2>1. e.id # results[i].id
    BY <1>1, <1>2
  <2>2. Recorded(results[i].id)' = Recorded(results[i].id)
    BY <1>1, <1>2, <2>1 DEF Recorded
  <2> QED
    BY <1>1, <2>2 DEF Orderly
<1>6. \A b \in Banks : AtWork(c, b)' = AtWork(c, b) /\ AtWork(c, b) \in Int
  BY <1>1, <1>4, AtWorkType DEF AtWork
<1> QED
  BY <1>1, <1>4, <1>5, <1>6, ProceedPositions

(* Nothing is posted while nobody is at work, and a new transfer has not   *)
(* put anything anywhere.                                                  *)
LEMMA IdlePositions ==
    ASSUME PositionsOK, OneCoordinator, UNCHANGED <<bal, log, results>>, faults'.restarts = faults.restarts,
           \A d \in Coordinators :
               \/ co'[d] = co[d]
               \/ ~ Active(co[d]) /\ (Active(co[d])' => co'[d].leg = 1)
    PROVE  PositionsOK'
<1> SUFFICES ASSUME faults'.restarts = 0, (\A i \in DOMAIN results : Orderly(results[i]))'
             PROVE  NostrosOK'
  BY DEF PositionsOK
<1>1. NostrosOK
  <2>1. \A i \in DOMAIN results : Orderly(results[i])
    BY DEF Orderly, Recorded
  <2> QED
    BY <2>1 DEF PositionsOK
<1>2. ASSUME NEW b \in Banks
      PROVE  bal'[Nostro[b]] = bal[Nostro[b]] /\ NostroPosition(b)' = NostroPosition(b)
  BY DEF NostroPosition
<1> DEFINE change(b) == bal[Nostro[b]] - Opening[Nostro[b]] - NostroPosition(b)
<1>3. ASSUME NEW b \in Banks, \A d \in Coordinators : ~ Active(co[d])'
      PROVE  change(b) = 0
  <2>1. \A d \in Coordinators : ~ Active(co[d])
    BY <1>3 DEF Active
  <2> QED
    BY <1>1, <2>1 DEF NostrosOK
<1>4. ASSUME NEW b \in Banks, NEW d \in Coordinators, Active(co[d])'
      PROVE  change(b) = AtWork(d, b)'
  <2>1. CASE co'[d] = co[d]
    <3>1. Active(co[d]) /\ AtWork(d, b)' = AtWork(d, b)
      BY <1>4, <2>1 DEF Active, AtWork, Order
    <3> QED
      BY <1>1, <3>1 DEF NostrosOK
  <2>2. CASE ~ Active(co[d]) /\ co'[d].leg = 1
    <3>1. \A x \in Coordinators : ~ Active(co[x])
      BY <2>2 DEF OneCoordinator
    <3>2. AtWork(d, b)' = 0
      BY <2>2 DEF AtWork
    <3> QED
      BY <1>1, <3>1, <3>2 DEF NostrosOK
  <2> QED
    BY <1>4, <2>1, <2>2
<1> HIDE DEF change
<1>5. \A b \in Banks : bal'[Nostro[b]] - Opening[Nostro[b]] - NostroPosition(b)' = change(b)
  BY <1>2 DEF change
<1> QED
  BY <1>3, <1>4, <1>5 DEF NostrosOK

LEMMA StandPositions ==
    ASSUME PositionsOK, OneCoordinator, MoneyInv,
           \/ \E c \in Coordinators : Begin(c) \/ \E b \in Batches : Submit(c, b)
           \/ \E a \in Freezable : ToggleFrozen(a)
           \/ UNCHANGED vars
    PROVE  PositionsOK'
<1>1. UNCHANGED <<bal, log, results>> /\ faults'.restarts = faults.restarts
  BY DEF Begin, Submit, ToggleFrozen, vars, MoneyInv, IInv, TypeOK
<1>2. ASSUME NEW d \in Coordinators
      PROVE  \/ co'[d] = co[d]
             \/ ~ Active(co[d]) /\ (Active(co[d])' => co'[d].leg = 1)
  <2>1. co \in [Coordinators -> Coordinator]
    BY DEF MoneyInv, IInv, TypeOK
  <2>2. ASSUME NEW c \in Coordinators, Begin(c)
        PROVE  ~ Active(co[c]) /\ co'[c].leg = 1 /\ d = c
    BY <2>1, <2>2 DEF Begin, Active, Locals, OneCoordinator
  <2>3. ASSUME NEW c \in Coordinators, NEW b \in Batches, Submit(c, b)
        PROVE  ~ Active(co[c]) /\ co'[c].leg = 1 /\ d = c
    BY <2>1, <2>3 DEF Submit, Active, Fresh, Locals, OneCoordinator
  <2>4. CASE co' = co
    BY <2>4
  <2>5. (\E a \in Freezable : ToggleFrozen(a)) \/ UNCHANGED vars => co' = co
    BY DEF ToggleFrozen, vars
  <2> QED
    BY <2>2, <2>3, <2>4, <2>5
<1> QED
  BY <1>1, <1>2, IdlePositions

LEMMA RestartFrees ==
    ASSUME MoneyInv, NEW c \in Coordinators, Restart(c)
    PROVE  faults'.restarts # 0
<1>1. faults \in [errors : Nat, restarts : Nat, toggles : Nat] /\ faults' = [faults EXCEPT !.restarts = @ + 1]
  BY DEF MoneyInv, IInv, TypeOK, Restart
<1> QED
  BY <1>1

LEMMA PositionsStep == ASSUME OneCoordinator, MoneyInv, MoneyInv', PositionsOK, [Next]_vars PROVE PositionsOK'
<1>1. ASSUME NEW c \in Coordinators, Post(c)
      PROVE  PositionsOK'
  BY <1>1, PostPositions, DeliverPositions
<1>2. ASSUME NEW c \in Coordinators, Restart(c)
      PROVE  PositionsOK'
  BY <1>2, RestartFrees DEF PositionsOK
<1> QED
  BY <1>1, <1>2, RefusePositions, FailPositions, RecordPositions, StandPositions DEF Next

LEMMA ReferencesStep == ASSUME OneCoordinator, MoneyInv, MoneyInv', ReferencesOK, [Next]_vars PROVE ReferencesOK'
<1>1. faults \in [errors : Nat, restarts : Nat, toggles : Nat] /\ co \in [Coordinators -> Coordinator]
  BY DEF MoneyInv, IInv, TypeOK
<1>2. ASSUME NEW c \in Coordinators, Restart(c)
      PROVE  ReferencesOK'
  BY <1>2, RestartFrees DEF ReferencesOK
<1>3. ASSUME NEW c \in Coordinators, NEW status, NEW n, Active(co[c]), Return(c, status, n),
             UNCHANGED log, faults'.restarts = faults.restarts
      PROVE  ReferencesOK'
  BY <1>3, ReturnRefs
<1>4. ASSUME NEW c \in Coordinators, Unaddressed(c) \/ Raise(c) \/ Refuse(c)
      PROVE  ReferencesOK'
  <2>1. Active(co[c]) /\ UNCHANGED log /\ faults'.restarts = faults.restarts
    BY <1>1, <1>4 DEF Unaddressed, Raise, Refuse, Active
  <2>2. \E status, n : Return(c, status, n)
    BY <1>4, Zenon DEF Unaddressed, Raise, Refuse
  <2> QED
    BY <1>3, <2>1, <2>2
<1>5. ASSUME NEW c \in Coordinators, Post(c)
      PROVE  ReferencesOK'
  <2>1. Active(co[c]) /\ UNCHANGED <<log, faults>> /\ IInv /\ \A d \in Coordinators : d = c
    BY <1>5 DEF Post, Active, MoneyInv, OneCoordinator
  <2>2. CASE co[c].leg = 4
    BY <1>3, <1>5, <2>1, <2>2, Zenon DEF Post
  <2>3. CASE co[c].leg # 4
    <3>1. PICK n : Proceed(c, "leg", co[c].leg + 1, 0, n) /\ UNCHANGED results
      BY <1>5, <2>3 DEF Post
    <3>2. co'[c] = Locals("leg", co[c].counter, co[c].queue, co[c].cur, co[c].leg + 1, 0, n)
      BY <1>1, <3>1 DEF Proceed
    <3>3. co'[c].counter = co[c].counter /\ co'[c].cur = co[c].cur
      BY <3>2 DEF Locals
    <3> QED
      BY <2>1, <3>1, <3>3, QuietRefs
  <2> QED
    BY <2>2, <2>3
<1>6. ASSUME NEW c \in Coordinators, NEW b \in Batches, Submit(c, b)
      PROVE  ReferencesOK'
  <2>1. UNCHANGED <<log, results, faults>> /\ \A d \in Coordinators : d = c
    BY <1>6 DEF Submit, OneCoordinator
  <2>2. PICK q : co'[c] = Fresh(co[c].counter, q)
    BY <1>1, <1>6 DEF Submit
  <2>3. co'[c].counter = co[c].counter /\ ~ Active(co[c])'
    BY <2>2 DEF Fresh, Locals, Active
  <2> QED
    BY <2>1, <2>3, QuietRefs
<1>7. ASSUME co' = co, UNCHANGED <<log, results>>, faults'.restarts = faults.restarts
      PROVE  ReferencesOK'
  BY <1>7, QuietRefs DEF Active
<1>8. ASSUME NEW a \in Freezable, ToggleFrozen(a)
      PROVE  ReferencesOK'
  BY <1>1, <1>7, <1>8 DEF ToggleFrozen
<1>9. ASSUME UNCHANGED vars
      PROVE  ReferencesOK'
  BY <1>7, <1>9 DEF vars
<1> QED
  BY <1>2, <1>4, <1>5, <1>6, <1>8, <1>9, BeginRefs, RecordRefs DEF Next

LEMMA MarksStep == ASSUME MoneyInv, MarksOK, [Next]_vars PROVE MarksOK'
<1>1. ASSUME NEW c \in Coordinators, Record(c)
      PROVE  MarksOK'
  <2>1. PICK e : /\ e.leg = co[c].leg /\ e.mark = Mark(co[c].leg)
                 /\ DOMAIN log' = DOMAIN log \cup {Len(log) + 1}
                 /\ log'[Len(log) + 1] = e
                 /\ \A i \in DOMAIN log : i # Len(log) + 1 /\ log'[i] = log[i]
    BY <1>1, LogAppend DEF MoneyInv
  <2> QED
    BY <2>1 DEF MarksOK
<1>2. ASSUME log' = log
      PROVE  MarksOK'
  BY <1>2 DEF MarksOK
<1> QED
  BY <1>1, <1>2 DEF Next, Submit, Begin, Unaddressed, Refuse, Post, Raise, Restart, ToggleFrozen, vars

LEMMA InitReport == Init => ReportInv
<1> SUFFICES ASSUME Init PROVE ReportInv
  OBVIOUS
<1>1. MoneyInv
  BY InitMoney
<1>2. /\ log = <<>> /\ results = <<>> /\ bal = Opening
      /\ \A c \in Coordinators : ~ Active(co[c])
  BY DEF Init, Fresh, Locals, Active
<1>3. MarksOK /\ ReferencesOK
  BY <1>2 DEF MarksOK, ReferencesOK, RefsOK, RefersTo
<1>4. ASSUME NEW b \in Banks
      PROVE  bal[Nostro[b]] - Opening[Nostro[b]] - NostroPosition(b) = 0
  <2> DEFINE w == [i \in DOMAIN results |-> Counted(results[i], b)]
  <2>1. DOMAIN w = {} /\ NostroPosition(b) = SumFunction(w)
    BY <1>2 DEF NostroPosition
  <2> HIDE DEF w
  <2>2. NostroPosition(b) = 0
    BY <2>1, FS_EmptySet, SumSplit DEF SumFunction
  <2>3. bal[Nostro[b]] \in Int
    BY <1>1, NostroFacts DEF MoneyInv, IInv
  <2> QED
    BY <1>2, <2>2, <2>3
<1>5. PositionsOK
  BY <1>2, <1>4 DEF PositionsOK, NostrosOK
<1> QED
  BY <1>1, <1>3, <1>5 DEF ReportInv

(* The invariant behind what is reported: until a coordinator counts anew, *)
(* each reference names the chain entries of one transfer and no other's,  *)
(* and the nostro accounts hold what the results and the transfer at work  *)
(* say they hold.                                                          *)
THEOREM ReportInvariance == ASSUME OneCoordinator PROVE Spec => []ReportInv
<1>1. MoneyInv' /\ ReportInv /\ [Next]_vars => ReportInv'
  BY PositionsStep, ReferencesStep, MarksStep DEF ReportInv
<1> QED
  BY <1>1, InitReport, MoneyInvariance, PTL DEF Spec

-----------------------------------------------------------------------------
(* Reports: verification                                                   *)

Entries(id, k) == {i \in DOMAIN log : log[i].id = id /\ log[i].leg = k}

(* A transfer has at most one entry of each posting, all for one amount.   *)
LEMMA EntriesAgree ==
    ASSUME IInv, NEW id
    PROVE  /\ \A k \in Legs : \A i, j \in Entries(id, k) : i = j
           /\ \A k \in 1 .. 3 : \A i \in Entries(id, k), j \in Entries(id, k + 1) : log[i].amt = log[j].amt
<1>1. /\ NoCreditWithoutDebit /\ DOMAIN log \subseteq Nat \ {0}
      /\ \A i \in DOMAIN log : log[i] \in LogEntry
      /\ DOMAIN log = 1 .. Len(log) /\ Len(log) \in Nat
  BY DEF IInv, TypeOK
<1>2. \A i, j \in DOMAIN log : log[i].id = log[j].id /\ log[i].leg = log[j].leg => i = j
  <2> SUFFICES ASSUME NEW i \in DOMAIN log, NEW j \in DOMAIN log, log[i].id = log[j].id, log[i].leg = log[j].leg,
                      j < i
               PROVE  FALSE
    BY <1>1
  <2>1. log[j].leg < log[i].leg
    BY <1>1 DEF NoCreditWithoutDebit
  <2>2. log[i].leg \in Legs
    BY <1>1 DEF LogEntry
  <2> QED
    BY <2>1, <2>2 DEF Legs
<1>3. ASSUME NEW k \in 1 .. 3, NEW i \in Entries(id, k), NEW j \in Entries(id, k + 1)
      PROVE  log[i].amt = log[j].amt
  <2>1. i \in DOMAIN log /\ j \in DOMAIN log /\ log[i].id = id /\ log[i].leg = k /\ log[j].id = id /\ log[j].leg = k + 1
    BY <1>3 DEF Entries
  <2>2. PICK h \in 1 .. j - 1 : log[h].id = log[j].id /\ log[h].leg = log[j].leg - 1 /\ log[h].amt = log[j].amt
    BY <1>1, <2>1 DEF NoCreditWithoutDebit
  <2>3. h \in DOMAIN log /\ log[h].leg = k
    BY <1>1, <2>1, <2>2
  <2> QED
    BY <1>2, <2>1, <2>2, <2>3
<1> QED
  BY <1>2, <1>3 DEF Entries

LEMMA MarkedEntries ==
    ASSUME IInv, MarksOK, NEW ref, NEW id, RefersTo(ref, id)
    PROVE  /\ Marked(ref, "XFER-TO") = Entries(id, 1)
           /\ Marked(ref, "XFER-FROM") = Entries(id, 4)
           /\ Marked(ref, "SETTLE") = Entries(id, 2) \cup Entries(id, 3)
<1>1. ASSUME NEW i \in DOMAIN log
      PROVE  log[i].leg \in Legs /\ log[i].mark = Mark(log[i].leg)
  <2>1. log[i] \in LogEntry
    BY DEF IInv, TypeOK
  <2> QED
    BY <2>1 DEF LogEntry, MarksOK
<1>2. Mark(1) = "XFER-TO" /\ Mark(4) = "XFER-FROM" /\ Mark(2) = "SETTLE" /\ Mark(3) = "SETTLE"
  BY DEF Mark
<1>3. \A k \in Legs : k = 1 \/ k = 2 \/ k = 3 \/ k = 4
  BY DEF Legs
<1> QED
  BY <1>1, <1>2, <1>3 DEF Marked, Entries, RefersTo

LEMMA LastSeenOfOne == ASSUME NEW i PROVE LastSeen({i}) = i
BY DEF LastSeen

LEMMA RecordedEntries ==
    ASSUME NEW id, NEW k \in Legs
    PROVE  k \in Recorded(id) <=> Entries(id, k) # {}
BY DEF Recorded, Entries

LEMMA AllRecordedMatches ==
    ASSUME IInv, MarksOK, NEW ref, NEW id, RefersTo(ref, id), Recorded(id) = Legs
    PROVE  Classify(ref) = "MATCHED"
<1>1. {1, 2, 3, 4} \subseteq Legs
  BY DEF Legs
<1>2. \A k \in Legs : \E i : i \in Entries(id, k)
  BY RecordedEntries
<1>3. PICK i1 : i1 \in Entries(id, 1)
  BY <1>1, <1>2
<1>4. PICK i2 : i2 \in Entries(id, 2)
  BY <1>1, <1>2
<1>5. PICK i3 : i3 \in Entries(id, 3)
  BY <1>1, <1>2
<1>6. PICK i4 : i4 \in Entries(id, 4)
  BY <1>1, <1>2
<1>7. Entries(id, 1) = {i1} /\ Entries(id, 2) = {i2} /\ Entries(id, 3) = {i3} /\ Entries(id, 4) = {i4}
  BY <1>1, <1>3, <1>4, <1>5, <1>6, EntriesAgree
<1>8. log[i1].amt = log[i2].amt /\ log[i2].amt = log[i3].amt /\ log[i3].amt = log[i4].amt
  <2>1. 1 \in 1 .. 3 /\ 2 \in 1 .. 3 /\ 3 \in 1 .. 3 /\ 1 + 1 = 2 /\ 2 + 1 = 3 /\ 3 + 1 = 4
    OBVIOUS
  <2> QED
    BY <1>3, <1>4, <1>5, <1>6, <2>1, EntriesAgree
<1>9. i2 # i3
  BY <1>4, <1>5 DEF Entries
<1>10. Marked(ref, "XFER-TO") = {i1} /\ Marked(ref, "XFER-FROM") = {i4} /\ Marked(ref, "SETTLE") = {i2, i3}
  BY <1>7, MarkedEntries
<1>11. Cardinality({i2, i3}) = 2
  <2>1. Cardinality({i2}) = 1 /\ IsFiniteSet({i2})
    BY FS_Singleton
  <2>2. {i2, i3} = {i2} \cup {i3} /\ i3 \notin {i2}
    BY <1>9
  <2> QED
    BY <2>1, <2>2, FS_AddElement
<1>12. {log[LastSeen({i1})].amt, log[LastSeen({i4})].amt} \cup {log[i].amt : i \in {i2, i3}} = {log[i1].amt}
  BY <1>8, LastSeenOfOne
<1>13. Cardinality({log[i1].amt}) = 1
  BY FS_Singleton
<1> QED
  BY <1>10, <1>11, <1>12, <1>13 DEF Classify

LEMMA MatchedIsRecorded ==
    ASSUME IInv, MarksOK, NEW ref, NEW id, RefersTo(ref, id), Classify(ref) = "MATCHED"
    PROVE  Recorded(id) = Legs
<1>1. {1, 2, 3, 4} = Legs
  BY DEF Legs
<1>2. /\ Entries(id, 1) # {} /\ Entries(id, 4) # {}
      /\ Cardinality(Entries(id, 2) \cup Entries(id, 3)) = 2
  BY MarkedEntries DEF Classify
<1>3. \A k \in {2, 3} : Entries(id, k) = {} => \E i : Entries(id, 2) \cup Entries(id, 3) \subseteq {i}
  BY <1>1, EntriesAgree
<1>4. ASSUME NEW i, Entries(id, 2) \cup Entries(id, 3) \subseteq {i}
      PROVE  FALSE
  <2>1. IsFiniteSet({i}) /\ Cardinality({i}) = 1
    BY FS_Singleton
  <2>2. Cardinality(Entries(id, 2) \cup Entries(id, 3)) <= 1
    BY <1>4, <2>1, FS_Subset
  <2> QED
    BY <1>2, <2>2
<1>5. Entries(id, 2) # {} /\ Entries(id, 3) # {}
  BY <1>3, <1>4
<1>6. Legs \subseteq Recorded(id)
  BY <1>1, <1>2, <1>5, RecordedEntries
<1> QED
  BY <1>6 DEF Recorded

(* What is reported between transfers is what happened, with one           *)
(* coordinator at a time: verify_all calls a settlement MATCHED exactly    *)
(* when its four entries are in the chains, and the positions that         *)
(* get_settlement_summary adds up are the changes of the nostro accounts,  *)
(* whatever orders come, however many, and for every amount.               *)
THEOREM ReportsAreTrue == ASSUME OneCoordinator PROVE Spec => []ReportsTellTheTruth
<1>1. ReportInv => ReportsTellTheTruth
  <2> SUFFICES ASSUME ReportInv, Quiet, faults.restarts = 0
               PROVE  MatchedIffRecorded /\ SummaryMatchesNostros
    BY DEF ReportsTellTheTruth
  <2>1. IInv /\ MarksOK /\ ReferencesOK /\ PositionsOK
    BY DEF ReportInv, MoneyInv
  <2>2. MatchedIffRecorded
    <3> SUFFICES ASSUME NEW i \in DOMAIN results
                 PROVE  Classify(results[i].ref) = "MATCHED" <=> Recorded(results[i].id) = Legs
      BY DEF MatchedIffRecorded
    <3>1. RefersTo(results[i].ref, results[i].id)
      BY <2>1 DEF ReferencesOK
    <3> QED
      BY <2>1, <3>1, AllRecordedMatches, MatchedIsRecorded
  <2>3. ASSUME \A i \in DOMAIN results : Orderly(results[i]), NEW b \in Banks
        PROVE  bal[Nostro[b]] = Opening[Nostro[b]] + NostroPosition(b)
    <3>1. bal[Nostro[b]] - Opening[Nostro[b]] - NostroPosition(b) = 0
      BY <2>1, <2>3 DEF PositionsOK, NostrosOK, Quiet, Active
    <3>2. bal[Nostro[b]] \in Int /\ Opening[Nostro[b]] \in Int /\ NostroPosition(b) \in Int
      BY <2>1, NostroFacts DEF IInv
    <3> QED
      BY <3>1, <3>2
  <2> QED
    BY <2>2, <2>3 DEF SummaryMatchesNostros
<1> QED
  BY <1>1, ReportInvariance, PTL
=============================================================================
