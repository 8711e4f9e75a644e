-------------------------- MODULE Simulation_proofs --------------------------
(***************************************************************************)
(* Proofs about the simulation: about SimulationEngine, for every schedule *)
(* of events, every number of days and banks, and any errors and requests; *)
(* and about SimulationControl, for any number of handlers, requests,      *)
(* engines and streams, whatever the order in which they take their steps. *)
(***************************************************************************)
EXTENDS SimulationEngine, SimulationControl, SumTheorems, TLAPS

(* What appending does to the number of times.                             *)
LEMMA TimesOfAppend ==
    ASSUME NEW S, NEW s \in Seq(S), NEW x \in S, NEW e
    PROVE  /\ Times(s, e) \in Nat
           /\ Times(Append(s, x), e) = IF x = e THEN Times(s, e) + 1 ELSE Times(s, e)
<1> DEFINE Where(q) == {i \in DOMAIN q : q[i] = e}
           t == Append(s, x)
           n == Len(s) + 1
<1>1. /\ Len(s) \in Nat /\ DOMAIN s = 1 .. Len(s) /\ DOMAIN t = 1 .. n
      /\ t[n] = x /\ \A i \in 1 .. Len(s) : t[i] = s[i]
  OBVIOUS
<1>2. IsFiniteSet(Where(s))
  <2>1. IsFiniteSet(1 .. Len(s))
    <3>1. 1 \in Int /\ Len(s) \in Int
      BY <1>1
    <3> QED
      BY <3>1, FS_Interval
  <2> QED
    BY <2>1, <1>1, FS_Subset
<1>3. Where(t) = IF x = e THEN Where(s) \cup {n} ELSE Where(s)
  BY <1>1
<1>4. n \notin Where(s)
  BY <1>1
<1>5. Cardinality(Where(s)) \in Nat /\ Cardinality(Where(s) \cup {n}) = Cardinality(Where(s)) + 1
  BY <1>2, <1>4, FS_AddElement, FS_CardinalityType
<1> QED
  BY <1>3, <1>5 DEF Times

LEMMA TimesOfEmpty == ASSUME NEW e PROVE Times(<<>>, e) = 0
<1>1. {i \in DOMAIN <<>> : <<>>[i] = e} = {}
  OBVIOUS
<1> QED
  BY <1>1, FS_EmptySet DEF Times

-----------------------------------------------------------------------------
LEMMA InitEvents == Init => EventsInv
<1> SUFFICES ASSUME Init PROVE EventsInv
  OBVIOUS
<1>1. handled \in Seq(Events) /\ IsFiniteSet(errors)
  BY FS_EmptySet DEF Init
<1>2. \A e \in Events : Times(handled, e) = 0
  BY TimesOfEmpty DEF Init
<1>3. \A e \in Events : EventDay[e] \in Nat \ {0}
  BY EventsAssumption DEF Events
<1> QED
  BY <1>1, <1>2, <1>3 DEF Init, EventsInv, Missed, Awaited

(* A step that leaves the events alone and goes from one place to another  *)
(* on the same side of where they are handled.                             *)
LEMMA QuietStep ==
    ASSUME EventsInv, UNCHANGED <<day, handled, errors, todo, fired>>,
           \/ pc' = pc
           \/ pc' \in {"crashed"}
           \/ pc \in {"fees", "interest", "events"} /\ pc' \in {"fees", "interest", "events"}
           \/ pc \in {"tx", "wait", "post", "eod"} /\ pc' \in {"tx", "wait", "post", "eod", "after"}
           \/ pc = "events" /\ todo = {} /\ pc' = "tx"
    PROVE  EventsInv'
BY DEF EventsInv, Missed, Awaited, CutShort, Times

LEMMA NextDayKeeps == ASSUME EventsInv, NextDay PROVE EventsInv'
<1>1. \A e \in Events : EventDay[e] \in Nat \ {0}
  BY EventsAssumption DEF Events
<1>2. \A e \in Events : Times(handled, e)' = Times(handled, e)
  BY DEF NextDay, history, Times
<1> QED
  BY <1>1, <1>2 DEF EventsInv, NextDay, history, Missed, Awaited, CutShort

LEMMA OpenDayKeeps == ASSUME EventsInv, OpenDay PROVE EventsInv'
<1>1. \A e \in Events : EventDay[e] \in Nat \ {0}
  BY EventsAssumption DEF Events
<1>2. \A e \in Events : Times(handled, e)' = Times(handled, e)
  BY DEF OpenDay, history, Times
<1>3. pc = "open" /\ pc' \in {"fees", "interest", "events"}
  BY DEF OpenDay
<1> QED
  BY <1>1, <1>2, <1>3 DEF EventsInv, OpenDay, DueEvents, history, Missed, Awaited, CutShort

LEMMA HandleEventKeeps == ASSUME EventsInv, HandleEvent PROVE EventsInv'
<1>1. PICK f \in todo : /\ handled' = Append(handled, f)
                        /\ fired' = fired \cup {f}
                        /\ todo' = todo \ {f}
  BY DEF HandleEvent
<1>2. f \in Events /\ EventDay[f] = day /\ handled \in Seq(Events)
  BY DEF EventsInv
<1>3. \A e \in Events : Times(handled, e)' = IF f = e THEN Times(handled, e) + 1 ELSE Times(handled, e)
  <2> SUFFICES ASSUME NEW e \in Events
               PROVE  Times(handled, e)' = IF f = e THEN Times(handled, e) + 1 ELSE Times(handled, e)
    OBVIOUS
  <2>1. Times(handled, e)' = Times(Append(handled, f), e)
    BY <1>1 DEF Times
  <2> QED
    BY <2>1, <1>2, TimesOfAppend
<1>4. UNCHANGED <<pc, day, errors>> /\ pc = "events"
  BY DEF HandleEvent
<1>5. Missed(f)
  BY <1>2, <1>4 DEF EventsInv, Awaited
<1>6. handled' \in Seq(Events)
  BY <1>1, <1>2
<1> QED
  BY <1>1, <1>2, <1>3, <1>4, <1>5, <1>6 DEF EventsInv, Missed, Awaited, CutShort

LEMMA AfterDayKeeps == ASSUME EventsInv, AfterDay PROVE EventsInv'
<1>1. \A e \in Events : Times(handled, e)' = Times(handled, e)
  BY DEF AfterDay, history, Times
<1> QED
  BY <1>1 DEF EventsInv, AfterDay, history, Missed, Awaited, CutShort

LEMMA OsErrorKeeps == ASSUME EventsInv, OsError PROVE EventsInv'
<1>1. /\ errors' = errors \cup {[day |-> day, date |-> date]}
      /\ UNCHANGED <<day, todo, fired>> /\ InDay /\ pc' = "after"
  BY DEF OsError
<1>2. IsFiniteSet(errors')
  BY <1>1, FS_AddElement DEF EventsInv
<1>3. \A e \in Events : (EventDay[e] = day \/ CutShort(e)) => CutShort(e)'
  <2> SUFFICES ASSUME NEW e \in Events, EventDay[e] = day \/ CutShort(e)
               PROVE  \E x \in errors' : x.day = EventDay[e]
    BY DEF CutShort
  <2>1. CASE EventDay[e] = day
    <3> DEFINE x == [day |-> day, date |-> date]
    <3>1. x \in errors' /\ x.day = day
      BY <1>1
    <3> QED
      BY <3>1, <2>1
  <2>2. CASE CutShort(e)
    BY <2>2, <1>1 DEF CutShort
  <2> QED
    BY <2>1, <2>2
<1>4. CASE UNCHANGED handled
  <2>1. \A e \in Events : Times(handled, e)' = Times(handled, e)
    BY <1>4 DEF Times
  <2> QED
    BY <1>1, <1>2, <1>3, <1>4, <2>1 DEF EventsInv, Missed, Awaited, InDay
<1>5. CASE pc = "events" /\ \E f \in todo : handled' = Append(handled, f)
  <2>1. PICK f \in todo : handled' = Append(handled, f)
    BY <1>5
  <2>2. f \in Events /\ EventDay[f] = day /\ handled \in Seq(Events)
    BY DEF EventsInv
  <2>3. \A e \in Events : Times(handled, e)' = IF f = e THEN Times(handled, e) + 1 ELSE Times(handled, e)
    <3> SUFFICES ASSUME NEW e \in Events
                 PROVE  Times(handled, e)' = IF f = e THEN Times(handled, e) + 1 ELSE Times(handled, e)
      OBVIOUS
    <3>1. Times(handled, e)' = Times(Append(handled, f), e)
      BY <2>1 DEF Times
    <3> QED
      BY <3>1, <2>2, TimesOfAppend
  <2>4. Missed(f)
    BY <2>2, <1>5 DEF EventsInv, Awaited
  <2>5. handled' \in Seq(Events)
    BY <2>1, <2>2
  <2> QED
    BY <1>1, <1>2, <1>3, <1>5, <2>2, <2>3, <2>4, <2>5 DEF EventsInv, Missed, Awaited
<1> QED
  BY <1>4, <1>5 DEF OsError

-----------------------------------------------------------------------------
(* Each step keeps the invariant.                                          *)
LEMMA StepKeeps == ASSUME EventsInv, [Next]_vars PROVE EventsInv'
<1>1. ASSUME NextDay PROVE EventsInv'
  BY <1>1, NextDayKeeps
<1>2. ASSUME OpenDay PROVE EventsInv'
  BY <1>2, OpenDayKeeps
<1>3. ASSUME FeeBatch \/ InterestBatch PROVE EventsInv'
  <2>1. /\ UNCHANGED <<day, handled, errors, todo, fired>>
        /\ pc \in {"fees", "interest"} /\ pc' \in {"fees", "interest", "events"}
    BY <1>3 DEF FeeBatch, InterestBatch
  <2> QED
    BY <2>1, QuietStep
<1>4. ASSUME HandleEvent PROVE EventsInv'
  BY <1>4, HandleEventKeeps
<1>5. ASSUME DrawTransactions \/ NextTx \/ WaitIfPaused \/ Transaction \/ EndOfDay PROVE EventsInv'
  <2>1. /\ UNCHANGED <<day, handled, errors, todo, fired>>
        /\ \/ pc = "events" /\ todo = {} /\ pc' = "tx"
           \/ pc \in {"tx", "wait", "post", "eod"} /\ pc' \in {"tx", "wait", "post", "eod", "after"}
    BY <1>5 DEF DrawTransactions, NextTx, WaitIfPaused, Transaction, EndOfDay, history
  <2> QED
    BY <2>1, QuietStep
<1>6. ASSUME AfterDay PROVE EventsInv'
  BY <1>6, AfterDayKeeps
<1>7. ASSUME OsError PROVE EventsInv'
  BY <1>7, OsErrorKeeps
<1>8. ASSUME Crash PROVE EventsInv'
  BY <1>8, QuietStep DEF Crash, history
<1>9. ASSUME Stop \/ Pause \/ Resume \/ UNCHANGED vars PROVE EventsInv'
  BY <1>9, QuietStep DEF Stop, Pause, Resume, vars, history
<1> QED
  BY <1>1, <1>2, <1>3, <1>4, <1>5, <1>6, <1>7, <1>8, <1>9 DEF Next, Step

(* Where an event stands, in every state of every run (_run_day,           *)
(* _execute_day_events and the OSError that run catches).                  *)
THEOREM EventsInvariance == Spec => []EventsInv
<1>1. EventsInv /\ [Next]_vars => EventsInv'
  BY StepKeeps
<1> QED
  BY <1>1, InitEvents, PTL DEF Spec

(* A scenario event takes effect at most once, and is left out only when   *)
(* its day was cut short, whatever the schedule, the errors, the pauses    *)
(* and the stops.                                                          *)
THEOREM EventsHappenOnce == Spec => []EventsOnce
<1>1. EventsInv => EventsOnce
  <2> SUFFICES ASSUME EventsInv, NEW e \in Events
               PROVE  /\ Times(handled, e) <= 1
                      /\ pc = "loop" /\ EventDay[e] \in 1 .. day /\ Times(handled, e) = 0 =>
                             \E x \in errors : x.day = EventDay[e]
    BY DEF EventsOnce
  <2>1. Times(handled, e) \in 0 .. 1
    BY DEF EventsInv
  <2>2. ASSUME pc = "loop", EventDay[e] \in 1 .. day, Times(handled, e) = 0
        PROVE  \E x \in errors : x.day = EventDay[e]
    <3>1. Missed(e) /\ ~ Awaited(e)
      BY <2>2 DEF EventsInv, Missed, Awaited
    <3> QED
      BY <3>1, <2>2 DEF EventsInv, CutShort
  <2> QED
    BY <2>1, <2>2
<1> QED
  BY <1>1, EventsInvariance, PTL

-----------------------------------------------------------------------------
(* The calendar                                                            *)

LEMMA Divided ==
    ASSUME NEW d \in Nat, NEW L \in Nat, L > 0
    PROVE  /\ d \div L \in Nat /\ (d \div L) * L <= d /\ d < (d \div L) * L + L
           /\ d % L = d - (d \div L) * L
<1>1. (d \div L) * L <= d /\ d < (d \div L) * L + L
  OBVIOUS
<1>2. d \div L \in Nat
  OBVIOUS
<1>3. d % L = d - L * (d \div L)
  BY SMTT(30)
<1>4. L * (d \div L) = (d \div L) * L
  BY <1>2
<1> QED
  BY <1>1, <1>2, <1>3, <1>4

LEMMA MonthOf ==
    ASSUME NEW d \in Nat
    PROVE  /\ Month(d) \in Nat /\ Month(d) * MonthLength \in Nat
           /\ Month(d) * MonthLength <= d /\ d < Month(d) * MonthLength + MonthLength
           /\ DayOfMonth(d) = d - Month(d) * MonthLength + 1
<1>1. MonthLength \in Nat /\ MonthLength > 0
  BY SizesAssumption
<1>2. PICK L \in Nat : L = MonthLength /\ L > 0
  BY <1>1
<1>3. PICK q : q = d \div L
  OBVIOUS
<1>4. q \in Nat /\ q * L <= d /\ d < q * L + L /\ d % L = d - q * L
  BY <1>2, <1>3, Divided
<1>5. q * L \in Nat
  BY <1>4
<1> QED
  BY <1>2, <1>3, <1>4, <1>5 DEF Month, DayOfMonth

LEMMA MonthIs ==
    ASSUME NEW m \in Nat, NEW d \in Nat, m * MonthLength <= d, d < m * MonthLength + MonthLength
    PROVE  Month(d) = m
<1>1. PICK L \in Nat : L = MonthLength /\ L > 0
  BY SizesAssumption
<1>2. PICK r : r = d - m * L
  OBVIOUS
<1>3. m * L \in Nat /\ r \in Nat /\ r < L /\ d = m * L + r
  BY <1>1, <1>2
<1>4. d \div L = m
  BY <1>1, <1>3
<1> QED
  BY <1>1, <1>4 DEF Month

LEMMA MonthsInOrder ==
    ASSUME NEW d \in Nat, NEW e \in Nat, d <= e
    PROVE  Month(d) <= Month(e)
<1>1. PICK L \in Nat : L = MonthLength /\ L > 0
  BY SizesAssumption
<1>2. PICK a, b : a = Month(d) /\ b = Month(e)
  OBVIOUS
<1>3. a \in Nat /\ b \in Nat /\ a * L \in Nat /\ b * L \in Nat /\ a * L <= d /\ e < b * L + L
  BY <1>1, <1>2, MonthOf
<1>4. a * L < (b + 1) * L
  <2>1. (b + 1) * L = b * L + L
    BY <1>1, <1>3
  <2> QED
    BY <1>1, <1>3, <2>1
<1>5. ASSUME b + 1 <= a PROVE FALSE
  <2>1. (b + 1) * L <= a * L
    BY <1>1, <1>3, <1>5
  <2>2. (b + 1) * L \in Nat
    BY <1>1, <1>3
  <2> QED
    BY <1>3, <1>4, <2>1, <2>2
<1> QED
  BY <1>2, <1>3, <1>5

(* No three days in a row are without a weekday.                           *)
LEMMA WeekdayNear ==
    ASSUME NEW d \in Nat
    PROVE  IsWeekday(d) \/ IsWeekday(d + 1) \/ IsWeekday(d + 2)
BY DEF IsWeekday

LEMMA NextIs ==
    ASSUME NEW d \in Nat
    PROVE  /\ NextWeekday(d) \in Nat /\ d < NextWeekday(d) /\ NextWeekday(d) <= d + 3
           /\ IsWeekday(NextWeekday(d))
           /\ \A e \in Nat : d < e /\ e < NextWeekday(d) => ~ IsWeekday(e)
<1> DEFINE S == {e \in d + 1 .. d + 3 : IsWeekday(e)}
<1>1. IsWeekday(d + 1) \/ IsWeekday(d + 2) \/ IsWeekday(d + 3)
  <2>1. d + 1 \in Nat /\ (d + 1) + 1 = d + 2 /\ (d + 1) + 2 = d + 3
    OBVIOUS
  <2>2. PICK c : c = d + 1
    OBVIOUS
  <2>3. IsWeekday(c) \/ IsWeekday(c + 1) \/ IsWeekday(c + 2)
    BY <2>1, <2>2, WeekdayNear
  <2>4. c + 1 = d + 2 /\ c + 2 = d + 3
    BY <2>2
  <2> QED
    BY <2>2, <2>3, <2>4
<1>2. \E x \in S : \A y \in S : x <= y
  <2>1. CASE IsWeekday(d + 1)
    <3>1. d + 1 \in S /\ \A y \in S : d + 1 <= y
      BY <2>1
    <3> QED
      BY <3>1
  <2>2. CASE ~ IsWeekday(d + 1) /\ IsWeekday(d + 2)
    <3>1. d + 2 \in S /\ \A y \in S : y # d + 1 /\ y \in d + 1 .. d + 3
      BY <2>2
    <3>2. \A y \in S : d + 2 <= y
      BY <3>1
    <3> QED
      BY <3>1, <3>2
  <2>3. CASE ~ IsWeekday(d + 1) /\ ~ IsWeekday(d + 2)
    <3>1. d + 3 \in S /\ \A y \in S : y # d + 1 /\ y # d + 2 /\ y \in d + 1 .. d + 3
      BY <1>1, <2>3
    <3>2. \A y \in S : d + 3 <= y
      BY <3>1
    <3> QED
      BY <3>1, <3>2
  <2> QED
    BY <2>1, <2>2, <2>3
<1>3. NextWeekday(d) \in S /\ \A y \in S : NextWeekday(d) <= y
  <2>1. NextWeekday(d) = CHOOSE x \in S : \A y \in S : x <= y
    BY DEF NextWeekday, Min
  <2> HIDE DEF S
  <2> QED
    BY <1>2, <2>1
<1>4. \A n \in S : n \in Nat /\ d < n /\ n <= d + 3 /\ IsWeekday(n)
  OBVIOUS
<1>5. ASSUME NEW e \in Nat, d < e, e < NextWeekday(d), IsWeekday(e) PROVE FALSE
  <2>1. e \in S
    BY <1>3, <1>4, <1>5
  <2> HIDE DEF S
  <2>2. NextWeekday(d) <= e
    BY <1>3, <2>1
  <2>3. NextWeekday(d) \in Nat
    BY <1>3, <1>4
  <2> QED
    BY <1>5, <2>2, <2>3
<1> QED
  BY <1>3, <1>4, <1>5

(* A month has a first and a last business day, which are in it.           *)
LEMMA FirstBusinessDay ==
    ASSUME NEW m \in Nat
    PROVE  \E d \in WeekdaysOf(m) : IsFirstBusinessDay(d) /\ Month(d) = m /\ d \in Nat
<1>1. PICK L \in Nat : L = MonthLength /\ L > 2
  BY SizesAssumption
<1>2. PICK s : s = m * L
  OBVIOUS
<1>3. s \in Nat /\ (m + 1) * L = s + L
  BY <1>1, <1>2
<1>4. PICK d \in Nat : IsWeekday(d) /\ d \in {s, s + 1, s + 2}
  BY <1>3, WeekdayNear
<1>5. Month(d) = m
  BY <1>1, <1>2, <1>3, <1>4, MonthIs
<1>6. d \in WeekdaysOf(m)
  BY <1>1, <1>2, <1>3, <1>4 DEF WeekdaysOf
<1>7. DayOfMonth(d) <= 3
  <2>1. DayOfMonth(d) = d - s + 1
    BY <1>1, <1>2, <1>5, MonthOf
  <2> QED
    BY <1>3, <1>4, <2>1
<1> QED
  BY <1>4, <1>5, <1>6, <1>7 DEF IsFirstBusinessDay

LEMMA LastBusinessDay ==
    ASSUME NEW m \in Nat
    PROVE  \E d \in WeekdaysOf(m) : IsLastBusinessDay(d) /\ Month(d) = m /\ d \in Nat
<1>1. PICK L \in Nat : L = MonthLength /\ L > 2
  BY SizesAssumption
<1>2. PICK s, z : s = m * L /\ z = s + L - 3
  OBVIOUS
<1>3. s \in Nat /\ (m + 1) * L = s + L /\ z \in Nat /\ s <= z
  BY <1>1, <1>2
<1>4. PICK d \in Nat : /\ IsWeekday(d) /\ d \in {z, z + 1, z + 2}
                       /\ \A e \in Nat : d < e /\ e <= z + 2 => ~ IsWeekday(e)
  <2>1. CASE IsWeekday(z + 2)
    BY <1>3, <2>1
  <2>2. CASE ~ IsWeekday(z + 2) /\ IsWeekday(z + 1)
    <3>1. \A e \in Nat : z + 1 < e /\ e <= z + 2 => e = z + 2
      BY <1>3
    <3> QED
      BY <1>3, <2>2, <3>1
  <2>3. CASE ~ IsWeekday(z + 2) /\ ~ IsWeekday(z + 1)
    <3>1. \A e \in Nat : z < e /\ e <= z + 2 => e = z + 2 \/ e = z + 1
      BY <1>3
    <3>2. IsWeekday(z)
      BY <1>3, <2>3, WeekdayNear
    <3> QED
      BY <1>3, <2>3, <3>1, <3>2
  <2> QED
    BY <2>1, <2>2, <2>3
<1>5. Month(d) = m
  BY <1>1, <1>2, <1>3, <1>4, MonthIs
<1>6. d \in WeekdaysOf(m)
  BY <1>1, <1>2, <1>3, <1>4 DEF WeekdaysOf
<1>7. Month(NextWeekday(d)) # m
  <2>1. PICK n : n = NextWeekday(d)
    OBVIOUS
  <2>2. n \in Nat /\ d < n /\ IsWeekday(n)
    BY <2>1, NextIs
  <2>3. z + 2 < n
    BY <1>3, <1>4, <2>2
  <2>4. s + L <= n
    BY <1>1, <1>2, <1>3, <2>2, <2>3
  <2>5. Month(n) = m => n < s + L
    BY <1>1, <1>2, <2>2, MonthOf
  <2> QED
    BY <1>1, <1>3, <2>1, <2>2, <2>4, <2>5
<1> QED
  BY <1>4, <1>5, <1>6, <1>7 DEF IsLastBusinessDay

-----------------------------------------------------------------------------
(* Monthly batches: what is counted                                        *)

LEMMA TimesNat ==
    ASSUME NEW s \in Seq(Banks \X Nat), NEW e
    PROVE  Times(s, e) \in Nat
<1>1. PICK x : x = <<1, 0>>
  OBVIOUS
<1>2. x \in Banks \X Nat
  BY <1>1, SizesAssumption DEF Banks
<1> QED
  BY <1>2, TimesOfAppend

LEMMA Appended == ASSUME NEW S, NEW s \in Seq(S), NEW x \in S PROVE Append(s, x) \in Seq(S)
OBVIOUS

(* A batch that posts at one bank.                                         *)
LEMMA FeesPosted ==
    ASSUME MonthsInv, fees' = Append(fees, <<bank, Month(date)>>), NEW c \in Banks, NEW n \in Nat
    PROVE  /\ fees' \in Seq(Banks \X Nat)
           /\ c = bank /\ n = Month(date) => Times(fees, <<c, n>>)' = Times(fees, <<c, n>>) + 1
           /\ ~ (c = bank /\ n = Month(date)) => Times(fees, <<c, n>>)' = Times(fees, <<c, n>>)
<1>1. fees \in Seq(Banks \X Nat) /\ bank \in Banks /\ date \in Nat
  BY DEF MonthsInv, FeesInv, DatesInv
<1>2. PICK S, s, t, x, e : /\ S = Banks \X Nat /\ s = fees /\ t = fees'
                           /\ x = <<bank, Month(date)>> /\ e = <<c, n>>
  OBVIOUS
<1>3. x \in S
  BY <1>1, <1>2, MonthOf
<1>4. s \in Seq(S) /\ t = Append(s, x)
  BY <1>1, <1>2
<1>5. Times(s, e) \in Nat /\ Times(Append(s, x), e) = IF x = e THEN Times(s, e) + 1 ELSE Times(s, e)
  BY <1>3, <1>4, TimesOfAppend
<1>6. /\ t \in Seq(S) /\ Times(s, e) \in Nat
      /\ x = e => Times(t, e) = Times(s, e) + 1
      /\ x # e => Times(t, e) = Times(s, e)
  BY <1>3, <1>4, <1>5, Appended
<1>7. Times(fees, <<c, n>>)' = Times(t, e)
  BY <1>2 DEF Times
<1>8. x = e <=> (c = bank /\ n = Month(date))
  BY <1>2
<1> QED
  BY <1>2, <1>6, <1>7, <1>8

LEMMA InterestPosted ==
    ASSUME MonthsInv, interest' = Append(interest, <<bank, Month(date)>>), NEW c \in Banks, NEW n \in Nat
    PROVE  /\ interest' \in Seq(Banks \X Nat)
           /\ c = bank /\ n = Month(date) => Times(interest, <<c, n>>)' = Times(interest, <<c, n>>) + 1
           /\ ~ (c = bank /\ n = Month(date)) => Times(interest, <<c, n>>)' = Times(interest, <<c, n>>)
<1>1. interest \in Seq(Banks \X Nat) /\ bank \in Banks /\ date \in Nat
  BY DEF MonthsInv, InterestInv, DatesInv
<1>2. PICK S, s, t, x, e : /\ S = Banks \X Nat /\ s = interest /\ t = interest'
                           /\ x = <<bank, Month(date)>> /\ e = <<c, n>>
  OBVIOUS
<1>3. x \in S
  BY <1>1, <1>2, MonthOf
<1>4. s \in Seq(S) /\ t = Append(s, x)
  BY <1>1, <1>2
<1>5. Times(s, e) \in Nat /\ Times(Append(s, x), e) = IF x = e THEN Times(s, e) + 1 ELSE Times(s, e)
  BY <1>3, <1>4, TimesOfAppend
<1>6. /\ t \in Seq(S) /\ Times(s, e) \in Nat
      /\ x = e => Times(t, e) = Times(s, e) + 1
      /\ x # e => Times(t, e) = Times(s, e)
  BY <1>3, <1>4, <1>5, Appended
<1>7. Times(interest, <<c, n>>)' = Times(t, e)
  BY <1>2 DEF Times
<1>8. x = e <=> (c = bank /\ n = Month(date))
  BY <1>2
<1> QED
  BY <1>2, <1>6, <1>7, <1>8

LEMMA CountsAreNumbers ==
    ASSUME MonthsInv
    PROVE  /\ \A e : Times(fees, e) \in Nat /\ Times(interest, e) \in Nat
           /\ \A m : ErrorsIn(m) \in Nat
<1>1. fees \in Seq(Banks \X Nat) /\ interest \in Seq(Banks \X Nat) /\ IsFiniteSet(errors)
  BY DEF MonthsInv, FeesInv, InterestInv, DatesInv
<1>2. \A m : ErrorsIn(m) \in Nat
  <2> TAKE m
  <2>1. IsFiniteSet({e \in errors : Month(e.date) = m})
    BY <1>1, FS_Subset
  <2> QED
    BY <2>1, FS_CardinalityType DEF ErrorsIn
<1> QED
  BY <1>1, <1>2, TimesNat

(* A day that is cut short counts once, in its month.                      *)
LEMMA ErrorCounted ==
    ASSUME DatesInv, InDay, errors' = errors \cup {[day |-> day, date |-> date]}
    PROVE  /\ IsFiniteSet(errors') /\ \A x \in errors' : x.date \in 0 .. date
           /\ \A m : ErrorsIn(m)' = IF m = Month(date) THEN ErrorsIn(m) + 1 ELSE ErrorsIn(m)
           /\ \A d : d = date \/ CutOn(d) => CutOn(d)'
<1>1. PICK x : x = [day |-> day, date |-> date]
  OBVIOUS
<1>2. /\ x.date = date /\ errors' = errors \cup {x} /\ IsFiniteSet(errors) /\ date \in Nat
      /\ \A y \in errors : y.date \in 0 .. date /\ y.date # date
  BY <1>1 DEF DatesInv, InDay
<1>3. IsFiniteSet(errors')
  BY <1>2, FS_AddElement
<1>4. ASSUME NEW m
      PROVE  ErrorsIn(m)' = IF m = Month(date) THEN ErrorsIn(m) + 1 ELSE ErrorsIn(m)
  <2> DEFINE Old == {e \in errors : Month(e.date) = m}
             New == {e \in errors' : Month(e.date) = m}
  <2>1. IsFiniteSet(Old) /\ x \notin Old
    BY <1>2, FS_Subset
  <2>2. New = IF m = Month(date) THEN Old \cup {x} ELSE Old
    BY <1>2
  <2>3. Cardinality(Old \cup {x}) = Cardinality(Old) + 1
    BY <2>1, FS_AddElement
  <2>4. ErrorsIn(m) = Cardinality(Old) /\ ErrorsIn(m)' = Cardinality(New)
    BY DEF ErrorsIn, Month
  <2> HIDE DEF Old, New
  <2> QED
    BY <2>2, <2>3, <2>4
<1>5. \A y \in errors' : y.date \in 0 .. date
  BY <1>2
<1>6. \A d : d = date \/ CutOn(d) => CutOn(d)'
  BY <1>2 DEF CutOn
<1> QED
  BY <1>3, <1>4, <1>5, <1>6

-----------------------------------------------------------------------------
(* Monthly batches: the steps                                              *)

LEMMA ErrorsSame ==
    ASSUME UNCHANGED errors
    PROVE  (\A m : ErrorsIn(m)' = ErrorsIn(m)) /\ (\A d : CutOn(d) => CutOn(d)')
BY DEF ErrorsIn, CutOn, Month

LEMMA FeesSame ==
    ASSUME UNCHANGED fees
    PROVE  \A e : Times(fees, e)' = Times(fees, e)
BY DEF Times

LEMMA InterestSame ==
    ASSUME UNCHANGED interest
    PROVE  \A e : Times(interest, e)' = Times(interest, e)
BY DEF Times

LEMMA DatesKept ==
    ASSUME DatesInv, UNCHANGED <<date, start, errors>>, bank' \in Banks,
           pc' \notin {"fees", "interest", "after", "crashed"} => bank' = 1,
           pc' \notin {"after", "ended", "crashed"} => pc \notin {"after", "ended", "crashed"}
    PROVE  DatesInv'
BY DEF DatesInv, Banks

(* A step that charges no bank.                                            *)
LEMMA FeesKept ==
    ASSUME MonthsInv, UNCHANGED <<date, start, errors, fees, feesRun>>,
           \/ pc' = "fees" /\ pc = "open" /\ bank' = 1 /\ Month(date) \notin feesRun
           \/ pc' = pc /\ bank' = bank
           \/ pc' # "fees" /\ (pc = "fees" => pc' = "crashed") /\ pc # "crashed",
           \/ pc' \notin Settled \cup {"interest"}
           \/ pc \in Settled \cup {"interest"}
           \/ pc = "open" /\ (IsFirstBusinessDay(date) => Month(date) \in feesRun)
    PROVE  FeesInv'
<1>1. /\ fees \in Seq(Banks \X Nat) /\ bank \in Banks /\ date \in Nat
      /\ pc = "fees" => Month(date) \notin feesRun
      /\ pc \notin {"fees", "interest", "after", "crashed"} => bank = 1
  BY DEF MonthsInv, FeesInv, DatesInv
<1>2. fees' \in Seq(Banks \X Nat) /\ (pc' = "fees" => Month(date)' \notin feesRun')
  BY <1>1 DEF Month
<1>3. ASSUME NEW b \in Banks, NEW m \in Nat
      PROVE  LET under == m = Month(date) /\ ((pc = "fees" /\ b < bank) \/ pc = "crashed")
             IN  /\ Times(fees, <<b, m>>)' <= ErrorsIn(m)' + IF m \in feesRun' \/ under' THEN 1 ELSE 0
                 /\ m \in feesRun' \/ (under' /\ pc' = "fees") => Times(fees, <<b, m>>)' >= 1
  <2> DEFINE under == m = Month(date) /\ ((pc = "fees" /\ b < bank) \/ pc = "crashed")
  <2>1. /\ Times(fees, <<b, m>>) <= ErrorsIn(m) + IF m \in feesRun \/ under THEN 1 ELSE 0
        /\ m \in feesRun \/ (under /\ pc = "fees") => Times(fees, <<b, m>>) >= 1
    BY DEF MonthsInv, FeesInv
  <2>2. Times(fees, <<b, m>>)' = Times(fees, <<b, m>>) /\ ErrorsIn(m)' = ErrorsIn(m)
    BY FeesSame, ErrorsSame
  <2>3. Times(fees, <<b, m>>) \in Nat /\ ErrorsIn(m) \in Nat
    BY CountsAreNumbers
  <2>4. (under => under') /\ (under' /\ pc' = "fees" => under)
    BY DEF Banks, Month
  <2> HIDE DEF under
  <2>5. PICK k \in Nat, n \in Nat : k = Times(fees, <<b, m>>) /\ n = ErrorsIn(m)
    BY <2>3
  <2>6. m \in feesRun' <=> m \in feesRun
    OBVIOUS
  <2>7. (pc' = "fees" /\ under') => pc = "fees"
    BY DEF under, Banks
  <2> QED
    BY <2>1, <2>2, <2>4, <2>5, <2>6, <2>7 DEF under
<1>4. ASSUME NEW d \in Nat, Done(d, Settled \cup {"interest"})', IsFirstBusinessDay(d)
      PROVE  Month(d) \in feesRun' \/ CutOn(d)'
  <2>1. \/ Done(d, Settled \cup {"interest"})
        \/ d = date /\ (IsFirstBusinessDay(date) => Month(date) \in feesRun)
    BY <1>4 DEF Done, Settled
  <2> QED
    BY <1>4, <2>1, ErrorsSame DEF MonthsInv, FeesInv
<1> QED
  BY <1>2, <1>3, <1>4 DEF FeesInv, IsFirstBusinessDay, DayOfMonth, IsWeekday, Month

(* A step that pays no bank.                                               *)
LEMMA InterestKept ==
    ASSUME MonthsInv, UNCHANGED <<date, start, errors, interest, interestRun>>,
           \/ pc' = "interest" /\ pc \in {"open", "fees"} /\ bank' = 1
              /\ IsLastBusinessDay(date) /\ Month(date) \notin interestRun
           \/ pc' = pc /\ bank' = bank
           \/ pc' # "interest",
           pc' \in {"loop", "open", "fees"} => pc \in {"loop", "open", "fees"},
           \/ pc' \notin Settled
           \/ pc \in Settled
           \/ pc \in {"open", "fees"} /\ (IsLastBusinessDay(date) => Month(date) \in interestRun)
    PROVE  InterestInv'
<1>1. /\ interest \in Seq(Banks \X Nat) /\ date \in Nat /\ Month(date) \in Nat
      /\ pc = "interest" => IsLastBusinessDay(date) /\ Month(date) \notin interestRun
  BY MonthOf DEF MonthsInv, InterestInv, DatesInv
<1>2. interest' \in Seq(Banks \X Nat)
      /\ (pc' = "interest" => IsLastBusinessDay(date)' /\ Month(date)' \notin interestRun')
  BY <1>1 DEF Month, IsLastBusinessDay
<1>3. \A m \in Nat : Unpaid(m)' => Unpaid(m)
  BY DEF Unpaid, Month, IsLastBusinessDay
<1>4. ASSUME NEW b \in Banks, NEW m \in Nat
      PROVE  LET paid == Times(interest, <<b, m>>)'
             IN  /\ paid <= 1 /\ (m \in interestRun' => paid = 1)
                 /\ Unpaid(m)' => paid = 0 /\ m \notin interestRun'
                 /\ pc' = "interest" /\ m = Month(date)' => paid = IF b < bank' THEN 1 ELSE 0
  <2>1. LET paid == Times(interest, <<b, m>>)
        IN  /\ paid <= 1 /\ (m \in interestRun => paid = 1)
            /\ Unpaid(m) => paid = 0 /\ m \notin interestRun
            /\ pc = "interest" /\ m = Month(date) => paid = IF b < bank THEN 1 ELSE 0
    BY DEF MonthsInv, InterestInv
  <2>2. Times(interest, <<b, m>>)' = Times(interest, <<b, m>>)
    BY InterestSame
  <2>3. pc' = "interest" /\ pc \in {"open", "fees"} /\ m = Month(date) => Unpaid(m) /\ ~ (b < bank')
    BY DEF Unpaid, Banks
  <2>4. Month(date)' = Month(date)
    BY DEF Month
  <2> QED
    BY <1>3, <2>1, <2>2, <2>3, <2>4
<1>5. ASSUME NEW d \in Nat, Done(d, Settled)', IsLastBusinessDay(d)
      PROVE  Month(d) \in interestRun' \/ CutOn(d)'
  <2>1. \/ Done(d, Settled)
        \/ d = date /\ (IsLastBusinessDay(date) => Month(date) \in interestRun)
    BY <1>5 DEF Done, Settled
  <2> QED
    BY <1>5, <2>1, ErrorsSame DEF MonthsInv, InterestInv
<1> QED
  BY <1>2, <1>4, <1>5 DEF InterestInv, IsLastBusinessDay, Month

(* A batch posts the fees of one bank.                                     *)
LEMMA FeeBatchKeeps == ASSUME MonthsInv, FeeBatch PROVE MonthsInv'
<1>1. /\ pc = "fees" /\ UNCHANGED <<date, start, errors, interest, interestRun>>
      /\ fees' = Append(fees, <<bank, Month(date)>>)
      /\ \/ bank < NumBanks /\ bank' = bank + 1 /\ pc' = "fees" /\ feesRun' = feesRun
         \/ /\ ~ (bank < NumBanks) /\ bank' = 1 /\ feesRun' = feesRun \cup {Month(date)}
            /\ pc' = IF InterestDue THEN "interest" ELSE "events"
  BY DEF FeeBatch
<1>2. /\ bank \in Banks /\ date \in Nat /\ Month(date) \in Nat /\ Month(date) \notin feesRun
      /\ NumBanks \in Nat /\ NumBanks > 0
  BY <1>1, MonthOf, SizesAssumption DEF MonthsInv, DatesInv, FeesInv
<1>3. bank' \in Banks /\ (bank' = 1 \/ pc' = "fees") /\ pc' \in {"fees", "interest", "events"}
  BY <1>1, <1>2 DEF Banks
<1>4. DatesInv'
  BY <1>1, <1>3, DatesKept DEF MonthsInv
<1>5. InterestInv'
  BY <1>1, InterestKept DEF InterestDue, Settled
<1>6. ASSUME NEW b \in Banks, NEW m \in Nat
      PROVE  LET under == m = Month(date) /\ ((pc = "fees" /\ b < bank) \/ pc = "crashed")
             IN  /\ Times(fees, <<b, m>>)' <= ErrorsIn(m)' + IF m \in feesRun' \/ under' THEN 1 ELSE 0
                 /\ m \in feesRun' \/ (under' /\ pc' = "fees") => Times(fees, <<b, m>>)' >= 1
  <2> DEFINE under == m = Month(date) /\ ((pc = "fees" /\ b < bank) \/ pc = "crashed")
  <2>1. /\ Times(fees, <<b, m>>) <= ErrorsIn(m) + IF m \in feesRun \/ under THEN 1 ELSE 0
        /\ m \in feesRun \/ (under /\ pc = "fees") => Times(fees, <<b, m>>) >= 1
    BY DEF MonthsInv, FeesInv
  <2>2. PICK k \in Nat, n \in Nat : k = Times(fees, <<b, m>>) /\ n = ErrorsIn(m)
    BY CountsAreNumbers
  <2>3. /\ b = bank /\ m = Month(date) => Times(fees, <<b, m>>)' = k + 1
        /\ ~ (b = bank /\ m = Month(date)) => Times(fees, <<b, m>>)' = k
    BY <1>1, <2>2, FeesPosted
  <2>4. ErrorsIn(m)' = n
    BY <1>1, <2>2, ErrorsSame
  <2>5. /\ b = bank /\ m = Month(date) => ~ under
        /\ ~ (b = bank) /\ m = Month(date) /\ ~ (bank < NumBanks) => under
        /\ bank' = bank + 1 /\ pc' = "fees" => (under' <=> m = Month(date) /\ (under \/ b = bank))
        /\ pc' \in {"interest", "events"} => ~ under'
    BY <1>1, <1>2 DEF Banks, Month
  <2> HIDE DEF under
  <2>6. CASE bank < NumBanks /\ bank' = bank + 1 /\ pc' = "fees" /\ feesRun' = feesRun
    BY <1>1, <1>2, <2>1, <2>2, <2>3, <2>4, <2>5, <2>6 DEF under
  <2>7. CASE ~ (bank < NumBanks) /\ bank' = 1 /\ feesRun' = feesRun \cup {Month(date)} /\ pc' \in {"interest", "events"}
    BY <1>1, <1>2, <2>1, <2>2, <2>3, <2>4, <2>5, <2>7 DEF under
  <2> QED
    BY <1>1, <2>6, <2>7
<1>7. fees' \in Seq(Banks \X Nat)
  <2>1. PICK b \in Banks, m \in Nat : b = bank
    BY <1>2
  <2> QED
    BY <1>1, <2>1, FeesPosted
<1>8. pc' = "fees" => Month(date)' \notin feesRun'
  BY <1>1, <1>2 DEF Month
<1>9. ASSUME NEW d \in Nat, Done(d, Settled \cup {"interest"})', IsFirstBusinessDay(d)
      PROVE  Month(d) \in feesRun' \/ CutOn(d)'
  <2>1. \/ Done(d, Settled \cup {"interest"})
        \/ d = date /\ Month(date) \in feesRun'
    BY <1>1, <1>9 DEF Done, Settled
  <2>2. Done(d, Settled \cup {"interest"}) => Month(d) \in feesRun \/ CutOn(d)
    BY <1>9 DEF MonthsInv, FeesInv
  <2> QED
    BY <1>1, <2>1, <2>2, ErrorsSame
<1>10. FeesInv'
  BY <1>6, <1>7, <1>8, <1>9 DEF FeesInv, IsFirstBusinessDay, DayOfMonth, IsWeekday, Month
<1> QED
  BY <1>4, <1>5, <1>10 DEF MonthsInv

LEMMA OpenDayBatches == ASSUME MonthsInv, OpenDay PROVE MonthsInv'
<1>1. /\ pc = "open" /\ UNCHANGED <<date, start, errors, bank, fees, feesRun, interest, interestRun>>
      /\ pc' = IF FeesDue THEN "fees" ELSE IF InterestDue THEN "interest" ELSE "events"
  BY DEF OpenDay, monthly, history
<1>2. bank = 1 /\ bank \in Banks
  BY <1>1 DEF MonthsInv, DatesInv
<1>3. DatesInv'
  BY <1>1, <1>2, DatesKept DEF MonthsInv
<1>4. FeesInv'
  BY <1>1, <1>2, FeesKept DEF FeesDue, Settled
<1>5. InterestInv'
  <2>1. /\ \/ pc' = "interest" /\ IsLastBusinessDay(date) /\ Month(date) \notin interestRun
           \/ pc' # "interest"
        /\ \/ pc' \notin Settled
           \/ IsLastBusinessDay(date) => Month(date) \in interestRun
    BY <1>1 DEF InterestDue, Settled
  <2> QED
    BY <1>1, <1>2, <2>1, InterestKept
<1> QED
  BY <1>3, <1>4, <1>5 DEF MonthsInv

(* A batch posts the interest of one bank.                                 *)
LEMMA InterestBatchKeeps == ASSUME MonthsInv, InterestBatch PROVE MonthsInv'
<1>1. /\ pc = "interest" /\ UNCHANGED <<date, start, errors, fees, feesRun>>
      /\ interest' = Append(interest, <<bank, Month(date)>>)
      /\ \/ bank < NumBanks /\ bank' = bank + 1 /\ pc' = "interest" /\ interestRun' = interestRun
         \/ /\ ~ (bank < NumBanks) /\ bank' = 1 /\ interestRun' = interestRun \cup {Month(date)}
            /\ pc' = "events"
  BY DEF InterestBatch
<1>2. /\ bank \in Banks /\ date \in Nat /\ Month(date) \in Nat
      /\ IsLastBusinessDay(date) /\ Month(date) \notin interestRun
      /\ NumBanks \in Nat /\ NumBanks > 0
  BY <1>1, MonthOf, SizesAssumption DEF MonthsInv, DatesInv, InterestInv
<1>3. bank' \in Banks /\ (bank' = 1 \/ pc' = "interest") /\ pc' \in {"interest", "events"}
  BY <1>1, <1>2 DEF Banks
<1>4. DatesInv'
  BY <1>1, <1>3, DatesKept DEF MonthsInv
<1>5. FeesInv'
  <2>1. pc' # "fees" /\ pc # "fees" /\ pc # "crashed" /\ pc \in Settled \cup {"interest"}
    BY <1>1
  <2> QED
    BY <1>1, <2>1, FeesKept
<1>6. ASSUME NEW b \in Banks, NEW m \in Nat
      PROVE  LET paid == Times(interest, <<b, m>>)'
             IN  /\ paid <= 1 /\ (m \in interestRun' => paid = 1)
                 /\ Unpaid(m)' => paid = 0 /\ m \notin interestRun'
                 /\ pc' = "interest" /\ m = Month(date)' => paid = IF b < bank' THEN 1 ELSE 0
  <2>1. LET paid == Times(interest, <<b, m>>)
        IN  /\ paid <= 1 /\ (m \in interestRun => paid = 1)
            /\ Unpaid(m) => paid = 0 /\ m \notin interestRun
            /\ pc = "interest" /\ m = Month(date) => paid = IF b < bank THEN 1 ELSE 0
    BY DEF MonthsInv, InterestInv
  <2>2. PICK k \in Nat : k = Times(interest, <<b, m>>)
    BY CountsAreNumbers
  <2>3. /\ b = bank /\ m = Month(date) => Times(interest, <<b, m>>)' = k + 1
        /\ ~ (b = bank /\ m = Month(date)) => Times(interest, <<b, m>>)' = k
    BY <1>1, <2>2, InterestPosted
  <2>4. Month(date)' = Month(date)
    BY <1>1 DEF Month
  <2>5. Unpaid(m)' => Unpaid(m) /\ m # Month(date)
    <3>1. Unpaid(m)' => m > Month(date)
      BY <1>1, <1>2, <1>3 DEF Unpaid, Month, IsLastBusinessDay
    <3> QED
      BY <1>2, <3>1 DEF Unpaid
  <2>6. b \in Nat /\ bank \in Nat /\ b <= NumBanks
    BY <1>2 DEF Banks
  <2>7. CASE m = Month(date)
    <3>1. k = IF b < bank THEN 1 ELSE 0
      BY <1>1, <2>1, <2>2, <2>7
    <3> QED
      BY <1>1, <1>2, <2>3, <2>4, <2>5, <2>6, <2>7, <3>1
  <2>8. CASE m # Month(date)
    BY <1>1, <2>1, <2>2, <2>3, <2>4, <2>5, <2>8
  <2> QED
    BY <2>7, <2>8
<1>7. interest' \in Seq(Banks \X Nat)
  <2>1. PICK b \in Banks, m \in Nat : b = bank
    BY <1>2
  <2> QED
    BY <1>1, <2>1, InterestPosted
<1>8. pc' = "interest" => IsLastBusinessDay(date)' /\ Month(date)' \notin interestRun'
  BY <1>1, <1>2 DEF Month, IsLastBusinessDay
<1>9. ASSUME NEW d \in Nat, Done(d, Settled)', IsLastBusinessDay(d)
      PROVE  Month(d) \in interestRun' \/ CutOn(d)'
  <2>1. \/ Done(d, Settled)
        \/ d = date /\ Month(date) \in interestRun'
    BY <1>1, <1>9 DEF Done, Settled
  <2>2. Done(d, Settled) => Month(d) \in interestRun \/ CutOn(d)
    BY <1>9 DEF MonthsInv, InterestInv
  <2> QED
    BY <1>1, <2>1, <2>2, ErrorsSame
<1>10. InterestInv'
  BY <1>6, <1>7, <1>8, <1>9 DEF InterestInv, IsLastBusinessDay, Month
<1> QED
  BY <1>4, <1>5, <1>10 DEF MonthsInv

(* The date moves on, over no weekday.                                     *)
LEMMA AfterDayBatches == ASSUME MonthsInv, AfterDay PROVE MonthsInv'
<1>1. /\ pc = "after" /\ pc' = "loop" /\ bank' = 1 /\ date' = NextWeekday(date)
      /\ UNCHANGED <<start, errors, fees, feesRun, interest, interestRun>>
  BY DEF AfterDay, history
<1>2. /\ date \in Nat /\ start \in Nat /\ start <= date /\ IsFiniteSet(errors)
      /\ \A x \in errors : x.date \in 0 .. date
      /\ fees \in Seq(Banks \X Nat) /\ interest \in Seq(Banks \X Nat)
  BY DEF MonthsInv, DatesInv, FeesInv, InterestInv
<1>3. PICK next : next = NextWeekday(date)
  OBVIOUS
<1>4. /\ next \in Nat /\ date < next
      /\ \A e \in Nat : date < e /\ e < next => ~ IsWeekday(e)
  BY <1>2, <1>3, NextIs
<1>5. Month(date) \in Nat /\ Month(next) \in Nat /\ Month(date) <= Month(next)
  <2>1. Month(date) \in Nat /\ Month(next) \in Nat
    BY <1>2, <1>4, MonthOf
  <2>2. date <= next
    BY <1>2, <1>4
  <2>3. Month(date) <= Month(next)
    BY <1>2, <1>4, <2>2, MonthsInOrder
  <2> QED
    BY <2>1, <2>3
<1>6. date' = next /\ Month(date)' = Month(next)
  BY <1>1, <1>3 DEF Month
<1>7. DatesInv'
  <2>1. 1 \in Banks
    BY SizesAssumption DEF Banks
  <2>2. \A x \in errors : x.date \in 0 .. next /\ x.date # next
    BY <1>2, <1>4
  <2>3. start <= next
    BY <1>2, <1>4
  <2> QED
    BY <1>1, <1>2, <1>4, <1>6, <2>1, <2>2, <2>3 DEF DatesInv
<1>8. \A d \in Nat : Done(d, Settled)' => Done(d, Settled) /\ Done(d, Settled \cup {"interest"})
  BY <1>1, <1>2, <1>4, <1>6 DEF Done, Settled
<1>9. \A d \in Nat : Done(d, Settled \cup {"interest"})' => Done(d, Settled)'
  BY <1>1 DEF Done, Settled
<1>10. FeesInv'
  <2>1. ASSUME NEW b \in Banks, NEW m \in Nat
        PROVE  /\ Times(fees, <<b, m>>)' <= ErrorsIn(m)' + IF m \in feesRun' THEN 1 ELSE 0
               /\ m \in feesRun' => Times(fees, <<b, m>>)' >= 1
    <3>1. /\ Times(fees, <<b, m>>) <= ErrorsIn(m) + IF m \in feesRun THEN 1 ELSE 0
          /\ m \in feesRun => Times(fees, <<b, m>>) >= 1
      BY <1>1 DEF MonthsInv, FeesInv
    <3> QED
      BY <1>1, <3>1, FeesSame, ErrorsSame
  <2>2. ASSUME NEW d \in Nat, Done(d, Settled \cup {"interest"})', IsFirstBusinessDay(d)
        PROVE  Month(d) \in feesRun' \/ CutOn(d)'
    BY <1>1, <1>8, <1>9, <2>2, ErrorsSame DEF MonthsInv, FeesInv
  <2> QED
    BY <1>1, <1>2, <2>1, <2>2 DEF FeesInv, IsFirstBusinessDay, DayOfMonth, IsWeekday, Month
<1>11. InterestInv'
  <2>1. ASSUME NEW m \in Nat, Unpaid(m)' PROVE Unpaid(m)
    <3>1. m > Month(next) \/ m = Month(next)
      BY <1>1, <1>6, <2>1 DEF Unpaid
    <3>2. m > Month(date) \/ (m = Month(date) /\ Month(next) = Month(date))
      BY <1>5, <3>1
    <3> QED
      BY <1>3, <3>2 DEF Unpaid, IsLastBusinessDay
  <2>2. ASSUME NEW b \in Banks, NEW m \in Nat
        PROVE  LET paid == Times(interest, <<b, m>>)'
               IN  /\ paid <= 1 /\ (m \in interestRun' => paid = 1)
                   /\ Unpaid(m)' => paid = 0 /\ m \notin interestRun'
    <3>1. LET paid == Times(interest, <<b, m>>)
          IN  /\ paid <= 1 /\ (m \in interestRun => paid = 1)
              /\ Unpaid(m) => paid = 0 /\ m \notin interestRun
      BY DEF MonthsInv, InterestInv
    <3> QED
      BY <1>1, <2>1, <3>1, InterestSame
  <2>3. ASSUME NEW d \in Nat, Done(d, Settled)', IsLastBusinessDay(d)
        PROVE  Month(d) \in interestRun' \/ CutOn(d)'
    BY <1>1, <1>8, <2>3, ErrorsSame DEF MonthsInv, InterestInv
  <2> QED
    BY <1>1, <1>2, <2>2, <2>3 DEF InterestInv, IsLastBusinessDay, Month
<1> QED
  BY <1>7, <1>10, <1>11 DEF MonthsInv

(* An OSError, also one raised after a bank's batch has posted.            *)
LEMMA OsErrorBatches == ASSUME MonthsInv, OsError PROVE MonthsInv'
<1>1. /\ InDay /\ pc' = "after" /\ errors' = errors \cup {[day |-> day, date |-> date]}
      /\ UNCHANGED <<date, start, bank, feesRun, interestRun>>
      /\ fees' = fees \/ (pc = "fees" /\ fees' = Append(fees, <<bank, Month(date)>>))
      /\ interest' = interest \/ (pc = "interest" /\ interest' = Append(interest, <<bank, Month(date)>>))
  BY DEF OsError, monthly
<1>2. /\ date \in Nat /\ Month(date) \in Nat /\ bank \in Banks /\ start \in Nat /\ start <= date
      /\ fees \in Seq(Banks \X Nat) /\ interest \in Seq(Banks \X Nat)
      /\ pc = "fees" => Month(date) \notin feesRun
      /\ pc = "interest" => IsLastBusinessDay(date) /\ Month(date) \notin interestRun
  BY MonthOf DEF MonthsInv, DatesInv, FeesInv, InterestInv
<1>3. pc \notin {"loop", "after", "ended", "crashed"} /\ Month(date)' = Month(date)
  BY <1>1 DEF InDay, Month
<1>4. /\ IsFiniteSet(errors') /\ \A x \in errors' : x.date \in 0 .. date
      /\ \A m : ErrorsIn(m)' = IF m = Month(date) THEN ErrorsIn(m) + 1 ELSE ErrorsIn(m)
      /\ \A d : d = date \/ CutOn(d) => CutOn(d)'
  BY <1>1, ErrorCounted DEF MonthsInv
<1>5. DatesInv'
  BY <1>1, <1>2, <1>4 DEF DatesInv
<1>6. \A d, pcs : Done(d, pcs)' /\ d # date => Done(d, pcs)
  BY <1>1, <1>2 DEF Done
<1>7. FeesInv'
  <2>1. ASSUME NEW b \in Banks, NEW m \in Nat
        PROVE  /\ Times(fees, <<b, m>>)' <= ErrorsIn(m)' + IF m \in feesRun' THEN 1 ELSE 0
               /\ m \in feesRun' => Times(fees, <<b, m>>)' >= 1
    <3> DEFINE under == m = Month(date) /\ ((pc = "fees" /\ b < bank) \/ pc = "crashed")
    <3>1. /\ Times(fees, <<b, m>>) <= ErrorsIn(m) + IF m \in feesRun \/ under THEN 1 ELSE 0
          /\ m \in feesRun \/ (under /\ pc = "fees") => Times(fees, <<b, m>>) >= 1
      BY DEF MonthsInv, FeesInv
    <3>2. PICK k \in Nat, n \in Nat : k = Times(fees, <<b, m>>) /\ n = ErrorsIn(m)
      BY CountsAreNumbers
    <3>3. ErrorsIn(m)' = IF m = Month(date) THEN n + 1 ELSE n
      BY <1>4, <3>2
    <3>4. CASE fees' = fees
      <4>1. Times(fees, <<b, m>>)' = k
        BY <3>2, <3>4, FeesSame
      <4>2. under => m = Month(date)
        OBVIOUS
      <4> HIDE DEF under
      <4>3. k <= n + IF m \in feesRun \/ under THEN 1 ELSE 0
        BY <3>1, <3>2
      <4>4. m \in feesRun => k >= 1
        BY <3>1, <3>2
      <4> QED
        BY <1>1, <3>3, <4>1, <4>2, <4>3, <4>4
    <3>5. CASE pc = "fees" /\ fees' = Append(fees, <<bank, Month(date)>>)
      <4>1. /\ b = bank /\ m = Month(date) => Times(fees, <<b, m>>)' = k + 1
            /\ ~ (b = bank /\ m = Month(date)) => Times(fees, <<b, m>>)' = k
        BY <3>2, <3>5, FeesPosted
      <4>2. (under => m = Month(date)) /\ (b = bank => ~ under) /\ (m = Month(date) => m \notin feesRun)
        BY <1>2, <3>5 DEF Banks
      <4> HIDE DEF under
      <4>3. k <= n + IF m \in feesRun \/ under THEN 1 ELSE 0
        BY <3>1, <3>2
      <4>4. m \in feesRun => k >= 1
        BY <3>1, <3>2
      <4> QED
        BY <1>1, <3>3, <4>1, <4>2, <4>3, <4>4
    <3> QED
      BY <1>1, <3>4, <3>5
  <2>2. fees' \in Seq(Banks \X Nat)
    <3>1. PICK b \in Banks, m \in Nat : b = bank
      BY <1>2
    <3> QED
      BY <1>1, <1>2, <3>1, FeesPosted
  <2>3. ASSUME NEW d \in Nat, Done(d, Settled \cup {"interest"})', IsFirstBusinessDay(d)
        PROVE  Month(d) \in feesRun' \/ CutOn(d)'
    BY <1>1, <1>4, <1>6, <2>3 DEF MonthsInv, FeesInv
  <2> QED
    BY <1>1, <2>1, <2>2, <2>3 DEF FeesInv, IsFirstBusinessDay, DayOfMonth, IsWeekday, Month
<1>8. InterestInv'
  <2>1. ASSUME NEW m \in Nat, Unpaid(m)' PROVE Unpaid(m) /\ (pc = "interest" => m # Month(date))
    <3>1. m > Month(date) \/ (m = Month(date) /\ ~ IsLastBusinessDay(date))
      BY <1>1, <1>3, <2>1 DEF Unpaid, IsLastBusinessDay, Month
    <3> QED
      BY <1>2, <3>1 DEF Unpaid
  <2>2. ASSUME NEW b \in Banks, NEW m \in Nat
        PROVE  LET paid == Times(interest, <<b, m>>)'
               IN  /\ paid <= 1 /\ (m \in interestRun' => paid = 1)
                   /\ Unpaid(m)' => paid = 0 /\ m \notin interestRun'
    <3>1. LET paid == Times(interest, <<b, m>>)
          IN  /\ paid <= 1 /\ (m \in interestRun => paid = 1)
              /\ Unpaid(m) => paid = 0 /\ m \notin interestRun
              /\ pc = "interest" /\ m = Month(date) => paid = IF b < bank THEN 1 ELSE 0
      BY DEF MonthsInv, InterestInv
    <3>2. CASE interest' = interest
      BY <1>1, <2>1, <3>1, <3>2, InterestSame
    <3>3. CASE pc = "interest" /\ interest' = Append(interest, <<bank, Month(date)>>)
      <4>1. PICK k \in Nat : k = Times(interest, <<b, m>>)
        BY CountsAreNumbers
      <4>2. /\ b = bank /\ m = Month(date) => Times(interest, <<b, m>>)' = k + 1
            /\ ~ (b = bank /\ m = Month(date)) => Times(interest, <<b, m>>)' = k
        BY <3>3, <4>1, InterestPosted
      <4>3. b = bank => ~ (b < bank)
        BY <1>2 DEF Banks
      <4>4. k <= 1 /\ (m \in interestRun => k = 1) /\ (Unpaid(m) => k = 0 /\ m \notin interestRun)
        BY <3>1, <4>1
      <4>5. b = bank /\ m = Month(date) => k = 0 /\ m \notin interestRun
        BY <1>2, <3>1, <3>3, <4>1, <4>3
      <4>6. interestRun' = interestRun /\ (Unpaid(m)' => Unpaid(m) /\ m # Month(date))
        BY <1>1, <2>1, <3>3
      <4> QED
        BY <4>2, <4>4, <4>5, <4>6
    <3> QED
      BY <1>1, <3>2, <3>3
  <2>3. interest' \in Seq(Banks \X Nat)
    <3>1. PICK b \in Banks, m \in Nat : b = bank
      BY <1>2
    <3> QED
      BY <1>1, <1>2, <3>1, InterestPosted
  <2>4. ASSUME NEW d \in Nat, Done(d, Settled)', IsLastBusinessDay(d)
        PROVE  Month(d) \in interestRun' \/ CutOn(d)'
    BY <1>1, <1>4, <1>6, <2>4 DEF MonthsInv, InterestInv
  <2> QED
    BY <1>1, <2>2, <2>3, <2>4 DEF InterestInv, IsLastBusinessDay, Month
<1> QED
  BY <1>5, <1>7, <1>8 DEF MonthsInv

LEMMA InitBatches == Init => MonthsInv
<1> SUFFICES ASSUME Init PROVE MonthsInv
  OBVIOUS
<1>1. /\ pc = "loop" /\ date \in Nat /\ start = date /\ errors = {} /\ bank = 1
      /\ fees = <<>> /\ interest = <<>> /\ feesRun = {} /\ interestRun = {}
  BY StartAssumption DEF Init
<1>2. DatesInv
  BY <1>1, FS_EmptySet, SizesAssumption DEF DatesInv, Banks
<1>3. \A e : Times(fees, e) = 0 /\ Times(interest, e) = 0
  BY <1>1, TimesOfEmpty
<1>4. \A m : ErrorsIn(m) = 0
  <2>1. \A m : {e \in errors : Month(e.date) = m} = {}
    BY <1>1
  <2> QED
    BY <2>1, FS_EmptySet DEF ErrorsIn
<1>5. \A d \in Nat : ~ Done(d, Settled) /\ ~ Done(d, Settled \cup {"interest"})
  BY <1>1 DEF Done, Settled
<1>6. FeesInv
  <2>1. fees \in Seq(Banks \X Nat)
    BY <1>1
  <2>2. ASSUME NEW b \in Banks, NEW m \in Nat
        PROVE  Times(fees, <<b, m>>) <= ErrorsIn(m) + 0
    BY <1>3, <1>4
  <2> QED
    BY <1>1, <1>5, <2>1, <2>2 DEF FeesInv
<1>7. InterestInv
  <2>1. interest \in Seq(Banks \X Nat)
    BY <1>1
  <2> QED
    BY <1>1, <1>3, <1>5, <2>1 DEF InterestInv
<1> QED
  BY <1>2, <1>6, <1>7 DEF MonthsInv

(* A step that charges and pays nobody.                                    *)
LEMMA BatchesQuiet ==
    ASSUME MonthsInv, UNCHANGED <<date, start, errors, bank, fees, feesRun, interest, interestRun>>,
           \/ pc' = pc
           \/ pc = "loop" /\ pc' \in {"open", "ended"}
           \/ pc \in Settled /\ pc' \in Settled
           \/ pc \in Settled \cup {"open", "fees", "interest"} /\ pc' = "crashed",
           pc = "after" => pc' \in {"after", "crashed"}
    PROVE  MonthsInv'
<1>1. /\ bank \in Banks
      /\ pc \notin {"fees", "interest", "after", "crashed"} => bank = 1
  BY DEF MonthsInv, DatesInv
<1>2. DatesInv'
  BY <1>1, DatesKept DEF MonthsInv, Settled
<1>3. FeesInv'
  <2>1. \/ pc' = pc
        \/ pc' # "fees" /\ (pc = "fees" => pc' = "crashed") /\ pc # "crashed"
    BY DEF Settled
  <2>2. pc' \in Settled \cup {"interest"} => pc \in Settled \cup {"interest"}
    BY DEF Settled
  <2> QED
    BY <2>1, <2>2, FeesKept
<1>4. InterestInv'
  <2>1. pc' = pc \/ pc' # "interest"
    BY DEF Settled
  <2>2. pc' \in {"loop", "open", "fees"} => pc \in {"loop", "open", "fees"}
    BY DEF Settled
  <2>3. pc' \in Settled => pc \in Settled
    BY DEF Settled
  <2> QED
    BY <2>1, <2>2, <2>3, InterestKept
<1> QED
  BY <1>2, <1>3, <1>4 DEF MonthsInv

LEMMA StepBatches == ASSUME MonthsInv, [Next]_vars PROVE MonthsInv'
<1>1. ASSUME NextDay PROVE MonthsInv'
  <2>1. /\ UNCHANGED <<date, start, errors, bank, fees, feesRun, interest, interestRun>>
        /\ pc = "loop" /\ pc' \in {"open", "ended"}
    BY <1>1 DEF NextDay, monthly, history
  <2> QED
    BY <2>1, BatchesQuiet
<1>2. ASSUME OpenDay PROVE MonthsInv'
  BY <1>2, OpenDayBatches
<1>3. ASSUME FeeBatch PROVE MonthsInv'
  BY <1>3, FeeBatchKeeps
<1>4. ASSUME InterestBatch PROVE MonthsInv'
  BY <1>4, InterestBatchKeeps
<1>5. ASSUME HandleEvent \/ DrawTransactions \/ NextTx \/ WaitIfPaused \/ Transaction \/ EndOfDay
      PROVE  MonthsInv'
  <2>1. /\ UNCHANGED <<date, start, errors, bank, fees, feesRun, interest, interestRun>>
        /\ pc \in Settled /\ pc' \in Settled /\ pc # "after"
    BY <1>5 DEF HandleEvent, DrawTransactions, NextTx, WaitIfPaused, Transaction, EndOfDay,
                monthly, history, Settled
  <2> QED
    BY <2>1, BatchesQuiet
<1>6. ASSUME AfterDay PROVE MonthsInv'
  BY <1>6, AfterDayBatches
<1>7. ASSUME OsError PROVE MonthsInv'
  BY <1>7, OsErrorBatches
<1>8. ASSUME Crash PROVE MonthsInv'
  <2>1. /\ UNCHANGED <<date, start, errors, bank, fees, feesRun, interest, interestRun>>
        /\ pc \in Settled \cup {"open", "fees", "interest"} /\ pc' = "crashed"
    BY <1>8 DEF Crash, InDay, monthly, history, Settled
  <2> QED
    BY <2>1, BatchesQuiet
<1>9. ASSUME Stop \/ Pause \/ Resume \/ UNCHANGED vars PROVE MonthsInv'
  <2>1. UNCHANGED <<date, start, errors, bank, fees, feesRun, interest, interestRun>> /\ pc' = pc
    BY <1>9 DEF Stop, Pause, Resume, vars, monthly, history
  <2> QED
    BY <2>1, BatchesQuiet
<1> QED
  BY <1>1, <1>2, <1>3, <1>4, <1>5, <1>6, <1>7, <1>8, <1>9 DEF Next, Step

(* What the batches of a month have charged and paid, and which business   *)
(* days have marked their month or were cut short, in every state of every *)
(* run (_run_day, run_monthly_fees, run_interest and the OSError that run  *)
(* catches).                                                               *)
THEOREM MonthsInvariance == Spec => []MonthsInv
<1>1. MonthsInv /\ [Next]_vars => MonthsInv'
  BY StepBatches
<1> QED
  BY <1>1, InitBatches, PTL DEF Spec

(* Nobody is charged a month's fees more often than once and once more for *)
(* each day of it that was cut short, or paid its interest twice; and a    *)
(* month simulated from its first to its last business day with no day cut *)
(* short took both once at every bank: for any number of banks, any length *)
(* of a month of three days or more, wherever its weekends are.            *)
THEOREM MonthsChargedRight == Spec => []MonthlyBatchesRight
<1>1. MonthsInv => MonthlyBatchesRight
  <2> SUFFICES ASSUME MonthsInv, NEW b \in Banks, NEW m \in Months
               PROVE  /\ Times(fees, <<b, m>>) <= 1 + ErrorsIn(m) /\ Times(interest, <<b, m>>) <= 1
                      /\ Simulated(m) /\ ErrorsIn(m) = 0 =>
                             Times(fees, <<b, m>>) = 1 /\ Times(interest, <<b, m>>) = 1
    BY DEF MonthlyBatchesRight
  <2>1. m \in Nat
    BY MonthOf DEF Months, MonthsInv, DatesInv
  <2>2. PICK k \in Nat, l \in Nat, n \in Nat :
            k = Times(fees, <<b, m>>) /\ l = Times(interest, <<b, m>>) /\ n = ErrorsIn(m)
    BY CountsAreNumbers
  <2>3. k <= n + 1 /\ (m \in feesRun => k >= 1)
    <3> DEFINE under == m = Month(date) /\ ((pc = "fees" /\ b < bank) \/ pc = "crashed")
    <3>1. /\ Times(fees, <<b, m>>) <= ErrorsIn(m) + IF m \in feesRun \/ under THEN 1 ELSE 0
          /\ m \in feesRun \/ (under /\ pc = "fees") => Times(fees, <<b, m>>) >= 1
      BY <2>1 DEF MonthsInv, FeesInv
    <3> HIDE DEF under
    <3> QED
      BY <2>2, <3>1
  <2>4. l <= 1 /\ (m \in interestRun => l = 1)
    BY <2>1, <2>2 DEF MonthsInv, InterestInv
  <2>5. ASSUME Simulated(m), n = 0 PROVE m \in feesRun /\ m \in interestRun
    <3>1. \A d \in Nat : Month(d) = m => ~ CutOn(d)
      <4> SUFFICES ASSUME NEW x \in errors, Month(x.date) = m PROVE FALSE
        BY DEF CutOn
      <4>1. IsFiniteSet({e \in errors : Month(e.date) = m})
        BY FS_Subset DEF MonthsInv, DatesInv
      <4>2. {e \in errors : Month(e.date) = m} = {}
        BY <2>2, <2>5, <4>1, FS_EmptySet DEF ErrorsIn
      <4> QED
        BY <4>2
    <3>2. ASSUME NEW d \in WeekdaysOf(m), d \in Nat
          PROVE  Done(d, Settled) /\ Done(d, Settled \cup {"interest"})
      BY <2>5 DEF Simulated, WeekdaysOf, Done
    <3>3. m \in feesRun
      <4>1. PICK d \in WeekdaysOf(m) : IsFirstBusinessDay(d) /\ Month(d) = m /\ d \in Nat
        BY <2>1, FirstBusinessDay
      <4> QED
        BY <3>1, <3>2, <4>1 DEF MonthsInv, FeesInv
    <3>4. m \in interestRun
      <4>1. PICK d \in WeekdaysOf(m) : IsLastBusinessDay(d) /\ Month(d) = m /\ d \in Nat
        BY <2>1, LastBusinessDay
      <4> QED
        BY <3>1, <3>2, <4>1 DEF MonthsInv, InterestInv
    <3> QED
      BY <3>3, <3>4
  <2> QED
    BY <2>2, <2>3, <2>4, <2>5
<1> QED
  BY <1>1, MonthsInvariance, PTL

-----------------------------------------------------------------------------
(* Streams: what is put into the queues                                    *)

LEMMA PutKeeps ==
    ASSUME NEW s \in Stream, NEW kind \in Kinds
    PROVE  /\ Put(s, kind) \in Stream /\ Put(s, kind).listed = s.listed
           /\ Full(s) => Put(s, kind).gaps = s.gaps /\ Put(s, kind).missed = s.missed \cup {kind}
           /\ ~ Full(s) => Put(s, kind).gaps = s.gaps \cup s.missed /\ Put(s, kind).missed = s.missed
<1>1. /\ s = [listed |-> s.listed, queue |-> s.queue, missed |-> s.missed, gaps |-> s.gaps]
      /\ s.listed \in BOOLEAN /\ s.queue \in 0 .. QueueSize /\ s.missed \in SUBSET Kinds /\ s.gaps \in SUBSET Kinds
      /\ QueueSize \in Nat
  BY BoundsAssumption DEF Stream
<1>2. CASE Full(s)
  <2>1. Put(s, kind) = [listed |-> s.listed, queue |-> s.queue, missed |-> s.missed \cup {kind}, gaps |-> s.gaps]
    BY <1>1, <1>2 DEF Put
  <2> QED
    BY <1>1, <1>2, <2>1 DEF Stream
<1>3. CASE ~ Full(s)
  <2>1. Put(s, kind) = [listed |-> s.listed, queue |-> s.queue + 1, missed |-> s.missed, gaps |-> s.gaps \cup s.missed]
    BY <1>1, <1>3 DEF Put
  <2>2. s.queue + 1 \in 0 .. QueueSize
    BY <1>1, <1>3 DEF Full
  <2> QED
    BY <1>1, <1>3, <2>1, <2>2 DEF Stream
<1> QED
  BY <1>2, <1>3

(* A broadcast takes the queue that misses it off the list.                *)
LEMMA BroadcastKeeps ==
    ASSUME NEW all, StreamsOK(all)
    PROVE  StreamsOK(Broadcast(all))
<1> DEFINE more == Broadcast(all)
           B(s) == IF s.listed THEN [Put(s, "engine") EXCEPT !.listed = ~Full(s)] ELSE s
<1>1. all \in Seq(Stream) /\ \A i \in DOMAIN all : all[i] \in Stream /\ StreamOK(all[i])
  BY DEF StreamsOK
<1>2. ASSUME NEW s \in Stream, StreamOK(s)
      PROVE  B(s) \in Stream /\ StreamOK(B(s))
  <2> DEFINE p == Put(s, "engine")
  <2>1. /\ p \in Stream
        /\ Full(s) => p.gaps = s.gaps /\ p.missed = s.missed \cup {"engine"}
        /\ ~ Full(s) => p.gaps = s.gaps \cup s.missed /\ p.missed = s.missed
    BY PutKeeps DEF Kinds
  <2> HIDE DEF p
  <2>2. p = [listed |-> p.listed, queue |-> p.queue, missed |-> p.missed, gaps |-> p.gaps]
    BY <2>1 DEF Stream
  <2>3. /\ [p EXCEPT !.listed = ~Full(s)] \in Stream
        /\ [p EXCEPT !.listed = ~Full(s)].gaps = p.gaps
        /\ [p EXCEPT !.listed = ~Full(s)].missed = p.missed
        /\ [p EXCEPT !.listed = ~Full(s)].listed = ~Full(s)
    BY <2>1, <2>2 DEF Stream, Full
  <2> QED
    BY <1>2, <2>1, <2>3 DEF StreamOK, p
<1>3. DOMAIN more = DOMAIN all /\ \A i \in DOMAIN all : more[i] = B(all[i])
  BY DEF Broadcast
<1>4. more = [i \in 1 .. Len(all) |-> B(all[i])] /\ Len(all) \in Nat
  BY <1>1 DEF Broadcast
<1> HIDE DEF B
<1>5. more \in Seq(Stream)
  BY <1>1, <1>2, <1>4
<1> HIDE DEF more
<1> QED
  BY <1>1, <1>2, <1>3, <1>5 DEF StreamsOK, more

LEMMA AnnounceKeeps ==
    ASSUME NEW all, StreamsOK(all)
    PROVE  StreamsOK(Announce(all))
<1> DEFINE more == Announce(all)
           B(s) == IF s.listed THEN Put(s, "announcement") ELSE s
<1>1. all \in Seq(Stream) /\ \A i \in DOMAIN all : all[i] \in Stream /\ StreamOK(all[i])
  BY DEF StreamsOK
<1>2. ASSUME NEW s \in Stream, StreamOK(s)
      PROVE  B(s) \in Stream /\ StreamOK(B(s))
  BY <1>2, PutKeeps DEF StreamOK, Kinds
<1>3. DOMAIN more = DOMAIN all /\ \A i \in DOMAIN all : more[i] = B(all[i])
  BY DEF Announce
<1>4. more = [i \in 1 .. Len(all) |-> B(all[i])] /\ Len(all) \in Nat
  BY <1>1 DEF Announce
<1> HIDE DEF B
<1>5. more \in Seq(Stream)
  BY <1>1, <1>2, <1>4
<1> HIDE DEF more
<1> QED
  BY <1>1, <1>2, <1>3, <1>5 DEF StreamsOK, more

(* What the fold of Fire computes: one broadcast for each callback.        *)
PartialBroadcasts(base, S, g) ==
    g = [s \in SUBSET S |-> IF s = {} THEN base ELSE Broadcast(g[s \ {FirstOf(s)}])]

LEMMA PartialBroadcastsAgree ==
    ASSUME NEW base, NEW S, NEW T, NEW g, NEW h, PartialBroadcasts(base, S, g), PartialBroadcasts(base, T, h),
           NEW s, s \subseteq S, s \subseteq T, IsFiniteSet(s)
    PROVE  g[s] = h[s]
<1> DEFINE F == {t \in SUBSET s : g[t] # h[t]}
<1>1. SUFFICES ASSUME F # {} PROVE FALSE
  OBVIOUS
<1>2. PICK t \in F : \A u \in F : u \subseteq t => u = t
  <2>1. F \subseteq SUBSET s
    OBVIOUS
  <2> HIDE DEF F
  <2> QED BY <1>1, <2>1, SmallestSubset
<1>3. t \in SUBSET S /\ t \in SUBSET T /\ g[t] # h[t]
  BY <1>2
<1>4. /\ g[t] = IF t = {} THEN base ELSE Broadcast(g[t \ {FirstOf(t)}])
      /\ h[t] = IF t = {} THEN base ELSE Broadcast(h[t \ {FirstOf(t)}])
  BY <1>3 DEF PartialBroadcasts
<1>5. t # {}
  BY <1>3, <1>4
<1>6. FirstOf(t) \in t
  BY <1>5 DEF FirstOf
<1>7. t \ {FirstOf(t)} \notin F
  BY <1>2, <1>6
<1>8. t \ {FirstOf(t)} \in SUBSET s
  BY <1>2
<1> QED BY <1>3, <1>4, <1>5, <1>7, <1>8

LEMMA PartialBroadcastsExist ==
    ASSUME NEW base, NEW S, IsFiniteSet(S)
    PROVE  \E g : PartialBroadcasts(base, S, g)
<1> DEFINE F == {t \in SUBSET S : ~ \E g : PartialBroadcasts(base, t, g)}
           Pick(t) == CHOOSE g : PartialBroadcasts(base, t, g)
<1>1. SUFFICES ASSUME F # {} PROVE FALSE
  OBVIOUS
<1>2. PICK t \in F : \A u \in F : u \subseteq t => u = t
  <2>1. F \subseteq SUBSET S
    OBVIOUS
  <2> HIDE DEF F
  <2> QED BY <1>1, <2>1, SmallestSubset
<1> DEFINE V(s) == IF s # t THEN Pick(s)[s]
                   ELSE IF t = {} THEN base ELSE Broadcast(Pick(t \ {FirstOf(t)})[t \ {FirstOf(t)}])
           g == [s \in SUBSET t |-> V(s)]
<1>3. \A s \in SUBSET t : s # t => PartialBroadcasts(base, s, Pick(s))
  BY <1>2
<1>4. ASSUME NEW s \in SUBSET t
      PROVE  g[s] = IF s = {} THEN base ELSE Broadcast(g[s \ {FirstOf(s)}])
  <2>1. CASE s = {} /\ t # {}
    <3>1. g[s] = Pick(s)[s]
      BY <2>1
    <3>2. PartialBroadcasts(base, s, Pick(s))
      BY <1>3, <2>1
    <3>3. Pick(s)[s] = base
      <4> HIDE DEF Pick
      <4> QED BY <3>2, <2>1 DEF PartialBroadcasts
    <3> QED BY <3>1, <3>3, <2>1
  <2>2. CASE s = {} /\ t = {}
    BY <2>2
  <2>3. CASE s # {}
    <3> DEFINE r == s \ {FirstOf(s)}
    <3>1. FirstOf(s) \in s /\ r \in SUBSET t /\ r # t /\ r # s
      BY <2>3 DEF FirstOf
    <3>2. g[r] = Pick(r)[r]
      BY <3>1
    <3>3. CASE s = t
      BY <3>1, <3>2, <3>3, <2>3
    <3>4. CASE s # t
      <4>1. g[s] = Pick(s)[s]
        BY <3>4
      <4>2. PartialBroadcasts(base, s, Pick(s)) /\ PartialBroadcasts(base, r, Pick(r))
        BY <1>3, <3>1, <3>4
      <4> HIDE DEF Pick
      <4>3. Pick(s)[s] = Broadcast(Pick(s)[r])
        BY <4>2, <2>3 DEF PartialBroadcasts
      <4>4. IsFiniteSet(r)
        BY <3>1, FS_Subset
      <4> HIDE DEF r
      <4>5. Pick(s)[r] = Pick(r)[r]
        BY <4>2, <4>4, PartialBroadcastsAgree DEF r
      <4> QED BY <4>1, <4>3, <4>5, <3>2, <2>3 DEF r
    <3> QED BY <3>3, <3>4
  <2> QED BY <2>1, <2>2, <2>3
<1>5. PartialBroadcasts(base, t, g)
  <2> HIDE DEF V
  <2>1. g = [s \in SUBSET t |-> g[s]]
    OBVIOUS
  <2> HIDE DEF g
  <2> QED BY <2>1, <1>4, Zenon DEF PartialBroadcasts
<1> QED BY <1>2, <1>5

LEMMA BroadcastsKeep ==
    ASSUME NEW base, StreamsOK(base), NEW n \in Nat
    PROVE  StreamsOK(FoldSet(LAMBDA i, all : Broadcast(all), base, 1 .. n))
<1> DEFINE S == 1 .. n
           it == CHOOSE g : g = [s \in SUBSET S |-> IF s = {} THEN base ELSE Broadcast(g[s \ {CHOOSE x \in s : TRUE}])]
           F == {t \in SUBSET S : ~ StreamsOK(it[t])}
<1>1. FoldSet(LAMBDA i, all : Broadcast(all), base, S) = it[S]
  BY DEF FoldSet, MapThenFoldSet
<1>2. IsFiniteSet(S)
  BY FS_Interval
<1> HIDE DEF S
<1>3. PartialBroadcasts(base, S, it)
  <2>1. \E g : PartialBroadcasts(base, S, g)
    BY <1>2, PartialBroadcastsExist
  <2> QED BY <2>1, Zenon DEF PartialBroadcasts, FirstOf
<1> HIDE DEF it
<1>4. ASSUME F # {}
      PROVE  FALSE
  <2>1. PICK t \in F : \A u \in F : u \subseteq t => u = t
    <3>1. F \subseteq SUBSET S
      OBVIOUS
    <3> HIDE DEF F
    <3> QED BY <1>2, <1>4, <3>1, SmallestSubset
  <2>2. t \in SUBSET S /\ ~ StreamsOK(it[t])
    BY <2>1
  <2>3. it[t] = IF t = {} THEN base ELSE Broadcast(it[t \ {FirstOf(t)}])
    BY <1>3, <2>2 DEF PartialBroadcasts
  <2>4. t # {}
    BY <2>2, <2>3
  <2>5. FirstOf(t) \in t
    BY <2>4 DEF FirstOf
  <2>6. StreamsOK(it[t \ {FirstOf(t)}])
    BY <2>1, <2>5
  <2> QED
    BY <2>2, <2>3, <2>4, <2>6, BroadcastKeeps
<1>5. StreamsOK(it[S])
  BY <1>4
<1> QED
  BY <1>1, <1>5, Zenon DEF S

-----------------------------------------------------------------------------
(* The types of the control                                                *)

LEMMA OneReplaced ==
    ASSUME NEW S, NEW s \in Seq(S), NEW i \in DOMAIN s, NEW e \in S
    PROVE  LET t == [s EXCEPT ![i] = e]
           IN  t \in Seq(S) /\ Len(t) = Len(s) /\ DOMAIN t = DOMAIN s /\ t[i] = e /\ \A j \in DOMAIN s : j # i => t[j] = s[j]
OBVIOUS

LEMMA OneAdded ==
    ASSUME NEW S, NEW s \in Seq(S), NEW e \in S
    PROVE  LET t == Append(s, e)
           IN  /\ t \in Seq(S) /\ Len(t) = Len(s) + 1 /\ DOMAIN t = 1 .. Len(s) + 1 /\ t[Len(s) + 1] = e
               /\ Len(s) \in Nat /\ DOMAIN s = 1 .. Len(s) /\ \A j \in DOMAIN s : t[j] = s[j]
OBVIOUS

LEMMA EngineFields ==
    ASSUME NEW r \in EngineObject
    PROVE  /\ \A b \in BOOLEAN : /\ [r EXCEPT !.stopped = b] \in EngineObject
                                 /\ [r EXCEPT !.stopped = b].stopped = b /\ [r EXCEPT !.stopped = b].hooks = r.hooks
                                 /\ [r EXCEPT !.paused = b] \in EngineObject
                                 /\ [r EXCEPT !.paused = b].stopped = r.stopped /\ [r EXCEPT !.paused = b].hooks = r.hooks
                                 /\ [r EXCEPT !.open = b] \in EngineObject
                                 /\ [r EXCEPT !.open = b].stopped = r.stopped /\ [r EXCEPT !.open = b].hooks = r.hooks
           /\ \A n \in Nat : /\ [r EXCEPT !.hooks = n] \in EngineObject
                             /\ [r EXCEPT !.hooks = n].stopped = r.stopped /\ [r EXCEPT !.hooks = n].hooks = n
<1>1. /\ r = [stopped |-> r.stopped, paused |-> r.paused, open |-> r.open, hooks |-> r.hooks]
      /\ r.stopped \in BOOLEAN /\ r.paused \in BOOLEAN /\ r.open \in BOOLEAN /\ r.hooks \in Nat
  BY DEF EngineObject
<1> QED
  BY <1>1 DEF EngineObject

(* One engine has a field set: what is left of it are its flag to stop and *)
(* how many callbacks it has.                                              *)
EngineSet(e, b, n) ==
    /\ engines' \in Seq(EngineObject) /\ Len(engines') = Len(engines)
    /\ \A i \in DOMAIN engines : i # e => engines'[i] = engines[i]
    /\ e \in DOMAIN engines
    /\ engines'[e].stopped = b /\ engines'[e].hooks = n

LEMMA SetsEngine ==
    ASSUME ControlTypeOK, NEW e \in DOMAIN engines, NEW r \in EngineObject, engines' = [engines EXCEPT ![e] = r]
    PROVE  EngineSet(e, r.stopped, r.hooks)
<1>1. engines \in Seq(EngineObject)
  BY DEF ControlTypeOK
<1> QED
  BY <1>1, OneReplaced DEF EngineSet

(* How handlers set the fields.                                            *)
LEMMA EngineChanges ==
    ASSUME ControlTypeOK, NEW h \in Handlers
    PROVE  /\ (SetFlag(h) \/ Reset(h) \/ CloseBridges(h)) /\ engine = None => engines' = engines
           /\ SetFlag(h) /\ engine # None =>
                 \/ EngineSet(engine, TRUE, engines[engine].hooks)
                 \/ EngineSet(engine, engines[engine].stopped, engines[engine].hooks)
           /\ Reset(h) /\ engine # None => EngineSet(engine, TRUE, engines[engine].hooks)
           /\ CloseBridges(h) /\ engine # None => EngineSet(engine, engines[engine].stopped, engines[engine].hooks)
           /\ RegisterCallback(h) /\ engine # None => EngineSet(engine, engines[engine].stopped, engines[engine].hooks + 1)
<1>1. engine \in 0 .. Len(engines) /\ engines \in Seq(EngineObject)
  BY DEF ControlTypeOK
<1>2. SUFFICES ASSUME engine # None
      PROVE  /\ SetFlag(h) =>
                 \/ EngineSet(engine, TRUE, engines[engine].hooks)
                 \/ EngineSet(engine, engines[engine].stopped, engines[engine].hooks)
             /\ Reset(h) => EngineSet(engine, TRUE, engines[engine].hooks)
             /\ CloseBridges(h) => EngineSet(engine, engines[engine].stopped, engines[engine].hooks)
             /\ RegisterCallback(h) => EngineSet(engine, engines[engine].stopped, engines[engine].hooks + 1)
  BY DEF SetFlag, Reset, CloseBridges
<1> DEFINE r == engines[engine]
<1>3. engine \in DOMAIN engines /\ r \in EngineObject /\ r.stopped \in BOOLEAN /\ r.hooks \in Nat
  <2>1. engine \in DOMAIN engines
    BY <1>1, <1>2 DEF None
  <2>2. r \in EngineObject
    BY <1>1, <2>1
  <2> HIDE DEF r
  <2> QED
    BY <2>1, <2>2 DEF EngineObject
<1>4. ASSUME NEW b \in BOOLEAN
      PROVE  /\ engines' = [engines EXCEPT ![engine].stopped = b] => EngineSet(engine, b, r.hooks)
             /\ engines' = [engines EXCEPT ![engine].paused = b] => EngineSet(engine, r.stopped, r.hooks)
             /\ engines' = [engines EXCEPT ![engine].open = b] => EngineSet(engine, r.stopped, r.hooks)
  <2>1. /\ engines' = [engines EXCEPT ![engine].stopped = b] => engines' = [engines EXCEPT ![engine] = [r EXCEPT !.stopped = b]]
        /\ engines' = [engines EXCEPT ![engine].paused = b] => engines' = [engines EXCEPT ![engine] = [r EXCEPT !.paused = b]]
        /\ engines' = [engines EXCEPT ![engine].open = b] => engines' = [engines EXCEPT ![engine] = [r EXCEPT !.open = b]]
    BY Zenon
  <2>2. /\ [r EXCEPT !.stopped = b] \in EngineObject /\ [r EXCEPT !.paused = b] \in EngineObject
        /\ [r EXCEPT !.open = b] \in EngineObject
        /\ [r EXCEPT !.stopped = b].stopped = b /\ [r EXCEPT !.stopped = b].hooks = r.hooks
        /\ [r EXCEPT !.paused = b].stopped = r.stopped /\ [r EXCEPT !.paused = b].hooks = r.hooks
        /\ [r EXCEPT !.open = b].stopped = r.stopped /\ [r EXCEPT !.open = b].hooks = r.hooks
    BY <1>3, EngineFields
  <2> DEFINE x == [r EXCEPT !.stopped = b]
             y == [r EXCEPT !.paused = b]
             z == [r EXCEPT !.open = b]
  <2>3. /\ x \in EngineObject /\ y \in EngineObject /\ z \in EngineObject
        /\ x.stopped = b /\ x.hooks = r.hooks /\ y.stopped = r.stopped /\ y.hooks = r.hooks
        /\ z.stopped = r.stopped /\ z.hooks = r.hooks
        /\ engines' = [engines EXCEPT ![engine].stopped = b] => engines' = [engines EXCEPT ![engine] = x]
        /\ engines' = [engines EXCEPT ![engine].paused = b] => engines' = [engines EXCEPT ![engine] = y]
        /\ engines' = [engines EXCEPT ![engine].open = b] => engines' = [engines EXCEPT ![engine] = z]
    BY <2>1, <2>2
  <2>5. PICK e : e = engine /\ e \in DOMAIN engines
    BY <1>3
  <2> HIDE DEF x, y, z, r
  <2>6. /\ engines' = [engines EXCEPT ![engine] = x] => engines' = [engines EXCEPT ![e] = x]
        /\ engines' = [engines EXCEPT ![engine] = y] => engines' = [engines EXCEPT ![e] = y]
        /\ engines' = [engines EXCEPT ![engine] = z] => engines' = [engines EXCEPT ![e] = z]
    BY <2>5
  <2>4. /\ engines' = [engines EXCEPT ![e] = x] => EngineSet(e, x.stopped, x.hooks)
        /\ engines' = [engines EXCEPT ![e] = y] => EngineSet(e, y.stopped, y.hooks)
        /\ engines' = [engines EXCEPT ![e] = z] => EngineSet(e, z.stopped, z.hooks)
    BY <2>3, <2>5, SetsEngine
  <2> QED
    BY <2>3, <2>4, <2>5, <2>6
<1>5. ASSUME RegisterCallback(h)
      PROVE  EngineSet(engine, r.stopped, r.hooks + 1)
  <2>1. engines' = [engines EXCEPT ![engine].hooks = @ + 1]
    BY <1>2, <1>5 DEF RegisterCallback
  <2>2. engines' = [engines EXCEPT ![engine] = [r EXCEPT !.hooks = r.hooks + 1]]
    BY <2>1, Zenon
  <2> DEFINE n == r.hooks + 1
             x == [r EXCEPT !.hooks = n]
  <2>3. n \in Nat
    BY <1>3
  <2>4. x \in EngineObject /\ x.stopped = r.stopped /\ x.hooks = n
    <3> HIDE DEF n
    <3> QED
      BY <1>3, <2>3, EngineFields
  <2>5. engines' = [engines EXCEPT ![engine] = x]
    BY <2>2
  <2>6. PICK e : e = engine /\ e \in DOMAIN engines
    BY <1>3
  <2> HIDE DEF x, n, r
  <2>7. engines' = [engines EXCEPT ![e] = x]
    BY <2>5, <2>6
  <2>8. EngineSet(e, x.stopped, x.hooks)
    BY <2>4, <2>6, <2>7, SetsEngine
  <2> QED
    BY <2>4, <2>6, <2>8 DEF n
<1>6. SetFlag(h) => \/ engines' = [engines EXCEPT ![engine].stopped = TRUE]
                    \/ engines' = [engines EXCEPT ![engine].paused = TRUE]
                    \/ engines' = [engines EXCEPT ![engine].paused = FALSE]
  BY <1>2 DEF SetFlag, At
<1>7. /\ Reset(h) => engines' = [engines EXCEPT ![engine].stopped = TRUE]
      /\ CloseBridges(h) => engines' = [engines EXCEPT ![engine].open = FALSE]
  BY <1>2 DEF Reset, CloseBridges
<1> HIDE DEF r
<1>8. SetFlag(h) => EngineSet(engine, TRUE, r.hooks) \/ EngineSet(engine, r.stopped, r.hooks)
  BY <1>3, <1>4, <1>6
<1> QED
  BY <1>4, <1>5, <1>7, <1>8 DEF r

-----------------------------------------------------------------------------
(* The type invariant in parts                                             *)

ThreadOK(r) ==
    /\ r.pc \in {"new", "ready"} => r.eng = None
    /\ r.pc \in {"loop", "tx", "wait", "post"} => r.eng # None
ObjectsOK ==
    /\ engine \in 0 .. Len(engines) /\ thread \in 0 .. Len(threads)
    /\ engines \in Seq(EngineObject)
    /\ threads \in Seq([pc : ThreadPcs, eng : 0 .. Len(engines)])
    /\ \A t \in DOMAIN threads : ThreadOK(threads[t])
JoinsOK(r) ==
    /\ r.pc = "joining" => r.joins # None
    /\ r.joins # None => threads[r.joins].pc # "new"
HandlersOK ==
    /\ handler \in [Handlers -> [pc : HandlerPcs, joins : 0 .. Len(threads)]]
    /\ \A h \in Handlers : JoinsOK(handler[h])
CountsOK == requests \in Nat /\ raced \in BOOLEAN /\ timedOut \in BOOLEAN

LEMMA TypeParts == ControlTypeOK <=> ObjectsOK /\ HandlersOK /\ streams \in Seq(Stream) /\ CountsOK
BY DEF ControlTypeOK, ObjectsOK, HandlersOK, CountsOK, ThreadOK, JoinsOK, At

(* What a handler does to its own place.                                   *)
Placed(h, p, j) == handler' = [handler EXCEPT ![h] = [pc |-> p, joins |-> j]]

LEMMA Places ==
    ASSUME HandlersOK, NEW h \in Handlers
    PROVE  /\ \A p : Goto(h, p) => Placed(h, p, handler[h].joins)
           /\ Answer(h) => Placed(h, "idle", None)
           /\ \A p, j : Placed(h, p, j) => /\ handler'[h].pc = p /\ handler'[h].joins = j
                                           /\ \A g \in Handlers \ {h} : handler'[g] = handler[g]
           /\ handler[h].pc \in HandlerPcs /\ handler[h].joins \in 0 .. Len(threads) /\ JoinsOK(handler[h])
<1>1. handler[h] \in [pc : HandlerPcs, joins : 0 .. Len(threads)] /\ DOMAIN handler = Handlers
  BY DEF HandlersOK
<1>2. handler[h] = [pc |-> handler[h].pc, joins |-> handler[h].joins]
  BY <1>1
<1>3. ASSUME NEW p, Goto(h, p)
      PROVE  Placed(h, p, handler[h].joins)
  <2>1. handler' = [handler EXCEPT ![h] = [handler[h] EXCEPT !.pc = p]]
    BY <1>3, Zenon DEF Goto
  <2>2. [handler[h] EXCEPT !.pc = p] = [pc |-> p, joins |-> handler[h].joins]
    BY <1>2
  <2> QED
    BY <2>1, <2>2 DEF Placed
<1>4. Answer(h) => Placed(h, "idle", None)
  BY DEF Answer, Placed, Resting
<1>5. handler[h].pc \in HandlerPcs /\ handler[h].joins \in 0 .. Len(threads)
  BY <1>1
<1>6. JoinsOK(handler[h])
  BY DEF HandlersOK
<1>7. ASSUME NEW p, NEW j, Placed(h, p, j)
      PROVE  /\ handler'[h].pc = p /\ handler'[h].joins = j
             /\ \A g \in Handlers \ {h} : handler'[g] = handler[g]
  BY <1>1, <1>7 DEF Placed
<1> QED
  BY <1>3, <1>4, <1>5, <1>6, <1>7

(* Threads are added and started, and never become unstarted again.        *)
ThreadsGrow ==
    /\ Len(threads') \in Nat /\ Len(threads) <= Len(threads')
    /\ \A t \in DOMAIN threads : threads[t].pc # "new" => threads'[t].pc # "new"

LEMMA PlacedKeepsHandlers ==
    ASSUME ControlTypeOK, NEW h \in Handlers, NEW p \in HandlerPcs, NEW j \in 0 .. Len(threads), Placed(h, p, j),
           p = "joining" => j # None, j # None => threads[j].pc # "new", ThreadsGrow
    PROVE  HandlersOK'
<1>1. HandlersOK /\ threads \in Seq([pc : ThreadPcs, eng : 0 .. Len(engines)])
  BY TypeParts DEF ControlTypeOK
<1>2. /\ DOMAIN handler = Handlers
      /\ \A g \in Handlers : handler[g] \in [pc : HandlerPcs, joins : 0 .. Len(threads)] /\ JoinsOK(handler[g])
  BY <1>1 DEF HandlersOK
<1>3. \A g \in Handlers : handler'[g] = IF g = h THEN [pc |-> p, joins |-> j] ELSE handler[g]
  BY <1>2 DEF Placed
<1>4. DOMAIN handler' = Handlers /\ handler' = [g \in Handlers |-> handler'[g]]
  BY <1>2 DEF Placed
<1>5. Len(threads) \in Nat /\ 0 .. Len(threads) \subseteq 0 .. Len(threads') /\ DOMAIN threads = 1 .. Len(threads)
  BY <1>1 DEF ThreadsGrow
<1>6. \A g \in Handlers : handler'[g].joins \in 0 .. Len(threads) /\ handler'[g].pc \in HandlerPcs
  BY <1>2, <1>3
<1>7. ASSUME NEW g \in Handlers
      PROVE  /\ handler'[g] \in [pc : HandlerPcs, joins : 0 .. Len(threads')]
             /\ handler'[g].pc = "joining" => handler'[g].joins # None
             /\ handler'[g].joins # None => threads'[handler'[g].joins].pc # "new"
  <2>1. handler'[g] \in [pc : HandlerPcs, joins : 0 .. Len(threads')]
    <3>1. handler'[g] \in [pc : HandlerPcs, joins : 0 .. Len(threads)]
      BY <1>2, <1>3
    <3> QED
      BY <1>5, <3>1
  <2>2. /\ handler'[g].pc = "joining" => handler'[g].joins # None
        /\ handler'[g].joins # None => threads[handler'[g].joins].pc # "new"
    BY <1>2, <1>3 DEF JoinsOK
  <2>3. handler'[g].joins # None => handler'[g].joins \in DOMAIN threads
    BY <1>5, <1>6 DEF None
  <2> QED
    BY <2>1, <2>2, <2>3 DEF ThreadsGrow
<1>8. handler' \in [Handlers -> [pc : HandlerPcs, joins : 0 .. Len(threads')]]
  BY <1>4, <1>7
<1> QED
  BY <1>7, <1>8 DEF HandlersOK, JoinsOK

LEMMA ThreadsSameGrow ==
    ASSUME ControlTypeOK, UNCHANGED threads
    PROVE  ThreadsGrow
BY DEF ControlTypeOK, ThreadsGrow

LEMMA PlacedKeepsTypes ==
    ASSUME ControlTypeOK, NEW h \in Handlers, NEW p \in HandlerPcs, NEW j \in 0 .. Len(threads), Placed(h, p, j),
           p = "joining" => j # None, j # None => threads[j].pc # "new",
           ThreadsGrow, ObjectsOK', UNCHANGED <<streams, requests>>, raced' \in BOOLEAN, timedOut' \in BOOLEAN
    PROVE  ControlTypeOK'
<1>1. HandlersOK'
  BY PlacedKeepsHandlers
<1>2. (streams \in Seq(Stream) /\ CountsOK)'
  BY DEF ControlTypeOK, CountsOK
<1>3. ControlTypeOK' <=> ObjectsOK' /\ HandlersOK' /\ (streams \in Seq(Stream) /\ CountsOK)'
  BY DEF ControlTypeOK, ObjectsOK, HandlersOK, CountsOK, ThreadOK, JoinsOK, At
<1> QED
  BY <1>1, <1>2, <1>3

(* Goto and Answer are such steps.                                         *)
LEMMA MovesKeepTypes ==
    ASSUME ControlTypeOK, NEW h \in Handlers, NEW p \in HandlerPcs, p # "joining", Goto(h, p) \/ Answer(h),
           ThreadsGrow, ObjectsOK', UNCHANGED <<streams, requests>>, raced' \in BOOLEAN, timedOut' \in BOOLEAN
    PROVE  ControlTypeOK'
<1>1. HandlersOK /\ threads \in Seq([pc : ThreadPcs, eng : 0 .. Len(engines)])
  BY TypeParts DEF ControlTypeOK
<1>2. handler[h].joins \in 0 .. Len(threads) /\ (handler[h].joins # None => threads[handler[h].joins].pc # "new")
  BY <1>1, Places DEF JoinsOK
<1>3. CASE Goto(h, p)
  <2>1. Placed(h, p, handler[h].joins)
    BY <1>1, <1>3, Places
  <2>2. PICK j : j = handler[h].joins
    OBVIOUS
  <2>3. j \in 0 .. Len(threads) /\ (j # None => threads[j].pc # "new") /\ Placed(h, p, j)
    BY <1>2, <2>1, <2>2
  <2> QED
    BY <2>3, PlacedKeepsTypes
<1>4. CASE Answer(h)
  <2>1. Placed(h, "idle", None) /\ "idle" \in HandlerPcs /\ None \in 0 .. Len(threads)
    BY <1>1, <1>4, Places DEF HandlerPcs, None
  <2> QED
    BY <2>1, PlacedKeepsTypes
<1> QED
  BY <1>3, <1>4

LEMMA EnginesKeepObjects ==
    ASSUME ControlTypeOK, UNCHANGED <<engine, thread, threads>>,
           UNCHANGED engines \/ \E e, b, n : EngineSet(e, b, n)
    PROVE  ObjectsOK'
<1>1. ObjectsOK
  BY TypeParts
<1>2. engines' \in Seq(EngineObject) /\ Len(engines') = Len(engines)
  BY <1>1 DEF EngineSet, ObjectsOK
<1> QED
  BY <1>1, <1>2 DEF ObjectsOK

-----------------------------------------------------------------------------
(* What the steps that make and start things do                            *)

LEMMA OneOf ==
    ASSUME NEW S, NEW s \in Seq(S), NEW i \in DOMAIN s
    PROVE  s[i] \in S
OBVIOUS

LEMMA MakesEngine ==
    ASSUME ControlTypeOK, NEW h \in Handlers, MakeEngine(h)
    PROVE  /\ engines' \in Seq(EngineObject) /\ Len(engines') = Len(engines) + 1 /\ engine' = Len(engines) + 1
           /\ \A e \in DOMAIN engines : engines'[e] = engines[e]
           /\ engines'[engine'].hooks = 0 /\ engine' # None
           /\ Len(engines) \in Nat /\ DOMAIN engines = 1 .. Len(engines)
<1>1. engines \in Seq(EngineObject) /\ NewEngine \in EngineObject /\ NewEngine.hooks = 0
  BY DEF ControlTypeOK, NewEngine, EngineObject
<1>2. engines' = Append(engines, NewEngine) /\ engine' = Len(engines')
  BY DEF MakeEngine
<1>3. /\ engines' \in Seq(EngineObject) /\ Len(engines') = Len(engines) + 1
      /\ engines'[Len(engines) + 1] = NewEngine /\ Len(engines) \in Nat /\ DOMAIN engines = 1 .. Len(engines)
      /\ \A e \in DOMAIN engines : engines'[e] = engines[e]
  BY <1>1, <1>2, OneAdded
<1> QED
  BY <1>1, <1>2, <1>3 DEF None

LEMMA MakesThread ==
    ASSUME ControlTypeOK, NEW h \in Handlers, MakeThread(h)
    PROVE  /\ threads' \in Seq([pc : ThreadPcs, eng : 0 .. Len(engines)])
           /\ Len(threads') = Len(threads) + 1 /\ thread' = Len(threads) + 1 /\ thread' # None
           /\ Len(threads) \in Nat /\ DOMAIN threads = 1 .. Len(threads) /\ DOMAIN threads' = 1 .. Len(threads) + 1
           /\ \A t \in DOMAIN threads : threads'[t] = threads[t]
           /\ threads'[thread'] = NewThread
<1>1. threads \in Seq([pc : ThreadPcs, eng : 0 .. Len(engines)]) /\ engines \in Seq(EngineObject)
  BY DEF ControlTypeOK
<1>2. NewThread \in [pc : ThreadPcs, eng : 0 .. Len(engines)]
  BY <1>1 DEF NewThread, ThreadPcs, Over, None
<1>3. threads' = Append(threads, NewThread) /\ thread' = Len(threads')
  BY DEF MakeThread
<1>4. /\ threads' \in Seq([pc : ThreadPcs, eng : 0 .. Len(engines)]) /\ Len(threads') = Len(threads) + 1
      /\ DOMAIN threads' = 1 .. Len(threads) + 1 /\ threads'[Len(threads) + 1] = NewThread
      /\ Len(threads) \in Nat /\ DOMAIN threads = 1 .. Len(threads) /\ \A t \in DOMAIN threads : threads'[t] = threads[t]
  BY <1>1, <1>2, <1>3, OneAdded
<1> QED
  BY <1>3, <1>4 DEF None

(* One thread goes to another place, with the engine it has or reads.      *)
Steps(t, p, eng) ==
    /\ threads' \in Seq([pc : ThreadPcs, eng : 0 .. Len(engines)]) /\ Len(threads') = Len(threads)
    /\ \A u \in DOMAIN threads : u # t => threads'[u] = threads[u]
    /\ threads'[t].pc = p /\ threads'[t].eng = eng

LEMMA ThreadSet ==
    ASSUME ControlTypeOK, NEW t \in DOMAIN threads, NEW p \in ThreadPcs, NEW eng \in 0 .. Len(engines),
           threads' = [threads EXCEPT ![t] = [pc |-> p, eng |-> eng]]
    PROVE  Steps(t, p, eng)
<1>1. threads \in Seq([pc : ThreadPcs, eng : 0 .. Len(engines)])
  BY DEF ControlTypeOK
<1>2. [pc |-> p, eng |-> eng] \in [pc : ThreadPcs, eng : 0 .. Len(engines)]
  OBVIOUS
<1>3. PICK r : r = [pc |-> p, eng |-> eng]
  OBVIOUS
<1>4. /\ threads' \in Seq([pc : ThreadPcs, eng : 0 .. Len(engines)]) /\ Len(threads') = Len(threads)
      /\ threads'[t] = r /\ \A u \in DOMAIN threads : u # t => threads'[u] = threads[u]
  BY <1>1, <1>2, <1>3, OneReplaced
<1> QED
  BY <1>3, <1>4 DEF Steps

LEMMA ThreadFields ==
    ASSUME ControlTypeOK, NEW t \in DOMAIN threads
    PROVE  /\ threads[t].pc \in ThreadPcs /\ threads[t].eng \in 0 .. Len(engines)
           /\ threads[t] = [pc |-> threads[t].pc, eng |-> threads[t].eng]
           /\ threads[t].pc \in {"new", "ready"} => threads[t].eng = None
           /\ threads[t].pc \in {"loop", "tx", "wait", "post"} => threads[t].eng # None
<1>1. threads[t] \in [pc : ThreadPcs, eng : 0 .. Len(engines)]
  <2>1. threads \in Seq([pc : ThreadPcs, eng : 0 .. Len(engines)])
    BY DEF ControlTypeOK
  <2> QED
    BY <2>1, OneOf
<1>2. threads[t].pc \in ThreadPcs /\ threads[t].eng \in 0 .. Len(engines) /\ threads[t] = [pc |-> threads[t].pc, eng |-> threads[t].eng]
  BY <1>1
<1> QED
  BY <1>2 DEF ControlTypeOK

LEMMA MovesSteps ==
    ASSUME ControlTypeOK, NEW t \in DOMAIN threads, NEW p \in ThreadPcs, Moves(t, p)
    PROVE  Steps(t, p, threads[t].eng)
<1>1. threads' = [threads EXCEPT ![t] = [threads[t] EXCEPT !.pc = p]]
  BY Zenon DEF Moves
<1>2. [threads[t] EXCEPT !.pc = p] = [pc |-> p, eng |-> threads[t].eng] /\ threads[t].eng \in 0 .. Len(engines)
  BY ThreadFields
<1>3. PICK eng : eng = threads[t].eng
  OBVIOUS
<1>4. Steps(t, p, eng)
  BY <1>1, <1>2, <1>3, ThreadSet
<1> QED
  BY <1>3, <1>4

LEMMA StartsThread ==
    ASSUME ControlTypeOK, NEW h \in Handlers, StartThread(h)
    PROVE  \/ UNCHANGED threads
           \/ thread \in DOMAIN threads /\ threads[thread].pc = "new" /\ Steps(thread, "ready", None)
<1>1. thread \in 0 .. Len(threads) /\ threads \in Seq([pc : ThreadPcs, eng : 0 .. Len(engines)])
  BY DEF ControlTypeOK
<1>2. CASE thread = None \/ threads[thread].pc # "new"
  BY <1>2 DEF StartThread
<1>3. CASE thread # None /\ threads[thread].pc = "new"
  <2>1. PICK t : t = thread
    OBVIOUS
  <2>2. t \in DOMAIN threads
    BY <1>1, <1>3, <2>1 DEF None
  <2>3. threads' = [threads EXCEPT ![thread].pc = "ready"]
    BY <1>3 DEF StartThread
  <2>4. Moves(t, "ready")
    BY <2>1, <2>3 DEF Moves
  <2>5. Steps(t, "ready", threads[t].eng) /\ threads[t].eng = None
    <3>1. "ready" \in ThreadPcs
      BY DEF ThreadPcs
    <3> QED
      BY <1>3, <2>1, <2>2, <2>4, <3>1, MovesSteps, ThreadFields
  <2> QED
    BY <1>3, <2>1, <2>2, <2>5
<1> QED
  BY <1>2, <1>3

(* A step of a thread: it is running, and the only thing that may happen   *)
(* to its engine is that it reads it.                                      *)
LEMMA EngineStepMoves ==
    ASSUME ControlTypeOK, NEW t \in DOMAIN threads, EngineStep(t)
    PROVE  /\ t \in Running
           /\ \E p \in ThreadPcs \ {"new", "ready"} :
                 \/ Steps(t, p, threads[t].eng) /\ (p \in {"loop", "tx", "wait", "post"} => threads[t].eng # None)
                 \/ Steps(t, p, engine) /\ engine # None /\ threads[t].eng = None
           /\ UNCHANGED <<engine, thread, engines, handler, Counts>>
<1>1. engine \in 0 .. Len(engines)
  BY DEF ControlTypeOK
<1>2. UNCHANGED <<engine, thread, engines, handler, Counts>>
  BY DEF EngineStep, ReadEngine, BeginDay, LookAtStop, Wait, Transact
<1>3. CASE In(t, "ready")
  <2>1. ReadEngine(t) /\ threads[t].eng = None
    BY <1>3, ThreadFields DEF EngineStep, BeginDay, LookAtStop, Wait, Transact, In
  <2>2. t \in Running
    BY <1>3 DEF Running, Alive, Over, In
  <2>3. CASE engine = None
    <3>1. Moves(t, "crashed") /\ "crashed" \in ThreadPcs
      BY <2>1, <2>3 DEF ReadEngine, Raises, ThreadPcs, Over
    <3> QED
      BY <1>2, <2>2, <3>1, MovesSteps
  <2>4. CASE engine # None
    <3>1. threads' = [threads EXCEPT ![t] = [pc |-> "loop", eng |-> engine]] /\ "loop" \in ThreadPcs
      BY <2>1, <2>4 DEF ReadEngine, ThreadPcs
    <3>2. PICK eng : eng = engine
      OBVIOUS
    <3>3. Steps(t, "loop", eng)
      BY <1>1, <3>1, <3>2, ThreadSet
    <3> QED
      BY <1>2, <2>1, <2>2, <2>4, <3>1, <3>2, <3>3
  <2> QED
    BY <2>3, <2>4
<1>4. CASE ~ In(t, "ready")
  <2>1. threads[t].pc \in {"loop", "tx", "wait", "post"}
    BY <1>4 DEF EngineStep, ReadEngine, BeginDay, LookAtStop, Wait, Transact, In
  <2>2. t \in Running /\ threads[t].eng # None
    BY <2>1, ThreadFields DEF Running, Alive, Over
  <2>3. \E p \in ThreadPcs \ {"new", "ready"} : Moves(t, p)
    <3>1. \/ Moves(t, "ended") \/ Moves(t, "tx") \/ Moves(t, "crashed") \/ Moves(t, "loop") \/ Moves(t, "wait") \/ Moves(t, "post")
      BY <1>4 DEF EngineStep, ReadEngine, BeginDay, LookAtStop, Wait, Transact, Raises
    <3> QED
      BY <3>1 DEF ThreadPcs, Over
  <2>4. PICK p \in ThreadPcs \ {"new", "ready"} : Moves(t, p)
    BY <2>3
  <2>5. Steps(t, p, threads[t].eng)
    BY <2>4, MovesSteps
  <2> QED
    BY <1>2, <2>2, <2>5
<1> QED
  BY <1>3, <1>4

-----------------------------------------------------------------------------
(* Every step keeps the types                                              *)

LEMMA SeqWider ==
    ASSUME NEW S, NEW T, S \subseteq T, NEW s \in Seq(S)
    PROVE  s \in Seq(T)
OBVIOUS

LEMMA StepsKeepObjects ==
    ASSUME ControlTypeOK, NEW t \in DOMAIN threads, NEW p, NEW eng, Steps(t, p, eng), p # "new",
           p = "ready" => eng = None, p \in {"loop", "tx", "wait", "post"} => eng # None,
           UNCHANGED <<engine, thread, engines>>
    PROVE  ObjectsOK' /\ ThreadsGrow
<1>1. /\ threads \in Seq([pc : ThreadPcs, eng : 0 .. Len(engines)])
      /\ engine \in 0 .. Len(engines) /\ thread \in 0 .. Len(threads) /\ engines \in Seq(EngineObject)
      /\ \A u \in DOMAIN threads : ThreadOK(threads[u])
  BY TypeParts DEF ObjectsOK
<1>2. /\ threads' \in Seq([pc : ThreadPcs, eng : 0 .. Len(engines)]) /\ Len(threads') = Len(threads)
      /\ DOMAIN threads' = DOMAIN threads
  <2>1. DOMAIN threads = 1 .. Len(threads)
    BY <1>1
  <2> QED
    BY <1>1, <2>1 DEF Steps
<1>3. \A u \in DOMAIN threads' : ThreadOK(threads'[u])
  BY <1>1, <1>2 DEF Steps, ThreadOK
<1>4. ThreadsGrow
  <2>1. Len(threads) \in Nat
    BY <1>1
  <2>2. \A u \in DOMAIN threads : threads[u].pc # "new" => threads'[u].pc # "new"
    BY DEF Steps
  <2> QED
    BY <1>2, <2>1, <2>2 DEF ThreadsGrow
<1> QED
  BY <1>1, <1>2, <1>3, <1>4 DEF ObjectsOK

LEMMA HandlerStepTypes ==
    ASSUME ControlTypeOK, NEW h \in Handlers, HandlerStep(h)
    PROVE  ControlTypeOK'
<1>1. /\ engine \in 0 .. Len(engines) /\ thread \in 0 .. Len(threads) /\ engines \in Seq(EngineObject)
      /\ threads \in Seq([pc : ThreadPcs, eng : 0 .. Len(engines)]) /\ raced \in BOOLEAN /\ timedOut \in BOOLEAN
      /\ HandlersOK /\ ObjectsOK
  BY TypeParts DEF ControlTypeOK
<1>2. Resting.pc = "idle" /\ {"make", "hook", "spawn", "launch", "set_stop", "set_pause", "set_resume", "join", "joining",
                              "close", "forget_engine", "forget_thread", "idle"} \subseteq HandlerPcs
  BY DEF Resting, HandlerPcs
<1>3. CASE Start(h) \/ CheckFlag(h)
  <2>1. UNCHANGED <<Objects, Counts>>
    BY <1>3 DEF Start, CheckFlag
  <2>2. \E p \in HandlerPcs \ {"joining"} : Goto(h, p) \/ Answer(h)
    BY <1>2, <1>3 DEF Start, CheckFlag, Check
  <2>3. ThreadsGrow /\ ObjectsOK'
    BY <2>1, ThreadsSameGrow, EnginesKeepObjects DEF Objects
  <2> QED
    BY <1>1, <2>1, <2>2, <2>3, MovesKeepTypes DEF Objects, Counts
<1>4. CASE RegisterCallback(h) \/ SetFlag(h) \/ Reset(h) \/ CloseBridges(h)
  <2>1. UNCHANGED <<engine, thread, threads, streams, Counts>>
    BY <1>4 DEF RegisterCallback, SetFlag, Reset, CloseBridges
  <2>2. \E p \in HandlerPcs \ {"joining"} : Goto(h, p) \/ Answer(h)
    BY <1>2, <1>4 DEF RegisterCallback, SetFlag, Reset, CloseBridges
  <2>3. UNCHANGED engines \/ \E e, b, n : EngineSet(e, b, n)
    <3>1. CASE engine = None
      BY <1>4, <3>1 DEF RegisterCallback, SetFlag, Reset, CloseBridges
    <3>2. CASE engine # None
      <4>1. CASE RegisterCallback(h)
        BY <3>2, <4>1, EngineChanges
      <4>2. CASE SetFlag(h)
        BY <3>2, <4>2, EngineChanges
      <4>3. CASE Reset(h)
        BY <3>2, <4>3, EngineChanges
      <4>4. CASE CloseBridges(h)
        BY <3>2, <4>4, EngineChanges
      <4> QED
        BY <1>4, <4>1, <4>2, <4>3, <4>4
    <3> QED
      BY <3>1, <3>2
  <2>4. ThreadsGrow /\ ObjectsOK'
    BY <2>1, <2>3, ThreadsSameGrow, EnginesKeepObjects
  <2> QED
    BY <1>1, <2>1, <2>2, <2>4, MovesKeepTypes DEF Counts
<1>5. CASE MakeEngine(h)
  <2>1. ThreadsGrow
    BY <1>5, ThreadsSameGrow DEF MakeEngine
  <2>2. ObjectsOK'
    <3>1. /\ engines' \in Seq(EngineObject) /\ Len(engines') = Len(engines) + 1 /\ engine' = Len(engines) + 1
          /\ Len(engines) \in Nat
      BY <1>5, MakesEngine
    <3>2. 0 .. Len(engines) \subseteq 0 .. Len(engines') /\ engine' \in 0 .. Len(engines')
      BY <3>1
    <3>3. threads \in Seq([pc : ThreadPcs, eng : 0 .. Len(engines')])
      <4>1. PICK S : S = [pc : ThreadPcs, eng : 0 .. Len(engines)]
        OBVIOUS
      <4>2. PICK T : T = [pc : ThreadPcs, eng : 0 .. Len(engines')]
        OBVIOUS
      <4>3. S \subseteq T
        BY <3>2, <4>1, <4>2
      <4>4. threads \in Seq(S)
        BY <1>1, <4>1
      <4>5. threads \in Seq(T)
        BY <4>3, <4>4, SeqWider
      <4> QED
        BY <4>2, <4>5
    <3>4. UNCHANGED <<thread, threads>>
      BY <1>5 DEF MakeEngine
    <3> QED
      BY <1>1, <3>1, <3>2, <3>3, <3>4 DEF ObjectsOK
  <2>3. Goto(h, "hook") /\ UNCHANGED <<streams, Counts>>
    BY <1>5 DEF MakeEngine
  <2> QED
    BY <1>1, <1>2, <2>1, <2>2, <2>3, MovesKeepTypes DEF Counts
<1>6. CASE MakeThread(h)
  <2>1. /\ threads' \in Seq([pc : ThreadPcs, eng : 0 .. Len(engines)]) /\ Len(threads') = Len(threads) + 1
        /\ thread' = Len(threads) + 1 /\ Len(threads) \in Nat /\ DOMAIN threads = 1 .. Len(threads)
        /\ DOMAIN threads' = 1 .. Len(threads) + 1
        /\ \A t \in DOMAIN threads : threads'[t] = threads[t]
        /\ threads'[Len(threads) + 1] = NewThread
    BY <1>6, MakesThread
  <2>2. ThreadsGrow
    BY <2>1 DEF ThreadsGrow
  <2>3. Goto(h, "launch") /\ UNCHANGED <<engine, engines, streams, Counts>>
    BY <1>6 DEF MakeThread
  <2>4. \A t \in DOMAIN threads' : ThreadOK(threads'[t])
    <3>1. \A t \in DOMAIN threads' : t \in DOMAIN threads \/ t = Len(threads) + 1
      BY <2>1
    <3> QED
      BY <1>1, <2>1, <3>1 DEF ObjectsOK, ThreadOK, NewThread
  <2>5. ObjectsOK'
    BY <1>1, <2>1, <2>3, <2>4 DEF ObjectsOK
  <2> QED
    BY <1>1, <1>2, <2>2, <2>3, <2>5, MovesKeepTypes DEF Counts
<1>7. CASE StartThread(h)
  <2>1. Answer(h) /\ UNCHANGED <<engine, thread, engines, streams, Counts>>
    BY <1>7 DEF StartThread
  <2>2. ThreadsGrow /\ ObjectsOK'
    <3>1. CASE UNCHANGED threads
      BY <2>1, <3>1, ThreadsSameGrow, EnginesKeepObjects
    <3>2. CASE thread \in DOMAIN threads /\ Steps(thread, "ready", None)
      <4>1. PICK t : t = thread
        OBVIOUS
      <4> QED
        BY <2>1, <3>2, <4>1, StepsKeepObjects
    <3> QED
      BY <1>7, <3>1, <3>2, StartsThread
  <2> QED
    BY <1>1, <1>2, <2>1, <2>2, MovesKeepTypes DEF Counts
<1>8. CASE Join(h)
  <2>1. UNCHANGED <<Objects, Counts>>
    BY <1>8 DEF Join
  <2>2. ThreadsGrow /\ ObjectsOK'
    BY <2>1, ThreadsSameGrow, EnginesKeepObjects DEF Objects
  <2>3. CASE ThreadAlive
    <3>1. Placed(h, "joining", thread)
      BY <1>8, <2>3 DEF Join, Placed
    <3>2. thread # None /\ threads[thread].pc # "new"
      BY <2>3 DEF ThreadAlive, Alive, Over
    <3>3. PICK j : j = thread
      OBVIOUS
    <3> QED
      BY <1>1, <1>2, <2>1, <2>2, <3>1, <3>2, <3>3, PlacedKeepsTypes DEF Objects, Counts
  <2>4. CASE ~ ThreadAlive
    <3>1. Placed(h, "close", None) /\ None \in 0 .. Len(threads)
      BY <1>1, <1>8, <2>4 DEF Join, Placed, None
    <3> QED
      BY <1>1, <1>2, <2>1, <2>2, <3>1, PlacedKeepsTypes DEF Objects, Counts
  <2> QED
    BY <2>3, <2>4
<1>9. CASE Joined(h) \/ JoinTimesOut(h)
  <2>1. Goto(h, "close") /\ UNCHANGED <<Objects, requests>> /\ raced' \in BOOLEAN /\ timedOut' \in BOOLEAN
    BY <1>1, <1>9 DEF Joined, JoinTimesOut, Counts
  <2>2. ThreadsGrow /\ ObjectsOK'
    BY <2>1, ThreadsSameGrow, EnginesKeepObjects DEF Objects
  <2> QED
    BY <1>1, <1>2, <2>1, <2>2, MovesKeepTypes DEF Objects
<1>10. CASE ForgetEngine(h) \/ ForgetThread(h)
  <2>1. /\ Goto(h, "forget_thread") \/ Answer(h)
        /\ UNCHANGED <<engines, threads, streams, Counts>>
        /\ engine' \in {None, engine} /\ thread' \in {None, thread}
    BY <1>10 DEF ForgetEngine, ForgetThread
  <2>2. engine' \in 0 .. Len(engines) /\ thread' \in 0 .. Len(threads)
    BY <1>1, <2>1 DEF None
  <2>3. ObjectsOK'
    BY <1>1, <2>1, <2>2 DEF ObjectsOK
  <2>4. ThreadsGrow
    BY <2>1, ThreadsSameGrow
  <2> QED
    BY <1>1, <1>2, <2>1, <2>3, <2>4, MovesKeepTypes DEF Counts
<1> QED
  BY <1>3, <1>4, <1>5, <1>6, <1>7, <1>8, <1>9, <1>10 DEF HandlerStep

-----------------------------------------------------------------------------
(* Every step keeps the streams                                            *)

LEMMA StreamFields ==
    ASSUME NEW s \in Stream
    PROVE  /\ [s EXCEPT !.listed = FALSE, !.queue = 0] \in Stream
           /\ [s EXCEPT !.listed = FALSE, !.queue = 0].gaps = s.gaps
           /\ ~ [s EXCEPT !.listed = FALSE, !.queue = 0].listed
           /\ s.queue > 0 => /\ [s EXCEPT !.queue = s.queue - 1] \in Stream
                             /\ [s EXCEPT !.queue = s.queue - 1].gaps = s.gaps
                             /\ [s EXCEPT !.queue = s.queue - 1].missed = s.missed
                             /\ [s EXCEPT !.queue = s.queue - 1].listed = s.listed
<1>1. /\ s = [listed |-> s.listed, queue |-> s.queue, missed |-> s.missed, gaps |-> s.gaps]
      /\ s.listed \in BOOLEAN /\ s.queue \in 0 .. QueueSize /\ s.missed \in SUBSET Kinds /\ s.gaps \in SUBSET Kinds
      /\ QueueSize \in Nat
  BY BoundsAssumption DEF Stream
<1>2. /\ [s EXCEPT !.listed = FALSE, !.queue = 0] \in Stream
      /\ [s EXCEPT !.listed = FALSE, !.queue = 0].gaps = s.gaps
      /\ [s EXCEPT !.listed = FALSE, !.queue = 0].listed = FALSE
  <2> DEFINE x == [s EXCEPT !.listed = FALSE]
  <2>1. [s EXCEPT !.listed = FALSE, !.queue = 0] = [x EXCEPT !.queue = 0]
    BY Zenon
  <2>2. x \in Stream /\ x.gaps = s.gaps /\ x.missed = s.missed /\ x.listed = FALSE
    BY <1>1 DEF Stream
  <2> HIDE DEF x
  <2>3. x = [listed |-> x.listed, queue |-> x.queue, missed |-> x.missed, gaps |-> x.gaps]
    BY <2>2 DEF Stream
  <2>4. 0 \in 0 .. QueueSize
    BY <1>1
  <2>5. [x EXCEPT !.queue = 0] \in Stream /\ [x EXCEPT !.queue = 0].gaps = x.gaps /\ [x EXCEPT !.queue = 0].listed = x.listed
    BY <2>2, <2>3, <2>4 DEF Stream
  <2> QED
    BY <2>1, <2>2, <2>5
<1>3. [s EXCEPT !.queue = s.queue - 1] = [listed |-> s.listed, queue |-> s.queue - 1, missed |-> s.missed, gaps |-> s.gaps]
  BY <1>1
<1>4. s.queue > 0 => s.queue - 1 \in 0 .. QueueSize
  BY <1>1
<1>5. 0 \in 0 .. QueueSize
  BY <1>1
<1> QED
  BY <1>1, <1>2, <1>3, <1>4, <1>5 DEF Stream

LEMMA OneStreamChanged ==
    ASSUME NEW all, StreamsOK(all), NEW i \in DOMAIN all, NEW s \in Stream, StreamOK(s)
    PROVE  StreamsOK([all EXCEPT ![i] = s])
BY OneReplaced DEF StreamsOK

LEMMA StreamsKept ==
    ASSUME ControlTypeOK, StreamsOK(streams), ControlNext
    PROVE  StreamsOK(streams')
<1>1. PICK all, more : all = streams /\ more = streams' /\ StreamsOK(all)
  OBVIOUS
<1>2. all \in Seq(Stream) /\ \A i \in DOMAIN all : all[i] \in Stream /\ StreamOK(all[i])
  BY <1>1 DEF StreamsOK
<1>3. ASSUME UNCHANGED streams
      PROVE  StreamsOK(more)
  BY <1>1, <1>3
<1>4. ASSUME more = Announce(all)
      PROVE  StreamsOK(more)
  BY <1>1, <1>4, AnnounceKeeps
<1>5. ASSUME NEW t \in DOMAIN threads, EngineStep(t)
      PROVE  StreamsOK(more)
  <2>1. CASE threads[t].pc = "ready" \/ ~ Fire(t)
    <3>1. UNCHANGED streams \/ streams' = Announce(streams)
      BY <1>5, <2>1 DEF EngineStep, ReadEngine, BeginDay, LookAtStop, Wait, Transact, Raises, In
    <3>2. more = all \/ more = Announce(all)
      BY <1>1, <3>1
    <3> QED
      BY <1>1, <1>4, <3>2
  <2>2. CASE threads[t].pc # "ready" /\ Fire(t)
    <3>1. threads[t].pc \in {"loop", "tx", "wait", "post"}
      BY <1>5, <2>2 DEF EngineStep, ReadEngine, BeginDay, LookAtStop, Wait, Transact, In
    <3>2. threads[t].eng \in DOMAIN engines
      <4>1. threads[t].eng \in 0 .. Len(engines) /\ threads[t].eng # None
        BY <3>1, ThreadFields
      <4>2. engines \in Seq(EngineObject)
        BY DEF ControlTypeOK
      <4> QED
        BY <4>1, <4>2 DEF None
    <3>3. Of(t) \in EngineObject
      <4>1. engines \in Seq(EngineObject)
        BY DEF ControlTypeOK
      <4> QED
        BY <3>2, <4>1, OneOf DEF Of
    <3>4. Of(t).hooks \in Nat
      BY <3>3 DEF EngineObject
    <3>5. streams' = FoldSet(LAMBDA i, a : Broadcast(a), streams, 1 .. Of(t).hooks)
      BY <2>2 DEF Fire
    <3>6. PICK n : n = Of(t).hooks /\ n \in Nat
      BY <3>4
    <3>7. more = FoldSet(LAMBDA i, a : Broadcast(a), all, 1 .. n)
      BY <1>1, <3>5, <3>6, Zenon
    <3>8. StreamsOK(FoldSet(LAMBDA i, a : Broadcast(a), all, 1 .. n))
      BY <1>1, <3>6, BroadcastsKeep, Zenon
    <3> QED
      BY <3>7, <3>8, Zenon
  <2> QED
    BY <2>1, <2>2
<1>6. ASSUME NEW h \in Handlers, HandlerStep(h) \/ \E r \in Requests : Ask(h, r)
      PROVE  StreamsOK(more)
  <2>1. UNCHANGED streams
    BY <1>6 DEF HandlerStep, Start, MakeEngine, RegisterCallback, MakeThread, StartThread, CheckFlag, SetFlag, Reset, Join,
                Joined, JoinTimesOut, CloseBridges, ForgetEngine, ForgetThread, Ask, Objects
  <2> QED
    BY <1>3, <2>1
<1>7. ASSUME OpenStream
      PROVE  StreamsOK(more)
  <2>1. NewStream \in Stream /\ StreamOK(NewStream)
    BY BoundsAssumption DEF NewStream, Stream, StreamOK
  <2>2. more = Append(all, NewStream)
    BY <1>1, <1>7 DEF OpenStream
  <2>3. /\ more \in Seq(Stream) /\ DOMAIN more = 1 .. Len(all) + 1 /\ more[Len(all) + 1] = NewStream
        /\ Len(all) \in Nat /\ DOMAIN all = 1 .. Len(all) /\ \A j \in DOMAIN all : more[j] = all[j]
    BY <1>2, <2>1, <2>2, OneAdded
  <2>4. \A j \in DOMAIN more : j \in DOMAIN all \/ j = Len(all) + 1
    BY <2>3
  <2> QED
    BY <1>2, <2>1, <2>3, <2>4 DEF StreamsOK
<1>8. ASSUME TamperDemo
      PROVE  StreamsOK(more)
  BY <1>1, <1>4, <1>8 DEF TamperDemo
<1>9. ASSUME NEW i \in DOMAIN streams, Read(i)
      PROVE  StreamsOK(more)
  <2>1. all[i].queue > 0 /\ i \in DOMAIN all
    BY <1>1, <1>9 DEF Read
  <2> DEFINE s == [all[i] EXCEPT !.queue = all[i].queue - 1]
  <2>2. more = [all EXCEPT ![i] = s]
    <3>1. streams' = [streams EXCEPT ![i].queue = @ - 1]
      BY <1>9 DEF Read
    <3>2. more = [all EXCEPT ![i].queue = @ - 1]
      BY <1>1, <3>1
    <3> QED
      BY <3>2, Zenon
  <2>3. s \in Stream /\ StreamOK(s)
    BY <1>2, <2>1, StreamFields DEF StreamOK
  <2>4. PICK x : x = s
    OBVIOUS
  <2> HIDE DEF s
  <2>5. x \in Stream /\ StreamOK(x) /\ more = [all EXCEPT ![i] = x]
    BY <2>2, <2>3, <2>4
  <2>6. StreamsOK([all EXCEPT ![i] = x])
    BY <1>1, <2>1, <2>5, OneStreamChanged
  <2> QED
    BY <2>5, <2>6
<1>10. ASSUME NEW i \in DOMAIN streams, CloseStream(i)
       PROVE  StreamsOK(more)
  <2>1. i \in DOMAIN all
    BY <1>1, <1>10
  <2> DEFINE s == [all[i] EXCEPT !.listed = FALSE, !.queue = 0]
  <2>2. more = [all EXCEPT ![i] = s]
    <3>1. streams' = [streams EXCEPT ![i].listed = FALSE, ![i].queue = 0]
      BY <1>10 DEF CloseStream
    <3>2. more = [all EXCEPT ![i].listed = FALSE, ![i].queue = 0]
      BY <1>1, <3>1
    <3> QED
      BY <1>2, <2>1, <3>2
  <2>3. s \in Stream /\ StreamOK(s)
    BY <1>2, <2>1, StreamFields DEF StreamOK
  <2>4. PICK x : x = s
    OBVIOUS
  <2> HIDE DEF s
  <2>5. x \in Stream /\ StreamOK(x) /\ more = [all EXCEPT ![i] = x]
    BY <2>2, <2>3, <2>4
  <2>6. StreamsOK([all EXCEPT ![i] = x])
    BY <1>1, <2>1, <2>5, OneStreamChanged
  <2> QED
    BY <2>5, <2>6
<1> QED
  BY <1>1, <1>5, <1>6, <1>7, <1>8, <1>9, <1>10 DEF ControlNext

LEMMA ControlTypes ==
    ASSUME ControlTypeOK, StreamsOK(streams), [ControlNext]_controlVars
    PROVE  ControlTypeOK' /\ StreamsOK(streams')
<1>1. StreamsOK(streams')
  BY StreamsKept DEF controlVars
<1>2. streams' \in Seq(Stream)
  BY <1>1 DEF StreamsOK
<1>3. requests \in Nat /\ raced \in BOOLEAN /\ timedOut \in BOOLEAN /\ ObjectsOK /\ HandlersOK
  BY TypeParts DEF CountsOK
<1>4. ASSUME ObjectsOK', HandlersOK', (requests \in Nat /\ raced \in BOOLEAN /\ timedOut \in BOOLEAN)'
      PROVE  ControlTypeOK'
  BY <1>2, <1>4 DEF ControlTypeOK, ObjectsOK, HandlersOK, ThreadOK, JoinsOK, At
<1>5. ASSUME NEW h \in Handlers, NEW r \in Requests, Ask(h, r)
      PROVE  ControlTypeOK'
  <2>1. Goto(h, r) /\ UNCHANGED Objects /\ timedOut' = timedOut /\ requests' = requests + 1 /\ raced' \in BOOLEAN
    BY <1>3, <1>5 DEF Ask
  <2>2. r \in HandlerPcs /\ r # "joining"
    BY RequestsAssumption DEF HandlerPcs
  <2>3. ThreadsGrow /\ ObjectsOK'
    BY <2>1, ThreadsSameGrow, EnginesKeepObjects DEF Objects
  <2>4. Placed(h, r, handler[h].joins) /\ handler[h].joins \in 0 .. Len(threads)
        /\ (handler[h].joins # None => threads[handler[h].joins].pc # "new")
    BY <1>3, <2>1, Places DEF JoinsOK
  <2>5. PICK j : j = handler[h].joins
    OBVIOUS
  <2>6. HandlersOK'
    BY <2>2, <2>3, <2>4, <2>5, PlacedKeepsHandlers
  <2> QED
    BY <1>3, <1>4, <2>1, <2>3, <2>6
<1>6. ASSUME UNCHANGED <<engine, thread, engines, threads, handler, raced, timedOut>>, requests' \in Nat
      PROVE  ControlTypeOK'
  <2>1. ObjectsOK' /\ HandlersOK'
    BY <1>3, <1>6 DEF ObjectsOK, HandlersOK, ThreadOK, JoinsOK
  <2> QED
    BY <1>3, <1>4, <1>6, <2>1
<1>7. ASSUME NEW t \in DOMAIN threads, EngineStep(t)
      PROVE  ControlTypeOK'
  <2>1. UNCHANGED <<engine, thread, engines, handler, Counts>>
    BY <1>7, EngineStepMoves
  <2>2. PICK p \in ThreadPcs \ {"new", "ready"} :
           \/ Steps(t, p, threads[t].eng) /\ (p \in {"loop", "tx", "wait", "post"} => threads[t].eng # None)
           \/ Steps(t, p, engine) /\ engine # None /\ threads[t].eng = None
    BY <1>7, EngineStepMoves
  <2>3. PICK eng : Steps(t, p, eng) /\ (p \in {"loop", "tx", "wait", "post"} => eng # None)
    BY <2>2
  <2>4. ObjectsOK' /\ ThreadsGrow
    BY <2>1, <2>2, <2>3, StepsKeepObjects
  <2>5. Len(threads') = Len(threads)
    BY <2>3 DEF Steps
  <2>6. HandlersOK'
    <3>1. \A g \in Handlers : handler[g].joins \in 0 .. Len(threads) /\ JoinsOK(handler[g])
      BY <1>3, Places
    <3>2. \A g \in Handlers : handler[g].joins # None => handler[g].joins \in DOMAIN threads
      <4>1. DOMAIN threads = 1 .. Len(threads)
        BY <1>3 DEF ObjectsOK
      <4> QED
        BY <3>1, <4>1 DEF None
    <3>3. \A g \in Handlers : JoinsOK(handler[g])'
      BY <2>1, <2>4, <3>1, <3>2 DEF JoinsOK, ThreadsGrow
    <3> QED
      BY <1>3, <2>1, <2>5, <3>3 DEF HandlersOK
  <2> QED
    BY <1>3, <1>4, <2>1, <2>4, <2>6 DEF Counts
<1>8. ASSUME OpenStream \/ TamperDemo \/ \E i \in DOMAIN streams : Read(i) \/ CloseStream(i)
      PROVE  ControlTypeOK'
  <2>1. UNCHANGED <<engine, thread, engines, threads, handler, raced, timedOut>>
    BY <1>8 DEF OpenStream, TamperDemo, Read, CloseStream, Counts
  <2>2. requests' \in {requests, requests + 1}
    BY <1>8 DEF OpenStream, TamperDemo, Read, CloseStream, Counts
  <2> QED
    BY <1>3, <1>6, <2>1, <2>2
<1>9. CASE UNCHANGED controlVars
  BY <1>3, <1>6, <1>9 DEF controlVars
<1>10. CASE ControlNext
  <2>1. CASE \E h \in Handlers : HandlerStep(h)
    BY <1>1, <2>1, HandlerStepTypes
  <2>2. CASE \E h \in Handlers : \E r \in Requests : Ask(h, r)
    BY <1>1, <1>5, <2>2
  <2>3. CASE \E t \in DOMAIN threads : EngineStep(t)
    BY <1>1, <1>7, <2>3
  <2> QED
    BY <1>1, <1>8, <1>10, <2>1, <2>2, <2>3 DEF ControlNext
<1> QED
  BY <1>1, <1>9, <1>10

-----------------------------------------------------------------------------
(* Reach and order while one handler is at work: the invariants in terms   *)
(* of its place alone                                                      *)

Solo(h) == \A g \in Handlers \ {h} : At(g, "idle")

ReachAt(p, j) ==
    /\ \A t \in Running :
          /\ t # thread \/ p \in Forgetting => ToldToStop(t)
          /\ threads[t].eng = None => engine # None
          /\ threads[t].eng \in {None, engine} \/ ToldToStop(t)
    /\ p \in {"make", "hook", "spawn", "launch"} => ~ ThreadAlive
    /\ p \in {"join", "joining"} /\ engine # None => engines[engine].stopped
    /\ p = "joining" => j = thread
    /\ p \in {"hook", "spawn", "launch"} => engine # None

OrderlyAt(p) ==
    /\ \A t \in Running :
          /\ t = thread /\ threads[t].eng \in {None, engine}
          /\ engine # None /\ engines[engine].hooks = 1
    /\ p \in Forgetting => Running = {}
    /\ p = "hook" => engines[engine].hooks = 0
    /\ p \in {"spawn", "launch"} => engines[engine].hooks = 1

LEMMA SoloBefore ==
    ASSUME NEW h \in Handlers, Solo(h), NEW p, NEW j, handler[h].pc = p, handler[h].joins = j
    PROVE  (ReachInv => ReachAt(p, j)) /\ (OrderlyInv => OrderlyAt(p))
<1>1. ASSUME NEW pcs, p \in pcs PROVE Within(pcs)
  BY <1>1 DEF Within
<1>2. ReachInv => ReachAt(p, j)
  BY <1>1 DEF ReachInv, ReachAt, At
<1>3. OrderlyInv => OrderlyAt(p)
  BY <1>1 DEF OrderlyInv, OrderlyAt
<1> QED
  BY <1>2, <1>3

LEMMA SoloAfter ==
    ASSUME NEW h \in Handlers, \A g \in Handlers \ {h} : handler'[g].pc = "idle",
           NEW p, NEW j, handler'[h].pc = p, handler'[h].joins = j
    PROVE  (ReachAt(p, j)' => ReachInv') /\ (OrderlyAt(p)' => OrderlyInv')
<1>1. ASSUME NEW pcs, "idle" \notin pcs, p \notin pcs PROVE ~ Within(pcs)'
  BY <1>1 DEF Within
<1>2. "idle" \notin Forgetting /\ "idle" \notin {"make", "hook", "spawn", "launch"} /\ "idle" \notin {"join", "joining"}
      /\ "idle" \notin {"hook", "spawn", "launch"} /\ "idle" \notin {"hook"} /\ "idle" \notin {"spawn", "launch"}
  BY DEF Forgetting
<1>3. /\ p \notin Forgetting => ~ Within(Forgetting)'
      /\ p \notin {"make", "hook", "spawn", "launch"} => ~ Within({"make", "hook", "spawn", "launch"})'
      /\ p \notin {"join", "joining"} => ~ Within({"join", "joining"})'
      /\ p \notin {"hook", "spawn", "launch"} => ~ Within({"hook", "spawn", "launch"})'
      /\ p # "hook" => ~ Within({"hook"})'
      /\ p \notin {"spawn", "launch"} => ~ Within({"spawn", "launch"})'
  BY <1>1, <1>2
<1>4. \A g, k \in Handlers : ~ At(g, "idle")' /\ ~ At(k, "idle")' => g = k
  BY DEF At
<1>5. \A g \in Handlers : At(g, "joining")' => g = h /\ p = "joining"
  BY DEF At
<1>6. ReachAt(p, j)' => ReachInv'
  BY <1>3, <1>4, <1>5 DEF ReachAt, ReachInv
<1>7. OrderlyAt(p)' => OrderlyInv'
  BY <1>3 DEF OrderlyAt, OrderlyInv
<1> QED
  BY <1>6, <1>7

LEMMA ThreadsSame ==
    ASSUME UNCHANGED threads
    PROVE  Running' = Running /\ \A t : Alive(t)' = Alive(t)
BY DEF Running, Alive

(* What engines are told stays told.                                       *)
LEMMA StaysTold ==
    ASSUME ControlTypeOK, NEW t \in DOMAIN threads, threads'[t] = threads[t], ToldToStop(t),
           \A e \in DOMAIN engines : engines[e].stopped => engines'[e].stopped
    PROVE  ToldToStop(t)'
<1>1. threads[t].eng \in DOMAIN engines
  <2>1. engines \in Seq(EngineObject)
    BY DEF ControlTypeOK
  <2> QED
    BY <2>1, ThreadFields DEF ToldToStop, None
<1> QED
  BY <1>1 DEF ToldToStop

LEMMA EngineStaysStopped ==
    ASSUME ControlTypeOK, NEW e, NEW b, NEW n, EngineSet(e, b, n), engines[e].stopped => b
    PROVE  \A x \in DOMAIN engines : engines[x].stopped => engines'[x].stopped
BY DEF EngineSet

(* A handler that only goes on.                                            *)
LEMMA ObjectsSameReach ==
    ASSUME UNCHANGED Objects, NEW p, NEW j, ReachAt(p, j), NEW q, NEW k,
           q \in Forgetting => p \in Forgetting \/ \A t \in Running : ToldToStop(t),
           q \in {"make", "hook", "spawn", "launch"} => ~ ThreadAlive,
           q \in {"join", "joining"} => p \in {"join", "joining"},
           q = "joining" => k = thread,
           q \in {"hook", "spawn", "launch"} => p \in {"hook", "spawn", "launch"}
    PROVE  ReachAt(q, k)'
<1>1. Running' = Running /\ \A t : ToldToStop(t)' = ToldToStop(t)
  BY ThreadsSame DEF Objects, ToldToStop
<1>2. ThreadAlive' = ThreadAlive
  BY ThreadsSame DEF Objects, ThreadAlive
<1> QED
  BY <1>1, <1>2 DEF Objects, ReachAt

(* A handler that sets a field of _engine and goes on.                     *)
LEMMA EngineSetReach ==
    ASSUME ControlTypeOK, UNCHANGED <<engine, thread, threads>>, NEW b, NEW n,
           engine = None => UNCHANGED engines,
           engine # None => EngineSet(engine, b, n) /\ (engines[engine].stopped => b),
           NEW p, NEW j, ReachAt(p, j), NEW q, NEW k,
           q \in Forgetting => p \in Forgetting,
           q \in {"make", "hook", "spawn", "launch"} => ~ ThreadAlive,
           q \in {"join", "joining"} /\ engine # None => b,
           q # "joining",
           q \in {"hook", "spawn", "launch"} => engine # None
    PROVE  ReachAt(q, k)'
<1>1. Running' = Running /\ ThreadAlive' = ThreadAlive
  BY ThreadsSame DEF ThreadAlive
<1>2. \A x \in DOMAIN engines : engines[x].stopped => engines'[x].stopped
  <2>1. CASE engine = None
    BY <2>1
  <2>2. CASE engine # None
    <3>1. PICK e : e = engine
      OBVIOUS
    <3> QED
      BY <2>2, <3>1, EngineStaysStopped
  <2> QED
    BY <2>1, <2>2
<1>3. \A t \in Running : ToldToStop(t) => ToldToStop(t)'
  BY <1>2, StaysTold DEF Running
<1>4. engine # None => engines'[engine].stopped = b
  BY DEF EngineSet
<1> QED
  BY <1>1, <1>3, <1>4 DEF ReachAt

(* What one step of a handler leads to.                                    *)
Leads(h, p) ==
    \E q, k : /\ Placed(h, q, k) /\ ReachAt(q, k)'
              /\ OrderlyAt(p) /\ ~ timedOut' => OrderlyAt(q)'

LEMMA LeadsTo ==
    ASSUME NEW h, NEW p, NEW q, NEW k, Placed(h, q, k), ReachAt(q, k)', OrderlyAt(p) /\ ~ timedOut' => OrderlyAt(q)'
    PROVE  Leads(h, p)
BY Zenon DEF Leads

LEMMA OrderlySame ==
    ASSUME UNCHANGED Objects, NEW p, NEW q, OrderlyAt(p),
           q \in Forgetting => p \in Forgetting \/ Running = {},
           q = "hook" => p = "hook",
           q \in {"spawn", "launch"} => p \in {"spawn", "launch"}
    PROVE  OrderlyAt(q)'
<1>1. Running' = Running
  BY ThreadsSame DEF Objects
<1> QED
  BY <1>1 DEF Objects, OrderlyAt

LEMMA StartReach ==
    ASSUME ControlTypeOK, NEW h \in Handlers, Start(h) \/ CheckFlag(h), NEW p, NEW j, handler[h].pc = p, ReachAt(p, j)
    PROVE  Leads(h, p)
<1>1. HandlersOK /\ UNCHANGED Objects
  BY TypeParts DEF Start, CheckFlag
<1>2. PICK q : /\ Goto(h, q) \/ (q = "idle" /\ Answer(h))
               /\ q \in {"idle", "make", "set_stop", "set_pause", "set_resume"}
               /\ q = "make" => ~ ThreadAlive
  <2>1. \/ Answer(h) \/ (Goto(h, "make") /\ ~ ThreadAlive)
        \/ Goto(h, "set_stop") \/ Goto(h, "set_pause") \/ Goto(h, "set_resume")
    BY DEF Start, CheckFlag, Check
  <2> QED
    BY <2>1
<1>3. PICK k : Placed(h, q, k)
  BY <1>1, <1>2, Places
<1>4. ReachAt(q, k)'
  BY <1>1, <1>2, ObjectsSameReach DEF Forgetting
<1>5. OrderlyAt(p) => OrderlyAt(q)'
  BY <1>1, <1>2, OrderlySame DEF Forgetting
<1> QED
  BY <1>3, <1>4, <1>5, LeadsTo

LEMMA MakeEngineReach ==
    ASSUME ControlTypeOK, NEW h \in Handlers, MakeEngine(h), NEW p, NEW j, handler[h].pc = p, ReachAt(p, j)
    PROVE  Leads(h, p)
<1>1. HandlersOK /\ p = "make" /\ Goto(h, "hook") /\ UNCHANGED <<thread, threads>>
  BY TypeParts DEF MakeEngine, At
<1>2. PICK k : Placed(h, "hook", k)
  BY <1>1, Places
<1>3. /\ \A e \in DOMAIN engines : engines'[e] = engines[e]
      /\ engines'[engine'].hooks = 0 /\ engine' # None
  BY MakesEngine
<1>4. Running' = Running /\ ThreadAlive' = ThreadAlive
  BY <1>1, ThreadsSame DEF ThreadAlive
<1>5. ~ ThreadAlive /\ \A t \in Running : t # thread /\ ToldToStop(t)
  <2>1. ~ ThreadAlive /\ \A t \in Running : t # thread => ToldToStop(t)
    BY <1>1 DEF ReachAt
  <2>2. thread \notin Running
    <3>1. DOMAIN threads = 1 .. Len(threads)
      BY TypeParts DEF ObjectsOK
    <3> QED
      BY <2>1, <3>1 DEF Running, ThreadAlive, None
  <2> QED
    BY <2>1, <2>2
<1>6. \A t \in Running : ToldToStop(t)'
  BY <1>1, <1>3, <1>5, StaysTold DEF Running
<1>7. ReachAt("hook", k)'
  <2>1. \A t \in Running : threads'[t].eng # None
    BY <1>6 DEF ToldToStop
  <2> QED
    BY <1>3, <1>4, <1>5, <1>6, <2>1 DEF ReachAt, Forgetting
<1>8. OrderlyAt(p) => OrderlyAt("hook")'
  BY <1>3, <1>4, <1>5 DEF OrderlyAt, Forgetting
<1> QED
  BY <1>2, <1>7, <1>8, LeadsTo

LEMMA RegisterReach ==
    ASSUME ControlTypeOK, NEW h \in Handlers, RegisterCallback(h), NEW p, NEW j, handler[h].pc = p, ReachAt(p, j)
    PROVE  Leads(h, p)
<1>1. HandlersOK /\ p = "hook" /\ UNCHANGED <<engine, thread, threads>>
  BY TypeParts DEF RegisterCallback, At
<1>2. engine # None /\ ~ ThreadAlive
  BY <1>1 DEF ReachAt
<1>3. PICK k : Placed(h, "spawn", k)
  BY <1>1, <1>2, Places DEF RegisterCallback
<1>4. PICK b, n : b = engines[engine].stopped /\ n = engines[engine].hooks + 1
  OBVIOUS
<1>5. EngineSet(engine, b, n)
  BY <1>2, <1>4, EngineChanges
<1>6. ReachAt("spawn", k)'
  BY <1>1, <1>2, <1>4, <1>5, EngineSetReach DEF Forgetting
<1>7. OrderlyAt(p) => OrderlyAt("spawn")'
  <2> SUFFICES ASSUME OrderlyAt(p) PROVE OrderlyAt("spawn")'
    OBVIOUS
  <2>1. n = 1 /\ engines'[engine].hooks = n
    BY <1>1, <1>4, <1>5 DEF OrderlyAt, EngineSet
  <2>2. Running' = Running
    BY <1>1, ThreadsSame
  <2> QED
    BY <1>1, <2>1, <2>2 DEF OrderlyAt, Forgetting
<1> QED
  BY <1>3, <1>6, <1>7, LeadsTo

LEMMA MakeThreadReach ==
    ASSUME ControlTypeOK, NEW h \in Handlers, MakeThread(h), NEW p, NEW j, handler[h].pc = p, ReachAt(p, j)
    PROVE  Leads(h, p)
<1>1. HandlersOK /\ p = "spawn" /\ Goto(h, "launch") /\ UNCHANGED <<engine, engines>>
  BY TypeParts DEF MakeThread, At
<1>2. PICK k : Placed(h, "launch", k)
  BY <1>1, Places
<1>3. /\ thread' = Len(threads) + 1 /\ Len(threads) \in Nat /\ DOMAIN threads = 1 .. Len(threads)
      /\ DOMAIN threads' = 1 .. Len(threads) + 1
      /\ \A t \in DOMAIN threads : threads'[t] = threads[t]
      /\ threads'[thread'] = NewThread
  BY MakesThread
<1>4. \A t \in Running' : t \in Running /\ t \in DOMAIN threads
  <2>1. \A t \in DOMAIN threads' : t \in DOMAIN threads \/ t = thread'
    BY <1>3
  <2> QED
    BY <1>3, <2>1 DEF Running, Alive, Over, NewThread
<1>5. ~ ThreadAlive'
  BY <1>3 DEF ThreadAlive, Alive, Over, NewThread
<1>6. engine # None /\ \A t \in Running : t # thread /\ ToldToStop(t)
  <2>1. engine # None /\ ~ ThreadAlive /\ \A t \in Running : t # thread => ToldToStop(t)
    BY <1>1 DEF ReachAt
  <2>2. thread \notin Running
    BY <1>3, <2>1 DEF Running, ThreadAlive, None
  <2> QED
    BY <2>1, <2>2
<1>7. \A t \in Running' : ToldToStop(t)' /\ threads'[t].eng # None
  BY <1>1, <1>3, <1>4, <1>6 DEF ToldToStop
<1>8. ReachAt("launch", k)'
  BY <1>1, <1>5, <1>6, <1>7 DEF ReachAt, Forgetting
<1>9. OrderlyAt(p) => OrderlyAt("launch")'
  BY <1>1, <1>4, <1>6 DEF OrderlyAt, Forgetting
<1> QED
  BY <1>2, <1>8, <1>9, LeadsTo

LEMMA StartThreadReach ==
    ASSUME ControlTypeOK, NEW h \in Handlers, StartThread(h), NEW p, NEW j, handler[h].pc = p, ReachAt(p, j)
    PROVE  Leads(h, p)
<1>1. HandlersOK /\ p = "launch" /\ Placed(h, "idle", None) /\ UNCHANGED <<engine, thread, engines>>
  BY TypeParts, Places DEF StartThread, At
<1>2. engine # None /\ DOMAIN threads = 1 .. Len(threads)
  BY <1>1, TypeParts DEF ReachAt, ObjectsOK
<1>3. CASE UNCHANGED threads
  <2>1. UNCHANGED Objects
    BY <1>1, <1>3 DEF StartThread, Objects
  <2>2. ReachAt("idle", None)'
    BY <2>1, ObjectsSameReach DEF Forgetting
  <2>3. OrderlyAt(p) => OrderlyAt("idle")'
    BY <2>1, OrderlySame DEF Forgetting
  <2> QED
    BY <1>1, <2>2, <2>3, LeadsTo
<1>4. CASE thread \in DOMAIN threads /\ threads[thread].pc = "new" /\ Steps(thread, "ready", None)
  <2>1. /\ DOMAIN threads' = DOMAIN threads /\ threads'[thread].pc = "ready" /\ threads'[thread].eng = None
        /\ \A t \in DOMAIN threads : t # thread => threads'[t] = threads[t]
    BY <1>2, <1>4 DEF Steps
  <2>2. Running' = Running \cup {thread} /\ thread \notin Running
    BY <1>4, <2>1 DEF Running, Alive, Over
  <2>3. \A t \in Running : ToldToStop(t)' /\ threads'[t].eng # None
    <3>1. \A t \in Running : ToldToStop(t) /\ threads'[t] = threads[t]
      BY <2>1, <2>2 DEF ReachAt, Running
    <3> QED
      BY <1>1, <3>1 DEF ToldToStop
  <2>4. ReachAt("idle", None)'
    BY <1>1, <1>2, <2>1, <2>2, <2>3 DEF ReachAt, Forgetting
  <2>5. OrderlyAt(p) => OrderlyAt("idle")'
    <3> SUFFICES ASSUME OrderlyAt(p) PROVE OrderlyAt("idle")'
      OBVIOUS
    <3>1. engines[engine].hooks = 1 /\ Running = {}
      BY <1>1, <2>2 DEF OrderlyAt
    <3> QED
      BY <1>1, <1>2, <2>1, <2>2, <3>1 DEF OrderlyAt, Forgetting
  <2> QED
    BY <1>1, <2>4, <2>5, LeadsTo
<1> QED
  BY <1>3, <1>4, StartsThread

LEMMA FlagReach ==
    ASSUME ControlTypeOK, NEW h \in Handlers, SetFlag(h) \/ Reset(h) \/ CloseBridges(h),
           NEW p, NEW j, handler[h].pc = p, ReachAt(p, j)
    PROVE  Leads(h, p)
<1>1. HandlersOK /\ UNCHANGED <<engine, thread, threads>>
  BY TypeParts DEF SetFlag, Reset, CloseBridges
<1>2. PICK b, n : /\ engine = None => UNCHANGED engines
                  /\ engine # None => /\ EngineSet(engine, b, n) /\ n = engines[engine].hooks
                                      /\ (engines[engine].stopped \/ Reset(h)) => b
  <2>1. CASE engine = None
    BY <2>1, EngineChanges
  <2>2. CASE engine # None
    <3>1. CASE SetFlag(h)
      <4>1. ~ Reset(h)
        BY <3>1 DEF SetFlag, Reset, At
      <4>2. \/ EngineSet(engine, TRUE, engines[engine].hooks)
            \/ EngineSet(engine, engines[engine].stopped, engines[engine].hooks)
        BY <2>2, <3>1, EngineChanges
      <4> QED
        BY <2>2, <4>1, <4>2
    <3>2. CASE Reset(h)
      BY <2>2, <3>2, EngineChanges
    <3>3. CASE CloseBridges(h)
      <4>1. ~ Reset(h)
        BY <3>3 DEF CloseBridges, Reset, At
      <4> QED
        BY <2>2, <3>3, <4>1, EngineChanges
    <3> QED
      BY <3>1, <3>2, <3>3
  <2> QED
    BY <2>1, <2>2
<1>3. PICK q : /\ Goto(h, q) \/ (q = "idle" /\ Answer(h))
               /\ q \in {"idle", "join", "forget_engine"}
               /\ q = "join" => Reset(h)
               /\ q = "forget_engine" => p = "close"
  <2>1. \/ SetFlag(h) /\ Answer(h)
        \/ Reset(h) /\ Goto(h, "join")
        \/ CloseBridges(h) /\ Goto(h, "forget_engine") /\ p = "close"
    BY DEF SetFlag, Reset, CloseBridges, At
  <2> QED
    BY <2>1
<1>4. PICK k : Placed(h, q, k)
  BY <1>1, <1>3, Places
<1>5. ReachAt(q, k)'
  <2>1. /\ q \in Forgetting => p \in Forgetting
        /\ q \notin {"make", "hook", "spawn", "launch"} /\ q \notin {"hook", "spawn", "launch"} /\ q # "joining"
        /\ q \in {"join", "joining"} => Reset(h)
    BY <1>3 DEF Forgetting
  <2> QED
    BY <1>1, <1>2, <2>1, EngineSetReach
<1>6. OrderlyAt(p) => OrderlyAt(q)'
  <2> SUFFICES ASSUME OrderlyAt(p) PROVE OrderlyAt(q)'
    OBVIOUS
  <2>1. Running' = Running
    BY <1>1, ThreadsSame
  <2>2. engine # None => engines'[engine].hooks = engines[engine].hooks
    BY <1>2 DEF EngineSet
  <2>3. q \in Forgetting => p \in Forgetting
    BY <1>3 DEF Forgetting
  <2> QED
    BY <1>1, <1>3, <2>1, <2>2, <2>3 DEF OrderlyAt
<1> QED
  BY <1>4, <1>5, <1>6, LeadsTo

LEMMA JoinReach ==
    ASSUME ControlTypeOK, NEW h \in Handlers, Join(h) \/ Joined(h), NEW p, NEW j, handler[h].pc = p, handler[h].joins = j,
           ReachAt(p, j)
    PROVE  Leads(h, p)
<1>1. HandlersOK /\ UNCHANGED Objects /\ p \in {"join", "joining"} /\ DOMAIN threads = 1 .. Len(threads)
  BY TypeParts DEF Join, Joined, At, ObjectsOK
<1>2. PICK q, k : /\ Placed(h, q, k) /\ q \in {"joining", "close"}
                  /\ q = "joining" => k = thread
                  /\ q = "close" => ~ ThreadAlive
  <2>1. CASE Join(h) /\ ThreadAlive
    <3>1. Placed(h, "joining", thread)
      BY <2>1 DEF Join, Placed
    <3>2. PICK k : k = thread
      OBVIOUS
    <3> QED
      BY <3>1, <3>2
  <2>2. CASE Join(h) /\ ~ ThreadAlive
    <3>1. Placed(h, "close", None)
      BY <2>2 DEF Join, Placed
    <3> QED
      BY <2>2, <3>1
  <2>3. CASE Joined(h)
    <3>1. PICK k : Placed(h, "close", k)
      BY <1>1, <2>3, Places DEF Joined
    <3>2. ~ ThreadAlive
      BY <1>1, <2>3 DEF Joined, At, ReachAt, ThreadAlive
    <3> QED
      BY <3>1, <3>2
  <2> QED
    BY <2>1, <2>2, <2>3
<1>3. ~ ThreadAlive => thread \notin Running
  BY <1>1 DEF Running, ThreadAlive, None
<1>4. q = "close" => \A t \in Running : ToldToStop(t)
  BY <1>2, <1>3 DEF ReachAt
<1>5. /\ q \in Forgetting => q = "close"
      /\ q \notin {"make", "hook", "spawn", "launch"} /\ q \notin {"hook", "spawn", "launch"} /\ q # "join"
  BY <1>2 DEF Forgetting
<1>6. ReachAt(q, k)'
  BY <1>1, <1>2, <1>4, <1>5, ObjectsSameReach
<1>7. OrderlyAt(p) => OrderlyAt(q)'
  <2> SUFFICES ASSUME OrderlyAt(p) PROVE OrderlyAt(q)'
    OBVIOUS
  <2>1. q \in Forgetting => Running = {}
    BY <1>2, <1>3, <1>5 DEF OrderlyAt
  <2> QED
    BY <1>1, <1>2, <1>5, <2>1, OrderlySame
<1> QED
  BY <1>2, <1>6, <1>7, LeadsTo

(* The thread had run, so it had read _engine, which was told to stop.     *)
LEMMA TimesOutReach ==
    ASSUME ControlTypeOK, NEW h \in Handlers, JoinTimesOut(h), ~ raced', NEW p, NEW j, handler[h].pc = p, handler[h].joins = j,
           ReachAt(p, j)
    PROVE  Leads(h, p)
<1>1. HandlersOK /\ UNCHANGED Objects /\ p = "joining" /\ j = thread /\ timedOut' /\ threads[thread].pc # "ready"
  BY TypeParts DEF JoinTimesOut, At, ReachAt
<1>2. PICK k : Placed(h, "close", k)
  BY <1>1, Places DEF JoinTimesOut
<1>3. \A t \in Running : ToldToStop(t)
  <2> SUFFICES ASSUME thread \in Running PROVE ToldToStop(thread)
    BY <1>1 DEF ReachAt
  <2>1. threads[thread].eng # None
    <3>1. PICK t : t = thread
      OBVIOUS
    <3>2. t \in DOMAIN threads /\ threads[t].pc \in {"loop", "tx", "wait", "post"}
      BY <1>1, <3>1, ThreadFields DEF Running, Alive, Over, ThreadPcs
    <3> QED
      BY <3>1, <3>2, ThreadFields
  <2>2. threads[thread].eng = engine => ToldToStop(thread)
    BY <1>1, <2>1 DEF ReachAt, ToldToStop
  <2> QED
    BY <2>1, <2>2 DEF ReachAt
<1>4. ReachAt("close", k)'
  BY <1>1, <1>3, ObjectsSameReach DEF Forgetting
<1> QED
  BY <1>1, <1>2, <1>4, LeadsTo

LEMMA ForgetReach ==
    ASSUME ControlTypeOK, NEW h \in Handlers, ForgetEngine(h) \/ ForgetThread(h), NEW p, NEW j, handler[h].pc = p, ReachAt(p, j)
    PROVE  Leads(h, p)
<1>1. HandlersOK /\ p \in Forgetting /\ UNCHANGED <<engines, threads>>
  BY TypeParts DEF ForgetEngine, ForgetThread, At, Forgetting
<1>2. PICK q, k : Placed(h, q, k) /\ q \in {"forget_thread", "idle"}
  BY <1>1, Places DEF ForgetEngine, ForgetThread
<1>3. \A t \in Running : ToldToStop(t) /\ threads[t].eng # None
  BY <1>1 DEF ReachAt, ToldToStop
<1>4. Running' = Running /\ \A t : ToldToStop(t)' = ToldToStop(t)
  BY <1>1, ThreadsSame DEF ToldToStop
<1>5. q \notin {"make", "hook", "spawn", "launch"} /\ q \notin {"hook", "spawn", "launch"} /\ q \notin {"join", "joining"}
      /\ q # "hook" /\ q # "joining" /\ q \notin {"spawn", "launch"}
  BY <1>2
<1>6. ReachAt(q, k)'
  BY <1>1, <1>3, <1>4, <1>5 DEF ReachAt
<1>7. OrderlyAt(p) => OrderlyAt(q)'
  BY <1>1, <1>4, <1>5 DEF OrderlyAt
<1> QED
  BY <1>2, <1>6, <1>7, LeadsTo

LEMMA HandlerReach ==
    ASSUME ControlTypeOK, NEW h \in Handlers, HandlerStep(h), ~ raced', ReachInv
    PROVE  ReachInv' /\ (OrderlyInv /\ ~ timedOut' => OrderlyInv')
<1>1. HandlersOK /\ ~ At(h, "idle")
  BY TypeParts DEF HandlerStep, Start, MakeEngine, RegisterCallback, MakeThread, StartThread, CheckFlag, Check, SetFlag, Reset,
                   Join, Joined, JoinTimesOut, CloseBridges, ForgetEngine, ForgetThread, At
<1>2. Solo(h)
  BY <1>1 DEF Solo, ReachInv
<1>3. PICK p, j : handler[h].pc = p /\ handler[h].joins = j
  OBVIOUS
<1>4. ReachAt(p, j) /\ (OrderlyInv => OrderlyAt(p))
  BY <1>2, <1>3, SoloBefore
<1>5. Leads(h, p)
  <2>1. CASE Start(h) \/ CheckFlag(h)
    BY <1>3, <1>4, <2>1, StartReach
  <2>2. CASE MakeEngine(h)
    BY <1>3, <1>4, <2>2, MakeEngineReach
  <2>3. CASE RegisterCallback(h)
    BY <1>3, <1>4, <2>3, RegisterReach
  <2>4. CASE MakeThread(h)
    BY <1>3, <1>4, <2>4, MakeThreadReach
  <2>5. CASE StartThread(h)
    BY <1>3, <1>4, <2>5, StartThreadReach
  <2>6. CASE SetFlag(h) \/ Reset(h) \/ CloseBridges(h)
    BY <1>3, <1>4, <2>6, FlagReach
  <2>7. CASE Join(h) \/ Joined(h)
    BY <1>3, <1>4, <2>7, JoinReach
  <2>8. CASE JoinTimesOut(h)
    BY <1>3, <1>4, <2>8, TimesOutReach
  <2>9. CASE ForgetEngine(h) \/ ForgetThread(h)
    BY <1>3, <1>4, <2>9, ForgetReach
  <2> QED
    BY <2>1, <2>2, <2>3, <2>4, <2>5, <2>6, <2>7, <2>8, <2>9 DEF HandlerStep
<1>6. PICK q, k : /\ Placed(h, q, k) /\ ReachAt(q, k)'
                  /\ OrderlyAt(p) /\ ~ timedOut' => OrderlyAt(q)'
  BY <1>5 DEF Leads
<1>7. /\ handler'[h].pc = q /\ handler'[h].joins = k
      /\ \A g \in Handlers \ {h} : handler'[g].pc = "idle"
  BY <1>1, <1>2, <1>6, Places DEF Solo, At
<1> QED
  BY <1>4, <1>6, <1>7, SoloAfter

LEMMA AskReach ==
    ASSUME ControlTypeOK, NEW h \in Handlers, NEW r \in Requests, Ask(h, r), ~ raced', ReachInv
    PROVE  ReachInv' /\ (OrderlyInv => OrderlyInv')
<1>1. HandlersOK /\ UNCHANGED Objects /\ Goto(h, r) /\ \A g \in Handlers : At(g, "idle")
  BY TypeParts DEF Ask
<1>2. Solo(h)
  BY <1>1 DEF Solo
<1>3. PICK j : handler[h].joins = j
  OBVIOUS
<1>4. ReachAt("idle", j) /\ (OrderlyInv => OrderlyAt("idle"))
  BY <1>1, <1>2, <1>3, SoloBefore DEF At
<1>5. Placed(h, r, j)
  BY <1>1, <1>3, Places
<1>6. /\ r \notin Forgetting /\ r \notin {"make", "hook", "spawn", "launch"} /\ r \notin {"join", "joining"} /\ r # "joining"
      /\ r \notin {"hook", "spawn", "launch"} /\ r # "hook" /\ r \notin {"spawn", "launch"}
  BY RequestsAssumption DEF Forgetting
<1>7. ReachAt(r, j)'
  BY <1>1, <1>4, <1>6, ObjectsSameReach
<1>8. OrderlyInv => OrderlyAt(r)'
  BY <1>1, <1>4, <1>6, OrderlySame
<1>9. /\ handler'[h].pc = r /\ handler'[h].joins = j
      /\ \A g \in Handlers \ {h} : handler'[g].pc = "idle"
  BY <1>1, <1>5, Places DEF At
<1> QED
  BY <1>7, <1>8, <1>9, SoloAfter

LEMMA EngineReach ==
    ASSUME ControlTypeOK, NEW t \in DOMAIN threads, EngineStep(t), ReachInv
    PROVE  ReachInv' /\ (OrderlyInv => OrderlyInv')
<1>1. t \in Running /\ UNCHANGED <<engine, thread, engines, handler>>
  BY EngineStepMoves DEF Counts
<1>2. /\ DOMAIN threads' = DOMAIN threads
      /\ \A u \in DOMAIN threads : u # t => threads'[u] = threads[u]
      /\ \/ threads'[t].eng = threads[t].eng
         \/ threads[t].eng = None /\ threads'[t].eng = engine /\ engine # None
  <2>1. \E p \in ThreadPcs \ {"new", "ready"} :
           \/ Steps(t, p, threads[t].eng)
           \/ Steps(t, p, engine) /\ engine # None /\ threads[t].eng = None
    BY EngineStepMoves
  <2>2. DOMAIN threads = 1 .. Len(threads)
    BY TypeParts DEF ObjectsOK
  <2> QED
    BY <2>1, <2>2 DEF Steps
<1>3. Running' \subseteq Running
  BY <1>1, <1>2 DEF Running, Alive
<1>4. ThreadAlive' => ThreadAlive
  <2>1. ThreadAlive' => thread \in Running'
    <3>1. DOMAIN threads = 1 .. Len(threads) /\ thread \in 0 .. Len(threads)
      BY TypeParts DEF ObjectsOK
    <3> QED
      BY <1>1, <1>2, <3>1 DEF ThreadAlive, Running, None
  <2> QED
    BY <1>1, <1>3, <2>1 DEF ThreadAlive, Running, None
<1>5. \A pcs : Within(pcs)' = Within(pcs)
  BY <1>1 DEF Within
<1>6. \A u \in Running' : ToldToStop(u) => ToldToStop(u)'
  BY <1>1, <1>2, <1>3 DEF ToldToStop, Running
<1>7. \A u \in Running' :
         /\ u # thread' \/ Within(Forgetting)' => ToldToStop(u)'
         /\ threads'[u].eng = None => engine' # None
         /\ threads'[u].eng \in {None, engine'} \/ ToldToStop(u)'
  <2> TAKE u \in Running'
  <2>1. /\ u # thread \/ Within(Forgetting) => ToldToStop(u)
        /\ threads[u].eng = None => engine # None
        /\ threads[u].eng \in {None, engine} \/ ToldToStop(u)
    BY <1>3 DEF ReachInv
  <2>2. threads'[u].eng = threads[u].eng \/ (threads'[u].eng = engine /\ engine # None)
    BY <1>2, <1>3 DEF Running
  <2> QED
    BY <1>1, <1>5, <1>6, <2>1, <2>2
<1>8. ReachInv'
  <2>1. ThreadAlive' => ~ Within({"make", "hook", "spawn", "launch"})'
    BY <1>4, <1>5 DEF ReachInv
  <2> QED
    BY <1>1, <1>5, <1>7, <2>1 DEF ReachInv, At
<1>9. OrderlyInv => OrderlyInv'
  <2> SUFFICES ASSUME OrderlyInv PROVE OrderlyInv'
    OBVIOUS
  <2>1. \A u \in Running' : /\ u = thread /\ threads'[u].eng \in {None, engine}
                            /\ engine # None /\ engines[engine].hooks = 1
    BY <1>2, <1>3 DEF OrderlyInv, Running
  <2>2. Within(Forgetting) => Running' = {}
    BY <1>3 DEF OrderlyInv
  <2> QED
    BY <1>1, <1>5, <2>1, <2>2 DEF OrderlyInv
<1> QED
  BY <1>8, <1>9

(* ControlInv is inductive.                                                *)
LEMMA ControlInductive ==
    ASSUME ControlInv, [ControlNext]_controlVars
    PROVE  ControlInv'
<1>1. ControlTypeOK /\ StreamsOK(streams) /\ (~raced => ReachInv) /\ (Orderly => OrderlyInv)
  BY DEF ControlInv
<1>2. ControlTypeOK' /\ StreamsOK(streams)'
  BY <1>1, ControlTypes DEF StreamsOK
<1>3. raced' \in BOOLEAN /\ timedOut' \in BOOLEAN /\ raced \in BOOLEAN /\ timedOut \in BOOLEAN
  BY <1>1, <1>2 DEF ControlTypeOK
<1>4. (~raced => ReachInv)' /\ (Orderly => OrderlyInv)'
  <2>1. ASSUME NEW h \in Handlers, HandlerStep(h)
        PROVE  (~raced => ReachInv)' /\ (Orderly => OrderlyInv)'
    <3>1. (raced => raced') /\ (timedOut => timedOut')
      BY <1>3, <2>1 DEF HandlerStep, Start, MakeEngine, RegisterCallback, MakeThread, StartThread, CheckFlag, SetFlag, Reset,
                  Join, Joined, JoinTimesOut, CloseBridges, ForgetEngine, ForgetThread, Counts
    <3> QED
      BY <1>1, <2>1, <3>1, HandlerReach DEF Orderly
  <2>2. ASSUME NEW h \in Handlers, NEW r \in Requests, Ask(h, r)
        PROVE  (~raced => ReachInv)' /\ (Orderly => OrderlyInv)'
    <3>1. (raced => raced') /\ timedOut' = timedOut
      BY <1>3, <2>2 DEF Ask
    <3> QED
      BY <1>1, <2>2, <3>1, AskReach DEF Orderly
  <2>3. ASSUME NEW t \in DOMAIN threads, EngineStep(t)
        PROVE  (~raced => ReachInv)' /\ (Orderly => OrderlyInv)'
    <3>1. raced' = raced /\ timedOut' = timedOut
      BY <1>1, <2>3, EngineStepMoves DEF Counts
    <3> QED
      BY <1>1, <2>3, <3>1, EngineReach DEF Orderly
  <2>4. ASSUME UNCHANGED <<engine, thread, engines, threads, handler, raced, timedOut>>
        PROVE  (~raced => ReachInv)' /\ (Orderly => OrderlyInv)'
    <3>1. (ReachInv => ReachInv') /\ (OrderlyInv => OrderlyInv') /\ Orderly' = Orderly
      BY <2>4 DEF ReachInv, OrderlyInv, Orderly, Running, Alive, ThreadAlive, ToldToStop, Within, At
    <3> QED
      BY <1>1, <2>4, <3>1
  <2>5. ASSUME OpenStream \/ TamperDemo \/ (\E i \in DOMAIN streams : Read(i) \/ CloseStream(i)) \/ UNCHANGED controlVars
        PROVE  UNCHANGED <<engine, thread, engines, threads, handler, raced, timedOut>>
    BY <2>5 DEF OpenStream, TamperDemo, Read, CloseStream, Counts, controlVars
  <2> QED
    BY <2>1, <2>2, <2>3, <2>4, <2>5 DEF ControlNext
<1> QED
  BY <1>2, <1>4 DEF ControlInv

(* The types, the streams, the reach and the order of the control hold at  *)
(* all times (routes_simulation.py), for any number of handlers, requests  *)
(* and streams and any size of a queue.                                    *)
THEOREM ControlInvariance == ControlSpec => []ControlInv
<1>1. ControlInit => ControlInv
  <2> SUFFICES ASSUME ControlInit PROVE ControlInv
    OBVIOUS
  <2>1. engine = 0 /\ thread = 0 /\ engines = <<>> /\ threads = <<>> /\ streams = <<>>
        /\ requests = 0 /\ raced = FALSE /\ timedOut = FALSE
    BY DEF ControlInit, None
  <2>2. handler = [h \in Handlers |-> Resting] /\ Resting.pc = "idle" /\ Resting.joins = 0
        /\ Resting \in [pc : HandlerPcs, joins : 0 .. 0]
    BY DEF ControlInit, Resting, None, HandlerPcs
  <2>3. Len(engines) = 0 /\ Len(threads) = 0 /\ DOMAIN threads = {} /\ DOMAIN streams = {}
    BY <2>1
  <2>4. ObjectsOK
    BY <2>1, <2>3 DEF ObjectsOK
  <2>5. HandlersOK
    BY <2>2, <2>3 DEF HandlersOK, JoinsOK, None
  <2>6. ControlTypeOK
    <3>1. streams \in Seq(Stream)
      BY <2>1
    <3>2. CountsOK
      <4>1. requests \in Nat
        BY <2>1
      <4> QED
        BY <2>1, <4>1 DEF CountsOK
    <3> QED
      BY <2>4, <2>5, <3>1, <3>2, TypeParts
  <2>7. StreamsOK(streams)
    BY <2>1, <2>3 DEF StreamsOK
  <2>8. Running = {} /\ ~ ThreadAlive /\ \A h \in Handlers : At(h, "idle")
    BY <2>1, <2>2, <2>3 DEF Running, ThreadAlive, None, At
  <2>9. \A pcs : "idle" \notin pcs => ~ Within(pcs)
    BY <2>8 DEF Within, At
  <2>10. ReachInv
    <3>1. ~ Within({"join", "joining"}) /\ ~ Within({"hook", "spawn", "launch"})
      BY <2>9
    <3> QED
      BY <2>8, <3>1 DEF ReachInv, At
  <2>11. OrderlyInv
    <3>1. ~ Within({"hook"}) /\ ~ Within({"spawn", "launch"})
      BY <2>9
    <3> QED
      BY <2>8, <3>1 DEF OrderlyInv
  <2> QED
    BY <2>6, <2>7, <2>10, <2>11 DEF ControlInv
<1>2. ControlInv /\ [ControlNext]_controlVars => ControlInv'
  BY ControlInductive
<1> QED
  BY <1>1, <1>2, PTL DEF ControlSpec

(* While requests come one at a time and no join times out, the globals    *)
(* tell the truth: at most one thread runs, it is _thread, it runs _engine *)
(* and reports each event once.                                            *)
THEOREM GlobalsAreTrue == ControlSpec => []GlobalsTellTheTruth
<1>1. ControlInv => GlobalsTellTheTruth
  BY DEF ControlInv, OrderlyInv, GlobalsTellTheTruth
<1> QED
  BY <1>1, ControlInvariance, PTL

(* While requests come one at a time, also when a join times out, a thread *)
(* that runs has _engine or was told to stop.                              *)
THEOREM AllWithinReach == ControlSpec => []NoneOutOfReach
<1>1. ControlInv => NoneOutOfReach
  BY DEF ControlInv, ReachInv, NoneOutOfReach, ToldToStop, None
<1> QED
  BY <1>1, ControlInvariance, PTL

(* Whatever races, a client that missed an engine event gets no later one  *)
(* from the same connection: broadcast takes a full queue off the list.    *)
THEOREM EngineEventsWithoutGap == ControlSpec => []NoGapInEngineEvents
<1>1. ControlInv => NoGapInEngineEvents
  BY DEF ControlInv, StreamsOK, StreamOK, NoGapInEngineEvents
<1> QED
  BY <1>1, ControlInvariance, PTL
=============================================================================
