-------------------------- MODULE SimulationEngine --------------------------
(***************************************************************************)
(* The day loop of SimulationEngine (python/simulator.py): one thread that *)
(* runs banking days, takes the monthly fees and interest at every bank,   *)
(* fires the scenario events, posts transactions, and obeys two flags that *)
(* request handlers set.  An OSError skips the rest of a day, any other    *)
(* exception ends the run.                                                 *)
(*                                                                         *)
(* Dates are numbers of days, with weekdays and months of equal length;    *)
(* what a transaction does is in BankNode and Settlement.                  *)
(***************************************************************************)
EXTENDS Integers, Sequences, FiniteSets, FiniteSetsExt

CONSTANTS
    NumBanks,      \* the banks are 1 .. NumBanks, in the order of BANKS
    EventDay,      \* a sequence: the day of each event of the schedule
    StartDates,    \* the dates the run may start on; date 0 is a Monday
    MonthLength,   \* days in a month, three or more; a month starts on date 0
    Days,          \* how many days to simulate
    MaxTx,         \* the most transactions of a day
    MaxErrors,     \* bound: days an OSError cuts short
    MaxCommands    \* bound: stop, pause and resume requests

Banks == 1 .. NumBanks
Events == DOMAIN EventDay

ASSUME SizesAssumption ==
    /\ NumBanks \in Nat \ {0} /\ MonthLength \in Nat \ {0, 1, 2}
    /\ Days \in Nat /\ MaxTx \in Nat /\ MaxErrors \in Nat /\ MaxCommands \in Nat
ASSUME StartAssumption == StartDates \subseteq Nat
ASSUME EventsAssumption == EventDay \in Seq(Nat \ {0})

VARIABLES
    pc,            \* where the thread is
    day,           \* day_num
    date,          \* sim_date
    bank,          \* the bank a monthly batch has come to
    todo,          \* the events of the day still to handle
    left,          \* the transactions of the day still to make
    fired,         \* the events marked as fired
    feesRun,       \* _fees_run_months
    interestRun,   \* _interest_run_months
    daysRun,       \* days_run
    stopped,       \* _stopped
    paused,        \* _paused
    commands,      \* how many requests there were
    start,         \* history: the first date
    fees, interest,\* history: <<bank, month>> of each batch that posted
    handled,       \* history: events, as often as they took effect
    errors         \* history: the days cut short, with their dates

vars == <<pc, day, date, bank, todo, left, fired, feesRun, interestRun, daysRun,
          stopped, paused, commands, start, fees, interest, handled, errors>>
history == <<start, fees, interest, handled, errors>>
monthly == <<bank, feesRun, interestRun>>
flags == <<stopped, paused, commands>>

-----------------------------------------------------------------------------
(* Dates                                                                   *)

IsWeekday(d) == d % 7 < 5
Month(d) == d \div MonthLength
DayOfMonth(d) == (d % MonthLength) + 1

NextWeekday(d) == Min({e \in d + 1 .. d + 3 : IsWeekday(e)})

IsFirstBusinessDay(d) == DayOfMonth(d) <= 3 /\ IsWeekday(d)
IsLastBusinessDay(d) == Month(NextWeekday(d)) # Month(d)

FeesDue == IsFirstBusinessDay(date) /\ Month(date) \notin feesRun
InterestDue == IsLastBusinessDay(date) /\ Month(date) \notin interestRun

(* get_events_for_day; they are handled in the order of the schedule.      *)
DueEventsUntil(n) ==    \* mutant: missed events are made up for, fired or not
    {e \in Events : EventDay[e] <= n}
DueEvents(n) == {e \in Events : EventDay[e] = n /\ e \notin fired}
IsNext(e) == e \in todo /\ \A f \in todo : e <= f

-----------------------------------------------------------------------------
Init ==
    /\ pc = "loop" /\ day = 0 /\ bank = 1 /\ todo = {} /\ left = 0 /\ fired = {}
    /\ date \in StartDates /\ start = date
    /\ feesRun = {} /\ interestRun = {} /\ daysRun = 0
    /\ stopped = FALSE /\ paused = FALSE /\ commands = 0
    /\ fees = <<>> /\ interest = <<>> /\ handled = <<>>
    /\ errors = {}

(* while not self._stopped, day_num += 1, and the end of the days.         *)
NextDay ==
    /\ pc = "loop"
    /\ day' = IF stopped THEN day ELSE day + 1
    /\ pc' = IF stopped \/ day = Days THEN "ended" ELSE "open"
    /\ UNCHANGED <<date, todo, left, fired, daysRun, monthly, flags, history>>

(* _run_day: the accounts are read, the month is looked at.                *)
OpenDay ==
    /\ pc = "open"
    /\ pc' = IF FeesDue THEN "fees" ELSE IF InterestDue THEN "interest" ELSE "events"
    /\ todo' = DueEvents(day)
    /\ UNCHANGED <<day, date, left, fired, daysRun, monthly, flags, history>>

(* The month is marked after the last bank.                                *)
FeeBatchUnmarked ==    \* mutant: the month is not marked
    /\ pc = "fees"
    /\ fees' = Append(fees, <<bank, Month(date)>>)
    /\ IF bank < NumBanks THEN bank' = bank + 1 /\ UNCHANGED pc
       ELSE bank' = 1 /\ pc' = IF InterestDue THEN "interest" ELSE "events"
    /\ UNCHANGED <<day, date, todo, left, fired, daysRun, flags, start, interest, handled,
                   errors, feesRun, interestRun>>
FeeBatch ==
    /\ pc = "fees"
    /\ fees' = Append(fees, <<bank, Month(date)>>)
    /\ IF bank < NumBanks
       THEN bank' = bank + 1 /\ UNCHANGED <<pc, feesRun>>
       ELSE /\ bank' = 1
            /\ feesRun' = feesRun \cup {Month(date)}
            /\ pc' = IF InterestDue THEN "interest" ELSE "events"
    /\ UNCHANGED <<day, date, todo, left, fired, daysRun, flags, start, interest, handled,
                   errors, interestRun>>

InterestBatch ==
    /\ pc = "interest"
    /\ interest' = Append(interest, <<bank, Month(date)>>)
    /\ IF bank < NumBanks
       THEN bank' = bank + 1 /\ UNCHANGED <<pc, interestRun>>
       ELSE /\ bank' = 1
            /\ interestRun' = interestRun \cup {Month(date)}
            /\ pc' = "events"
    /\ UNCHANGED <<day, date, todo, left, fired, daysRun, flags, start, fees, handled,
                   errors, feesRun>>

(* A handler, then event.fired = True.                                     *)
HandleEvent ==
    /\ pc = "events"
    /\ \E e \in todo :
        /\ IsNext(e)
        /\ handled' = Append(handled, e)
        /\ fired' = fired \cup {e}
        /\ todo' = todo \ {e}
    /\ UNCHANGED <<pc, day, date, left, daysRun, monthly, flags, start, fees, interest, errors>>

DrawTransactions ==
    /\ pc = "events" /\ todo = {}
    /\ left' \in 0 .. MaxTx
    /\ pc' = "tx"
    /\ UNCHANGED <<day, date, todo, fired, daysRun, monthly, flags, history>>

(* The top of the transaction loop.                                        *)
NextTx ==
    /\ pc = "tx"
    /\ pc' = IF left = 0 \/ stopped THEN "eod" ELSE "wait"
    /\ UNCHANGED <<day, date, todo, left, fired, daysRun, monthly, flags, history>>

(* _wait_if_paused, and the second look at _stopped.                       *)
WaitIfPausedOnly ==    \* mutant: a paused engine does not see the stop flag
    /\ pc = "wait" /\ ~paused
    /\ pc' = IF stopped THEN "eod" ELSE "post"
    /\ UNCHANGED <<day, date, todo, left, fired, daysRun, monthly, flags, history>>
WaitIfPaused ==
    /\ pc = "wait" /\ (~paused \/ stopped)
    /\ pc' = IF stopped THEN "eod" ELSE "post"
    /\ UNCHANGED <<day, date, todo, left, fired, daysRun, monthly, flags, history>>

(* The sleep before it is not interrupted by any flag.                     *)
Transaction ==
    /\ pc = "post"
    /\ left' = left - 1
    /\ pc' = "tx"
    /\ UNCHANGED <<day, date, todo, fired, daysRun, monthly, flags, history>>

EndOfDay ==
    /\ pc = "eod"
    /\ daysRun' = daysRun + 1
    /\ pc' = "after"
    /\ UNCHANGED <<day, date, todo, left, fired, monthly, flags, history>>

(* Verification and reconciliation only read; then the date moves on.      *)
AfterDay ==
    /\ pc = "after"
    /\ date' = NextWeekday(date)
    /\ todo' = {} /\ left' = 0 /\ bank' = 1
    /\ pc' = "loop"
    /\ UNCHANGED <<day, fired, daysRun, feesRun, interestRun, flags, history>>

InDay == pc \in {"open", "fees", "interest", "events", "tx", "wait", "post", "eod"}

(* An OSError inside a day.  A batch or an event may have had its effect   *)
(* before it was raised; the batch's month and the event are not marked.   *)
OsError ==
    /\ InDay /\ Cardinality(errors) < MaxErrors
    /\ errors' = errors \cup {[day |-> day, date |-> date]}
    /\ \/ UNCHANGED <<fees, interest, handled>>
       \/ pc = "fees" /\ fees' = Append(fees, <<bank, Month(date)>>) /\ UNCHANGED <<interest, handled>>
       \/ pc = "interest" /\ interest' = Append(interest, <<bank, Month(date)>>)
                          /\ UNCHANGED <<fees, handled>>
       \/ pc = "events" /\ (\E e \in todo : IsNext(e) /\ handled' = Append(handled, e))
                        /\ UNCHANGED <<fees, interest>>
    /\ pc' = "after"
    /\ UNCHANGED <<day, date, todo, left, fired, daysRun, monthly, flags, start>>

(* Any other exception leaves run, and the thread reports it.              *)
Crash ==
    /\ InDay \/ pc = "after"
    /\ pc' = "crashed"
    /\ UNCHANGED <<day, date, todo, left, fired, daysRun, monthly, flags, history>>

-----------------------------------------------------------------------------
(* The requests that set the flags.                                        *)
Command == commands < MaxCommands /\ commands' = commands + 1

Stop ==
    /\ Command /\ stopped' = TRUE
    /\ UNCHANGED <<pc, day, date, todo, left, fired, daysRun, monthly, paused, history>>
Pause ==
    /\ Command /\ paused' = TRUE
    /\ UNCHANGED <<pc, day, date, todo, left, fired, daysRun, monthly, stopped, history>>
Resume ==
    /\ Command /\ paused' = FALSE
    /\ UNCHANGED <<pc, day, date, todo, left, fired, daysRun, monthly, stopped, history>>

Step ==
    \/ NextDay \/ OpenDay \/ FeeBatch \/ InterestBatch \/ HandleEvent \/ DrawTransactions
    \/ NextTx \/ WaitIfPaused \/ Transaction \/ EndOfDay \/ AfterDay
Next == Step \/ OsError \/ Crash \/ Stop \/ Pause \/ Resume

(* The thread is scheduled; errors, crashes and requests need not happen.  *)
Spec == Init /\ [][Next]_vars /\ WF_vars(Step)

-----------------------------------------------------------------------------
(* Properties                                                              *)

Months == 0 .. Month(date)
Times(seq, x) == Cardinality({i \in DOMAIN seq : seq[i] = x})
ErrorsIn(m) == Cardinality({e \in errors : Month(e.date) = m})

(* The types of the variables, and where events wait to be handled.        *)
TypeOK ==
    /\ pc \in {"loop", "open", "fees", "interest", "events", "tx", "wait", "post", "eod", "after",
               "ended", "crashed"}
    /\ day \in 0 .. Days + 1 /\ date \in Nat /\ bank \in Banks /\ left \in 0 .. MaxTx
    /\ todo \subseteq Events /\ (todo # {} => pc \in {"open", "fees", "interest", "events", "after", "crashed"})
    /\ fired \subseteq Events /\ feesRun \subseteq Months /\ interestRun \subseteq Months
    /\ daysRun \in 0 .. Days

(* _run_day marks a month only after the last bank, so an error makes the  *)
(* batch start again at the first bank: nobody is charged a month's fees   *)
(* more often than once and once more for each day of the month that was   *)
(* cut short; and interest, which is due on one day only, never twice.     *)
(* A month that was simulated from its first to its last business day with *)
(* no day cut short took its fees and its interest once at every bank,     *)
(* wherever its weekends are, and also when the run was stopped in it.     *)
WeekdaysOf(m) == {d \in m * MonthLength .. (m + 1) * MonthLength - 1 : IsWeekday(d)}
Simulated(m) == pc = "loop" /\ \A d \in WeekdaysOf(m) : start <= d /\ d < date
MonthlyBatchesRight ==
    \A b \in Banks, m \in Months :
        LET charged == Times(fees, <<b, m>>)
            paid == Times(interest, <<b, m>>)
        IN  /\ charged <= 1 + ErrorsIn(m) /\ paid <= 1
            /\ Simulated(m) /\ ErrorsIn(m) = 0 => charged = 1 /\ paid = 1

(* The invariant that proves it.  A bank is charged once for a month that  *)
(* is marked or has come past it in its batch, and once more for each day  *)
(* that was cut short; it is paid once for a month that is marked or has   *)
(* come past it, and not before the day that is the month's last; and the  *)
(* first and the last business day of a month, once simulated, have marked *)
(* it or were cut short.                                                   *)
Settled == {"events", "tx", "wait", "post", "eod", "after"}
Done(d, pcs) == IsWeekday(d) /\ start <= d /\ (d < date \/ (d = date /\ pc \in pcs))
CutOn(d) == \E x \in errors : x.date = d

DatesInv ==
    /\ date \in Nat /\ start \in Nat /\ start <= date /\ IsFiniteSet(errors)
    /\ \A x \in errors : x.date \in 0 .. date /\ (pc \notin {"after", "ended", "crashed"} => x.date # date)
    /\ bank \in Banks /\ (pc \notin {"fees", "interest", "after", "crashed"} => bank = 1)

FeesInv ==
    /\ fees \in Seq(Banks \X Nat)
    /\ pc = "fees" => Month(date) \notin feesRun
    /\ \A b \in Banks, m \in Nat :
          LET under == m = Month(date) /\ ((pc = "fees" /\ b < bank) \/ pc = "crashed")
          IN  /\ Times(fees, <<b, m>>) <= ErrorsIn(m) + IF m \in feesRun \/ under THEN 1 ELSE 0
              /\ m \in feesRun \/ (under /\ pc = "fees") => Times(fees, <<b, m>>) >= 1
    /\ \A d \in Nat : Done(d, Settled \cup {"interest"}) /\ IsFirstBusinessDay(d) => Month(d) \in feesRun \/ CutOn(d)

Unpaid(m) ==
    \/ m > Month(date)
    \/ m = Month(date) /\ (pc \in {"loop", "open", "fees"} \/ ~ IsLastBusinessDay(date))
InterestInv ==
    /\ interest \in Seq(Banks \X Nat)
    /\ pc = "interest" => IsLastBusinessDay(date) /\ Month(date) \notin interestRun
    /\ \A b \in Banks, m \in Nat :
          LET paid == Times(interest, <<b, m>>)
          IN  /\ paid <= 1 /\ (m \in interestRun => paid = 1)
              /\ Unpaid(m) => paid = 0 /\ m \notin interestRun
              /\ pc = "interest" /\ m = Month(date) => paid = IF b < bank THEN 1 ELSE 0
    /\ \A d \in Nat : Done(d, Settled) /\ IsLastBusinessDay(d) => Month(d) \in interestRun \/ CutOn(d)

MonthsInv == DatesInv /\ FeesInv /\ InterestInv

(* A scenario event takes effect at most once, on its day; it is left out  *)
(* only when its day was cut short.                                        *)
EventsOnce ==
    \A e \in Events :
        /\ Times(handled, e) <= 1
        /\ pc = "loop" /\ EventDay[e] \in 1 .. day /\ Times(handled, e) = 0 =>
               \E x \in errors : x.day = EventDay[e]

(* The invariant that proves it.  An event that waits, or whose day is     *)
(* still to come, has had no effect; one that was marked has had its one;  *)
(* and when its day has passed the place where events are handled, it has  *)
(* had it, or the day was cut short.                                       *)
Missed(e) == Times(handled, e) = 0
Awaited(e) ==
    \/ EventDay[e] > day
    \/ EventDay[e] = day /\ (pc = "open" \/ (pc # "after" /\ e \in todo))
CutShort(e) == \E x \in errors : x.day = EventDay[e]

EventsInv ==
    /\ day \in Nat /\ handled \in Seq(Events) /\ IsFiniteSet(errors)
    /\ todo \subseteq {e \in Events : EventDay[e] = day}
    /\ pc \notin {"fees", "interest", "events", "after", "crashed"} => todo = {}
    /\ \A e \in Events :
        /\ Times(handled, e) \in 0 .. 1
        /\ e \in fired => ~ Missed(e)
        /\ pc \in {"loop", "open", "fees", "interest", "events"} /\ Awaited(e) => Missed(e)
        /\ EventDay[e] > day => Missed(e)
        /\ pc \notin {"ended", "crashed"} /\ Missed(e) /\ ~ Awaited(e) => CutShort(e)

(* A stop request ends the run, also a paused one.                         *)
StopEnds == stopped ~> pc \in {"ended", "crashed"}
=============================================================================
