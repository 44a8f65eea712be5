----------------------------- MODULE UsageBooks -----------------------------
(***************************************************************************)
(* What a leg has used of its plan: UsageLedger (usage_ledger.py) over     *)
(* UsageStore (store.py), as BondAgent.run drives them.  The counters of   *)
(* the transport start at zero with the process and with every link; the   *)
(* total belongs to a billing period, which may end while the router is    *)
(* off or its clock is wrong; the file is written at intervals, and power  *)
(* is cut at any time.                                                     *)
(*                                                                         *)
(* One leg.  A date is the number of its day; the clock shows the day, an  *)
(* earlier one, or one before CLOCK_SANITY_FLOOR.                          *)
(***************************************************************************)
EXTENDS Integers, Sequences, Functions

CONSTANTS
    MonthDays,       \* the lengths of the months of the calendar
    FirstDay,        \* the day it all starts, not in the first month
    BillingDays,     \* values an operator may set
    FlushEvery,      \* FLUSH_INTERVAL_S, in passes
    MaxBytes         \* bound: units the leg carries

Months == 1 .. Len(MonthDays)
LastOf[m \in 0 .. Len(MonthDays)] == IF m = 0 THEN 0 ELSE LastOf[m - 1] + MonthDays[m]
Days == 1 .. LastOf[Len(MonthDays)]

\* The day it starts is one of the calendar, and sane_billing_day makes a day of a month
\* of whatever an operator has typed.
ASSUME BooksAssumption ==
    /\ MonthDays \in Seq(Nat \ {0}) /\ Len(MonthDays) >= 2
    /\ FirstDay \in Days /\ FirstDay > MonthDays[1]
    /\ BillingDays \subseteq Nat \ {0}
    /\ FlushEvery \in Nat \ {0} /\ MaxBytes \in Nat

MonthOf(d) == CHOOSE m \in Months : LastOf[m - 1] < d /\ d <= LastOf[m]

Insane == 0          \* a clock before CLOCK_SANITY_FLOOR
NoDate == 0          \* period_start ""
Unset == -1

NoFile == [usage |-> Unset, start |-> NoDate, prev |-> 0, prev_start |-> NoDate]

VARIABLES
    day,             \* the day it is
    billing_day,
    on,              \* the agent runs
    member,          \* the leg is among the paths: a dynamic one comes and goes
    usage,           \* PathRuntime.usage_gb
    rec,             \* UsageStore.periods: period_start and the previous period
    counter,         \* link_bytes of the leg
    mark,            \* _marks
    flush_age,       \* passes since _last_flush, Unset when there was none
    disk,            \* usage.json
    counted,         \* history: per day, what accumulate has seen of the counter
    adopted,         \* history: per period, the most that it adopted with no date of its own
    settled,         \* history: the last pass rolled by a true clock, and it is the same day
    idle             \* history: passes since the last flush that tried none

memoryVars == <<usage, rec, counter, mark, flush_age>>
booksVars == <<day, billing_day, on, member, memoryVars, disk, counted, adopted, settled, idle>>

Carried == SumFunction(counted) + (IF counter > mark /\ mark # Unset THEN counter - mark ELSE 0)

-----------------------------------------------------------------------------
\* period_start.  The cycle day is clamped to the length of the month.
Clamp(d, m) == IF d > MonthDays[m] THEN MonthDays[m] ELSE d

\* Mutant: a cycle day the month does not have is skipped to the month before.
PeriodStartSkips(today, d) ==
    LET m == MonthOf(today)
    IN  IF d <= MonthDays[m] /\ today - LastOf[m - 1] >= d
        THEN LastOf[m - 1] + d
        ELSE LastOf[m - 2] + Clamp(d, m - 1)

PeriodStart(today, d) ==
    LET m == MonthOf(today)
    IN  IF today - LastOf[m - 1] >= Clamp(d, m)
        THEN LastOf[m - 1] + Clamp(d, m)
        ELSE LastOf[m - 2] + Clamp(d, m - 1)

NoRecord == [start |-> NoDate, prev |-> 0, prev_start |-> NoDate]

BooksInit ==
    /\ day = FirstDay /\ billing_day \in BillingDays
    /\ on = FALSE /\ member = TRUE
    /\ usage = 0 /\ rec = NoRecord /\ counter = 0 /\ mark = Unset /\ flush_age = Unset
    /\ disk = NoFile
    /\ counted = [d \in Days |-> 0] /\ adopted = [d \in Days |-> 0] /\ settled = FALSE /\ idle = 0

\* The process ends, and what it held in memory with it.
ClockOff ==
    /\ on /\ on' = FALSE /\ settled' = FALSE /\ idle' = 0
    /\ usage' = 0 /\ rec' = NoRecord /\ counter' = 0 /\ mark' = Unset /\ flush_age' = Unset
    /\ UNCHANGED <<day, billing_day, member, counted, adopted>>

\* Forward only.
Rolls(start, stored) == start > stored

\* UsageStore.roll, of a leg with n units and record r, by a clock showing now.
Rolled(n, r, now) ==
    LET start == PeriodStart(now, billing_day)
    IN  CASE now = Insane -> [usage |-> n, rec |-> r, adopts |-> FALSE]
          [] now # Insane /\ r.start = NoDate ->
                [usage |-> n, rec |-> [r EXCEPT !.start = start], adopts |-> TRUE]
          [] now # Insane /\ r.start # NoDate /\ Rolls(start, r.start) ->
                [usage |-> 0, rec |-> [start |-> start, prev |-> n, prev_start |-> r.start],
                 adopts |-> FALSE]
          [] OTHER -> [usage |-> n, rec |-> r, adopts |-> FALSE]

Clocks == {Insane, FirstDay, day}

\* Usage with no period recorded is adopted into the current one.
Adopted(x) ==
    IF x.adopts /\ x.usage > adopted[x.rec.start]
    THEN [adopted EXCEPT ![x.rec.start] = x.usage] ELSE adopted

\* UsageLedger.load and UsageStore.load: what the file does not tell starts from zero.
Start(now) ==
    /\ ~on /\ on' = TRUE
    /\ LET known == disk.usage # Unset
           r == [start |-> disk.start, prev |-> disk.prev, prev_start |-> disk.prev_start]
           x == Rolled(disk.usage, r, now)
       IN  /\ usage' = IF known /\ member THEN x.usage ELSE 0
           /\ rec' = IF known THEN x.rec ELSE r
           /\ adopted' = IF known /\ member THEN Adopted(x) ELSE adopted
    /\ UNCHANGED <<day, billing_day, member, counter, mark, flush_age, disk, counted, settled, idle>>

-----------------------------------------------------------------------------
\* maybe_flush writes what the paths hold, with the period of their records.
Written(n, r) ==
    IF ~member THEN NoFile
    ELSE [usage |-> n, start |-> r.start, prev |-> r.prev, prev_start |-> r.prev_start]

Waited == IF flush_age = Unset THEN Unset ELSE flush_age + 1
Due == Waited \in {Unset, FlushEvery}

\* A write that fails leaves the interval as it was, and is tried again.
FlushAge(ok) == IF ok THEN 0 ELSE IF Waited = Unset THEN Unset ELSE FlushEvery - 1

\* accumulate: the first sight of a counter, and one that went backwards, add nothing.
Delta == IF mark = Unset \/ counter < mark THEN 0 ELSE counter - mark

\* One pass of run: roll_usage_period, unless loop_once raised before it;
\* accumulate_usage, unless the counters cannot be read; save_usage_state.
UsagePass(now, rolls, reads, ok) ==
    /\ on
    /\ LET x == IF rolls /\ member THEN Rolled(usage, rec, now)
                ELSE [usage |-> usage, rec |-> rec, adopts |-> FALSE]
           n == IF reads /\ member THEN x.usage + Delta ELSE x.usage
       IN  /\ usage' = n /\ rec' = x.rec
           /\ adopted' = Adopted(x)
           /\ disk' = IF Due /\ ok THEN Written(n, x.rec) ELSE disk
    /\ mark' = IF reads /\ member THEN counter ELSE mark
    /\ counted' = IF reads /\ member /\ mark # Unset /\ counter > mark
                  THEN [counted EXCEPT ![day] = @ + counter - mark] ELSE counted
    /\ flush_age' = IF Due THEN FlushAge(ok) ELSE Waited
    /\ idle' = CASE ~Due -> idle + 1 [] Due /\ ok -> 0 [] OTHER -> idle
    /\ settled' = (rolls /\ now = day /\ member)
    /\ UNCHANGED <<day, billing_day, on, member, counter>>

\* The agent is stopped: the last write is forced, and may fail.
StopAgent(ok) ==
    /\ ClockOff
    /\ disk' = IF ok THEN Written(usage, rec) ELSE disk

\* The power goes.  The file is replaced in one step: it is the last one written.
PowerCut ==
    /\ ClockOff
    /\ UNCHANGED disk

FileCorrupted ==
    /\ disk # NoFile /\ ~on
    /\ disk' = NoFile
    /\ UNCHANGED <<day, billing_day, on, member, memoryVars, counted, adopted, settled, idle>>

CarryBytes ==
    /\ on /\ Carried < MaxBytes /\ counter < MaxBytes
    /\ counter' = counter + 1
    /\ UNCHANGED <<day, billing_day, on, member, usage, rec, mark, flush_age, disk, counted,
                   adopted, settled, idle>>

\* The link is dropped and added again.
RelinkLeg ==
    /\ on /\ counter > 0
    /\ counter' = 0
    /\ UNCHANGED <<day, billing_day, on, member, usage, rec, mark, flush_age, disk, counted,
                   adopted, settled, idle>>

\* reconcile_dynamic: a leg that expired is dropped with what it used, and one
\* that is announced starts from nothing.
Membership ==
    /\ on
    /\ member' = ~member /\ usage' = 0 /\ settled' = FALSE
    /\ UNCHANGED <<day, billing_day, on, rec, counter, mark, flush_age, disk, counted, adopted, idle>>

SetBillingDay(d) ==
    /\ on /\ d # billing_day
    /\ billing_day' = d /\ settled' = FALSE
    /\ UNCHANGED <<day, on, member, memoryVars, disk, counted, adopted, idle>>

NextDay ==
    /\ day + 1 \in Days
    /\ day' = day + 1 /\ settled' = FALSE
    /\ UNCHANGED <<billing_day, on, member, memoryVars, disk, counted, adopted, idle>>

BooksNext ==
    \/ \E now \in Clocks :
          \/ Start(now)
          \/ \E rolls, reads, ok \in BOOLEAN : UsagePass(now, rolls, reads, ok)
    \/ \E ok \in BOOLEAN : StopAgent(ok)
    \/ PowerCut \/ FileCorrupted
    \/ CarryBytes \/ RelinkLeg \/ Membership
    \/ \E d \in BillingDays : SetBillingDay(d)
    \/ NextDay

-----------------------------------------------------------------------------
BooksTypeOK ==
    /\ day \in Days /\ billing_day \in BillingDays
    /\ rec.start \in Days \cup {NoDate} /\ rec.prev_start \in Days \cup {NoDate}
    /\ usage \in 0 .. MaxBytes /\ rec.prev \in 0 .. MaxBytes
    /\ counter \in 0 .. MaxBytes /\ mark \in {Unset} \cup 0 .. MaxBytes
    /\ flush_age \in {Unset} \cup 0 .. FlushEvery - 1

\* The days on which a period begins, with a cycle day of d.
Boundaries(d) == {LastOf[m - 1] + Clamp(d, m) : m \in Months}

(***************************************************************************)
(* The usage of a leg is that of its period: no more than was counted      *)
(* since the day its record begins at, besides what a record without a     *)
(* date was adopted with, through power cuts, relinks, wrong clocks and    *)
(* changes of the cycle day; no clock opens an earlier period; and a pass  *)
(* with a true clock leaves no period open that is over ("a leg that       *)
(* crossed its cap was demoted permanently, by an accounting artifact").   *)
(***************************************************************************)
UsageIsOfThisPeriod ==
    /\ on /\ rec.start # NoDate =>
          usage <= adopted[rec.start] + SumFunctionOnSet(counted, rec.start .. day)
    /\ rec.prev_start # NoDate => rec.prev_start < rec.start
    /\ settled => \A b \in Boundaries(billing_day) : b <= day => b <= rec.start

(***************************************************************************)
(* A power cut loses little: the file is written, or writing it is tried,  *)
(* at least every FlushEvery passes, a write that failed being tried again *)
(* at once.                                                                *)
(***************************************************************************)
FlushedInTime == idle < FlushEvery

(***************************************************************************)
(* The books are those of the current period, and on disk in time.         *)
(***************************************************************************)
BooksSound == UsageIsOfThisPeriod /\ FlushedInTime

=============================================================================
