----------------------------- MODULE MemoryMonitor -----------------------------
(***************************************************************************)
(* DoMemoryService: a timer samples the memory into a ring of slots, always*)
(* replacing the oldest sample; the memory page picks the samples of a     *)
(* window of time out of the same slots, without a lock, and renders them  *)
(* while the timer goes on.                                                *)
(*                                                                         *)
(* Time is counted in ticks.  A slot is known by the age of its sample, so *)
(* that the states are finitely many however long the agent runs.          *)
(***************************************************************************)
EXTENDS Integers, FiniteSets

CONSTANTS
    Period,      \* fCheckTimeInSec: ticks between two samples
    Store,       \* fStoreTimeInSec: ticks the ring is made for
    Minute,      \* ticks of a minute of the page's parameter "last"
    LastMinutes,        \* values of the parameter
    Half,        \* Java ints are -Half..Half-1
    MaxLate,     \* bound: how late the timer may run a sample
    MaxCompose   \* bound: how long a page is read and rendered

ASSUME TimesAreCounted ==
    /\ {Period, Store, Minute, Half} \subseteq Nat \ {0}
    /\ {MaxLate, MaxCompose} \subseteq Nat
    /\ Store >= 2 * Period    \* otherwise there is no page
    /\ LastMinutes \subseteq Int

\* afterPropertiesSet makes one slot more than the samples of the store time.
N    == Store \div Period + 1
Slot == 1..N

VARIABLES
    age,       \* age[i]: ticks since slot i was set
    initial,   \* slots that still hold the state of the start-up
    due,       \* ticks until the timer's next run; negative when it is late
    page       \* the request for the page, or None

monitorVars == <<age, initial, due, page>>

None == [next |-> 0]

MonitorInit ==
    /\ age = [i \in Slot |-> 0]
    /\ initial = Slot
    /\ due = Period
    /\ page = None

Reading   == page # None /\ page.next < N
Composing == page # None /\ page.next = N

\* Time passes while the timer and the page keep their bounds.
Tick ==
    /\ due > -MaxLate
    /\ page # None => page.elapsed < MaxCompose
    /\ age' = [i \in Slot |-> age[i] + 1]
    /\ due' = due - 1
    /\ page' = IF page = None THEN None ELSE [page EXCEPT !.elapsed = @ + 1]
    /\ UNCHANGED initial

-----------------------------------------------------------------------------
(* The timer *)

\* Mutant of Oldest: the search keeps the youngest slot.
Youngest ==
    CHOOSE i \in Slot :
        \A j \in Slot : age[i] <= age[j] /\ (age[i] = age[j] => i <= j)

\* run: the first of the oldest slots.  The comment "ignore last: for app
\* initialization state info" reserves the last slot, but the search includes it.
Oldest ==
    CHOOSE i \in Slot :
        \A j \in Slot : age[j] <= age[i] /\ (age[j] = age[i] => i <= j)

\* A run of the timer; scheduleAtFixedRate keeps the rhythm of the start.
Collect ==
    /\ due <= 0
    /\ age' = [age EXCEPT ![Oldest] = 0]
    /\ initial' = initial \ {Oldest}
    /\ due' = due + Period
    /\ UNCHANGED page

-----------------------------------------------------------------------------
(* The page *)

\* An int product wraps around.
Wrap(x) == ((x + Half) % (2 * Half)) - Half

\* maxVal
Window(last) == Wrap(IF last > 0 THEN last * Minute ELSE Store)

\* Mutant of Selected: nothing is too old.
SelectAll(val, window) == val > 2 * Period

\* minVal and maxVal exclude the newest samples and those about to be replaced.
Selected(val, window) == val > 2 * Period /\ val < window

\* getMemoryInfo notes the time.
Request ==
    /\ page = None
    /\ \E last \in LastMinutes :
          page' = [next |-> 1, elapsed |-> 0, window |-> Window(last),
                   warm |-> initial = {}, rows |-> {}]
    /\ UNCHANGED <<age, initial, due>>

\* The loop looks at one slot after the other, but for the last one.  A row is
\* the slot itself, not a copy: val is its age at the time noted.
Row(i) == [slot |-> i, val |-> age[i] - page.elapsed, fill |-> i \in initial]

\* Mutant of ReadSlot: every other slot.
ReadEven ==
    /\ Reading
    /\ page' = [page EXCEPT
          !.next = @ + 1,
          !.rows = IF Selected(Row(page.next).val, page.window) /\ page.next % 2 = 0
                   THEN @ \cup {Row(page.next)} ELSE @]
    /\ UNCHANGED <<age, initial, due>>

ReadSlot ==
    /\ Reading
    /\ page' = [page EXCEPT
          !.next = @ + 1,
          !.rows = IF Selected(Row(page.next).val, page.window)
                   THEN @ \cup {Row(page.next)} ELSE @]
    /\ UNCHANGED <<age, initial, due>>

\* The rows are sorted and formatted: everything is read again.
Show ==
    /\ Composing
    /\ page' = None
    /\ UNCHANGED <<age, initial, due>>

MonitorNext == Tick \/ Collect \/ Request \/ ReadSlot \/ Show

MonitorSpec == MonitorInit /\ [][MonitorNext]_monitorVars

-----------------------------------------------------------------------------
(* Properties *)

MaxAge == (N + 1) * Period + MaxLate

MonitorTypeOK ==
    /\ age \in [Slot -> 0..MaxAge]
    /\ initial \subseteq Slot
    /\ due \in -MaxLate..Period
    /\ page # None =>
        /\ page.next \in Slot
        /\ page.elapsed \in 0..MaxCompose
        /\ page.window \in -Half..(Half - 1)
        /\ \A r \in page.rows : r.slot \in 1..(page.next - 1) /\ r.val \in 0..MaxAge

\* The ring is the history of the last N samples, without a hole: the newest is
\* at most a late run old, and every sample but the newest has another taken
\* one period later, give or take the lateness of the timer.  Until the start-up
\* copies are used up, every run of the timer adds a sample and replaces none.
\* (Of the start-up copy in the last slot nothing is claimed here, as the code and
\* its comment disagree about it: LastSlotIsStartup.)
RingIsHistory ==
    LET samples == Slot \ initial
        newest  == {i \in samples : \A j \in samples : age[i] <= age[j]}
    IN  /\ MonitorTypeOK
        /\ Cardinality(newest) <= 1
        /\ \A i \in newest : age[i] <= Period + MaxLate
        /\ \A i \in samples \ newest : \E j \in samples :
              age[i] - age[j] \in (Period - MaxLate)..(Period + MaxLate)
        /\ \A i \in initial \ {N} :
              age[i] + due = Period * (Cardinality(samples) + 1)

\* The last slot keeps the state of the start-up, "for app initialization state
\* info", as the comment in run says and the page, which leaves it out, relies on.
LastSlotIsStartup == N \in initial

\* A row of the page still holds the sample it was chosen for.
Kept(r) == r.fill \/ age[r.slot] - page.elapsed = r.val

\* The timer does not replace a sample while the page shows it, though nothing
\* is locked, if the page asks for no more than the ring is made for; a longer
\* window loses one row at most.  (The copies of the start-up state that fill
\* a new ring are replaced at any time.)
RowsAreKept ==
    page # None =>
        LET lost == {r \in page.rows : ~Kept(r)}
        IN  /\ page.window <= Store => lost = {}
            /\ Cardinality(lost) <= 1

\* A page of a full ring has no hole longer than two periods and a delay: the
\* slot the page leaves out and the slot replaced while it is read never cost
\* two samples in a row.
HoleBound == 2 * Period + MaxLate

PageIsComplete ==
    Composing /\ page.warm =>
        \A x \in (2 * Period)..(page.window - 1 - HoleBound) :
            x + HoleBound < Store =>
                \E r \in page.rows : x < r.val /\ r.val <= x + HoleBound
=============================================================================
