------------------------------- MODULE Workday -------------------------------
(***************************************************************************)
(* The trading calendar (workday.go): the days on which the Shanghai index *)
(* has a daily bar, kept in a database and in a bitmap in memory.  The     *)
(* database is asked first, and the server only for later days; days enter *)
(* the bitmap before their rows are inserted.                              *)
(*                                                                         *)
(* The bar of a session appears on the server when its day has begun       *)
(* trading, the odd half day.                                              *)
(***************************************************************************)
EXTENDS Updated, FiniteSets, FiniteSetsExt

CONSTANT Sessions   \* the days of 0 .. MaxTime \div 2 with a session

ASSUME WorkdayConstants == Sessions \subseteq Nat

VARIABLES
    dayTable,       \* table workday
    dayBits,        \* Workday.cache
    dayRun          \* Workday.Update: [pc, new, last, got]

dayVars == <<clock, dayTable, dayBits, dayRun>>

DaysDown == [pc |-> "down", new |-> TRUE, last |-> -1, got |-> {}]

DayOf(t) == t \div 2

\* The sessions that have a bar at time t.
Served(t) == {d \in Sessions : 2 * d + 1 <= t}

WorkdayInit ==
    /\ dayTable = {}
    /\ dayBits = {}
    /\ dayRun = DaysDown

In(pc) == dayRun.pc = pc

WorkdayError ==
    IF dayRun.new THEN dayRun' = DaysDown /\ dayBits' = {}
    ELSE /\ \E pc \in {"update", "idle"} : dayRun' = [dayRun EXCEPT !.pc = pc]
         /\ dayBits' = dayBits

-----------------------------------------------------------------------------
NewWorkday ==
    /\ In("down")
    /\ dayRun' = [DaysDown EXCEPT !.pc = "update"]
    /\ UNCHANGED <<clock, dayTable, dayBits>>

WorkdayCron ==
    /\ In("idle") /\ clock % 2 = 1
    /\ dayRun' = [DaysDown EXCEPT !.pc = "update", !.new = FALSE]
    /\ UNCHANGED <<clock, dayTable, dayBits>>

\* The stored days enter the bitmap.  The newest row is up to date when it
\* is not older than midnight; its time is 15:00 of its day.
WorkdayRead ==
    /\ In("update")
    /\ \/ /\ dayBits' = dayBits \cup dayTable
          /\ LET last == Max(dayTable \cup {-1})
             IN dayRun' = [dayRun EXCEPT !.last = last,
                              !.pc = IF last < DayOf(clock) THEN "fetch" ELSE "idle"]
       \/ WorkdayError
    /\ UNCHANGED <<clock, dayTable>>

\* Fault: only the newest bar of the answer is new.
NewestOnly(served) == {d \in served : d > dayRun.last /\ \A e \in served : e <= d}

\* The bars of the answer later than the newest row.
LaterDays(served) == {d \in served : d > dayRun.last}

\* GetIndexDayAll, and the later days set in the bitmap.
WorkdayFetch ==
    /\ In("fetch")
    /\ \/ LET got == LaterDays(Served(clock))
          IN /\ dayBits' = dayBits \cup got
             /\ dayRun' = [dayRun EXCEPT !.got = got,
                              !.pc = IF got = {} THEN "idle" ELSE "insert"]
       \/ WorkdayError
    /\ UNCHANGED <<clock, dayTable>>

\* One INSERT of all of them, or an error: the bitmap keeps the days.
WorkdayInsert ==
    /\ In("insert")
    /\ \/ /\ dayTable' = dayTable \cup dayRun.got
          /\ dayRun' = [dayRun EXCEPT !.pc = "idle"]
          /\ dayBits' = dayBits
       \/ WorkdayError /\ dayTable' = dayTable
    /\ UNCHANGED clock

WorkdayCrash ==
    /\ ~In("down")
    /\ dayRun' = DaysDown
    /\ dayBits' = {}
    /\ UNCHANGED <<clock, dayTable>>

WorkdayTick ==
    /\ Tick(clock)
    /\ UNCHANGED <<dayTable, dayBits, dayRun>>

WorkdayNext ==
    \/ NewWorkday
    \/ WorkdayCron
    \/ WorkdayRead
    \/ WorkdayFetch
    \/ WorkdayInsert
    \/ WorkdayCrash
    \/ WorkdayTick

WorkdaySpec == ClockInit /\ WorkdayInit /\ [][WorkdayNext]_dayVars

-----------------------------------------------------------------------------
NoGap(days) == \A d \in Sessions : (\E e \in days : d <= e) => d \in days

\* Workday.Is decides whether a pull or a scheduled job of the day runs at
\* all.  Table and bitmap are sets of sessions without a gap before their
\* newest day, and the bitmap of a process that has read the table has all of
\* it: the days of an insert that failed are found again, from the older of
\* the two, by the next update.
CalendarWithoutGap ==
    /\ dayTable \subseteq Sessions /\ NoGap(dayTable)
    /\ dayBits \subseteq Sessions /\ NoGap(dayBits)
    /\ dayRun.pc \in {"fetch", "insert", "idle"} => dayTable \subseteq dayBits
=============================================================================
