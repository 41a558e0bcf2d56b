------------------------------ MODULE LegacyPull ------------------------------
(***************************************************************************)
(* The older pull (extend/pull-kline.go, PullKline): a file of daily bars  *)
(* per code, a file of minute bars per code and year, an increment for     *)
(* each, and readers that put the years together.                          *)
(*                                                                         *)
(* A bar is known by its number; bar k is provisional at time 2k and final *)
(* from 2k + 1 on.  A row of a file is the state its bar had when it was   *)
(* fetched.                                                                *)
(***************************************************************************)
EXTENDS Integers, FiniteSets, FiniteSetsExt

CONSTANTS
    LegacyCodes,    \* Config.Codes
    LegacyRetry,    \* tdx.DefaultRetry
    YearLength,     \* bars of a year
    LegacyStart,    \* Config.StartAt: the first bar wanted in the daily file
    LastTime        \* bound: time

ASSUME LegacyConstants ==
    YearLength \in Nat \ {0} /\ LegacyStart \in Nat /\ LastTime \in Nat \ {0}

VARIABLES
    now,        \* the time
    dayFile,    \* code -> rows of its daily file
    yearFile,   \* code -> year -> rows of its minute file
    yearMade,   \* <<code, year>> whose minute file exists
    legacy,     \* Update: [pc, year, begun, marked]
    legacyTask, \* code -> goroutine: [pc, last, got, tries]
    skipped     \* <<code, year>>: the year ended without a row of the code in its file,
                \* which had rows in another (history)

legacyVars == <<now, dayFile, yearFile, yearMade, legacy, legacyTask, skipped>>

BarNumbers == 0 .. LastTime \div 2
YearOf(k)  == k \div YearLength
Years      == -1 .. YearOf(LastTime \div 2)
Missing    == "none"
Empty      == [k \in BarNumbers |-> Missing]
NoTask     == [pc |-> "none", last |-> -1, got |-> Empty, tries |-> 0]
Off        == [pc |-> "off", year |-> 0, begun |-> 0, marked |-> FALSE]

LegacyInit ==
    /\ now = 1
    /\ dayFile = [c \in LegacyCodes |-> Empty]
    /\ yearFile = [c \in LegacyCodes |-> [y \in Years |-> Empty]]
    /\ yearMade = {}
    /\ legacy = Off
    /\ legacyTask = [c \in LegacyCodes |-> NoTask]
    /\ skipped = {}

Rows(f)     == {k \in BarNumbers : f[k] # Missing}
NewestIn(f) == Max(Rows(f) \cup {-1})

Listed(k) == CASE 2 * k > now -> Missing
               [] 2 * k = now -> "provisional"
               [] OTHER       -> "final"

\* GetKlineUntil: the newest bars, back to and with the first one that is
\* before the newest stored one or before the start.
Until(low) ==
    LET stop == Max({k \in BarNumbers : 2 * k <= now /\ k < low} \cup {-1})
    IN [k \in BarNumbers |-> IF k >= stop THEN Listed(k) ELSE Missing]

\* A code's goroutine failed; GoRetry begins again, and gives up silently.
LegacyFails(c) ==
    legacyTask' = [legacyTask EXCEPT ![c] = [NoTask EXCEPT
        !.tries = legacyTask[c].tries + 1,
        !.pc = IF legacyTask[c].tries + 1 < LegacyRetry THEN "begin" ELSE "done"]]

LegacyStep(c, pc) == legacyTask' = [legacyTask EXCEPT ![c].pc = pc]

StartAll == legacyTask' = [c \in LegacyCodes |-> [NoTask EXCEPT !.pc = "begin"]]

-----------------------------------------------------------------------------
\* Update: no trading day, or marked already; the daily bars come first.
LegacyUpdate ==
    /\ legacy.pc = "off" /\ ~legacy.marked
    /\ legacy' = [legacy EXCEPT !.pc = "day", !.begun = now]
    /\ StartAll
    /\ UNCHANGED <<now, dayFile, yearFile, yearMade, skipped>>

\* The newest stored bar is read, and the bars from it on are fetched.
FetchDays(c) ==
    /\ legacy.pc = "day" /\ legacyTask[c].pc = "begin"
    /\ LET last == NewestIn(dayFile[c])
       IN \/ legacyTask' = [legacyTask EXCEPT
                ![c].pc = "save", ![c].last = last,
                ![c].got = Until(Max({last, LegacyStart}))]
          \/ LegacyFails(c)
    /\ UNCHANGED <<now, dayFile, yearFile, yearMade, legacy, skipped>>

\* The newest stored row is deleted; the fetched ones from it on are inserted.
Replace(f, last, got) ==
    [k \in BarNumbers |-> IF k < last THEN f[k] ELSE got[k]]

\* One transaction, which may fail.
SaveDays(c) ==
    /\ legacy.pc = "day" /\ legacyTask[c].pc = "save"
    /\ \/ /\ dayFile' = [dayFile EXCEPT ![c] =
                            Replace(@, legacyTask[c].last, legacyTask[c].got)]
          /\ LegacyStep(c, "done")
       \/ LegacyFails(c) /\ dayFile' = dayFile
    /\ UNCHANGED <<now, yearFile, yearMade, legacy, skipped>>

\* updateDayKline has no error to return: the minutes are next, the year of
\* their files being the year of now.
DaysDone ==
    /\ legacy.pc = "day"
    /\ \A c \in LegacyCodes : legacyTask[c].pc = "done"
    /\ legacy' = [legacy EXCEPT !.pc = "minute", !.year = YearOf(now \div 2)]
    /\ StartAll
    /\ UNCHANGED <<now, dayFile, yearFile, yearMade, skipped>>

\* Fault: only the file of this year is looked after.
OpenYearOnly(c) ==
    /\ legacy.pc = "minute" /\ legacyTask[c].pc = "begin"
    /\ LegacyStep(c, "this year")
    /\ UNCHANGED <<now, dayFile, yearFile, yearMade, legacy, skipped>>

\* updateMinKline: without a file of the year, last year's is completed first.
OpenYear(c) ==
    /\ legacy.pc = "minute" /\ legacyTask[c].pc = "begin"
    /\ IF <<c, legacy.year>> \in yearMade THEN LegacyStep(c, "this year")
                                          ELSE LegacyStep(c, "last year")
    /\ UNCHANGED <<now, dayFile, yearFile, yearMade, legacy, skipped>>

Filed(c) == IF legacyTask[c].pc = "last year" THEN legacy.year - 1 ELSE legacy.year

\* updateMinuteKlineYear: the file is made if it is not there, before its
\* rows are; bars fetched for last year's file serve this year's as well.
FetchMinutes(c) ==
    /\ legacy.pc = "minute" /\ legacyTask[c].pc \in {"last year", "this year"}
    /\ LET y    == Filed(c)
           last == NewestIn(yearFile[c][y])
       IN /\ yearMade' = yearMade \cup {<<c, y>>}
          /\ \/ legacyTask' = [legacyTask EXCEPT
                   ![c].pc = IF @ = "last year" THEN "save last" ELSE "save this",
                   ![c].last = last,
                   ![c].got = IF Rows(@) = {} THEN Until(last) ELSE @]
             \/ LegacyFails(c)
    /\ UNCHANGED <<now, dayFile, yearFile, legacy, skipped>>

\* Last year's file takes nothing of this year.
SaveMinutes(c) ==
    /\ legacy.pc = "minute" /\ legacyTask[c].pc \in {"save last", "save this"}
    /\ LET old == legacyTask[c].pc = "save last"
           y   == IF old THEN legacy.year - 1 ELSE legacy.year
           got == [k \in BarNumbers |-> IF YearOf(k) > y THEN Missing ELSE legacyTask[c].got[k]]
       IN \/ /\ yearFile' = [yearFile EXCEPT ![c][y] = Replace(@, legacyTask[c].last, got)]
             /\ LegacyStep(c, IF old THEN "this year" ELSE "done")
          \/ LegacyFails(c) /\ yearFile' = yearFile
    /\ UNCHANGED <<now, dayFile, yearMade, legacy, skipped>>

\* The mark is written, whatever became of the codes.
MinutesDone ==
    /\ legacy.pc = "minute"
    /\ \A c \in LegacyCodes : legacyTask[c].pc = "done"
    /\ legacy' \in {[Off EXCEPT !.marked = TRUE], Off}
    /\ legacyTask' = [c \in LegacyCodes |-> NoTask]
    /\ UNCHANGED <<now, dayFile, yearFile, yearMade, skipped>>

\* A transaction is undone; a file that was made stays.
LegacyCrash ==
    /\ legacy.pc # "off"
    /\ legacy' = Off
    /\ legacyTask' = [c \in LegacyCodes |-> NoTask]
    /\ UNCHANGED <<now, dayFile, yearFile, yearMade, skipped>>

\* A year may go by without a successful update of a code.
Skips(c, y) == Rows(yearFile[c][y]) = {} /\ \E z \in Years : Rows(yearFile[c][z]) # {}

\* Time passes, but a pull is not drawn out over more than one step of it;
\* the mark holds for a day.
LegacyTick ==
    /\ now < LastTime
    /\ legacy.pc # "off" => now = legacy.begun
    /\ LET y == YearOf(now \div 2)
       IN skipped' = IF YearOf((now + 1) \div 2) = y THEN skipped
                     ELSE skipped \cup {<<c, y>> : c \in {d \in LegacyCodes : Skips(d, y)}}
    /\ now' = now + 1
    /\ legacy' = [legacy EXCEPT !.marked = FALSE]
    /\ UNCHANGED <<dayFile, yearFile, yearMade, legacyTask>>

LegacyNext ==
    \/ LegacyUpdate
    \/ \E c \in LegacyCodes : FetchDays(c)
    \/ \E c \in LegacyCodes : SaveDays(c)
    \/ DaysDone
    \/ \E c \in LegacyCodes : OpenYear(c)
    \/ \E c \in LegacyCodes : FetchMinutes(c)
    \/ \E c \in LegacyCodes : SaveMinutes(c)
    \/ MinutesDone
    \/ LegacyCrash
    \/ LegacyTick

LegacySpec == LegacyInit /\ [][LegacyNext]_legacyVars

-----------------------------------------------------------------------------
\* MinKlines: every year's file gives the bars of its own year; one that
\* can not be opened or read is logged and left out, without an error.
MinKlines(c, unread) ==
    [k \in BarNumbers |->
        IF <<c, YearOf(k)>> \in yearMade /\ YearOf(k) \notin unread
        THEN yearFile[c][YearOf(k)][k] ELSE Missing]

\* A bar that is not there, between two that are.
Hole(f, k) == f[k] = Missing /\ k < NewestIn(f) /\ \E j \in Rows(f) : j < k

\* No hole, and only the newest is provisional, the excused bars apart.
Contiguous(f, excused) ==
    \A k \in BarNumbers \ excused :
        ~ Hole(f, k) /\ (f[k] = "provisional" => k = NewestIn(f))

\* Last year is as far back as an update looks: the year before one that was
\* skipped is never completed.
Unfinished(c) == {k \in BarNumbers : <<c, YearOf(k) + 1>> \in skipped}

\* Whatever failed, was retried or cut off, also at the turn of a year, and
\* whichever files can not be read: the daily bars of a code, and its minute
\* bars as they are read over all years, have no hole, and only the newest may
\* still be provisional, because the next increment fetches that one again.
\* Two things make a hole of minutes: a file that is not read, in its own year,
\* and a year in which nothing was stored, in the year before it.
LegacyContiguous ==
    \A c \in LegacyCodes :
        /\ Contiguous(dayFile[c], {})
        /\ \A unread \in SUBSET Years :
              Contiguous(MinKlines(c, unread),
                         Unfinished(c) \cup {k \in BarNumbers : YearOf(k) \in unread})
=============================================================================
