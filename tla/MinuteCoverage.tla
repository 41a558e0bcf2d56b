---------------------------- MODULE MinuteCoverage ----------------------------
(***************************************************************************)
(* The minute bars of one code in extend/pull: pullMinutes decides which   *)
(* years to fetch, fetches the server's bars once, fills older days from   *)
(* trades when TradeFallback is on, and commits year by year; a coverage   *)
(* mark beside the bars says which range need not be looked at again.      *)
(*                                                                         *)
(* Time is counted in slots: Slots a day, Days a year.  A bar is named by  *)
(* its slot, and a full day (241 bars in the code) is all slots of it.     *)
(***************************************************************************)
EXTENDS Integers, FiniteSets, FiniteSetsExt

CONSTANTS
    LastYear,       \* years are 0 .. LastYear, one database file each
    Days,           \* days of a year
    Slots,          \* bars of a day
    Trading,        \* days, counted from day 0, on which the code traded
    Keep,           \* native bars the server can return (24000)
    Lists,          \* answers to the request for the trading days: the days they name
    Failures,       \* sets of days whose trades cannot be got or used in a pull
    Configs         \* [start, fallback]: start date and TradeFallback of a service

Years == 0 .. LastYear
Times == 0 .. (LastYear + 1) * Days * Slots - 1

ASSUME ConstantsOK ==
    /\ LastYear \in Nat /\ Days \in Nat \ {0} /\ Slots \in Nat \ {0} /\ Keep \in Nat
    /\ Trading \subseteq 0 .. (LastYear + 1) * Days - 1
    /\ Lists \subseteq SUBSET Trading
    /\ Failures \subseteq SUBSET Trading
    /\ Configs \subseteq [start : {s \in Times : s % Slots = 0}, fallback : BOOLEAN]

YearOf(t)    == t \div (Days * Slots)
YearStart(y) == y * Days * Slots
DayStart(t)  == t - (t % Slots)
DayOf(t)     == t \div Slots
Bars(d)      == {t \in Times : DayOf(t) = d}
Traded       == {t \in Times : DayOf(t) \in Trading}
InYear(y, T) == {t \in T : YearOf(t) = y}
From(t, T)   == {s \in T : s >= t}
Between(s, t) == {u \in Traded : s <= u /\ u < t}

Lesser(a, b)  == IF a < b THEN a ELSE b
Greater(a, b) == IF a > b THEN a ELSE b

NoMark == [from |-> 0, through |-> -1, fallback |-> FALSE]

VARIABLES
    now,        \* wall clock
    rows,       \* bars in the databases, all years
    mark,       \* year -> its MinuteCoverage record, or NoMark
    pull,       \* FetchMin in progress: year -> what it has still to commit
    gone,       \* history: bars the server's answers left out, of the boundary day
                \* and of days missing from its list of days
    offered     \* history: year -> bars the server had in the ranges scanned

vars == <<now, rows, mark, pull, gone, offered>>

\* A commit that is due: the range asked for, the bars to store and the way.
\* History: the bars of the year the server had, and those its answers left out.
Write == [year : Years, from : Times, through : Nat, out : SUBSET Times,
          way : {"fallback", "native", "rows"},
          had : SUBSET Times, gap : SUBSET Times]

Resting == [todo |-> <<>>, fallback |-> FALSE]

Init ==
    /\ now = 0 /\ rows = {} /\ gone = {}
    /\ mark = [y \in Years |-> NoMark]
    /\ offered = [y \in Years |-> {}]
    /\ pull = Resting

-----------------------------------------------------------------------------
(* Which years, and from where.                                             *)

Current == YearOf(now)

Through(y) == IF y < Current THEN YearStart(y + 1) ELSE now

\* A past year is skipped when its mark covers it in the mode asked for.
Complete(y, from, fallback) ==
    /\ mark[y] # NoMark /\ mark[y].from <= from
    /\ mark[y].fallback => mark[y].through >= Through(y)
    /\ fallback => mark[y].fallback

\* The newest bar stored; an empty database counts as 0.
LastMinUnix(y) == IF InYear(y, rows) = {} THEN 0 ELSE Max(InYear(y, rows))

\* The running year goes on from its newest bar; with the fallback only as far
\* as its mark vouches for what lies before.
Resume(y, from, fallback) ==
    LET last == IF ~fallback THEN LastMinUnix(y)
                ELSE IF mark[y] = NoMark \/ ~mark[y].fallback \/ mark[y].from > from
                     THEN 0 ELSE Lesser(LastMinUnix(y), mark[y].through)
    IN Greater(last, from)

Begins(y, start, fallback) ==
    LET from == Greater(start, YearStart(y))
    IN IF y < Current THEN from ELSE Resume(y, from, fallback)

Targets(start, fallback) ==
    {y \in Years : /\ YearOf(start) <= y /\ y <= Current
                   /\ y < Current => ~Complete(y, Greater(start, YearStart(y)), fallback)}

-----------------------------------------------------------------------------
(* What the server returns.                                                 *)

\* The newest Keep bars up to now.
Native == {t \in Traded : t <= now /\ Cardinality({s \in Traded : t < s /\ s <= now}) < Keep}

\* Paging stops with the first bar before the range, which is returned too.
Fetched(earliest) ==
    LET before == {t \in Native : t < earliest}
    IN IF before = {} THEN Native ELSE From(Max(before), Native)

\* The fallback leaves today, and what native bars reach back to, alone.
Boundary(ks) == DayStart(IF ks = {} THEN now ELSE Lesser(now, Min(ks)))

BeforeBoundary(w, boundary) == Lesser(boundary, DayStart(w.through))

\* The days the fallback is there for: in the range and older than the native
\* bars.
Older(w, boundary) ==
    {d \in Trading : /\ DayStart(w.from) <= d * Slots
                     /\ d * Slots < BeforeBoundary(w, boundary)}

\* It asks trades for those of them that the list of days names and that are
\* not complete yet; a day the list leaves out is nobody's failure.
Wanted(w, base, boundary, days) ==
    {d \in Older(w, boundary) \cap days : ~ Bars(d) \subseteq base}

Needed(w, boundary) == w.from < BeforeBoundary(w, boundary)

\* History: the bars that the server's answers left out.
LeftOut(w, ks, base, list) ==
    (IF ks = {} THEN {} ELSE Between(DayStart(Min(ks)), Min(ks)) \ base)
    \cup UNION {Bars(d) : d \in Older(w, Boundary(ks)) \ list.days}

\* The request for the list of days: an error, or the days it names.
Answers == {[ok |-> TRUE, days |-> T] : T \in Lists} \cup {[ok |-> FALSE, days |-> {}]}

\* Fault: the bars in the database are not merged in.
BaseNative(w, ks) == {t \in ks : w.from <= t /\ t < w.through}

\* The bars of the database and of the server in the range asked for.
Base(w, ks) == {t \in rows \cup ks : w.from <= t /\ t < w.through}

\* Fault: a year with failed days is marked like the others.
FillMarking(w, ks, list, bad) ==
    LET base == Base(w, ks)
        want == Wanted(w, base, Boundary(ks), list.days)
    IN [w EXCEPT !.out = base \cup {t \in UNION {Bars(d) : d \in want \ bad} : t >= w.from},
                 !.way = "fallback",
                 !.gap = LeftOut(w, ks, base, list)]

\* minuteFallback.fill: trades of the days in bad cannot be fetched or used.  An
\* error instead of the list of days is a failure, a list that comes back short
\* or empty is not.
Fill(w, ks, list, bad) ==
    LET base == Base(w, ks)
        want == Wanted(w, base, Boundary(ks), list.days)
        got  == IF list.ok THEN want \ bad ELSE {}
        ok   == Needed(w, Boundary(ks)) => list.ok /\ want \cap bad = {}
    IN [w EXCEPT !.out = base \cup {t \in UNION {Bars(d) : d \in got} : t >= w.from},
                 !.way = IF ok THEN "fallback" ELSE "rows",
                 !.gap = IF ok THEN LeftOut(w, ks, base, list) ELSE {}]

\* Fault: the year of a bar is taken in another time zone.
StoreShifted(w, ks) ==
    LET out == {t \in From(w.from, ks) : YearOf(t + 1) = w.year}
    IN [w EXCEPT !.out = out,
                 !.way = IF w.year < Current THEN "native" ELSE "rows",
                 !.had = From(w.from, InYear(w.year, Native))]

\* Without the fallback the native bars of the year are stored as they are.
Store(w, ks) ==
    LET out == From(w.from, InYear(w.year, ks))
    IN [w EXCEPT !.out = out,
                 !.way = IF w.year < Current THEN "native" ELSE "rows",
                 !.had = From(w.from, InYear(w.year, Native))]

Plain(y, start, fallback) ==
    [year |-> y, from |-> Begins(y, start, fallback), through |-> Through(y),
     out |-> {}, way |-> "rows", had |-> {}, gap |-> {}]

\* pullMinutes up to its commits; the server may also return no bars at all.
\* A failed request leaves everything as it was.
Pull(start, fallback) ==
    /\ DOMAIN pull.todo = {} /\ start <= now
    /\ LET targets  == Targets(start, fallback)
           earliest == Min({Begins(y, start, fallback) : y \in targets})
       IN /\ targets # {}
          /\ \E ks \in {Fetched(earliest), {}}, list \in Answers, bad \in Failures :
               pull' = [todo |-> [y \in targets |->
                                    LET w == Plain(y, start, fallback)
                                    IN IF fallback THEN Fill(w, ks, list, bad)
                                                   ELSE Store(w, ks)],
                        fallback |-> fallback]
    /\ UNCHANGED <<now, rows, mark, gone, offered>>

-----------------------------------------------------------------------------
(* The commits, one transaction a year.                                     *)

\* The mark of the year after the commit of w.
Marked(w) ==
    LET old   == mark[w.year]
        fresh == [from |-> w.from, fallback |-> w.way = "fallback",
                  through |-> IF w.way = "fallback" THEN w.through ELSE 0]
    IN IF /\ old # NoMark /\ old.fallback = fresh.fallback
          /\ fresh.fallback => old.through >= fresh.from /\ fresh.through >= old.from
       THEN [fresh EXCEPT !.from = Lesser(old.from, @), !.through = Greater(old.through, @)]
       ELSE fresh

\* Bars from here on are deleted and written again.
WriteFrom(w) == IF w.way = "rows" THEN w.from ELSE Min(w.out)

\* The years are committed from the oldest on.
Due == Min(DOMAIN pull.todo)

Rest == [pull EXCEPT !.todo = [y \in DOMAIN @ \ {Due} |-> @[y]]]

\* Nothing is written for a year without bars.
Commit ==
    /\ DOMAIN pull.todo # {}
    /\ LET w == pull.todo[Due]
       IN IF w.out = {} THEN UNCHANGED <<rows, mark, offered, gone>>
          ELSE /\ rows' = (rows \ From(WriteFrom(w), InYear(w.year, rows))) \cup w.out
               /\ gone' = (gone \cup w.gap) \ rows'
               /\ IF w.way = "rows" THEN UNCHANGED <<mark, offered>>
                  ELSE /\ mark' = [mark EXCEPT ![w.year] = Marked(w)]
                       /\ offered' = [offered EXCEPT ![w.year] =
                                        IF w.way = "native" THEN @ \cup w.had ELSE {}]
    /\ pull' = Rest
    /\ UNCHANGED now

\* A commit that fails is rolled back, as is a year whose rows could not be read
\* for the fallback; without the fallback it ends the pull.
CommitFails ==
    /\ DOMAIN pull.todo # {}
    /\ pull' = IF pull.fallback THEN Rest ELSE Resting
    /\ UNCHANGED <<now, rows, mark, gone, offered>>

Crash ==
    /\ DOMAIN pull.todo # {}
    /\ pull' = Resting
    /\ UNCHANGED <<now, rows, mark, gone, offered>>

Tick ==
    /\ now + 1 \in Times
    /\ now' = now + 1
    /\ UNCHANGED <<rows, mark, pull, gone, offered>>

Next == \/ \E c \in Configs : Pull(c.start, c.fallback)
        \/ Commit \/ CommitFails \/ Crash \/ Tick

Spec == Init /\ [][Next]_vars

-----------------------------------------------------------------------------
\* Types; and every stored bar is one of a past or the present slot on which
\* the code traded.
TypeOK ==
    /\ now \in Times
    /\ rows \subseteq {t \in Traded : t <= now}
    /\ mark \in [Years -> [from : Times, through : Nat \cup {-1}, fallback : BOOLEAN]]
    /\ pull \in [todo : UNION {[T -> Write] : T \in SUBSET Years}, fallback : BOOLEAN]
    /\ gone \subseteq Times /\ offered \in [Years -> SUBSET Times]

\* A fallback mark that reaches the end of its year, after which no pull looks
\* at that range again, tells the truth from the latest start date on that the
\* fallback was ever run with: every bar is stored, but for those before the
\* server's first bar on the day of that bar, which the fallback leaves alone,
\* and those of days that the server's list left out; whatever days failed,
\* whichever marks were joined, whatever was written and replaced since.  And no
\* bar is stored ahead of its time, although trades fill whole days.  (pullMinutes, fill, saveMinCoverage)
MarkVouches ==
    /\ \A y \in Years : mark[y].fallback /\ mark[y].through >= YearStart(y + 1) =>
          {t \in InYear(y, From(mark[y].from, Traded)) :
             \A c \in Configs : c.fallback => c.start <= t} \subseteq rows \cup gone
    /\ rows \subseteq {t \in Traded : t <= now}

\* A native mark of a past year: every bar the server had in the range
\* scanned, at any of the scans the mark stands for, is in the database.  (SaveMinComplete)
ScanVouches ==
    \A y \in Years : mark[y] # NoMark /\ ~mark[y].fallback =>
        offered[y] \subseteq rows

\* A step deletes one bar at most, the newest of a year that was still running
\* when the pull was planned.
LosesNewest ==
    \A t \in rows \ rows' : /\ t = LastMinUnix(YearOf(t))
                            /\ pull.todo[Due].through < YearStart(YearOf(t) + 1)

\* Delete-and-reinsert never eats into history.  (writeMin under pullMinutes; the
\* local bars fill merges in)
LosesAtMostNewest == [][LosesNewest]_vars

\* What the README of extend/pull says of a catch-up: it covers only the span
\* of the bars returned and keeps older local bars the server no longer has.
ReturnedSpanOnly ==
    [][\A t \in rows \ rows' : \E s \in pull.todo[Due].out : s <= t]_vars
=============================================================================
