----------------------------- MODULE PullUpdate ------------------------------
(***************************************************************************)
(* One pull of daily bars (Service.Update of extend/pull and FetchDay of   *)
(* its markets): markets one after the other, the codes of a market        *)
(* concurrently, an increment per code, a mark per market and one for the  *)
(* whole pull.                                                             *)
(*                                                                         *)
(* Half day 2d is the session of day d, 2d + 1 the time after 15:01.  The  *)
(* bar of a day is provisional during its session and final afterwards; a  *)
(* server may also withdraw a provisional bar (a security suspended before *)
(* it traded).                                                             *)
(***************************************************************************)
EXTENDS Updated, FiniteSets, FiniteSetsExt

CONSTANTS
    Units,          \* markets; each registered once
    UnitCodes,      \* market -> its codes
    StopIncluded,   \* markets of stdUnit; the others are exUnit's
    TradeDays,      \* days with a session
    StartDay,       \* Service.Start, as configured (its default moves at a restart)
    PullRetry,      \* Config.Retry
    MaxTrouble      \* bound: bars withdrawn and codes in blank at a time

PullCodes == UNION {UnitCodes[u] : u \in Units}
Days      == 0 .. MaxTime \div 2
NoBar     == "none"
BarStates == {NoBar, "provisional", "final"}
Whole     == "pull"

ASSUME PullConstants ==
    /\ \A u, v \in Units : u # v => UnitCodes[u] \cap UnitCodes[v] = {}
    /\ Whole \notin Units
    /\ MaxTime \in Nat \ {0} /\ StartDay \in Nat /\ TradeDays \subseteq Days

VARIABLES
    withdrawn,  \* bars <<code, day>> the server no longer lists
    dayBars,    \* code -> day -> the stored bar, table KlineDay of its file
    pullMark,   \* Whole and market -> its mark
    pull,       \* Service.Update: [pc, unit, left, err, begun]
    task,       \* code -> FetchDay of its goroutine: [pc, last, got, tries]
    blank       \* history: codes answered with nothing in place of their
                \* bars, and with nothing stored since

pullVars == <<clock, withdrawn, dayBars, pullMark, pull, task, blank>>

Resting == [pc |-> "none", last |-> -1, got |-> [d \in Days |-> NoBar], tries |-> 0]
Waiting == [pc |-> "off", unit |-> Whole, left |-> {}, err |-> FALSE, begun |-> 0]

PullInit ==
    /\ withdrawn = {}
    /\ dayBars = [c \in PullCodes |-> [d \in Days |-> NoBar]]
    /\ pullMark = [m \in Units \cup {Whole} |-> Never]
    /\ pull = Waiting
    /\ task = [c \in PullCodes |-> Resting]
    /\ blank = {}

DaysOf(bars) == {d \in Days : bars[d] # NoBar}
Newest(bars) == Max(DaysOf(bars) \cup {-1})

Trouble == Cardinality(withdrawn) + Cardinality(blank)

\* The bar of day d in an answer of the server now.
Quoted(c, d) ==
    IF d \notin TradeDays \/ <<c, d>> \in withdrawn \/ 2 * d > clock THEN NoBar
    ELSE IF 2 * d = clock THEN "provisional" ELSE "final"

-----------------------------------------------------------------------------
\* Update(must): a non-trading day and the mark of the whole pull are looked
\* at unless must is set.
Update(must) ==
    /\ pull.pc = "off"
    /\ must \/ (clock \div 2 \in TradeDays /\ ~IsCurrent(pullMark[Whole], clock))
    /\ pull' = [pc |-> "units", unit |-> Whole, left |-> Units, err |-> FALSE,
                begun |-> clock]
    /\ UNCHANGED <<clock, withdrawn, dayBars, pullMark, task, blank>>

\* The next market: done already, not readable (its mark or its list of
\* codes), or its codes are handed to goroutines.
UpdateUnit(u) ==
    /\ pull.pc = "units" /\ u \in pull.left
    /\ \/ /\ IsCurrent(pullMark[u], clock)
          /\ pull' = [pull EXCEPT !.left = @ \ {u}]
          /\ task' = task
       \/ /\ pull' = [pull EXCEPT !.left = @ \ {u}, !.err = TRUE]
          /\ task' = task
       \/ /\ ~IsCurrent(pullMark[u], clock)
          /\ pull' = [pull EXCEPT !.left = @ \ {u}, !.pc = "wait", !.unit = u]
          /\ task' = [c \in PullCodes |->
                        IF c \in UnitCodes[u] THEN [Resting EXCEPT !.pc = "fetch"] ELSE task[c]]
    /\ UNCHANGED <<clock, withdrawn, dayBars, pullMark, blank>>

\* An attempt of a code failed: the next one, or none.
TaskError(c) ==
    task' = [task EXCEPT ![c] = [Resting EXCEPT
               !.tries = task[c].tries + 1,
               !.pc = IF task[c].tries + 1 < PullRetry THEN "fetch" ELSE "failed"]]

\* Fault: the newest stored bar is taken for final and not fetched again.
PageExcludes(c, last) ==
    {d \in Days : Quoted(c, d) # NoBar /\ d >= StartDay /\ d > last}

\* The bars FetchDay downloads, newest first.  stdUnit stops at the first
\* bar that is not later than the newest stored one, or earlier than the
\* start, and keeps it; exUnit keeps the bars from the later of the two on.
Page(c, last) ==
    LET served == {d \in Days : Quoted(c, d) # NoBar}
        low(d) == d <= last \/ d < StartDay
        stop   == Max({d \in served : low(d)} \cup {-1})
    IN IF \E u \in StopIncluded : c \in UnitCodes[u]
       THEN {d \in served : d >= stop}
       ELSE {d \in served : d >= Max({StartDay, last})}

\* LastDayUnix, and the pages from the server; only this goroutine writes the
\* file of the code.  A server in trouble may answer with nothing, without an
\* error.  The pages are taken at one moment, and a short one ends the list, as
\* the protocol has it.
FetchBars(c) ==
    /\ task[c].pc = "fetch"
    /\ LET last == Newest(dayBars[c])
           full == Page(c, last)
       IN \/ \E page \in {full} \cup {p \in {{}} : Trouble < MaxTrouble} :
               /\ task' = [task EXCEPT
                     ![c].pc   = "save",
                     ![c].last = last,
                     ![c].got  = [d \in Days |-> IF d \in page THEN Quoted(c, d) ELSE NoBar]]
               /\ blank' = IF page = full THEN blank ELSE blank \cup {c}
          \/ TaskError(c) /\ blank' = blank
    /\ UNCHANGED <<clock, withdrawn, dayBars, pullMark, pull>>

\* Fault: the bars from the newest stored one on are kept, and the others
\* inserted.
UpsertKeeps(bars, last, got) ==
    [d \in Days |-> IF d <= last THEN bars[d] ELSE got[d]]

\* upsertDay: delete from the newest stored bar on, insert what was fetched.
Upsert(bars, last, got) ==
    [d \in Days |-> IF d >= last \/ got[d] # NoBar THEN got[d] ELSE bars[d]]

\* SaveDay in one transaction.  Nothing fetched, nothing written, and no
\* error: the code is done.  A bar
\* fetched again from before the newest stored one is a duplicate key, and
\* rolls the transaction back.
SaveDay(c) ==
    /\ task[c].pc = "save"
    /\ LET got   == task[c].got
           last  == task[c].last
           clash == \E d \in DaysOf(got) : d < last /\ dayBars[c][d] # NoBar
       IN \/ /\ ~clash
             /\ dayBars' = [dayBars EXCEPT ![c] =
                              IF DaysOf(got) = {} THEN @ ELSE Upsert(@, last, got)]
             /\ task' = [task EXCEPT ![c] = [Resting EXCEPT !.pc = "done"]]
             /\ blank' = IF DaysOf(got) = {} THEN blank ELSE blank \ {c}
          \/ TaskError(c) /\ UNCHANGED <<dayBars, blank>>
    /\ UNCHANGED <<clock, withdrawn, pullMark, pull>>

\* Fault: a market whose codes failed is marked like the others.
UnitWholeEver(u) == TRUE

UnitWhole(u) == \A c \in UnitCodes[u] : task[c].pc = "done"

\* updateUnit returns when its goroutines have; the market is marked with the
\* time of now if none of them failed and the mark can be written.
MarkUnit ==
    /\ pull.pc = "wait"
    /\ \A c \in UnitCodes[pull.unit] : task[c].pc \in {"done", "failed"}
    /\ \/ /\ UnitWhole(pull.unit)
          /\ pullMark' = [pullMark EXCEPT ![pull.unit] = clock]
          /\ pull' = [pull EXCEPT !.pc = "units"]
       \/ /\ pullMark' = pullMark
          /\ pull' = [pull EXCEPT !.pc = "units", !.err = TRUE]
    /\ task' = [c \in PullCodes |-> Resting]
    /\ UNCHANGED <<clock, withdrawn, dayBars, blank>>

\* Every market has been visited: the whole pull is marked unless one failed.
MarkPull ==
    /\ pull.pc = "units" /\ pull.left = {}
    /\ pullMark' \in IF pull.err THEN {pullMark}
                     ELSE {pullMark, [pullMark EXCEPT ![Whole] = clock]}
    /\ pull' = Waiting
    /\ UNCHANGED <<clock, withdrawn, dayBars, task, blank>>

PullCrash ==
    /\ pull # Waiting
    /\ pull' = Waiting
    /\ task' = [c \in PullCodes |-> Resting]
    /\ UNCHANGED <<clock, withdrawn, dayBars, pullMark, blank>>

Withdraw(c) ==
    /\ Quoted(c, clock \div 2) = "provisional"
    /\ Trouble < MaxTrouble
    /\ withdrawn' = withdrawn \cup {<<c, clock \div 2>>}
    /\ UNCHANGED <<clock, dayBars, pullMark, pull, task, blank>>

\* Half a day passes, also in the middle of a pull, which takes hours but
\* not half a day.
PullTick ==
    /\ Tick(IF pull = Waiting THEN clock ELSE pull.begun)
    /\ UNCHANGED <<withdrawn, dayBars, pullMark, pull, task, blank>>

PullNext ==
    \/ \E must \in BOOLEAN : Update(must)
    \/ \E u \in Units : UpdateUnit(u)
    \/ \E c \in PullCodes : FetchBars(c)
    \/ \E c \in PullCodes : SaveDay(c)
    \/ MarkUnit
    \/ MarkPull
    \/ PullCrash
    \/ \E c \in PullCodes : Withdraw(c)
    \/ PullTick

PullSpec == ClockInit /\ PullInit /\ [][PullNext]_pullVars

-----------------------------------------------------------------------------
\* Whatever failed, was retried, was cut off or was withdrawn: the stored
\* series of a code has no hole between its first and its newest bar, and of
\* all its bars only the newest may still be provisional, because the next
\* increment fetches that one again ("deletes from the last timestamp on and
\* inserts", extend/pull/README.md).
IncrementExact ==
    \A c \in PullCodes :
        LET bars   == dayBars[c]
            newest == Newest(bars)
        IN \A d \in Days :
            /\ bars[d] # NoBar /\ d < newest => bars[d] = "final"
            /\ d \in TradeDays /\ <<c, d>> \notin withdrawn /\ d < newest
                 /\ (\E e \in DaysOf(bars) : e < d)
                 => bars[d] # NoBar

\* The bars of a market that were final at time t are stored, and final, but
\* for the codes the server has last answered with nothing.
StoredAt(u, t) ==
    \A c \in UnitCodes[u] \ blank, d \in TradeDays :
        d >= StartDay /\ 2 * d < t /\ <<c, d>> \notin withdrawn
            => dayBars[c][d] = "final"

\* A current mark lets every further pull of the day skip the market, or all
\* of them.  It carries the time the work was finished, and the mark of a
\* market may have been current only when the whole pull looked at it: so the
\* first vouches for what was final half a day before the node, the second
\* for one day less, whatever failed, crashed, or was forced with must.  It
\* does not vouch for a code whose last answer was an empty one.
PullMarkVouches ==
    \A u \in Units :
        /\ IsCurrent(pullMark[u], clock) => StoredAt(u, LastNode(clock) - 1)
        /\ IsCurrent(pullMark[Whole], clock) => StoredAt(u, LastNode(clock) - 3)
=============================================================================
