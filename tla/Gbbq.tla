-------------------------------- MODULE Gbbq ---------------------------------
(***************************************************************************)
(* The share changes and dividends of every stock (gbbq.go): loaded from   *)
(* the database into memory, downloaded stock by stock when the mark of    *)
(* the day is missing, and written back in one transaction.  Turnover and  *)
(* price adjustment read the memory at any time.                           *)
(*                                                                         *)
(* The events of a stock are a version number, NoEvents before the first   *)
(* download.  The server adds events while the download is under way.      *)
(***************************************************************************)
EXTENDS Updated, Sequences

CONSTANTS
    StockList,      \* the stocks, in the order of GetStockCodeAll
    GbbqRetry,      \* DefaultRetry
    MaxEvents       \* bound: events the server adds

NoEvents == 0
Stocks   == {StockList[i] : i \in 1 .. Len(StockList)}
Blank    == [s \in Stocks |-> NoEvents]

ASSUME GbbqConstants ==
    /\ StockList \in Seq(Stocks) /\ StockList # <<>>
    /\ GbbqRetry \in Nat

VARIABLES
    events,         \* stock -> version of the events the server has
    gbbqTable,      \* stock -> version in the database
    gbbqMark,       \* the mark "gbbq"
    gbbqMemory,     \* Gbbq.m
    gbbqRun,        \* Gbbq.Update: [pc, new, got, next, tries, begun]
    eventful        \* stock -> when the server last added an event to it

gbbqVars == <<clock, events, gbbqTable, gbbqMark, gbbqMemory, gbbqRun, eventful>>

GbbqDown == [pc |-> "down", new |-> TRUE, got |-> Blank, next |-> 1,
             tries |-> 0, begun |-> 0]

GbbqInit ==
    /\ events = [s \in Stocks |-> 1]
    /\ gbbqTable = Blank
    /\ gbbqMark = Never
    /\ gbbqMemory = Blank
    /\ gbbqRun = GbbqDown
    /\ eventful = [s \in Stocks |-> 0]

Doing(pc) == gbbqRun.pc = pc
Turn(pc)  == gbbqRun' = [gbbqRun EXCEPT !.pc = pc]

GbbqError ==
    IF gbbqRun.new THEN gbbqRun' = GbbqDown
    ELSE \E pc \in {"load", "idle"} : Turn(pc)

-----------------------------------------------------------------------------
NewGbbq ==
    /\ Doing("down")
    /\ gbbqRun' = [GbbqDown EXCEPT !.pc = "load"]
    /\ gbbqMemory' = Blank
    /\ UNCHANGED <<clock, events, gbbqTable, gbbqMark, eventful>>

GbbqCron ==
    /\ Doing("idle") /\ clock % 2 = 1
    /\ gbbqRun' = [GbbqDown EXCEPT !.pc = "load", !.new = FALSE]
    /\ UNCHANGED <<clock, events, gbbqTable, gbbqMark, gbbqMemory, eventful>>

\* The table goes into memory before the mark is looked at; a mark that
\* cannot be read counts as missing.
GbbqLoad ==
    /\ Doing("load")
    /\ \/ /\ gbbqMemory' = gbbqTable
          /\ \/ IsCurrent(gbbqMark, clock) /\ Turn("idle")
             \/ gbbqRun' = [gbbqRun EXCEPT !.pc = "fetch", !.got = Blank, !.next = 1,
                               !.tries = 0, !.begun = clock]
       \/ GbbqError /\ gbbqMemory' = gbbqMemory
    /\ UNCHANGED <<clock, events, gbbqTable, gbbqMark, eventful>>

\* Fault: a stock whose retries are used up is left out.
GbbqGivesUpStock ==
    gbbqRun' = [gbbqRun EXCEPT !.next = @ + 1, !.tries = 0,
                   !.pc = IF gbbqRun.next = Len(StockList) THEN "store" ELSE @]

\* Retries used up: the download has failed.
GbbqGivesUp == GbbqError

\* GetGbbqAll, one request: a stock is asked for up to GbbqRetry times.
GbbqFetch ==
    /\ Doing("fetch")
    /\ \/ gbbqRun' = [gbbqRun EXCEPT
                         !.got[StockList[gbbqRun.next]] = events[StockList[gbbqRun.next]],
                         !.next = @ + 1, !.tries = 0,
                         !.pc = IF gbbqRun.next = Len(StockList) THEN "store" ELSE @]
       \/ gbbqRun.tries + 1 < GbbqRetry /\ gbbqRun' = [gbbqRun EXCEPT !.tries = @ + 1]
       \/ gbbqRun.tries + 1 >= GbbqRetry /\ GbbqGivesUp
    /\ UNCHANGED <<clock, events, gbbqTable, gbbqMark, gbbqMemory, eventful>>

\* One transaction deletes every row and inserts what was downloaded.
GbbqStore ==
    /\ Doing("store")
    /\ \/ /\ gbbqTable' = gbbqRun.got
          /\ Turn("mark")
       \/ GbbqError /\ gbbqTable' = gbbqTable
    /\ UNCHANGED <<clock, events, gbbqMark, gbbqMemory, eventful>>

\* A mark that cannot be written is an error, and memory stays as loaded.
GbbqMark ==
    /\ Doing("mark")
    /\ \/ gbbqMark' = clock /\ gbbqMemory' = gbbqRun.got /\ Turn("idle")
       \/ GbbqError /\ UNCHANGED <<gbbqMark, gbbqMemory>>
    /\ UNCHANGED <<clock, events, gbbqTable, eventful>>

GbbqCrash ==
    /\ ~Doing("down")
    /\ gbbqRun' = GbbqDown
    /\ gbbqMemory' = Blank
    /\ UNCHANGED <<clock, events, gbbqTable, gbbqMark, eventful>>

NewEvent(s) ==
    /\ events[s] < MaxEvents
    /\ events' = [events EXCEPT ![s] = @ + 1]
    /\ eventful' = [eventful EXCEPT ![s] = clock]
    /\ UNCHANGED <<clock, gbbqTable, gbbqMark, gbbqMemory, gbbqRun>>

GbbqTick ==
    /\ Tick(IF gbbqRun.pc \in {"down", "idle", "load"} THEN clock ELSE gbbqRun.begun)
    /\ UNCHANGED <<events, gbbqTable, gbbqMark, gbbqMemory, gbbqRun, eventful>>

GbbqNext ==
    \/ NewGbbq
    \/ GbbqCron
    \/ GbbqLoad
    \/ GbbqFetch
    \/ GbbqStore
    \/ GbbqMark
    \/ GbbqCrash
    \/ \E s \in Stocks : NewEvent(s)
    \/ GbbqTick

GbbqSpec == ClockInit /\ GbbqInit /\ [][GbbqNext]_gbbqVars

-----------------------------------------------------------------------------
\* A current mark (Gbbq.Update returns at once) vouches for the table that
\* every start of the day loads: it has an answer for every stock, with all
\* the events the server had half a day before the node.  Turnover and price
\* adjustment are computed from it without another look at the server.
GbbqMarkVouches ==
    IsCurrent(gbbqMark, clock)
        => \A s \in Stocks :
             /\ gbbqTable[s] # NoEvents
             /\ eventful[s] < LastNode(clock) - 1 => gbbqTable[s] = events[s]
=============================================================================
