----------------------------- MODULE HttpService ------------------------------
(***************************************************************************)
(* The HTTP service (extend/httpserver): every request has a goroutine of  *)
(* its own, checks its query, borrows a client of the pool for every piece *)
(* of work, and answers.  The caller may go away at any time, which only   *)
(* the adjusted bars and the batch of share changes look at.               *)
(*                                                                         *)
(* A bar of the daily series is its number, 1 the oldest; the series grows *)
(* while requests read it page by page, newest page first.                 *)
(***************************************************************************)
EXTENDS HttpRoutes, ClientPool

CONSTANTS
    Handlers,       \* the routes of one pool: StdHandlers or ExHandlers
    StockCount,     \* codes of a whole-market batch
    MaxBatch,       \* codes a query may name
    PageSize,       \* bars of a page: 800
    LastStart,      \* the last start of a page: 64800
    MaxBars,        \* what the protocol can number: 65535
    MaxSeries       \* bound: bars the series grows to

ASSUME HttpConstants ==
    /\ StockCount \in Nat
    /\ PageSize \in Nat \ {0}
    /\ LastStart \in Nat /\ MaxBars \in Nat
    /\ MaxSeries \in Nat \ {0, 1}

VARIABLES
    series,     \* bars the servers have
    req         \* goroutine -> its request

httpVars == <<poolVars, series, req>>

NoRequest == [pc |-> "none", work |-> "call", all |-> TRUE, left |-> 0, start |-> 0,
              bars |-> <<>>, first |-> 0, status |-> 0, gone |-> FALSE]

HttpInit ==
    /\ PoolInit
    /\ series \in {0, MaxSeries - 2}
    /\ req = [b \in Borrowers |-> NoRequest]

Is(b, pc) == req[b].pc = pc
Step(b, pc) == req' = [req EXCEPT ![b].pc = pc]

\* The answer that will be given: 200 with code 0, 502, 400, 404, or Failed,
\* 200 with code 1; Aborted for none; More while the work goes on.
More    == 0
Failed  == 1
Aborted == 2
Ready(b, status) == req' = [req EXCEPT ![b].pc = "answer", ![b].status = status]
Back(b, status)  == req' = [req EXCEPT ![b].pc = "back", ![b].status = status]

-----------------------------------------------------------------------------
\* A request arrives and its parameters are read in order: the first bad one
\* is answered with 400, and the pool is not touched.
Bad(b) == req' = [req EXCEPT ![b] = [NoRequest EXCEPT !.pc = "answer", !.status = 400]]

Begin(b, work, all, left) ==
    req' = [req EXCEPT ![b] = [NoRequest EXCEPT !.pc = "borrow", !.work = work,
                                  !.all = all, !.left = left]]

Arrive(b, h) ==
    /\ built = "ok" /\ Is(b, "none")
    /\ \/ \E bad \in 1 .. Len(h.params) : Bad(b)
       \/ h.work \in {"call", "daily"} /\ Begin(b, "call", TRUE, 0)
       \/ /\ h.work \in {"adjust", "daily"}
          /\ Begin(b, "adjust", Len(h.params) = 1, 0)
       \/ h.work = "daily" /\ Bad(b)              \* another adjust than qfq and hfq
       \/ h.work = "adjust" /\ Bad(b)             \* no code; count not in 1 .. 800
       \/ /\ h.work = "batch"
          /\ \/ Bad(b)                            \* too many codes, or not a code
             \/ Begin(b, "list", TRUE, 0)         \* no codes: the whole market
             \/ \E n \in 1 .. MaxBatch : Begin(b, "batch", TRUE, n)
    /\ UNCHANGED <<poolVars, series>>

\* The routes of the extended quotes do not exist without their pool.
NotRegistered(b) ==
    /\ built = "ok" /\ Is(b, "none") /\ Handlers # ExHandlers
    /\ req' = [req EXCEPT ![b] = [NoRequest EXCEPT !.pc = "answer", !.status = 404]]
    /\ UNCHANGED <<poolVars, series>>

\* pool.Do: Get waits for a client.
DoGet(b) ==
    /\ Is(b, "borrow")
    /\ Borrow(b)
    /\ req' = [req EXCEPT ![b].pc = req[b].work]
    /\ UNCHANGED series

\* One call on the client, whose requests all time out: an answer, an error,
\* or a panic, which net/http turns into a closed connection.
Call(b) ==
    /\ Is(b, "call")
    /\ \/ Back(b, 200)
       \/ Back(b, Failed)
       \/ Back(b, Aborted)
    /\ UNCHANGED <<poolVars, series>>

\* handleGbbqAll without codes: GetStockCodeAll first.  The list of codes is
\* a loan of its own, and so is every code of it.
ListCodes(b) ==
    /\ Is(b, "list")
    /\ \/ /\ ~req[b].gone
          /\ req' = [req EXCEPT ![b].pc = "back", ![b].work = "batch",
                        ![b].left = StockCount, ![b].status = More]
       \/ Back(b, 502)
    /\ UNCHANGED <<poolVars, series>>

CollectGbbq(b) ==
    /\ Is(b, "batch")
    /\ \/ /\ ~req[b].gone
          /\ req' = [req EXCEPT ![b].pc = "back", ![b].left = @ - 1,
                        ![b].status = IF req[b].left = 1 THEN 200 ELSE More]
       \/ Back(b, 502)
    /\ UNCHANGED <<poolVars, series>>

-----------------------------------------------------------------------------
\* The page of the server that ends before the newest start bars.
PageOf(start, size) ==
    [i \in 1 .. Cardinality({k \in 1 .. series : series - start - size < k /\ k <= series - start})
        |-> (IF series > start + size THEN series - start - size ELSE 0) + i]

\* Fault: pages are put together as they come.
OverlapUnchecked(page, bars) == FALSE

\* The page is not wholly older than what has been read.
Overlaps(page, bars) == page # <<>> /\ bars # <<>> /\ page[Len(page)] >= bars[1]

\* loadAdjustedDaily, one round: the next older page and its checks.
AdjustPage(b) ==
    /\ Is(b, "adjust")
    /\ LET r    == req[b]
           page == PageOf(r.start, PageSize)
       IN \/ /\ ~r.gone /\ r.start <= LastStart
             /\ ~Overlaps(page, r.bars)
             /\ Len(r.bars) + Len(page) <= MaxBars
             /\ req' = [req EXCEPT ![b].bars  = page \o r.bars,
                                   ![b].start = @ + PageSize,
                                   ![b].first = IF r.start = 0 THEN series ELSE @,
                                   ![b].pc    = IF Len(page) < PageSize THEN "events" ELSE "adjust"]
          \/ Back(b, 502)
    /\ UNCHANGED <<poolVars, series>>

\* The share changes of the code; a missing answer or an event that cannot
\* be adjusted for is an error.
AdjustEvents(b) ==
    /\ Is(b, "events")
    /\ \/ ~req[b].gone /\ Back(b, 200)
       \/ Back(b, 502)
    /\ UNCHANGED <<poolVars, series>>

\* dailyPage: the bars of the page asked for, cut out of the whole history.
DailyPage(bars, start, count) ==
    LET end == Len(bars) - start
    IN IF end <= 0 THEN <<>>
       ELSE SubSeq(bars, (IF end > count THEN end - count ELSE 0) + 1, end)

-----------------------------------------------------------------------------
AfterPut(b) ==
    req' = [req EXCEPT ![b] =
              CASE req[b].status = More    -> [req[b] EXCEPT !.pc = "borrow"]
                [] req[b].status = Aborted -> NoRequest
                [] OTHER                   -> [req[b] EXCEPT !.pc = "answer"]]

\* Fault: a call that failed leaves Do before the client is put back.
DoPutSkipped(b) ==
    /\ Is(b, "back")
    /\ IF req[b].status = Failed THEN UNCHANGED poolVars ELSE GiveBack(b)
    /\ AfterPut(b)
    /\ UNCHANGED series

\* The deferred Put; a batch goes on with its next code.
DoPut(b) ==
    /\ Is(b, "back")
    /\ GiveBack(b)
    /\ AfterPut(b)
    /\ UNCHANGED series

\* respondOK and respondErr.
Answer(b) ==
    /\ Is(b, "answer")
    /\ req' = [req EXCEPT ![b] = NoRequest]
    /\ UNCHANGED <<poolVars, series>>

CallerGone(b) ==
    /\ ~Is(b, "none") /\ ~req[b].gone
    /\ req' = [req EXCEPT ![b].gone = TRUE]
    /\ UNCHANGED <<poolVars, series>>

SeriesGrows ==
    /\ series < MaxSeries
    /\ series' = series + 1
    /\ UNCHANGED <<poolVars, req>>

ServerNew == DialNext /\ UNCHANGED <<series, req>>

\* What the goroutine of a request does when it is scheduled.
Serve(b) ==
    \/ Call(b)
    \/ ListCodes(b)
    \/ CollectGbbq(b)
    \/ AdjustPage(b)
    \/ AdjustEvents(b)
    \/ DoPut(b)
    \/ Answer(b)

HttpNext ==
    \/ ServerNew
    \/ \E b \in Borrowers, h \in Handlers : Arrive(b, h)
    \/ \E b \in Borrowers : NotRegistered(b)
    \/ \E b \in Borrowers : DoGet(b)
    \/ \E b \in Borrowers : Serve(b)
    \/ \E b \in Borrowers : CallerGone(b)
    \/ SeriesGrows

\* The Go scheduler runs every goroutine that can run, and a channel hands
\* its elements to the goroutines that wait for one in the order they came;
\* requests to the servers time out.
HttpFair ==
    /\ WF_httpVars(ServerNew)
    /\ \A b \in Borrowers : SF_httpVars(DoGet(b)) /\ WF_httpVars(Serve(b))

HttpSpec == HttpInit /\ [][HttpNext]_httpVars /\ HttpFair

-----------------------------------------------------------------------------
\* "A bounded cursor", factors "before slicing" (loadAdjustedDaily): an
\* adjusted history that is answered with success has every bar the server
\* had at the first page, once and in order, although new bars shift the
\* later pages; and a page cut out of it has the bars that a request for the
\* same page without adjustment would have got at that time.
AdjustedWhole ==
    \A b \in Borrowers :
        req[b].work = "adjust" /\ req[b].pc \in {"back", "answer"} /\ req[b].status = 200
        => /\ req[b].bars = [i \in 1 .. req[b].first |-> i]
           /\ \A start \in 0 .. MaxSeries, count \in 1 .. PageSize :
                 req[b].first = series => DailyPage(req[b].bars, start, count) = PageOf(start, count)

\* Every request is answered or its connection closed: a client comes back to
\* the pool after every piece of work, so nobody waits for one for ever.
RequestsEnd == \A b \in Borrowers : ~Is(b, "none") ~> Is(b, "none")
=============================================================================
