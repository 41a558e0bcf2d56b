# A verification project for tdx

`tdx` is a Go client for a stock-quote service, with layers on top of it: a
research database with a job service, a bulk puller into SQLite, a TCP front
end for the HTTP API, and caches of codes, workdays and share changes.  The
modules here model the parts whose correctness depends on the order in which
things happen.  TLC checks them on small instances; TLAPS proves what matters
most for every value of the constants.

## The system

| component | state it keeps | operations | what is hard | what makes it correct |
|---|---|---|---|---|
| research job service (`extend/research/service.go`, `http.go`, `cmd/tdx-research`) | `busy`, `closed`, the session probe; a worker per job; the jobs ledger on disk | `start`, `run`, `scheduleTick`, `scheduleRetry`, `confirmSession`, `Close` | requests, ticks and workers interleave; timeouts and cancels; saves that fail; crashes and restarts | one writer; at most three spaced attempts a day; no symbol forgotten; the verdict is true |
| research store (`store.go`, `ingest.go`) | DuckDB tables, `mu` | `Open`, `SaveJob`, `Jobs`, `Upsert*`, `ImportDirectory`, `updateSymbols` | half-done refreshes, interrupted records | the ledger is recoverable; revision and rows change together |
| research history (`history.go`, `model.go`) | none; a dataset version | paged queries, adjustment | pages of different versions | pages of one version make up the range |
| pull engines (`extend/pull/engine.go`, `pull.go`) | map of open SQLite engines with reference counts | borrow, release, evict, `Close` | eviction and `Close` under a borrower | a lent engine is open; one engine a file; bounded |
| pull update (`pull.go`, `store.go`, `market/a_stock.go`) | per-code databases, daily marks | `Update`, `updateUnit`, `SaveDay`, `SaveMin` | partial failures, retries, marks | marked means complete; increments lose nothing |
| minute coverage (`coverage.go`, `market/minute.go`, `market/fallback.go`) | coverage record next to the rows | `pullMinutes`, `fill`, `SaveMin*Complete` | settings that change between runs | a mark vouches for what was scanned |
| TCP session (`extend/tcpserver/client.go`, `serveConn`) | pending calls, streams, request goroutines | `Call`, `readLoop`, `serveConn`, `writeResponse` | out-of-order answers, cancels, cut-off frames, both sides closing | own answer; every call returns |
| TCP server (`server.go`) | listener, connections, wait group | `Serve`, `track`, `Close` | `Close` against the accept loop | slots counted right; `Close` waits |
| quote client (`client.go`, `client_exhq.go`, `dial.go`, `protocol/frame.go`) | wait table, decode cache, message id | `SendFrame`, `handlerDealMessage`, downloads in pages | late and lost answers, reconnects; data that moves between two pages | an answer reaches its request; a download is whole |
| pool and manage (`pool.go`, `manage.go`) | channel of clients | `Get`, `Put`, `Do`, `Close` | `Put` against `Close` | clients are neither lost nor shared |
| metadata caches (`codes.go`, `workday.go`, `gbbq.go`, `updated.go`) | database, memory, marks | `Update` by timer and at start | a failure or crash between the steps; listings that change meanwhile | a current mark vouches for the table |
| package download (`extend/down-tdx.go`) | `.part`, zip, info file, extracted tree | download, validate, rename, unzip | crashes and bad bodies | the zip is whole and its info true |
| local files (`extend/local.go`) | binary day and minute files | write, read | placeholder records, units | what is written is read back |
| algorithms (`protocol/model_kline.go`, `model_trade.go`, `model_gbbq.go`) | none | bars from trades, merging, factors | boundaries of sessions, suspensions | equal to a reference definition |
| codes and markets (`protocol/unit.go`, `types.go`, `extend/pull/code.go`) | none | classification, prefixes, keys, parsing | ranges that overlap | a code goes to the market that lists it |
| HTTP API (`extend/httpserver`) | pools and clients of two services; a goroutine per request | every route | several requests on few clients, callers that leave, panics | every request ends; an adjusted history is whole |
| legacy pulls (`extend/pull-kline.go`, `pull-trade.go`) | daily and yearly databases, CSV files | increments, yearly files | the turn of a year, failures | no hole in a series |
| byte layouts, spiders, income table, libraries | none of their own | | | not modelled: translation and I/O |

The job service calls the store for every record and row and a source (the
quote client) for bars.  The puller borrows engines for every query and write
and clients from the pool.  The TCP server passes each request to the HTTP
handler, which takes a client from the pool.  The metadata caches are read by
nearly all of them: `Workday.Is` decides whether a pull or a scheduled job runs,
the share changes whether a price is adjusted.

## Modules

* `ResearchService` - the job service, its ledger and the refresh loop.  State:
  `ledger`/`nextId` (table `jobs`), `up`, `busy`, `runs` (one worker goroutine
  per job with the in-memory job, the symbols still to visit and its context),
  `sched` (the scheduler goroutine between reading the ledger and `start`),
  `probe` (`probeDate`, `probeAt`, `probeOpen`), `now`.  `refreshed`, `wrote`
  and `legacy` are history variables that only properties read.  A job is
  accepted in one step, because `start` holds `mu`; the worker takes a step per
  database or source call (`Connect`, `Visit`, `Report`, `Leave`, `Finish`,
  `Release`), each of which may fail, be cancelled, or be the last before a
  `Crash`.  `Open` interrupts what a dead process left running, record by
  record, and may fail in between.  A symbol is "refreshed or not", an error
  one of four, time a slot of the day.  A file of an import may have nothing to
  keep, and all of its records may go into quarantine: it then commits that, and
  counts a failure and no row.
* `DailyPlan` - what the daily job promises, without ledger or crashes.
  `ResearchService` implements it under the mapping `Promise`.
* `EngineCache` - engines, reference counts, the use clock and Close.  A step is
  one critical section of `Service.mu`.
* `TcpSession` - one connection: `Call`s, `readLoop`, `serveConn`, requests and
  two bounded streams in which a frame is one element.
* `TcpServer` - the accept loop, the semaphore, the tracked connections, the
  wait group and `Close`.  A session is one phase here and a module there.
  `found` is what the sweep of `Close` saw: the tracked connections, and the
  goroutines the wait group counted, which may be one less.
* `MinuteCoverage` - the minute bars of one code.  `rows` are the year databases
  together, `mark` the coverage record in each; `pull.todo` is `FetchMin` between its
  fetch and its last commit: a planned write per year.  `Pull` is everything up to the commits: which years
  (`Targets`), from where (`Begins`), what the server still has (`Native`,
  `Fetched`), what the fallback fills (`Fill`).  The list of trading days the
  fallback works from may be an error, or short or empty without one (`Lists`).
  `Commit` is one year's transaction, which may fail or be lost in a crash.  A
  bar is its time slot; `gone` (what the answers left out: the bars before the
  server's first one on its day, and the days missing from the list of days) and
  `offered` are history.
* `Updated` - the once-a-day marks, over time in half days: a mark is current until
  the next fixed hour.  `Codes`, `Gbbq`, `Workday` and `PullUpdate` extend it.
* `Codes` - the table of securities: downloaded exchange by exchange
  (`codesRun`), stored in one transaction, marked, and returned into memory.  The
  MySQL path, which empties the table and fills it again, is a second branch.
* `Gbbq` - share changes: memory loaded from the table, a download stock by stock
  with retries, one transaction, the mark, then memory.
* `Workday` - the trading calendar: table and bitmap, with days that enter the
  bitmap before their insert.
* `PackageDownload` - the vendor's archive: `.part`, zip, `hsjday.txt` and tree as
  separate files, each file operation a step, a crash between any two and in the
  middle of the writing ones.  A package is its version.
* `PullUpdate` - `Service.Update`: markets in order, a task per code with its
  retries, an increment from the newest stored bar, the delete-and-insert commit,
  a mark per market and one for the whole.  A bar is provisional during its
  session and final afterwards; the server may withdraw a provisional one, and may
  answer with nothing for a code that has bars, which `FetchDay` takes for success
  (`blank`).  The pages of an answer are taken at one moment, and a short page is
  the end of the list, as in the protocol; what changes between two pages is the
  subject of `PagedDownload`.  `StartDay` is the configured start; its default, two
  years before the service was made, would move at a restart.
* `HistoryPages` - the history queries of the research store: pages under the read
  lock beside commits that raise the revision.  `reader` is a client that pages
  through and compares the revision as the API asks.
* `ClientPool` - `NewPool`, `Get`, `Put`, `Do`, `Go` and `Close` on the buffered
  channel.  `open` are the clients the pool has dialled and not closed; whether the
  connection of one still stands is the matter of `QuoteClient`.
* `HttpRoutes` - which client calls every route makes, and which of them may be
  cut short; `HttpService` composes it with `ClientPool`: a goroutine per request
  borrows a client for every piece of work, gives it back whatever the call came
  to, recovers from panics, and pages through a growing series for the adjusted history.
* `QuoteClient` - one connection and the goroutines that share it: numbering,
  decode cache, write, registration, timeout, the read loop, disconnect and
  redial.
* `PagedDownload` - the loops that fetch lists, bars, trades and files in pages or
  windows, each with its own way to go on and to stop, while the server's data
  changes between requests.  Cursors keep their 16 bits; lists long enough to
  wrap them are excluded by `PagedConstants`.
* `Listings` - a set of numbers as the list a server or a sort makes of it.
* `Adjustment` - share changes to factors, factors to adjusted prices, with any
  number of events on a day.  The shares and the cash of an event are counted in
  `Portions`, so that the fractions of `m = (10 + songzhuan + peigu) / 10` occur;
  prices are exact rationals, where the code has floats.  The loop over events
  and bars goes back event by event (`EventMaps`), whether the day of one has a
  bar or not.
* `MinuteBars` - trades of a day into minute bars, what the trade fallback accepts
  as a full day (from the auction of 9:25 on), and `Merge`, `Merge241` and the
  merging by sessions.  `Merge` takes an open of 0 from the next bar, the other
  two keep it.  A bar is made of the places of its trades or bars, and sums run
  over places.
* `LegacyPull` - the older puller's daily file and its database per year.  A code
  may go through a year without a successful update (`skipped`), and a reader may
  be unable to read any of the years.  The server keeps every minute bar here; the
  real one keeps 24000.  `PullTrade` - its yearly trade files.
* `LocalFiles` - records of the three local formats, with their placeholders,
  volume units, and what they keep of a bar: a daily price without its last digit,
  turnovers and minute prices as floats of 32 bits (`Single`, near to the number up
  to one part in `Precision`), the date of a minute in 16 bits.  A bar has one
  price, since the four are treated alike.
* `SecurityCodes` - ranges of numbers, prefixes, keys and parsing, for every
  number of three digits in front.  Names are known by their shape, but for HK
  indexes, which `ParseCode` looks up before it takes letters for a US ticker.
* `MC*` - the instances TLC checks, `*Proofs` - the proofs.

Definitions marked "Fault" are mutated forms of the definition that follows
them: each property is checked to fail when one of them takes its place.

## Runs

| run | instance | what it shows |
|---|---|---|
| `research_retry` | two symbols, one open day of three slots, three jobs, two attempts, breaker 2, error cap 1, no record of an older release or any of them: interrupted, failed or partial, with nothing processed or with errors, in time or late | the daily job forgets nothing and overruns nothing through timeouts, lost saves, closes, crashes and restarts; it implements `DailyPlan`; the writer slot is always released |
| `research_service` | one symbol, an open and a closed weekday of two slots, manual updates and imports of a file | one writer; scheduled jobs only on trading days; the verdict says what was committed, also of a file that is all quarantine or has nothing to keep |
| `research_rescan` | three attempts | the violation of `RetriesOnlyOutstanding` below |
| `engine_cache` | three files, three borrowers, limit two, five borrows | borrowers keep their engines; a closed cache drains |
| `tcp_session` | three calls, one request at a time, buffers of one frame | calls get their own answer and return; nothing stays pending |
| `tcp_server` | three clients, two slots | `Close` closes what it found tracked and waits for what it found running, all of it but at most one connection; its wait ends |
| `tcp_close` | the same | the violation of `CloseIsFinal` below |
| `minute_coverage` | two years of three days of two bars, a server that keeps two bars, two days of the second year without trading, two days whose trades may fail, a list of days that may leave some out, four configurations: two start dates, with and without the fallback | finished coverage marks hide no gap after the latest start date but the days that the list left out; a native mark has what was scanned; writes lose at most the newest bar |
| `minute_returned` | the same without the fallback | the violation of `ReturnedSpanOnly` below |
| `stores` | one of six stores a behaviour: an archive of two files in three versions; two codes of two exchanges on both databases; two stocks; three sessions; two markets of three codes, with one bar withdrawn or one code in blank at a time; three dates of history under four revisions | what is kept on disk is whole, and marks and pages vouch for it, through failures, retries, crashes and data that changes meanwhile |
| `quotes` | one of nine parts a behaviour: the HTTP service with two goroutines on one client, and the same pool alone; two callers on one connection; lists of five in pages of two; three days of events, up to two on each and three in all; two trades in a day; years of two bars; three bars in a file; every range of numbers | clients, answers, pages, bars and codes are neither lost nor exchanged, and every request ends |
| `pull_trade` | two sessions | the violation of `PeriodFilesExact` below |

The bounds are small but not idle.  Two attempts and three jobs let a retry be
refused for every reason `scheduleRetry` has, and a second attempt be
interrupted and still counted; an error cap of one makes the capped legacy list
occur; three files over a cache of two makes every borrow evict or exceed; one
request slot and buffers of one frame make every blocking and every torn write
occur; a server window of two bars over days of two makes it start in the
middle of a day, fall out of reach of the past year, and span the new year.
`JobsLimit` is left at the 100 of the code, above `MaxJobs`.  In `stores`, six half
days let a mark of one day meet the next two; one retry of the share changes
more than none makes retries succeed and be used up, while a code of a pull has
one try, since a further one begins as the first of the next pull does; one page
limit makes every query of two bars a second page; in `quotes`, one client for two goroutines makes every second `Get`
wait, four message numbers for two requests bring the number of the heartbeats
into play, pages of two make lists end on and off a page, and years of two bars
turn the year in the middle of every pull.

`stores` and `quotes` check modules that share nothing next to one another: the
initial state picks one, and the others stand still.  Where parts do interact they
are composed for good: `HttpService` with `ClientPool`, the caches and the pull
with the marks, a history page with the adjustment.

Deadlock checking is off where the system may stop for good: a closed cache, a
session or server that has ended, a bounded number of calls, and a calendar that
has run out.

### Fairness

* `ResearchService`: weak fairness of the running worker.  Each of its steps is
  a call bounded by a timeout (the job's context, ten seconds for the last
  save).  Nothing else is fair: a service may stay down and a clock stand still.
* `EngineCache`: each borrower releases.  Every caller in the package defers its
  release or calls it right after its query.
* `TcpSession`: goroutines that can run do run.  A request ends by
  `requestTimeout`, a write by `writeTimeout`, and a connection on which no
  further frame arrives is closed by `idleTimeout`.  Contexts need not expire
  and nobody need close anything.  `CallsReturn` leans on the idle timeout: an
  answer that the server drops (over `maxFrame`, or cut off) is only known to be
  lost when the connection ends, and the number of calls is finite here.  With
  other traffic keeping the connection alive, a call without a deadline would
  wait on.
* `TcpServer`: the loop, the sweep, the wait and the deferred functions run; a
  session is only sure to end once its connection is closed.  `CloseReturns`
  therefore speaks of closes whose sweep missed no connection.
* `HttpService`: the pool can be built, a request that waits for a client gets one
  if one comes back again and again (Go's channels serve receivers in order,
  so strong fairness is less than they give), and a handler takes its next step:
  every call on a client times out within seconds.  Callers need not stay, and
  servers need not answer.

### Disagreements and limits

* `RetriesOnlyOutstanding` - `docs/research.md:36` says a retry does not rescan
  symbols that succeeded.  An attempt that ends before it saved its plan leaves
  an empty plan and a count of zero, which the next attempt takes for a full
  refresh, although an attempt before it may have refreshed symbols.
* `CloseIsFinal` - the comment on `Server.Close` says it stops accepting and
  waits for work.  A connection accepted just before the listener is closed and
  tracked after the sweep is served after `Close` has returned; `Close` before
  `Serve` closes nothing at all.
* `ReturnedSpanOnly` - `extend/pull/README.md:191` says a catch-up covers only
  what was returned.  In the running year without the fallback it deletes the
  newest stored bar even when the server no longer returns it.
* `PeriodFilesExact` - `PullTrade.PullYear` collects the 15, 30 and 60 minute bars
  by appending to the five-minute list instead of their own, so that the files in
  the directories of those names hold other bars.

Behaviour of the code that a reader of the models should know.  Documents speak
against the first four; the properties leave out exactly these cases, as they say,
and the rest they claim.

* A list of trading days that comes back short or empty without an error gives the
  fallback nothing to fill and nothing that failed, and the year is marked
  (`fallback.go:49-86`), although `extend/pull/README.md:192` says that an empty
  result writes no mark of success.  `MarkVouches` leaves out the days missing from
  the list.
* For a code that has bars `FetchDay` takes an empty answer for success
  (`a_stock.go:240-244`), a fault of the server among the reasons its comment gives,
  and the market is marked for the day.  `PullMarkVouches` leaves out the codes whose
  last answer was empty.
* The older pull looks after last year's file only (`pull-kline.go:333-341`), where
  its comment says that missing years are filled in year by year: when no update of
  a code succeeded for a calendar year, the year before it stays as it was.  And a
  year whose file can not be opened or read is left out without an error
  (`pull-kline.go:186-197`).  `LegacyContiguous` excuses these two years, and no other.
* The writers of the local formats are called completely symmetric with the readers
  (`local.go:158`), but a minute price is written as the float nearest to it and cut
  off when it is read, so 9.95 comes back as 9.949, and a daily price loses its last
  digit.  `LocalRoundTrip` says what comes back (`GivesBack`).
* The MySQL path of `Codes.update` (`codes.go:227-246`) truncates the table and
  inserts new and renamed codes only; on an ordinary day it leaves an almost empty
  table with a current mark.  `CodesMarkVouches` therefore speaks of SQLite, and
  `ListedIsStored` is the same without that condition.
* `Codes.update` returns the table as it was read with the new codes: renamed and
  delisted codes stay in memory as they were until the next start.
* A mark of the share changes, the codes or a pull carries the time the work ended.
  It vouches for what the server had half a day before the hour of the mark, and
  the mark of a whole pull for one day less, since it builds on marks of its
  markets.
* A market whose code list comes back empty counts as updated (`pull.go:248`).
* The older minute puller logs and drops the error of a code
  (`pull-kline.go:295-302`) and its `Run` never starts the cron it has filled
  (`pull-kline.go:69-74`).
* `NewPool` leaves the clients it has dialled open when a later dial fails.  After
  `Close` a `Put` may choose the send on the closed channel and panic; `LentOnce`
  holds all the same.
* One request in 2^32 gets the number of the heartbeats; `OwnReply` leaves it out.
* Key `sh880001` belongs to the index and the block market; it is routed to the
  block.  A bare US code with a dot is read as a market, and one spelled like an HK
  index of the list as that index.  `CodesRoute` names these.
* Two processes that download the package into one directory share the `.part`
  file; this is not modelled.

`MarkVouches` speaks of the bars from the latest start date on that the fallback was
run with, because before it a finished mark can cover a hole, in a long story of
fallback pulls alone.  In the middle of a day the server answers with nothing, and
a mark is committed up to now although today's bar is missing.  A later pull in
which a day fails writes rows without a mark, and moves the newest bar past the
end of the mark.  The next pull resumes from that end, in the middle of the day,
and stores only the bars from there on; the two ranges are joined over the hole.
When the year is over a pull with a later start date joins the rest to it, and the
finished mark is never looked at again.  (With one start date the past year is
scanned once more from its start, which repairs it.)  The first proof attempt of
`MarksVouch` ended in this story; TLC shows it when the condition on the start
dates is taken out.  No document promises otherwise, so it is listed as a hazard
and not as a finding.

`LegacyRetryExact` speaks of records that processed something: from one that
processed nothing every symbol is fetched again, which is also what the code's
empty list means.

## Proofs

`ResearchServiceProofs` proves for every universe, limit and calendar allowed by
`ConstantsOK`:

* `TypeCorrect` - `TypeOK` is invariant.  It is not inductive alone: the head of
  the symbols still to visit is only defined while a symbol is being visited,
  which `Visiting` states (a worker in its report phase has a symbol left).
  `LatestExists` shows, by well-foundedness of the job order, that the newest of
  a nonempty set of attempts exists.
* `OneWriter` - `SingleWriter` is invariant.  The strengthening `WriterInv` says
  that `busy` is set exactly while a worker exists that has not released it,
  that there is only one, and that ids not yet taken have no worker.

`ResearchServiceProofs` also proves `AttemptsBounded` (`AttemptsAreBounded`) under the assumption
`MaxJobs <= JobsLimit`: `scheduleRetry` counts the attempts among the jobs the
query returns, so the count is right only while the query returns all jobs.  (Attempts of
the day that 100 newer jobs have pushed out of the query would not be counted;
the model and the theorem leave that day out.)  The count is taken when the
ledger is read and the attempt made later: `PlannedHasRoom` says that the day
still has room in between, since nobody else starts scheduled jobs.
`OwnRecord` says that a worker writes only its own record and keeps its day, so
that no progress save moves an attempt to another day.

In its second half it proves the other properties of the ledger, and that the
service implements `DailyPlan`.  One invariant, `ServiceInv`, carries them; besides
the two above it has five parts.

* `WorkInv` - a worker belongs to the newest record of a live process, and that
  record says "running" until the worker has saved its verdict; an ended record has
  handed on what remained of its plan.
* `SpacedInv` - what the scheduler found when it read the ledger still holds when it
  starts the attempt: every earlier one has ended and cooled down.
* `SessionInv` - the cached probe and the decision that waits are about open days.
* `AccountInv` - who accounts for the symbols of a day that are not refreshed: the
  worker's list and retry list, then the newest record, then the list the scheduler
  is about to start.  After a success nothing is left.  A record of an older
  release is exact until another attempt of its day is made.
* `WriteInv` - a worker whose job has written bars or quarantine has counted it as a
  row or a failure, or is about to; so a failed record wrote no bars, and one that
  succeeded put nothing in quarantine.

Theorems: `NothingIsDropped`, `VerdictsAreHonest`, `LegacyRetriesAreExact`,
`AttemptsAreSpaced`, `ImplementsPlan` (initial states map to initial states, and
every step to a step of `DailyPlan` or a stutter) and `JobsOnSessionDays`.
Hypotheses are `MaxJobs <= JobsLimit` and, for the session days, that a
ledger taken over from an older release is of an open day or absent.  The assumption
`InheritedOK` says what such a ledger is: no plan, a success refreshed every symbol,
and an uncapped error list names what was missed.

`EngineCacheProofs` proves for every number of files, callers and engines, and
every limit, that `TypeOK`, `LentIsOpen`, `OneEnginePerFile`, `CacheBounded` and
`ClosedHoldsNothing` are invariant.  The inductive invariant `Inv` says that the
map and the open handles are two views of one set (`Matched`), that a reference
count is the number of outstanding release closures (`Counted`), that a lent
engine is still the one of its file (`LentIsCached`), that engines the clock has
not reached were never opened (`Fresh`), and that over the limit and after Close
nothing idle is left (`NoSpareIdle`).  Without `Counted` eviction could not be
shown to spare a borrower, without `LentIsCached` a late release could close a
successor.

`TcpSessionProofs` proves, for any calls, stream capacity and limit, `TypeOK`,
`OwnAnswer`, `PendingIsLive`, `InflightBounded` and `DrainedBeforeClose`.
`OwnAnswer` alone is not inductive: `Matched` extends it to the frame in the
reader's hand and to what waits in a call's channel.  `Tracked` says that an id is in
`pending` or its answer is under way to the call, never both, and that a client
that is shut down waits for nothing.

`TcpServerProofs` proves, for any clients and limit, `TypeOK` (which fixes the
semaphore and the wait group as counts), `ConnectionsBounded` and
`FoundAreFinished`.  The inductive invariant adds what the accept loop holds
(`Holding`), that a connection is dialled, accepted, served and cleaned up once
(`OneLife`), and what became of the connections `Close` found (`FoundServed`): the
tracked ones are closed, the running ones are counted until they are done, and
all but one of the tracked are running.  That one is tracked and not yet added to
the wait group, the window that `CloseIsFinal` is violated in.  Without `OneLife` a
second round of the same connection could free a slot twice.

`StoresProofs` proves what the run `stores` checks of the metadata, the pull and the
package.

`PackageTypeOK` and `PackageWhole` hold for any archive and any number of versions.
The inductive invariant says that nothing is newer than
what the vendor announces (`NoneNewer`), that a received package is as new as the
announcement it was fetched for and as the package it replaces (`PartFollows`:
this is what makes the information file true), and that entries off the list of
the extraction are extracted (`TreeFollows`).

`CodesMarkVouches`, `GbbqMarkVouches` and
`CalendarWithoutGap` hold for any codes, stocks, events and sessions and without a bound
on time.  The marks need the age of the update under way: it began at most half a
day ago, and not before the mark that is in place (`CodesProgress`,
`GbbqProgress`), so that a later download that is stored but never marked only
makes the table fresher (`MarkedCodes`, `MarkedTable`).  The calendar needs that the
answer joins what is stored up to its newest day (`AnswerJoins`), whose existence
`NewestDay` shows by well-foundedness, and that a process that has read the table
keeps it in memory (`TableInMemory`).  Assumed are a nonempty list of stocks, a
nonempty set of names, that every code belongs to one of the three exchanges, and
that days are numbers; the assumptions stand in the modules.

`IncrementExact` and `PullMarkVouches` of `PullUpdate` hold for any markets, codes,
trading days and numbers of tries.  `StoredSeries` says that the table of a code is
the server's series from its first bar to its newest, with only the newest possibly
provisional (what lies before the first is not spoken of);
`TasksAtWork` that a task about to save holds an answer the server gave during this
pull to a question about the table as it still is, and that a finished task has
everything that was final when the pull began; `MarksVouch` what every mark, current
or not, and every market passed without error says of the tables, the codes apart
whose last answer was an empty one.  `PullIsQuick` (a
pull takes less than half a day) follows from the guard of the model's clock.  Assumed: no code
belongs to two markets.

`MinuteCoverageProofs` proves `TypeOK`, `MarkVouches`, `ScanVouches` and
`LosesAtMostNewest` for any number of years, days and bars, any calendar, window of
the server and list of settings.  The inductive invariant speaks of the stored marks
(`MarksBehind`: none reaches beyond the present; `ScansStored`: scanned bars are
stored) and of every write a pull has in hand (`Pending`): it stays in its year and
in the past (`InBounds`), would delete at most the newest bar of a year that was
running (`DeletesNewest`), which then has no scan to lose and no finished mark
(`RunningYear`), writes what its scan saw (`Scans`), and where it finishes a year
covers all of it that it may be asked for, but for what the answers left out
(`Covers`).  These have to be said of the
plan because years are committed one by one while time passes.

`QuotesProofs` proves what the run `quotes` checks of clients, replies and files, and
the history queries.

* `ClientsAreLentOnce`, for any clients and borrowers.  The invariant is stated by
  places of the channel: a client has one place (`OnePlace`), a placed one is
  not closed (`PlacedIsOpen`), one not closed has a place until the pool is closed
  (`OpenIsPlaced`).  `ServiceUsesPool` shows that the HTTP service implements
  `ClientPool`, every step a step or a stutter, so that `ServiceLendsOnce` follows.
* `AdjustedIsWhole`, for any page size, length of the series, routes and number of
  requests.  Before the last page a request has the newest bars of the series as it
  was at its first page, and no others (`NewestOfFirst`); after it, all of them
  (`AllOfFirst`).
* `PagesAreExact`, for any dates, values and page size.  At the revision a reader
  carries the store still has what it had at the reader's first page
  (`StillAsPromised`), and the pages are that history from the cursor on, newest page
  first (`ReadSoFar`).
* `RepliesAreOwn`, under `MaxRequests <= IdModulus`: message numbers are 32 bits and
  wrap, and two requests 2^32 apart share one.  `ClientInv` says that whatever
  carries a number - a goroutine, the decode cache, a frame under way, an answer -
  carries that of its own request, which is the counter as many requests ago
  (`NumberOf`).
* `YearsAreContiguous`, for any length of the year, start date and codes.  `LegacyInv`
  says of the daily file that rows are whole and none lies before the start but the
  newest (`DaySound`); of a year's file that rows are whole, end with the year and begin
  with its first bar (`YearSound`); that from the first year with rows every year is full
  until a later file exists (`YearsJoin`), but for the year before a
  skipped one; and that of the years before last the same is true without a later
  file (`LookBack`).  `DayTask` and `MinuteTask` say that
  what a goroutine holds continues the file as it still is.  An update may see the
  year turn once (`Punctual`), as in the model: it takes at most one step of time.

`CalculationProofs` proves what the run `quotes` checks of the parts that compute an
answer.  They have few steps and much data, and the proofs are about loops.

* `DownloadsAreComplete`, for any page size, any lists with room for a page below the
  16 bits of a cursor, and any number of changes between the requests.
  A set of numbers has one sorted enumeration, an element standing at its
  rank (`Sorted`, `Rank`).  The invariant of a loop says where it is in the list as it
  is now: the elements it has passed are those it has, it has nothing else, and what
  it holds twice together with what it will meet again is no more than what
  was added (the potential).  Nothing is claimed of a list of codes that has lost
  one meanwhile, nor of a block file that was replaced: there a page may skip what
  moved up, or belong to another file, and the code has no way to tell.  One added element moves one element over the border
  of a page, which keeps the result in order; two may repeat a stretch, and the
  theorem, like the property, then speaks of the number of doubles only.
* `AdjustmentComposes`, for any days with bars, any number of events on a day, and any
  portions of shares and cash, in exact arithmetic.  The map is followed from event
  to event.  Taking the next event changes a price and its map together: the
  numerator plus `minus` and the denominator keep to the raw price through every
  event, and therefore to the end of the series; an event on a day without a bar
  is one like any other, which is the point about suspensions.
* `FilesRoundTrip`, for any bars and any capacity.  Induction over the bars written:
  the file after so many bars, read back and without the empty records, is these bars
  without theirs, each as its format keeps it (`GivesBack`).  A placeholder is an empty
  record, and is written only where the bars leave its minute out, so dropping it
  drops no bar.  How near a price or turnover comes back follows from how near a
  float is to a number (`SingleIsNear`), which for the prices and turnovers of the
  run is evaluated by TLC and for others is a property of the IEEE format.  Volumes
  times a lot must fit the 32 bits of a record (`LocalConstants`); the code cuts off
  larger ones.
* `ListedCodesRoute`, for any set of leading digits and any extended codes.  The ranges
  of a kind are intervals; those of different kinds on one exchange are pairwise
  apart, so that a listed number has one market, and a prefix guessed from a number is
  the one of its range.  `Ambiguous` names the four bare forms that are exempt: the
  number 000, which Shanghai shares with Shenzhen; HK indexes that `ParseCode` has
  no list entry for; US tickers spelled like one it has; and names with a dot.
* `BarsAreConserved`, for any clock with a morning and an afternoon (`BarConstants`), any
  number of trades in order, and any prices and volumes.  The minutes part the priced
  trades: each counts for one minute of the day (`BucketFacts`), so the sums of the
  minutes are the sum of the trades (`SumOfParts`), and a later trade never counts for
  an earlier minute, so the price carried from minute to minute is that of the last
  trade so far (`CarriedFacts`).  What the three ways of merging share is a list cut into
  stretches, one bar for each (`Cuts`, `Gathers`); such bars tell the same of the
  day as the bars they gather (`GatheredDay`), and the proof for each way is that
  its groups are stretches that leave nothing out (`MergedDay`, `GridDay`, `SessionDay`).
  The minutes of a day are the whole grid, so `Merge241` fills no minute in.

The loops are written as recursive functions, so that TLAPS can expand them.  A
recursive function is a `CHOOSE`: that it satisfies its equation follows once some
function does, which is shown by taking the least number for which there is none
(`NatLessThanWellFounded` and `WFMin` on the set of such numbers).  The same argument on a
set stands in for induction wherever a proof goes along a list.

The type invariants, `CacheBounded`, `InflightBounded`, `DrainedBeforeClose` and
`ConnectionsBounded` are stated by theorems only and are in no run: they hold for every instance.

### Checked by TLC only

* Every liveness property: `WriterReleased`, `ClosedDrains`, `ReaderProceeds`, `CallsReturn`,
  `CloseReturns` and `RequestsEnd`.  Liveness under fairness and ENABLED are out of the prover's reach.
* The four violations: a counterexample needs no proof.

## Not modelled

* The byte layouts of requests and answers (`protocol/model_*.go` apart from the
  algorithms, `types_price.go`): tables of a third party's protocol, decoded
  without state.
* Profiles, issues and the parsing of the text files of the research store: rows
  written beside the bars, in the same transactions.
* `Manage`: it builds a pool, the caches and a cron, which are modelled, and holds
  nothing itself.
* The web spiders, the income table and the code server: a request and a parser
  each.
* The ORM wrappers, zip, a decoder of a local file and a table download.

`PROJECT.json` lists every part with its status and every hazard with the
properties that watch it.
