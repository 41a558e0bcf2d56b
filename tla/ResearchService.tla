--------------------------- MODULE ResearchService ---------------------------
(***************************************************************************)
(* The data-job service of extend/research: a persistent job ledger, one   *)
(* writer slot, a worker goroutine per accepted job, a scheduler that      *)
(* retries what an earlier attempt of the same day left over, and the      *)
(* recovery that Open performs on a ledger a dead process left behind.     *)
(*                                                                         *)
(* Persistent state is the ledger; busy, the workers, the scheduler and    *)
(* its session probe live in memory and are lost by a crash.  Time is      *)
(* counted in slots of a calendar day; a job's Started and Finished are    *)
(* slots.  A symbol's bars are abstracted to "refreshed or not".           *)
(***************************************************************************)
EXTENDS Naturals, Sequences, FiniteSets, SequencesExt

CONSTANTS
    Universe,       \* the configured symbols, as the sequence a full refresh visits
    ImportFiles,    \* the symbols of the .day files in the import directory, sorted
    Requests,       \* POST /v1/jobs/{kind}: the kind asked for and the symbols listed
    Inherited,      \* what an older release may have left for day 0: its job
                    \* record and the symbols that job had really refreshed
    MaxJobs,        \* bound: jobs ever accepted
    JobsLimit,      \* LIMIT of the Jobs query (100 in the code)
    MaxAttempts,    \* scheduled attempts per day (3)
    Breaker,        \* consecutive failures that stop a refresh (5)
    ErrorCap,       \* symbols kept in a job's error map (500)
    Cooldown,       \* slots between a finish and the next attempt (30 minutes)
    SlotsPerDay,    \* slots of a calendar day
    ScheduleSlot,   \* first slot of the day at or after Config.Schedule
    LastDay,        \* bound: days are 0 .. LastDay
    Weekdays,       \* days that are neither Saturday nor Sunday
    OpenDays        \* weekdays on which the exchange trades

Dates  == 0 .. LastDay
Times  == 0 .. (LastDay + 1) * SlotsPerDay - 1
JobIds == 1 .. MaxJobs
NoDate == LastDay + 1        \* ScheduledDate "" of a manual job
Kinds  == {"import", "update", "daily"}

Symbols    == ToSet(Universe)
AllSymbols == ToSet(Universe \o ImportFiles)

Job == [kind : Kinds,
        state : {"absent", "running", "succeeded", "partial", "failed", "interrupted"},
        date : Dates \cup {NoDate},
        started : Times, finished : Times,
        processed : Nat, rows : Nat, failures : Nat, total : Nat,
        errors : SUBSET AllSymbols,
        error : {"none", "some_failed", "stopped", "other", "interrupted"},
        retry : Seq(AllSymbols),
        remaining : Seq(AllSymbols),
        retryOf : 0 .. MaxJobs]

ASSUME ConstantsOK ==
    /\ Universe \in Seq(AllSymbols) /\ Universe # <<>>
    /\ ImportFiles \in Seq(AllSymbols)
    /\ \A n \in {MaxJobs, JobsLimit, MaxAttempts, Breaker, SlotsPerDay} : n \in Nat \ {0}
    /\ \A n \in {ErrorCap, Cooldown, ScheduleSlot, LastDay} : n \in Nat
    /\ \A q \in Requests : q.kind \in Kinds /\ q.list \in Seq(AllSymbols)
    /\ Weekdays \subseteq Dates /\ OpenDays \subseteq Weekdays
    /\ \A h \in Inherited : /\ h.job \in Job /\ h.done \subseteq AllSymbols
                             /\ h.job.state # "absent" /\ h.job.date = 0

VARIABLES
    ledger,     \* table jobs: id -> record, ids in the order the jobs started
    nextId,     \* ids below it are taken
    up,         \* "up", "closing" (after Close), "down"
    busy,       \* Service.busy
    runs,       \* worker goroutines: id -> what run(j, symbols) holds
    sched,      \* the scheduler goroutine between reading the ledger and start
    probe,      \* probeDate, probeAt, probeOpen
    now,        \* wall clock, Shanghai
    refreshed,  \* history: day -> symbols a scheduled job of it refreshed
    wrote,      \* history: the jobs that committed bars, or quarantined records
    legacy      \* history: the inherited records, which keep no retry list

vars == <<ledger, nextId, up, busy, runs, sched, probe, now, refreshed, wrote, legacy>>

Today == now \div SlotsPerDay
Slot  == now % SlotsPerDay
Taken == 1 .. nextId - 1

NoJob == [kind |-> "daily", state |-> "absent", date |-> NoDate, started |-> 0,
          finished |-> 0, processed |-> 0, rows |-> 0, failures |-> 0, total |-> 0,
          errors |-> {}, error |-> "none", retry |-> <<>>, remaining |-> <<>>,
          retryOf |-> 0]

\* How the visit of one symbol ends: everything is kept; nothing is written and
\* an error comes back; the bars are committed and the profile, or quarantined
\* records beside them, make it an error.  A file may also hold quarantined
\* records only, which are committed and an error, or nothing to keep at all.
Outcomes == {"ok", "failed", "dirty", "quarantined", "empty"}
Good     == {"ok", "empty"}
WithBars == {"ok", "dirty"}

\* A worker: the job as run holds it in memory, the caller's symbol list, the
\* symbols the loop has still to visit, the outcome of the one being visited,
\* the consecutive failures, whether its context is cancelled, and the error
\* the refresh returns.
Run == [phase : {"idle", "connect", "loop", "report", "finish", "release"},
        job : Job, list : Seq(AllSymbols), todo : Seq(AllSymbols),
        outcome : Outcomes, streak : Nat,
        cancelled : BOOLEAN, err : {"none", "some_failed", "stopped", "other"}]

Idle == [phase |-> "idle", job |-> NoJob, list |-> <<>>, todo |-> <<>>,
         outcome |-> "ok", streak |-> 0, cancelled |-> FALSE, err |-> "none"]

Plans == [phase : {"idle", "probe", "start"}, date : Dates,
          list : Seq(AllSymbols), retryOf : 0 .. MaxJobs]
Probe == [date : Dates \cup {NoDate}, at : Times, open : BOOLEAN]

Asleep   == [phase |-> "idle", date |-> 0, list |-> <<>>, retryOf |-> 0]
Unprobed == [date |-> NoDate, at |-> 0, open |-> FALSE]

Active(i) == runs[i].phase # "idle"

Init ==
    /\ \/ /\ ledger = [i \in JobIds |-> NoJob]
          /\ nextId = 1
          /\ legacy = {}
          /\ now = 0
          /\ refreshed = [d \in Dates |-> {}]
       \/ \E h \in Inherited :
            /\ ledger = [i \in JobIds |-> IF i = 1 THEN h.job ELSE NoJob]
            /\ nextId = 2
            /\ legacy = {1}
            /\ now = h.job.finished
            /\ refreshed = [d \in Dates |-> IF d = 0 THEN h.done ELSE {}]
    /\ up = "down"
    /\ busy = FALSE
    /\ runs = [i \in JobIds |-> Idle]
    /\ sched = Asleep
    /\ probe = Unprobed
    /\ wrote = {}

-----------------------------------------------------------------------------
(* The store: Jobs returns the newest JobsLimit records, Open interrupts    *)
(* those of them that a previous process left running.                      *)

Jobs == {i \in Taken : i + JobsLimit >= nextId}

\* Faults: the unvisited symbols are not handed on; the record is left in a
\* state no reader knows.
InterruptForgetting(j) == [j EXCEPT !.state = "interrupted", !.error = "interrupted",
                                    !.finished = now, !.remaining = <<>>]
InterruptQueued(j) == [j EXCEPT !.state = "queued", !.finished = now]

Interrupt(j) == [j EXCEPT !.state = "interrupted", !.error = "interrupted",
                          !.finished = now, !.retry = @ \o j.remaining,
                          !.remaining = <<>>]

Stale == {i \in Jobs : ledger[i].state = "running"}

\* The records are saved one by one; when one cannot be saved, or the process
\* dies in between, the service does not come up and the others stay.
Open ==
    /\ up = "down"
    /\ \E done \in SUBSET Stale :
          /\ up' = IF done = Stale THEN "up" ELSE "down"
          /\ ledger' = [i \in JobIds |-> IF i \in done THEN Interrupt(ledger[i])
                                                       ELSE ledger[i]]
    /\ UNCHANGED <<nextId, busy, runs, sched, probe, now, refreshed, wrote, legacy>>

\* SaveJob with a context: a cancelled context always fails it.
Save(i, j, ok, cancelled) ==
    /\ ok => ~cancelled
    /\ ledger' = IF ok THEN [ledger EXCEPT ![i] = j] ELSE ledger

-----------------------------------------------------------------------------
(* Accepting a job: start under Service.mu.                                 *)

\* Fault: the writer slot is not checked.
AcceptsAlways == up = "up"

Accepts == up = "up" /\ ~busy

NewJob(kind, date, retryOf) ==
    [NoJob EXCEPT !.kind = kind, !.state = "running", !.date = date,
                  !.started = now, !.retryOf = retryOf]

Start(kind, list, date, retryOf) ==
    /\ Accepts
    /\ nextId \in JobIds
    /\ ledger' = [ledger EXCEPT ![nextId] = NewJob(kind, date, retryOf)]
    /\ runs' = [runs EXCEPT ![nextId] =
                  [Idle EXCEPT !.phase = "connect", !.list = list,
                               !.job = NewJob(kind, date, retryOf)]]
    /\ nextId' = nextId + 1
    /\ busy' = TRUE

StartManual ==
    /\ \E q \in Requests : Start(q.kind, q.list, NoDate, 0)
    /\ UNCHANGED <<up, sched, probe, now, refreshed, wrote, legacy>>

-----------------------------------------------------------------------------
(* The worker: run, ImportDirectory and Store.updateSymbols.                *)

Online(j) == j.kind # "import"

\* The source cannot be opened, no symbols are listed, or the directory
\* cannot be walked: the refresh never starts and no plan is recorded.
ConnectFails(i) ==
    /\ runs[i].phase = "connect"
    /\ runs' = [runs EXCEPT ![i].phase = "finish", ![i].err = "other"]
    /\ UNCHANGED <<ledger, nextId, up, busy, sched, probe, now, refreshed, wrote, legacy>>

Plan(i) == IF runs[i].list = <<>> THEN Universe ELSE runs[i].list

\* An online job records its whole plan before it fetches the first symbol.
Connect(i) ==
    /\ runs[i].phase = "connect" /\ Online(runs[i].job)
    /\ LET j == [runs[i].job EXCEPT !.total = Len(Plan(i)), !.remaining = Plan(i)]
       IN \E ok \in BOOLEAN :
            /\ Save(i, j, ok, runs[i].cancelled)
            /\ runs' = [runs EXCEPT ![i].job = j,
                          ![i].todo  = IF ok THEN Plan(i) ELSE <<>>,
                          ![i].phase = IF ok THEN "loop" ELSE "finish",
                          ![i].err   = IF ok THEN "none" ELSE "other"]
    /\ UNCHANGED <<nextId, up, busy, sched, probe, now, refreshed, wrote, legacy>>

ListFiles(i) ==
    /\ runs[i].phase = "connect" /\ ~Online(runs[i].job)
    /\ ~runs[i].cancelled /\ ImportFiles # <<>>
    /\ runs' = [runs EXCEPT ![i].todo = ImportFiles, ![i].phase = "loop"]
    /\ UNCHANGED <<ledger, nextId, up, busy, sched, probe, now, refreshed, wrote, legacy>>

\* Only an import meets files, and only an import quarantines records.
Possible(j) == IF Online(j) THEN {"ok", "failed", "dirty"} ELSE Outcomes

Commits(j, outcome) ==
    {what \in {"bars", "issues"} :
        IF what = "bars" THEN outcome \in WithBars
                         ELSE outcome \in {"dirty", "quarantined"} /\ ~Online(j)}

\* One symbol, in one transaction for its bars and its quarantined records.
Visit(i) ==
    /\ runs[i].phase = "loop" /\ runs[i].todo # <<>> /\ ~runs[i].cancelled
    /\ \E outcome \in Possible(runs[i].job) :
         LET d == runs[i].job.date
         IN /\ runs' = [runs EXCEPT ![i].phase = "report", ![i].outcome = outcome]
            /\ wrote' = wrote \cup ({i} \X Commits(runs[i].job, outcome))
            /\ refreshed' = IF outcome = "ok" /\ d \in Dates
                            THEN [refreshed EXCEPT ![d] = @ \cup {Head(runs[i].todo)}]
                            ELSE refreshed
    /\ UNCHANGED <<ledger, nextId, up, busy, sched, probe, now, legacy>>

\* Fault: a file is only a failure when nothing of it was committed.
ProgressForgiving(j, s, outcome) ==
    LET bad == outcome = "failed"
    IN [j EXCEPT
          !.processed = @ + 1,
          !.rows      = IF outcome \in WithBars THEN @ + 1 ELSE @,
          !.remaining = IF @ = <<>> THEN @ ELSE Tail(@),
          !.failures  = IF bad THEN @ + 1 ELSE @,
          !.retry     = IF bad THEN Append(@, s) ELSE @,
          !.errors    = IF bad /\ Cardinality(@) < ErrorCap THEN @ \cup {s} ELSE @]

\* The progress callback's effect on the in-memory job.
Progress(j, s, outcome) ==
    LET bad == outcome \notin Good
    IN [j EXCEPT
          !.processed = @ + 1,
          !.rows      = IF outcome \in WithBars THEN @ + 1 ELSE @,
          !.remaining = IF @ = <<>> THEN @ ELSE Tail(@),
          !.failures  = IF bad THEN @ + 1 ELSE @,
          !.retry     = IF bad THEN Append(@, s) ELSE @,
          !.errors    = IF bad /\ Cardinality(@) < ErrorCap THEN @ \cup {s} ELSE @]

\* The callback saves the job, and its failure to do so is only logged; an
\* online refresh then gives up after Breaker failures in a row.
Report(i) ==
    /\ runs[i].phase = "report"
    /\ LET r      == runs[i]
           j      == Progress(r.job, Head(r.todo), r.outcome)
           streak == IF r.outcome \in Good THEN 0 ELSE r.streak + 1
           stop   == Online(j) /\ streak >= Breaker
       IN \E ok \in BOOLEAN :
            /\ Save(i, j, ok, r.cancelled)
            /\ runs' = [runs EXCEPT ![i].job = j, ![i].todo = Tail(@),
                          ![i].streak = streak,
                          ![i].phase = IF stop THEN "finish" ELSE "loop",
                          ![i].err   = IF stop THEN "stopped" ELSE "none"]
    /\ UNCHANGED <<nextId, up, busy, sched, probe, now, refreshed, wrote, legacy>>

\* Fault: a cancelled context ends the loop without an error.
LeaveQuietly(i) ==
    /\ runs[i].phase = "loop"
    /\ runs[i].todo = <<>> \/ runs[i].cancelled
    /\ runs' = [runs EXCEPT ![i].phase = "finish",
                  ![i].err = IF runs[i].job.failures > 0 THEN "some_failed" ELSE "none"]
    /\ UNCHANGED <<ledger, nextId, up, busy, sched, probe, now, refreshed, wrote, legacy>>

\* The loop ends: nothing is left, or the context is found cancelled.
Leave(i) ==
    /\ runs[i].phase = "loop"
    /\ \/ runs[i].todo = <<>>
       \/ runs[i].cancelled
    /\ runs' = [runs EXCEPT ![i].phase = "finish",
                  ![i].err = IF runs[i].todo # <<>> THEN "other"
                             ELSE IF runs[i].job.failures > 0 THEN "some_failed"
                             ELSE "none"]
    /\ UNCHANGED <<ledger, nextId, up, busy, sched, probe, now, refreshed, wrote, legacy>>

\* Fault: rows committed by a symbol that then failed do not count.
VerdictIgnoringRows(j, err) ==
    IF err = "none" THEN "succeeded"
    ELSE IF j.processed > j.failures THEN "partial" ELSE "failed"

Verdict(j, err) ==
    IF err = "none" THEN "succeeded"
    ELSE IF j.processed > j.failures \/ j.rows > 0 THEN "partial" ELSE "failed"

\* The final record: what was not visited joins the retry list.  It is saved
\* with a context of its own, and a failure to save it is only logged.
Finish(i) ==
    /\ runs[i].phase = "finish"
    /\ LET r == runs[i]
           j == [r.job EXCEPT !.retry = @ \o r.job.remaining, !.remaining = <<>>,
                              !.state = Verdict(r.job, r.err), !.error = r.err,
                              !.finished = now]
       IN \E ok \in BOOLEAN :
            /\ Save(i, j, ok, FALSE)
            /\ runs' = [runs EXCEPT ![i] = [Idle EXCEPT !.phase = "release"]]
    /\ UNCHANGED <<nextId, up, busy, sched, probe, now, refreshed, wrote, legacy>>

\* Fault: the writer slot is kept.
ReleaseKeepingBusy(i) ==
    /\ runs[i].phase = "release"
    /\ runs' = [runs EXCEPT ![i] = Idle]
    /\ UNCHANGED <<ledger, nextId, up, busy, sched, probe, now, refreshed, wrote, legacy>>

\* The deferred functions: busy is cleared after the record is saved.
Release(i) ==
    /\ runs[i].phase = "release"
    /\ busy' = FALSE
    /\ runs' = [runs EXCEPT ![i] = Idle]
    /\ UNCHANGED <<ledger, nextId, up, sched, probe, now, refreshed, wrote, legacy>>

\* context.WithTimeout(JobTimeout) expires.
Timeout(i) ==
    /\ Active(i) /\ runs[i].phase # "release" /\ ~runs[i].cancelled
    /\ runs' = [runs EXCEPT ![i].cancelled = TRUE]
    /\ UNCHANGED <<ledger, nextId, up, busy, sched, probe, now, refreshed, wrote, legacy>>

Worker(i) == \/ ConnectFails(i) \/ Connect(i) \/ ListFiles(i) \/ Visit(i)
             \/ Report(i) \/ Leave(i) \/ Finish(i) \/ Release(i)

-----------------------------------------------------------------------------
(* The scheduler: scheduleTick, scheduleRetry, confirmSession.              *)

Attempts(d) == {i \in Jobs : ledger[i].date = d}
Latest(S)   == CHOOSE i \in S : \A k \in S : k <= i

\* A record without a plan that did process symbols comes from an older
\* release: only a complete error list says what is outstanding.
ErrorsComplete(j) ==
    /\ j.failures > 0 /\ Cardinality(j.errors) = j.failures
    /\ j.total <= j.processed
    /\ j.total = 0 => j.state # "interrupted" /\ j.error = "some_failed"

NoPlan(j) == j.retry = <<>> /\ j.processed > 0

\* What the record of an older release says: it has no retry plan, a success
\* refreshed every configured symbol, and an error list that is complete in
\* the sense above names exactly the symbols that are still missing.
ASSUME InheritedOK ==
    \A h \in Inherited :
        /\ h.job.retry = <<>> /\ h.job.remaining = <<>>
        /\ h.job.state = "succeeded" => Symbols \subseteq h.done
        /\ NoPlan(h.job) /\ ErrorsComplete(h.job) => h.job.errors = Symbols \ h.done

\* Fault: an error list is taken as it is, with symbols never reached left out.
RetriableAnyList(j) == NoPlan(j) => j.failures > 0

\* A record without a plan is only retried if it says what is outstanding.
Retriable(j) == NoPlan(j) => ErrorsComplete(j)

\* Faults: the pause counted from the start; one attempt too many.
CooledFromStart(j) == now >= j.started + Cooldown
RoomForOneMore(A)  == Cardinality(A) <= MaxAttempts

Cooled(j) == now >= j.finished + Cooldown
Room(A)   == Cardinality(A) < MaxAttempts

Ready(d) ==
    LET A == Attempts(d)
    IN /\ \A i \in A : /\ ledger[i].state \notin {"succeeded", "running"}
                       /\ Cooled(ledger[i])
       /\ Room(A)
       /\ A # {} => Retriable(ledger[Latest(A)])

\* What the retry of record j is asked to refresh; <<>> is everything.  The
\* code sorts an error list; any order of it is allowed here.
RetryLists(j) ==
    IF NoPlan(j) THEN {q \in [1 .. Cardinality(j.errors) -> j.errors] : ToSet(q) = j.errors}
                 ELSE {j.retry}

ScheduleTick ==
    /\ up = "up" /\ sched.phase = "idle"
    /\ Today \in Weekdays /\ Slot >= ScheduleSlot
    /\ Ready(Today)
    /\ LET A == Attempts(Today)
       IN \/ /\ A = {}
             /\ sched' = [Asleep EXCEPT !.phase = "probe", !.date = Today]
          \/ /\ A # {}
             /\ \E list \in RetryLists(ledger[Latest(A)]) :
                   sched' = [phase |-> "start", date |-> Today, list |-> list,
                             retryOf |-> Latest(A)]
    /\ UNCHANGED <<ledger, nextId, up, busy, runs, probe, now, refreshed, wrote, legacy>>

\* Fault: a failed probe leaves the answer of an earlier day in the cache.
ConfirmSessionStale ==
    /\ sched.phase = "probe"
    /\ LET cached == probe.date = sched.date /\ now < probe.at + Cooldown
       IN \E seen \in BOOLEAN :
            /\ seen => sched.date \in OpenDays
            /\ probe' = IF cached THEN probe
                        ELSE [date |-> sched.date, at |-> now, open |-> seen \/ probe.open]
            /\ sched' = IF seen \/ (cached /\ probe.open)
                        THEN [sched EXCEPT !.phase = "start"] ELSE Asleep
    /\ UNCHANGED <<ledger, nextId, up, busy, runs, now, refreshed, wrote, legacy>>

\* confirmSession asks the index for the day's bar, at most once per Cooldown;
\* the source may fail, and it may not have the bar of an open day yet.
ConfirmSession ==
    /\ sched.phase = "probe"
    /\ LET cached == probe.date = sched.date /\ now < probe.at + Cooldown
       IN \E seen \in BOOLEAN :
            /\ seen => sched.date \in OpenDays
            /\ probe' = IF cached THEN probe
                        ELSE [date |-> sched.date, at |-> now, open |-> seen]
            /\ sched' = IF probe'.open THEN [sched EXCEPT !.phase = "start"]
                                       ELSE Asleep
    /\ UNCHANGED <<ledger, nextId, up, busy, runs, now, refreshed, wrote, legacy>>

\* start is refused while a job runs or the service closes, and the tick ends.
StartScheduled ==
    /\ sched.phase = "start"
    /\ sched' = Asleep
    /\ \/ Start("daily", sched.list, sched.date, sched.retryOf)
       \/ /\ ~(Accepts /\ nextId \in JobIds)     \* the second: bound MaxJobs
          /\ UNCHANGED <<ledger, nextId, busy, runs>>
    /\ UNCHANGED <<up, probe, now, refreshed, wrote, legacy>>

-----------------------------------------------------------------------------
(* Closing, exit and crash of the process; the passing of time.             *)

Close ==
    /\ up = "up"
    /\ up' = "closing"
    /\ runs' = [i \in JobIds |-> IF Active(i) /\ runs[i].phase # "release"
                                 THEN [runs[i] EXCEPT !.cancelled = TRUE] ELSE runs[i]]
    /\ UNCHANGED <<ledger, nextId, busy, sched, probe, now, refreshed, wrote, legacy>>

Down ==
    /\ up' = "down"
    /\ busy' = FALSE
    /\ runs' = [i \in JobIds |-> Idle]
    /\ sched' = Asleep
    /\ probe' = Unprobed
    /\ UNCHANGED <<ledger, nextId, now, refreshed, wrote, legacy>>

\* Close returns once the wait group is empty, and the process exits.
Exit ==
    /\ up = "closing"
    /\ \A i \in JobIds : ~Active(i)
    /\ sched.phase = "idle"
    /\ Down

Crash == up # "down" /\ Down

Tick ==
    /\ now + 1 \in Times
    /\ now' = now + 1
    /\ UNCHANGED <<ledger, nextId, up, busy, runs, sched, probe, refreshed, wrote, legacy>>

Next ==
    \/ Open \/ StartManual \/ ScheduleTick \/ ConfirmSession \/ StartScheduled
    \/ \E i \in JobIds : Worker(i) \/ Timeout(i)
    \/ Close \/ Exit \/ Crash \/ Tick

Spec == Init /\ [][Next]_vars

\* Every source call and every database call of a job is bounded by a timeout,
\* so a running worker keeps taking steps.
FairSpec == Spec /\ WF_vars(\E i \in JobIds : Worker(i))

-----------------------------------------------------------------------------
(* Properties.                                                              *)

\* Every variable keeps its type.
TypeOK ==
    /\ ledger \in [JobIds -> Job]
    /\ nextId \in 1 .. MaxJobs + 1
    /\ up \in {"up", "closing", "down"}
    /\ busy \in BOOLEAN
    /\ runs \in [JobIds -> Run]
    /\ sched \in Plans
    /\ probe \in Probe
    /\ now \in Times
    /\ refreshed \in [Dates -> SUBSET AllSymbols]
    /\ wrote \subseteq JobIds \X {"bars", "issues"} /\ legacy \subseteq {1}

\* The service runs one writing job at a time (docs/research.md:31): whatever
\* requests, ticks and finishing workers interleave, two workers never exist.
SingleWriter ==
    \A i, k \in JobIds : Active(i) /\ Active(k) => i = k

AttemptsOf(d) == {i \in Taken : ledger[i].date = d}

\* A calendar day sees at most MaxAttempts scheduled jobs, across restarts.
AttemptsBounded ==
    \A d \in Dates : Cardinality(AttemptsOf(d)) <= MaxAttempts

\* A later attempt of a day starts only after the earlier one ended without
\* success, and no sooner than Cooldown after that end.
AttemptsSpaced ==
    \A i, k \in Taken :
        i < k /\ ledger[i].date = ledger[k].date /\ ledger[i].date \in Dates =>
            /\ ledger[i].state \in {"partial", "failed", "interrupted"}
            /\ ledger[k].started >= ledger[i].finished + Cooldown

\* What the record of an attempt leaves to the next one: its lists, or
\* everything while it has processed nothing, or nothing at all.
Outstanding(j) ==
    LET left == ToSet(j.retry) \cup ToSet(j.remaining)
    IN IF left = {} /\ j.processed = 0 THEN Symbols ELSE left

\* No configured symbol is ever forgotten: on every day with an attempt, what
\* has not been refreshed is still in what the newest record hands on, through
\* failures, lost saves, timeouts, closes and crashes.
NothingDropped ==
    \A d \in Dates : AttemptsOf(d) # {} /\ AttemptsOf(d) \cap legacy = {} =>
        Symbols \ refreshed[d] \subseteq Outstanding(ledger[Latest(AttemptsOf(d))])

\* A scheduled job exists only for a day on which the exchange was open.
SessionDaysOnly ==
    \A i \in Taken : ledger[i].date \in Dates => ledger[i].date \in OpenDays

\* The verdict of a record is the truth about the data: a failed job committed
\* no bars (docs/research.md:37), though it may have recorded what it put in
\* quarantine; a succeeded job quarantined nothing, and after a scheduled job
\* succeeded its whole day is refreshed.
VerdictHonest ==
    \A i \in Taken :
        /\ ledger[i].state = "failed" /\ i \notin legacy => <<i, "bars">> \notin wrote
        /\ ledger[i].state = "succeeded" /\ i \notin legacy => <<i, "issues">> \notin wrote
        /\ ledger[i].state = "succeeded" /\ ledger[i].date \in Dates =>
              Symbols \subseteq refreshed[ledger[i].date]

\* The error list of an older release is only retried when it is complete: the
\* retry asks for exactly the symbols that record had not refreshed.
LegacyRetryExact ==
    \A i \in JobIds :
        /\ runs[i].phase = "connect" /\ runs[i].job.retryOf \in legacy
        /\ ledger[runs[i].job.retryOf].processed > 0
        => ToSet(Plan(i)) = Symbols \ refreshed[0]

\* The service implements DailyPlan: a day's status is the state of its newest
\* scheduled record.
Status(d) ==
    LET A == AttemptsOf(d)
    IN IF A = {} THEN "none"
       ELSE CASE ledger[Latest(A)].state = "running"   -> "open"
              [] ledger[Latest(A)].state = "succeeded" -> "complete"
              [] OTHER                                 -> "incomplete"

Promise == INSTANCE DailyPlan WITH
    status   <- [d \in Dates |-> Status(d)],
    attempts <- [d \in Dates |-> Cardinality(AttemptsOf(d))]

\* Through crashes, lost saves and restarts the ledger shows a DailyPlan day.
ImplementsDailyPlan == Promise!Spec

\* A job that was accepted always ends, and the writer slot becomes free.
WriterReleased == busy ~> ~busy

\* The symbols an earlier record of the day no longer lists as outstanding
\* although it recorded its plan.
Settled(d) ==
    {s \in Symbols : \E i \in AttemptsOf(d) :
        ledger[i].total > 0 /\ s \notin ToSet(ledger[i].retry \o ledger[i].remaining)}

\* What docs/research.md:36 says of a retry: it covers only failed and
\* unprocessed symbols and does not visit one that succeeded before.
RetriesOnlyOutstanding ==
    [][\A i \in JobIds :
          runs[i].phase = "connect" /\ runs'[i].phase = "loop"
          /\ runs[i].job.date \in Dates =>
            ToSet(runs'[i].todo) \cap Settled(runs[i].job.date) = {}]_vars

=============================================================================
