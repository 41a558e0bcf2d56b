------------------------ MODULE ResearchServiceProofs ------------------------
(* What TLAPS proves of ResearchService for every value of its constants.   *)
EXTENDS ResearchService, TLAPS, FiniteSetTheorems, SequenceTheorems

(***************************************************************************)
(* The constants and the null records.                                     *)
(***************************************************************************)

\* The first slot of the calendar exists.
LEMMA ZeroIsTime == 0 \in Times /\ Times \subseteq Nat
<1>1. LastDay \in Nat /\ SlotsPerDay \in Nat \ {0}
  BY ConstantsOK
<1>2. (LastDay + 1) * SlotsPerDay \in Nat \ {0}
  BY <1>1
<1>3. QED
  BY <1>2 DEF Times

\* NoDate is not a day, so a manual job is an attempt of no day.
LEMMA NoDateIsNoDay == NoDate \notin Dates /\ NoDate \in Nat
  BY ConstantsOK DEF NoDate, Dates

LEMMA NoJobType == NoJob \in Job
<1>1. 0 \in 0 .. MaxJobs
  BY ConstantsOK
<1>2. <<>> \in Seq(AllSymbols)
  OBVIOUS
<1>3. QED
  BY <1>1, <1>2, ZeroIsTime DEF NoJob, Job, Kinds

\* An accepted job is a record of the ledger.
LEMMA NewJobType ==
  ASSUME NEW kind \in Kinds, NEW date \in Dates \cup {NoDate},
         NEW retryOf \in 0 .. MaxJobs, now \in Times
  PROVE  NewJob(kind, date, retryOf) \in Job
  BY NoJobType DEF NewJob, Job

LEMMA InterruptType ==
  ASSUME NEW j \in Job, now \in Times
  PROVE  Interrupt(j) \in Job
<1>1. j.retry \o j.remaining \in Seq(AllSymbols)
  BY DEF Job
<1>2. <<>> \in Seq(AllSymbols)
  OBVIOUS
<1>3. QED
  BY <1>1, <1>2 DEF Interrupt, Job

\* The progress callback keeps the job a record of the ledger.
LEMMA ProgressType ==
  ASSUME NEW j \in Job, NEW s \in AllSymbols, NEW outcome \in Outcomes
  PROVE  Progress(j, s, outcome) \in Job
<1>1. j.remaining # <<>> => Tail(j.remaining) \in Seq(AllSymbols)
  BY DEF Job
<1>2. Append(j.retry, s) \in Seq(AllSymbols)
  BY DEF Job
<1>3. j.errors \cup {s} \in SUBSET AllSymbols
  BY DEF Job
<1>4. j.processed + 1 \in Nat /\ j.rows + 1 \in Nat /\ j.failures + 1 \in Nat
  BY DEF Job
<1>5. QED
  BY <1>1, <1>2, <1>3, <1>4 DEF Progress, Job

LEMMA IdleType == Idle \in Run
<1>1. <<>> \in Seq(AllSymbols)
  OBVIOUS
<1>2. QED
  BY <1>1, NoJobType DEF Idle, Run, Outcomes

LEMMA AsleepType == Asleep \in Plans /\ Unprobed \in Probe
<1>1. <<>> \in Seq(AllSymbols)
  OBVIOUS
<1>2. 0 \in Dates /\ 0 \in 0 .. MaxJobs
  BY ConstantsOK DEF Dates
<1>3. QED
  BY <1>1, <1>2, ZeroIsTime DEF Asleep, Unprobed, Plans, Probe

\* SaveJob writes the given record or nothing.
LEMMA SaveType ==
  ASSUME TypeOK, NEW i \in JobIds, NEW j \in Job, NEW ok \in BOOLEAN,
         NEW cancelled \in BOOLEAN, Save(i, j, ok, cancelled)
  PROVE  ledger' \in [JobIds -> Job]
  BY DEF TypeOK, Save

\* There are finitely many symbols.
LEMMA AllSymbolsFinite == IsFiniteSet(AllSymbols)
<1>1. Universe \o ImportFiles \in Seq(AllSymbols)
  BY ConstantsOK
<1>2. PICK n \in Nat : DOMAIN (Universe \o ImportFiles) = 1 .. n
  BY <1>1
<1> DEFINE f == [k \in 1 .. n |-> (Universe \o ImportFiles)[k]]
<1>3. IsFiniteSet(1 .. n)
  BY FS_Interval
<1>4. f \in Surjection(1 .. n, AllSymbols)
  BY <1>2 DEF AllSymbols, ToSet, Surjection
<1>5. QED
  BY <1>3, <1>4, FS_Surjection

\* The elements an exhaustive listing of a job's error set are symbols.
LEMMA RetryListsType ==
  ASSUME NEW j \in Job, NEW list \in RetryLists(j)
  PROVE  list \in Seq(AllSymbols)
<1>1. CASE NoPlan(j)
  <2>1. j.errors \subseteq AllSymbols
    BY DEF Job
  <2>2. Cardinality(j.errors) \in Nat
    BY <2>1, AllSymbolsFinite, FS_Subset, FS_CardinalityType
  <2>3. list \in [1 .. Cardinality(j.errors) -> AllSymbols]
    BY <1>1, <2>1 DEF RetryLists
  <2>4. QED
    BY <2>2, <2>3, SeqDef
<1>2. CASE ~NoPlan(j)
  BY <1>2 DEF RetryLists, Job
<1>3. QED
  BY <1>1, <1>2

(***************************************************************************)
(* Type correctness.                                                       *)
(***************************************************************************)

LEMMA InitType == Init => TypeOK
<1> SUFFICES ASSUME Init PROVE TypeOK
  OBVIOUS
<1>1. 1 \in JobIds /\ 1 \in 1 .. MaxJobs + 1 /\ 2 \in 1 .. MaxJobs + 1
  BY ConstantsOK DEF JobIds
<1>2. ASSUME NEW h \in Inherited
      PROVE  h.job \in Job /\ h.done \subseteq AllSymbols /\ h.job.finished \in Times
  <2>1. h.job \in Job /\ h.done \subseteq AllSymbols
    BY ConstantsOK
  <2>2. QED
    BY <2>1 DEF Job
<1>3. ledger \in [JobIds -> Job] /\ nextId \in 1 .. MaxJobs + 1
  BY <1>1, <1>2, NoJobType DEF Init
<1>4. now \in Times /\ legacy \subseteq {1} /\ refreshed \in [Dates -> SUBSET AllSymbols]
  BY <1>2, ZeroIsTime DEF Init
<1>5. runs \in [JobIds -> Run] /\ sched \in Plans /\ probe \in Probe
  BY IdleType, AsleepType DEF Init
<1>6. /\ up \in {"up", "closing", "down"} /\ busy \in BOOLEAN
      /\ wrote \subseteq JobIds \X {"bars", "issues"}
  BY DEF Init
<1>7. QED
  BY <1>3, <1>4, <1>5, <1>6 DEF TypeOK

\* Accepting a job keeps the types of what it writes.
LEMMA StartType ==
  ASSUME TypeOK, NEW kind \in Kinds, NEW list \in Seq(AllSymbols),
         NEW date \in Dates \cup {NoDate}, NEW retryOf \in 0 .. MaxJobs,
         Start(kind, list, date, retryOf)
  PROVE  /\ ledger' \in [JobIds -> Job] /\ runs' \in [JobIds -> Run]
         /\ nextId' \in 1 .. MaxJobs + 1 /\ busy' \in BOOLEAN
<1>1. NewJob(kind, date, retryOf) \in Job
  BY NewJobType DEF TypeOK
<1>2. [Idle EXCEPT !.phase = "connect", !.list = list,
                   !.job = NewJob(kind, date, retryOf)] \in Run
  BY <1>1, IdleType DEF Run
<1>3. QED
  BY <1>1, <1>2, ConstantsOK DEF Start, TypeOK, JobIds

LEMMA AttemptsAreJobs ==
  ASSUME TypeOK, NEW d
  PROVE  Attempts(d) \subseteq JobIds /\ AttemptsOf(d) \subseteq JobIds
  BY ConstantsOK DEF TypeOK, Attempts, AttemptsOf, Jobs, Taken, JobIds

\* A non-empty set of job ids has a newest element.
LEMMA LatestExists ==
  ASSUME NEW A, A \subseteq JobIds, A # {}
  PROVE  Latest(A) \in A /\ \A k \in A : k <= Latest(A)
<1>1. PICK n \in A : \A k \in A : k <= n
  <2>1. MaxJobs \in Nat /\ \A k \in A : k \in 1 .. MaxJobs
    BY ConstantsOK DEF JobIds
  <2> DEFINE Above == {m \in Nat : \E k \in A : m = MaxJobs - k}
  <2>2. Above \subseteq Nat /\ Above # {}
    <3>1. PICK k : k \in A
      OBVIOUS
    <3>2. MaxJobs - k \in Nat
      BY <2>1, <3>1
    <3>3. QED
      BY <3>1, <3>2
  <2>3. PICK m \in Above : \A x \in Above : <<x, m>> \notin OpToRel(<, Nat)
    <3> HIDE DEF Above
    <3>1. QED
      BY <2>2, WFMin, NatLessThanWellFounded, Zenon
  <2>4. \A x \in Above : ~(x < m)
    BY <2>2, <2>3, Zenon DEF OpToRel
  <2>5. PICK n \in A : m = MaxJobs - n
    OBVIOUS
  <2>6. ASSUME NEW k \in A PROVE k <= n
    <3>1. MaxJobs - k \in Above
      BY <2>1
    <3>2. ~(MaxJobs - k < MaxJobs - n)
      BY <2>4, <2>5, <3>1
    <3>3. QED
      BY <2>1, <3>2
  <2>7. QED
    BY <2>6
<1>2. QED
  BY <1>1 DEF Latest

\* A worker that reports an outcome still has the symbol at the head of its
\* list; without it the progress callback would be about no symbol.
Visiting == \A i \in JobIds : runs[i].phase = "report" => runs[i].todo # <<>>

\* The steps of a worker that change its own record only.
LEMMA QuietWorkerType ==
  ASSUME TypeOK, NEW i \in JobIds,
         ConnectFails(i) \/ ListFiles(i) \/ Leave(i) \/ Release(i) \/ Timeout(i)
  PROVE  TypeOK'
<1>1. runs \in [JobIds -> Run] /\ runs[i] \in Run
  BY DEF TypeOK
<1>2. runs' \in [JobIds -> Run]
  <2>1. CASE ConnectFails(i)
    BY <1>1, <2>1 DEF ConnectFails, Run
  <2>2. CASE ListFiles(i)
    BY <1>1, <2>2, ConstantsOK DEF ListFiles, Run
  <2>3. CASE Leave(i)
    BY <1>1, <2>3 DEF Leave, Run
  <2>4. CASE Release(i)
    BY <1>1, <2>4, IdleType DEF Release
  <2>5. CASE Timeout(i)
    BY <1>1, <2>5 DEF Timeout, Run
  <2>6. QED
    BY <2>1, <2>2, <2>3, <2>4, <2>5
<1>3. busy' \in BOOLEAN
  BY DEF TypeOK, ConnectFails, ListFiles, Leave, Release, Timeout
<1>4. UNCHANGED <<ledger, nextId, up, sched, probe, now, refreshed, wrote, legacy>>
  BY DEF ConnectFails, ListFiles, Leave, Release, Timeout
<1>5. QED
  BY <1>2, <1>3, <1>4 DEF TypeOK

\* The steps of a worker that save its job.
LEMMA SavingWorkerType ==
  ASSUME TypeOK, Visiting, NEW i \in JobIds,
         Connect(i) \/ Report(i) \/ Finish(i)
  PROVE  TypeOK'
<1>1. /\ runs \in [JobIds -> Run] /\ runs[i] \in Run /\ runs[i].job \in Job
      /\ runs[i].cancelled \in BOOLEAN
  BY DEF TypeOK, Run
<1>2. ledger' \in [JobIds -> Job] /\ runs' \in [JobIds -> Run]
  <2>1. CASE Connect(i)
    <3>1. Plan(i) \in Seq(AllSymbols) /\ Len(Plan(i)) \in Nat
      BY <1>1, ConstantsOK DEF Plan, Run
    <3> DEFINE j == [runs[i].job EXCEPT !.total = Len(Plan(i)), !.remaining = Plan(i)]
    <3>2. j \in Job
      <4> HIDE DEF Plan
      <4>1. QED
        BY <1>1, <3>1 DEF Job
    <3>3. PICK ok \in BOOLEAN :
            /\ Save(i, j, ok, runs[i].cancelled)
            /\ runs' = [runs EXCEPT ![i].job = j,
                          ![i].todo  = IF ok THEN Plan(i) ELSE <<>>,
                          ![i].phase = IF ok THEN "loop" ELSE "finish",
                          ![i].err   = IF ok THEN "none" ELSE "other"]
      BY <2>1 DEF Connect
    <3>4. (IF ok THEN Plan(i) ELSE <<>>) \in Seq(AllSymbols)
      BY <3>1
    <3> HIDE DEF j
    <3>5. ledger' \in [JobIds -> Job]
      BY <1>1, <3>2, <3>3, SaveType
    <3>6. runs' \in [JobIds -> Run]
      BY <1>1, <3>2, <3>3, <3>4 DEF Run
    <3>7. QED
      BY <3>5, <3>6
  <2>2. CASE Report(i)
    <3> DEFINE r == runs[i]
               j == Progress(r.job, Head(r.todo), r.outcome)
               streak == IF r.outcome \in Good THEN 0 ELSE r.streak + 1
    <3>1. r.todo # <<>> => Head(r.todo) \in AllSymbols /\ Tail(r.todo) \in Seq(AllSymbols)
      BY <1>1 DEF Run
    <3>2. r.todo # <<>>
      BY <2>2 DEF Report, Visiting
    <3>3. j \in Job
      BY <1>1, <3>1, <3>2, ProgressType DEF Run
    <3>4. streak \in Nat
      BY <1>1 DEF Run
    <3>5. PICK ok \in BOOLEAN :
            /\ Save(i, j, ok, r.cancelled)
            /\ runs' = [runs EXCEPT ![i].job = j, ![i].todo = Tail(@),
                          ![i].streak = streak,
                          ![i].phase = IF Online(j) /\ streak >= Breaker THEN "finish" ELSE "loop",
                          ![i].err   = IF Online(j) /\ streak >= Breaker THEN "stopped" ELSE "none"]
      BY <2>2 DEF Report
    <3> HIDE DEF j, streak
    <3>6. ledger' \in [JobIds -> Job]
      BY <1>1, <3>3, <3>5, SaveType
    <3>7. runs' \in [JobIds -> Run]
      BY <1>1, <3>1, <3>2, <3>3, <3>4, <3>5 DEF Run
    <3>8. QED
      BY <3>6, <3>7
  <2>3. CASE Finish(i)
    <3> DEFINE r == runs[i]
               j == [r.job EXCEPT !.retry = @ \o r.job.remaining, !.remaining = <<>>,
                                  !.state = Verdict(r.job, r.err), !.error = r.err,
                                  !.finished = now]
    <3>1. r.job.retry \o r.job.remaining \in Seq(AllSymbols) /\ <<>> \in Seq(AllSymbols)
      BY <1>1 DEF Job
    <3>2. /\ Verdict(r.job, r.err) \in {"succeeded", "partial", "failed"}
          /\ r.err \in {"none", "some_failed", "stopped", "other"} /\ now \in Times
      BY <1>1 DEF Verdict, Run, TypeOK
    <3>3. j \in Job
      BY <1>1, <3>1, <3>2 DEF Job
    <3>4. PICK ok \in BOOLEAN :
            /\ Save(i, j, ok, FALSE)
            /\ runs' = [runs EXCEPT ![i] = [Idle EXCEPT !.phase = "release"]]
      BY <2>3 DEF Finish
    <3>5. [Idle EXCEPT !.phase = "release"] \in Run
      BY IdleType DEF Run
    <3> HIDE DEF j
    <3>6. ledger' \in [JobIds -> Job]
      BY <3>3, <3>4, SaveType
    <3>7. QED
      BY <1>1, <3>4, <3>5, <3>6
  <2>4. QED
    BY <2>1, <2>2, <2>3
<1>3. UNCHANGED <<nextId, up, busy, sched, probe, now, refreshed, wrote, legacy>>
  BY DEF Connect, Report, Finish
<1>4. QED
  BY <1>2, <1>3 DEF TypeOK

LEMMA VisitType ==
  ASSUME TypeOK, NEW i \in JobIds, Visit(i)
  PROVE  TypeOK'
<1>1. runs \in [JobIds -> Run] /\ runs[i] \in Run
  BY DEF TypeOK
<1>2. Head(runs[i].todo) \in AllSymbols
  BY <1>1 DEF Run, Visit
<1>3. PICK outcome \in Possible(runs[i].job) :
         /\ runs' = [runs EXCEPT ![i].phase = "report", ![i].outcome = outcome]
         /\ wrote' = wrote \cup ({i} \X Commits(runs[i].job, outcome))
         /\ refreshed' = IF outcome = "ok" /\ runs[i].job.date \in Dates
                         THEN [refreshed EXCEPT ![runs[i].job.date] =
                                 @ \cup {Head(runs[i].todo)}]
                         ELSE refreshed
  BY DEF Visit
<1>4. runs' \in [JobIds -> Run]
  <2>1. outcome \in Outcomes
    BY <1>3 DEF Possible, Outcomes
  <2>2. QED
    BY <1>1, <1>3, <2>1 DEF Run
<1>5. wrote' \subseteq JobIds \X {"bars", "issues"} /\ refreshed' \in [Dates -> SUBSET AllSymbols]
  <2>1. Commits(runs[i].job, outcome) \subseteq {"bars", "issues"}
    BY DEF Commits
  <2>2. QED
    BY <1>2, <1>3, <2>1 DEF TypeOK
<1>6. UNCHANGED <<ledger, nextId, up, busy, sched, probe, now, legacy>>
  BY DEF Visit
<1>7. QED
  BY <1>4, <1>5, <1>6 DEF TypeOK

\* A step of the worker, the scheduler or the process keeps the types.
LEMMA NextType == TypeOK /\ Visiting /\ [Next]_vars => TypeOK'
<1> SUFFICES ASSUME TypeOK, Visiting, [Next]_vars PROVE TypeOK'
  OBVIOUS
<1>1. CASE Open
  <2>1. /\ up' \in {"up", "closing", "down"}
        /\ \E done \in SUBSET Stale :
              ledger' = [i \in JobIds |-> IF i \in done THEN Interrupt(ledger[i])
                                                       ELSE ledger[i]]
    BY <1>1 DEF Open
  <2>2. ledger' \in [JobIds -> Job]
    BY <2>1, InterruptType DEF TypeOK
  <2>3. QED
    BY <1>1, <2>1, <2>2 DEF Open, TypeOK
<1>2. CASE StartManual
  <2>1. PICK q \in Requests : Start(q.kind, q.list, NoDate, 0)
    BY <1>2 DEF StartManual
  <2>2. q.list \in Seq(AllSymbols) /\ q.kind \in Kinds /\ 0 \in 0 .. MaxJobs
    BY <2>1, ConstantsOK
  <2>3. ledger' \in [JobIds -> Job] /\ runs' \in [JobIds -> Run]
        /\ nextId' \in 1 .. MaxJobs + 1 /\ busy' \in BOOLEAN
    BY <2>1, <2>2, StartType
  <2>4. QED
    BY <1>2, <2>3 DEF StartManual, TypeOK
<1>3. CASE ScheduleTick
  <2>1. sched' \in Plans
    <3>1. Today \in Dates
      BY <1>3, ConstantsOK DEF ScheduleTick
    <3>2. CASE Attempts(Today) = {}
      BY <1>3, <3>1, <3>2, AsleepType DEF ScheduleTick, Plans
    <3>3. CASE Attempts(Today) # {}
      <4>1. PICK list \in RetryLists(ledger[Latest(Attempts(Today))]) :
              sched' = [phase |-> "start", date |-> Today, list |-> list,
                        retryOf |-> Latest(Attempts(Today))]
        BY <1>3, <3>3 DEF ScheduleTick
      <4>2. Latest(Attempts(Today)) \in JobIds
        BY <3>3, LatestExists, AttemptsAreJobs
      <4>3. list \in Seq(AllSymbols)
        BY <4>1, <4>2, RetryListsType DEF TypeOK
      <4>4. QED
        BY <3>1, <4>1, <4>2, <4>3, ConstantsOK DEF Plans, JobIds
    <3>4. QED
      BY <3>2, <3>3
  <2>2. QED
    BY <1>3, <2>1 DEF ScheduleTick, TypeOK
<1>4. CASE ConfirmSession
  <2>1. probe' \in Probe
    BY <1>4 DEF ConfirmSession, TypeOK, Plans, Probe
  <2>2. sched' \in Plans
    BY <1>4, AsleepType DEF ConfirmSession, TypeOK, Plans
  <2>3. QED
    BY <1>4, <2>1, <2>2 DEF ConfirmSession, TypeOK
<1>5. CASE StartScheduled
  <2>1. sched' \in Plans
    BY <1>5, AsleepType DEF StartScheduled
  <2>2. /\ sched.date \in Dates \cup {NoDate} /\ sched.retryOf \in 0 .. MaxJobs
        /\ sched.list \in Seq(AllSymbols) /\ "daily" \in Kinds
    BY DEF TypeOK, Plans, Kinds
  <2>3. ledger' \in [JobIds -> Job] /\ runs' \in [JobIds -> Run]
        /\ nextId' \in 1 .. MaxJobs + 1 /\ busy' \in BOOLEAN
    <3>1. CASE Start("daily", sched.list, sched.date, sched.retryOf)
      BY <2>2, <3>1, StartType
    <3>2. CASE UNCHANGED <<ledger, nextId, busy, runs>>
      BY <3>2 DEF TypeOK
    <3>3. QED
      BY <1>5, <3>1, <3>2 DEF StartScheduled
  <2>4. QED
    BY <1>5, <2>1, <2>3 DEF StartScheduled, TypeOK
<1>6. ASSUME NEW i \in JobIds, Worker(i) \/ Timeout(i)
      PROVE  TypeOK'
  BY <1>6, QuietWorkerType, SavingWorkerType, VisitType DEF Worker
<1>7. CASE Close
  <2>1. ASSUME NEW i \in JobIds
        PROVE  runs[i] \in Run /\ [runs[i] EXCEPT !.cancelled = TRUE] \in Run
    BY DEF TypeOK, Run
  <2>2. runs' \in [JobIds -> Run]
    BY <1>7, <2>1 DEF Close
  <2>3. QED
    BY <1>7, <2>2 DEF Close, TypeOK
<1>8. CASE Exit \/ Crash
  <2>1. Down
    BY <1>8 DEF Exit, Crash
  <2>2. runs' \in [JobIds -> Run] /\ sched' \in Plans /\ probe' \in Probe
    BY <2>1, IdleType, AsleepType DEF Down
  <2>3. QED
    BY <2>1, <2>2 DEF Down, TypeOK
<1>9. CASE Tick
  BY <1>9 DEF Tick, TypeOK
<1>10. CASE UNCHANGED vars
  BY <1>10 DEF vars, TypeOK
<1>11. QED
  BY <1>1, <1>2, <1>3, <1>4, <1>5, <1>6, <1>7, <1>8, <1>9, <1>10 DEF Next

LEMMA InitVisiting == Init => Visiting
  BY DEF Init, Visiting, Idle

LEMMA NextVisiting == TypeOK /\ Visiting /\ [Next]_vars => Visiting'
<1> SUFFICES ASSUME TypeOK, Visiting, [Next]_vars PROVE Visiting'
  OBVIOUS
<1>0. runs \in [JobIds -> Run]
  BY DEF TypeOK
<1>1. ASSUME NEW i \in JobIds, Worker(i) \/ Timeout(i)
      PROVE  Visiting'
  <2>1. runs' \in [JobIds -> Run] /\ \A k \in JobIds : k # i => runs'[k] = runs[k]
    <3>1. TypeOK'
      BY <1>1, QuietWorkerType, SavingWorkerType, VisitType DEF Worker
    <3>2. QED
      BY <1>0, <1>1, <3>1 DEF Worker, ConnectFails, Connect, ListFiles, Visit, Report,
                              Leave, Finish, Release, Timeout, TypeOK
  <2>2. runs'[i].phase = "report" => runs'[i].todo # <<>>
    <3>1. CASE Visit(i)
      BY <1>0, <3>1 DEF Visit, Run
    <3>2. CASE Timeout(i)
      BY <1>0, <3>2 DEF Timeout, Visiting, Run
    <3>3. CASE ConnectFails(i) \/ ListFiles(i) \/ Leave(i)
      BY <1>0, <3>3 DEF ConnectFails, ListFiles, Leave, Run
    <3>4. CASE Release(i) \/ Finish(i)
      <4>1. runs'[i] = Idle \/ runs'[i] = [Idle EXCEPT !.phase = "release"]
        BY <1>0, <3>4 DEF Release, Finish
      <4>2. QED
        BY <4>1, IdleType DEF Idle, Run
    <3>5. CASE Connect(i)
      BY <1>0, <3>5 DEF Connect, Run
    <3>6. CASE Report(i)
      BY <1>0, <3>6 DEF Report, Run
    <3>7. QED
      BY <1>1, <3>1, <3>2, <3>3, <3>4, <3>5, <3>6 DEF Worker
  <2>3. QED
    BY <2>1, <2>2 DEF Visiting
<1>2. ASSUME NEW kind, NEW list, NEW date, NEW retryOf, Start(kind, list, date, retryOf)
      PROVE  Visiting'
  BY <1>0, <1>2, IdleType DEF Start, Visiting, Run
<1>3. CASE StartManual
  BY <1>2, <1>3 DEF StartManual
<1>4. CASE StartScheduled
  BY <1>2, <1>4 DEF StartScheduled, Visiting
<1>5. CASE Close
  BY <1>0, <1>5 DEF Close, Visiting, Run
<1>6. CASE Exit \/ Crash
  BY <1>6 DEF Exit, Crash, Down, Visiting, Idle
<1>7. CASE Open \/ ScheduleTick \/ ConfirmSession \/ Tick \/ UNCHANGED vars
  BY <1>7 DEF Open, ScheduleTick, ConfirmSession, Tick, vars, Visiting
<1>8. QED
  BY <1>1, <1>3, <1>4, <1>5, <1>6, <1>7 DEF Next

\* Every variable keeps its type, whatever the universe, the request lists, the
\* bounds and the inherited records are.
THEOREM TypeCorrect == Spec => []TypeOK
<1>1. Init => TypeOK /\ Visiting
  BY InitType, InitVisiting
<1>2. TypeOK /\ Visiting /\ [Next]_vars => TypeOK' /\ Visiting'
  BY NextType, NextVisiting
<1>3. QED
  BY <1>1, <1>2, PTL DEF Spec

(***************************************************************************)
(* One writer.                                                             *)
(***************************************************************************)

\* SingleWriter is not inductive: a second worker starts when busy is clear,
\* so busy has to cover every worker that exists.
WriterInv == SingleWriter /\ \A i \in JobIds : Active(i) => busy

LEMMA InitWriter == Init => WriterInv
  BY DEF Init, WriterInv, SingleWriter, Active, Idle

LEMMA NextWriter == TypeOK /\ WriterInv /\ [Next]_vars => WriterInv'
<1> SUFFICES ASSUME TypeOK, WriterInv, [Next]_vars PROVE WriterInv'
  OBVIOUS
<1>0. runs \in [JobIds -> Run] /\ busy \in BOOLEAN
  BY DEF TypeOK
<1>1. ASSUME NEW kind, NEW list, NEW date, NEW retryOf, Start(kind, list, date, retryOf)
      PROVE  WriterInv'
  <2>1. busy = FALSE /\ busy' = TRUE
    BY <1>0, <1>1 DEF Start, Accepts
  <2>2. \A i \in JobIds : ~Active(i)
    BY <2>1 DEF WriterInv
  <2>3. \A i \in JobIds : i # nextId => runs'[i] = runs[i]
    BY <1>0, <1>1 DEF Start
  <2>4. QED
    BY <2>1, <2>2, <2>3 DEF WriterInv, SingleWriter, Active
<1>2. CASE StartManual
  BY <1>1, <1>2 DEF StartManual
<1>3. CASE StartScheduled
  <2>1. CASE Start("daily", sched.list, sched.date, sched.retryOf)
    BY <1>1, <2>1
  <2>2. CASE UNCHANGED <<ledger, nextId, busy, runs>>
    BY <2>2 DEF WriterInv, SingleWriter, Active
  <2>3. QED
    BY <1>3, <2>1, <2>2 DEF StartScheduled
<1>4. ASSUME NEW i \in JobIds, Worker(i) \/ Timeout(i)
      PROVE  WriterInv'
  <2>1. \A k \in JobIds : k # i => runs'[k] = runs[k]
    BY <1>0, <1>4 DEF Worker, ConnectFails, Connect, ListFiles, Visit, Report, Leave,
                      Finish, Release, Timeout
  <2>2. Active(i)
    BY <1>4 DEF Worker, ConnectFails, Connect, ListFiles, Visit, Report, Leave,
                Finish, Release, Timeout, Active
  <2>3. \A k \in JobIds : k # i => ~Active(k)' 
    BY <2>1, <2>2 DEF WriterInv, SingleWriter, Active
  <2>4. Active(i)' => busy' = busy
    <3>1. CASE Release(i)
      BY <1>0, <3>1 DEF Release, Active, Idle
    <3>2. CASE ~Release(i)
      BY <1>4, <3>2 DEF Worker, ConnectFails, Connect, ListFiles, Visit, Report, Leave,
                        Finish, Timeout
    <3>3. QED
      BY <3>1, <3>2
  <2>5. QED
    BY <2>2, <2>3, <2>4 DEF WriterInv, SingleWriter
<1>5. CASE Close
  <2>1. \A i \in JobIds : Active(i)' => Active(i)
    BY <1>0, <1>5 DEF Close, Active
  <2>2. busy' = busy
    BY <1>5 DEF Close
  <2>3. QED
    BY <2>1, <2>2 DEF WriterInv, SingleWriter
<1>6. CASE Exit \/ Crash
  BY <1>6 DEF Exit, Crash, Down, WriterInv, SingleWriter, Active, Idle
<1>7. CASE Open \/ ScheduleTick \/ ConfirmSession \/ Tick \/ UNCHANGED vars
  BY <1>7 DEF Open, ScheduleTick, ConfirmSession, Tick, vars, WriterInv, SingleWriter, Active
<1>8. QED
  BY <1>2, <1>3, <1>4, <1>5, <1>6, <1>7 DEF Next

\* However requests, ticks, finishing workers and crashes interleave, no two
\* workers exist at the same time.
THEOREM OneWriter == Spec => []SingleWriter
<1>1. Init => TypeOK /\ Visiting /\ WriterInv
  BY InitType, InitVisiting, InitWriter
<1>2. TypeOK /\ Visiting /\ WriterInv /\ [Next]_vars
        => TypeOK' /\ Visiting' /\ WriterInv'
  BY NextType, NextVisiting, NextWriter
<1>3. WriterInv => SingleWriter
  BY DEF WriterInv
<1>4. QED
  BY <1>1, <1>2, <1>3, PTL DEF Spec


(***************************************************************************)
(* The inductive invariant.                                                *)
(***************************************************************************)

\* A worker that may still save writes the record of its own id and day.
OwnRecord ==
    \A i \in JobIds : runs[i].phase \notin {"idle", "release"} =>
        i < nextId /\ runs[i].job.date = ledger[i].date

\* What the scheduler has decided on still has room when it gets to start it:
\* the count is taken when the ledger is read, the attempt is made later.
PlannedHasRoom ==
    sched.phase # "idle" => Cardinality(AttemptsOf(sched.date)) < MaxAttempts

AttemptsInv == TypeOK /\ Visiting /\ OwnRecord /\ PlannedHasRoom /\ AttemptsBounded

LEMMA AttemptsFinite ==
  ASSUME TypeOK, NEW d
  PROVE  IsFiniteSet(AttemptsOf(d)) /\ Cardinality(AttemptsOf(d)) \in Nat
<1>1. IsFiniteSet(JobIds)
  BY ConstantsOK, FS_Interval DEF JobIds
<1>2. QED
  BY <1>1, AttemptsAreJobs, FS_Subset, FS_CardinalityType

\* A step that accepts no job and moves no record to another day.
SameDays ==
    nextId' = nextId /\ \A i \in JobIds : ledger'[i].date = ledger[i].date

LEMMA SameDaysSameAttempts ==
  ASSUME TypeOK, SameDays, NEW d
  PROVE  AttemptsOf(d)' = AttemptsOf(d)
<1>1. Taken' = Taken /\ Taken \subseteq JobIds
  BY ConstantsOK DEF SameDays, Taken, TypeOK, JobIds
<1>2. QED
  BY <1>1 DEF SameDays, AttemptsOf

\* An accepted job is an attempt of its own day and of no other.
LEMMA StartAttempts ==
  ASSUME TypeOK, NEW kind, NEW list, NEW date, NEW retryOf,
         Start(kind, list, date, retryOf), NEW d
  PROVE  /\ AttemptsOf(d)' \subseteq AttemptsOf(d) \cup {nextId}
         /\ d # date => AttemptsOf(d)' = AttemptsOf(d)
<1>1. /\ nextId \in JobIds /\ nextId \in Nat /\ nextId' = nextId + 1
      /\ ledger' = [ledger EXCEPT ![nextId] = NewJob(kind, date, retryOf)]
      /\ ledger \in [JobIds -> Job]
  BY DEF Start, TypeOK, JobIds
<1>2. Taken' = Taken \cup {nextId} /\ nextId \notin Taken /\ Taken \subseteq JobIds
  BY <1>1, ConstantsOK DEF Taken, JobIds
<1>3. NewJob(kind, date, retryOf).date = date
  BY DEF NewJob, NoJob
<1>4. ledger'[nextId].date = date /\ \A i \in Taken : ledger'[i] = ledger[i]
  BY <1>1, <1>2, <1>3
<1>5. QED
  BY <1>2, <1>4 DEF AttemptsOf

LEMMA InterruptKeepsDate ==
  ASSUME NEW j \in Job
  PROVE  Interrupt(j).date = j.date
BY DEF Interrupt, Job

LEMMA ProgressKeepsDate ==
  ASSUME NEW j \in Job, NEW s, NEW outcome
  PROVE  Progress(j, s, outcome).date = j.date
BY DEF Progress, Job

(***************************************************************************)
(* The steps.                                                              *)
(***************************************************************************)

\* A worker's step leaves every record on its day.
LEMMA WorkerSameDays ==
  ASSUME TypeOK, Visiting, OwnRecord, NEW i \in JobIds, Worker(i) \/ Timeout(i)
  PROVE  SameDays /\ OwnRecord' /\ UNCHANGED sched
<1>0. /\ runs \in [JobIds -> Run] /\ runs[i] \in Run /\ runs[i].job \in Job
      /\ ledger \in [JobIds -> Job]
  BY DEF TypeOK, Run
<1>1. UNCHANGED <<nextId, sched>>
  BY DEF Worker, ConnectFails, Connect, ListFiles, Visit, Report, Leave, Finish, Release,
         Timeout
<1>2. \A k \in JobIds : k # i => runs'[k] = runs[k]
  BY <1>0 DEF Worker, ConnectFails, Connect, ListFiles, Visit, Report, Leave, Finish,
              Release, Timeout
<1>3. /\ \A k \in JobIds : ledger'[k].date = ledger[k].date
      /\ runs'[i].phase \notin {"idle", "release"} =>
           runs[i].phase \notin {"idle", "release"} /\ runs'[i].job.date = runs[i].job.date
  <2>1. CASE ConnectFails(i) \/ ListFiles(i) \/ Visit(i) \/ Leave(i) \/ Timeout(i)
    <3>1. UNCHANGED ledger
      BY <2>1 DEF ConnectFails, ListFiles, Visit, Leave, Timeout
    <3>2. runs[i].phase \notin {"idle", "release"}
      BY <2>1 DEF ConnectFails, ListFiles, Visit, Leave, Timeout, Active
    <3>3. runs'[i].job = runs[i].job
      BY <1>0, <2>1 DEF ConnectFails, ListFiles, Visit, Leave, Timeout, Run
    <3>4. QED
      BY <3>1, <3>2, <3>3
  <2>2. CASE Release(i)
    BY <1>0, <2>2 DEF Release, Idle
  <2>3. CASE Connect(i)
    <3> DEFINE j == [runs[i].job EXCEPT !.total = Len(Plan(i)), !.remaining = Plan(i)]
    <3>1. j.date = runs[i].job.date
      BY <1>0 DEF Job
    <3>2. runs[i].phase = "connect" /\ runs'[i].job = j
      BY <1>0, <2>3 DEF Connect, Run
    <3>3. ledger' = [ledger EXCEPT ![i] = j] \/ ledger' = ledger
      BY <2>3 DEF Connect, Save
    <3>4. runs[i].job.date = ledger[i].date
      BY <3>2 DEF OwnRecord
    <3> HIDE DEF j
    <3>5. QED
      BY <1>0, <3>1, <3>2, <3>3, <3>4
  <2>4. CASE Report(i)
    <3> DEFINE j == Progress(runs[i].job, Head(runs[i].todo), runs[i].outcome)
    <3>1. j.date = runs[i].job.date
      BY <1>0, ProgressKeepsDate
    <3>2. runs[i].phase = "report" /\ runs'[i].job = j
      BY <1>0, <2>4 DEF Report, Run
    <3>3. ledger' = [ledger EXCEPT ![i] = j] \/ ledger' = ledger
      BY <2>4 DEF Report, Save
    <3>4. runs[i].job.date = ledger[i].date
      BY <3>2 DEF OwnRecord
    <3> HIDE DEF j
    <3>5. QED
      BY <1>0, <3>1, <3>2, <3>3, <3>4
  <2>5. CASE Finish(i)
    <3> DEFINE r == runs[i]
               j == [r.job EXCEPT !.retry = @ \o r.job.remaining, !.remaining = <<>>,
                                  !.state = Verdict(r.job, r.err), !.error = r.err,
                                  !.finished = now]
    <3>1. j.date = r.job.date
      BY <1>0 DEF Job
    <3>2. runs[i].phase = "finish" /\ runs'[i] = [Idle EXCEPT !.phase = "release"]
      BY <1>0, <2>5 DEF Finish
    <3>3. runs'[i].phase = "release"
      BY <3>2 DEF Idle
    <3>4. ledger' = [ledger EXCEPT ![i] = j] \/ ledger' = ledger
      BY <2>5 DEF Finish, Save
    <3>5. r.job.date = ledger[i].date
      BY <3>2 DEF OwnRecord
    <3> HIDE DEF j
    <3>6. QED
      BY <1>0, <3>1, <3>3, <3>4, <3>5
  <2>6. QED
    BY <2>1, <2>2, <2>3, <2>4, <2>5 DEF Worker
<1>4. OwnRecord'
  BY <1>1, <1>2, <1>3 DEF OwnRecord
<1>5. QED
  BY <1>1, <1>3, <1>4 DEF SameDays

\* Accepting a job gives it a record of its own.
LEMMA StartOwnRecord ==
  ASSUME TypeOK, OwnRecord, NEW kind, NEW list, NEW date, NEW retryOf,
         Start(kind, list, date, retryOf)
  PROVE  OwnRecord'
<1>1. /\ nextId \in JobIds /\ nextId \in Nat /\ nextId' = nextId + 1
      /\ runs \in [JobIds -> Run] /\ ledger \in [JobIds -> Job]
      /\ ledger' = [ledger EXCEPT ![nextId] = NewJob(kind, date, retryOf)]
      /\ runs' = [runs EXCEPT ![nextId] =
                    [Idle EXCEPT !.phase = "connect", !.list = list,
                                 !.job = NewJob(kind, date, retryOf)]]
  BY DEF Start, TypeOK, JobIds
<1>2. runs'[nextId].job = NewJob(kind, date, retryOf)
  BY <1>1 DEF Idle
<1>3. runs'[nextId].job.date = ledger'[nextId].date
  BY <1>1, <1>2
<1>4. ASSUME NEW i \in JobIds, i # nextId, runs'[i].phase \notin {"idle", "release"}
      PROVE  i < nextId' /\ runs'[i].job.date = ledger'[i].date
  BY <1>1, <1>4 DEF OwnRecord, JobIds
<1>5. QED
  BY <1>1, <1>3, <1>4 DEF OwnRecord

\* With the same attempts on every day, counts and rooms stay.
LEMMA SameDaysKeep ==
  ASSUME AttemptsInv, SameDays,
         sched'.phase # "idle" => sched.phase # "idle" /\ sched'.date = sched.date
  PROVE  PlannedHasRoom' /\ AttemptsBounded'
<1>1. \A d : {i \in Taken' : ledger'[i].date = d} = AttemptsOf(d)
  BY SameDaysSameAttempts DEF AttemptsInv, AttemptsOf
<1>2. AttemptsBounded'
  BY <1>1 DEF AttemptsInv, AttemptsBounded, AttemptsOf
<1>3. PlannedHasRoom'
  BY <1>1 DEF AttemptsInv, PlannedHasRoom, AttemptsOf
<1>4. QED
  BY <1>2, <1>3

\* What the tick decides on has room: it counts the day's attempts when it reads
\* the ledger, provided the Jobs query shows the whole of it.
LEMMA TickKeeps ==
  ASSUME MaxJobs <= JobsLimit, AttemptsInv, ScheduleTick
  PROVE  PlannedHasRoom' /\ AttemptsBounded'
<1>1. UNCHANGED <<ledger, nextId>>
  BY DEF ScheduleTick
<1>2. Jobs = Taken
  BY ConstantsOK DEF AttemptsInv, TypeOK, Jobs, Taken
<1>3. Cardinality(AttemptsOf(Today)) < MaxAttempts
  BY <1>2 DEF ScheduleTick, Ready, Room, Attempts, AttemptsOf
<1>4. sched'.date = Today
  <2>1. CASE Attempts(Today) = {}
    BY <2>1 DEF ScheduleTick, Asleep
  <2>2. CASE Attempts(Today) # {}
    <3>1. \E list \in RetryLists(ledger[Latest(Attempts(Today))]) :
            sched' = [phase |-> "start", date |-> Today, list |-> list,
                      retryOf |-> Latest(Attempts(Today))]
      BY <2>2 DEF ScheduleTick
    <3>2. QED
      BY <3>1
  <2>3. QED
    BY <2>1, <2>2
<1>5. PlannedHasRoom'
  BY <1>1, <1>3, <1>4 DEF PlannedHasRoom, AttemptsOf, Taken
<1>6. AttemptsBounded'
  BY <1>1 DEF AttemptsInv, AttemptsBounded, AttemptsOf, Taken
<1>7. QED
  BY <1>5, <1>6

\* An accepted job adds at most one attempt, to its own day.
LEMMA StartKeeps ==
  ASSUME AttemptsInv, NEW kind, NEW list, NEW date, NEW retryOf,
         Start(kind, list, date, retryOf),
         date \in Dates => Cardinality(AttemptsOf(date)) < MaxAttempts
  PROVE  AttemptsBounded'
<1>1. ASSUME NEW d \in Dates PROVE Cardinality(AttemptsOf(d)') <= MaxAttempts
  <2>1. CASE d # date
    <3>1. AttemptsOf(d)' = AttemptsOf(d)
      BY <2>1, StartAttempts DEF AttemptsInv
    <3>2. QED
      BY <3>1 DEF AttemptsInv, AttemptsBounded
  <2>2. CASE d = date
    <3>1. AttemptsOf(d)' \subseteq AttemptsOf(d) \cup {nextId}
      BY StartAttempts DEF AttemptsInv
    <3>2. IsFiniteSet(AttemptsOf(d)) /\ Cardinality(AttemptsOf(d)) \in Nat
      BY AttemptsFinite DEF AttemptsInv
    <3>3. /\ IsFiniteSet(AttemptsOf(d) \cup {nextId})
          /\ Cardinality(AttemptsOf(d) \cup {nextId}) <= Cardinality(AttemptsOf(d)) + 1
      BY <3>2, FS_AddElement
    <3>4. /\ Cardinality(AttemptsOf(d)') <= Cardinality(AttemptsOf(d) \cup {nextId})
          /\ Cardinality(AttemptsOf(d)') \in Nat
      BY <3>1, <3>3, FS_Subset, FS_CardinalityType
    <3>5. Cardinality(AttemptsOf(d) \cup {nextId}) \in Nat
      BY <3>3, FS_CardinalityType
    <3>6. Cardinality(AttemptsOf(d)) < MaxAttempts
      BY <2>2
    <3>7. QED
      BY <3>2, <3>3, <3>4, <3>5, <3>6, ConstantsOK
  <2>3. QED
    BY <2>1, <2>2
<1>2. QED
  BY <1>1 DEF AttemptsBounded

LEMMA AttemptsStep ==
  ASSUME MaxJobs <= JobsLimit, AttemptsInv, [Next]_vars
  PROVE  AttemptsInv'
<1>1. TypeOK' /\ Visiting'
  BY NextType, NextVisiting DEF AttemptsInv
<1>2. OwnRecord' /\ PlannedHasRoom' /\ AttemptsBounded'
  <2>1. CASE StartManual
    <3>1. PICK q \in Requests : Start(q.kind, q.list, NoDate, 0)
      BY <2>1 DEF StartManual
    <3>2. OwnRecord'
      BY <3>1, StartOwnRecord DEF AttemptsInv
    <3>3. AttemptsBounded'
      BY <3>1, StartKeeps, NoDateIsNoDay
    <3>4. ASSUME sched.phase # "idle" PROVE Cardinality(AttemptsOf(sched.date)') < MaxAttempts
      <4>1. sched.date # NoDate
        BY NoDateIsNoDay DEF AttemptsInv, TypeOK, Plans
      <4>2. {i \in Taken' : ledger'[i].date = sched.date} = AttemptsOf(sched.date)
        BY <3>1, <4>1, StartAttempts DEF AttemptsInv, AttemptsOf
      <4>3. sched' = sched
        BY <2>1 DEF StartManual
      <4>4. QED
        BY <3>4, <4>2, <4>3 DEF AttemptsInv, PlannedHasRoom, AttemptsOf
    <3>5. PlannedHasRoom'
      BY <2>1, <3>4 DEF StartManual, PlannedHasRoom
    <3>6. QED
      BY <3>2, <3>3, <3>5
  <2>2. CASE StartScheduled
    <3>1. sched.phase # "idle" /\ sched' = Asleep
      BY <2>2 DEF StartScheduled
    <3>2. PlannedHasRoom'
      BY <3>1 DEF PlannedHasRoom, Asleep
    <3>3. CASE Start("daily", sched.list, sched.date, sched.retryOf)
      <4>1. OwnRecord'
        BY <3>3, StartOwnRecord DEF AttemptsInv
      <4>2. AttemptsBounded'
        BY <3>1, <3>3, StartKeeps DEF AttemptsInv, PlannedHasRoom
      <4>3. QED
        BY <3>2, <4>1, <4>2
    <3>4. CASE UNCHANGED <<ledger, nextId, busy, runs>>
      BY <3>2, <3>4 DEF AttemptsInv, OwnRecord, AttemptsBounded, AttemptsOf, Taken
    <3>5. QED
      BY <2>2, <3>3, <3>4 DEF StartScheduled
  <2>3. CASE ScheduleTick
    <3>1. OwnRecord'
      BY <2>3 DEF ScheduleTick, AttemptsInv, OwnRecord
    <3>2. QED
      BY <2>3, <3>1, TickKeeps
  <2>4. CASE Open
    <3>1. PICK done \in SUBSET Stale :
            ledger' = [i \in JobIds |-> IF i \in done THEN Interrupt(ledger[i]) ELSE ledger[i]]
      BY <2>4 DEF Open
    <3>2. \A i \in JobIds : ledger'[i].date = ledger[i].date
      BY <3>1, InterruptKeepsDate DEF AttemptsInv, TypeOK
    <3>3. UNCHANGED <<nextId, runs, sched>>
      BY <2>4 DEF Open
    <3>4. OwnRecord'
      BY <3>2, <3>3 DEF AttemptsInv, OwnRecord
    <3>5. QED
      BY <3>2, <3>3, <3>4, SameDaysKeep DEF SameDays
  <2>5. ASSUME NEW i \in JobIds, Worker(i) \/ Timeout(i)
        PROVE  OwnRecord' /\ PlannedHasRoom' /\ AttemptsBounded'
    <3>1. SameDays /\ OwnRecord' /\ UNCHANGED sched
      BY <2>5, WorkerSameDays DEF AttemptsInv
    <3>2. QED
      BY <3>1, SameDaysKeep
  <2>6. CASE ConfirmSession
    <3>1. UNCHANGED <<ledger, nextId, runs>>
      BY <2>6 DEF ConfirmSession
    <3>2. sched.phase = "probe" /\ (sched' = [sched EXCEPT !.phase = "start"] \/ sched' = Asleep)
      BY <2>6 DEF ConfirmSession
    <3>3. sched'.phase # "idle" => sched'.date = sched.date
      BY <3>2 DEF Asleep, AttemptsInv, TypeOK, Plans
    <3>4. OwnRecord'
      BY <3>1 DEF AttemptsInv, OwnRecord
    <3>5. QED
      BY <3>1, <3>2, <3>3, <3>4, SameDaysKeep DEF SameDays
  <2>7. CASE Close
    <3>1. UNCHANGED <<ledger, nextId, sched>>
      BY <2>7 DEF Close
    <3>2. \A i \in JobIds : runs'[i].phase = runs[i].phase /\ runs'[i].job = runs[i].job
      BY <2>7 DEF Close, AttemptsInv, TypeOK, Run
    <3>3. OwnRecord'
      BY <3>1, <3>2 DEF AttemptsInv, OwnRecord
    <3>4. QED
      BY <3>1, <3>3, SameDaysKeep DEF SameDays
  <2>8. CASE Exit \/ Crash
    <3>1. /\ UNCHANGED <<ledger, nextId>> /\ sched' = Asleep
          /\ runs' = [i \in JobIds |-> Idle]
      BY <2>8 DEF Exit, Crash, Down
    <3>2. OwnRecord' /\ sched'.phase = "idle"
      BY <3>1 DEF OwnRecord, Idle, Asleep
    <3>3. QED
      BY <3>1, <3>2, SameDaysKeep DEF SameDays
  <2>9. CASE Tick \/ UNCHANGED vars
    <3>1. UNCHANGED <<ledger, nextId, runs, sched>>
      BY <2>9 DEF Tick, vars
    <3>2. OwnRecord'
      BY <3>1 DEF AttemptsInv, OwnRecord
    <3>3. QED
      BY <3>1, <3>2, SameDaysKeep DEF SameDays
  <2>10. QED
    BY <2>1, <2>2, <2>3, <2>4, <2>5, <2>6, <2>7, <2>8, <2>9 DEF Next
<1>3. QED
  BY <1>1, <1>2 DEF AttemptsInv

LEMMA InitAttempts == Init => AttemptsInv
<1> SUFFICES ASSUME Init PROVE AttemptsInv
  OBVIOUS
<1>1. TypeOK /\ Visiting
  BY InitType, InitVisiting
<1>2. OwnRecord /\ PlannedHasRoom
  BY DEF Init, OwnRecord, PlannedHasRoom, Idle, Asleep
<1>3. ASSUME NEW d \in Dates PROVE Cardinality(AttemptsOf(d)) <= MaxAttempts
  <2>1. AttemptsOf(d) \in SUBSET {1}
    BY DEF Init, AttemptsOf, Taken
  <2>2. IsFiniteSet({1}) /\ Cardinality({1}) = 1
    BY FS_Singleton
  <2>3. Cardinality(AttemptsOf(d)) <= 1 /\ Cardinality(AttemptsOf(d)) \in Nat
    BY <2>1, <2>2, FS_Subset, FS_CardinalityType
  <2>4. QED
    BY <2>3, ConstantsOK
<1>4. QED
  BY <1>1, <1>2, <1>3 DEF AttemptsInv, AttemptsBounded

\* A day never sees more than MaxAttempts scheduled jobs, through failed saves,
\* interrupted attempts, restarts and manual jobs in between, as long as no more
\* jobs exist than the Jobs query returns.
THEOREM AttemptsAreBounded ==
  ASSUME MaxJobs <= JobsLimit
  PROVE  Spec => []AttemptsBounded
<1>1. AttemptsInv /\ [Next]_vars => AttemptsInv'
  BY AttemptsStep
<1>2. AttemptsInv => AttemptsBounded
  BY DEF AttemptsInv
<1>3. QED
  BY <1>1, <1>2, InitAttempts, PTL DEF Spec

(***************************************************************************)
(* What the job ledger promises, for every value of the constants under     *)
(* which the Jobs query does not cut the ledger off: the attempts of a day  *)
(* follow one another, nothing is dropped between them, the verdicts are    *)
(* true, and the whole implements DailyPlan.                                *)
(***************************************************************************)

(***************************************************************************)
(* What the steps do to the records.                                       *)
(***************************************************************************)

\* The records a worker saves: its whole plan, its progress, its verdict.
PlanJob(i)   == [runs[i].job EXCEPT !.total = Len(Plan(i)), !.remaining = Plan(i)]
ReportJob(i) == Progress(runs[i].job, Head(runs[i].todo), runs[i].outcome)
FinalJob(i)  == [runs[i].job EXCEPT !.retry = @ \o runs[i].job.remaining, !.remaining = <<>>,
                                    !.state = Verdict(runs[i].job, runs[i].err),
                                    !.error = runs[i].err, !.finished = now]

\* What every record of a worker keeps of the record it was started with.
SameAttempt(j, k) ==
    j.date = k.date /\ j.started = k.started /\ j.kind = k.kind /\ j.retryOf = k.retryOf

LEMMA NewJobFields ==
  ASSUME NEW kind, NEW date, NEW retryOf
  PROVE  LET j == NewJob(kind, date, retryOf)
         IN /\ j.kind = kind /\ j.date = date /\ j.retryOf = retryOf /\ j.started = now
            /\ j.state = "running" /\ j.retry = <<>> /\ j.remaining = <<>>
            /\ j.processed = 0 /\ j.failures = 0 /\ j.rows = 0
BY DEF NewJob, NoJob

LEMMA InterruptFields ==
  ASSUME NEW j \in Job
  PROVE  /\ SameAttempt(Interrupt(j), j)
         /\ Interrupt(j).state = "interrupted" /\ Interrupt(j).error = "interrupted"
         /\ Interrupt(j).finished = now
         /\ Interrupt(j).retry = j.retry \o j.remaining /\ Interrupt(j).remaining = <<>>
         /\ Interrupt(j).processed = j.processed /\ Interrupt(j).total = j.total
         /\ Interrupt(j).failures = j.failures /\ Interrupt(j).errors = j.errors
BY DEF Interrupt, Job, SameAttempt

LEMMA PlanJobFields ==
  ASSUME TypeOK, NEW i \in JobIds
  PROVE  LET j == PlanJob(i)
             k == runs[i].job
         IN /\ SameAttempt(j, k) /\ j.state = k.state /\ j.remaining = Plan(i)
            /\ j.retry = k.retry /\ j.processed = k.processed /\ j.failures = k.failures
            /\ j.rows = k.rows
<1>1. runs[i].job \in Job
  BY DEF TypeOK, Run
<1> HIDE DEF Plan
<1>2. QED
  BY <1>1 DEF PlanJob, Job, SameAttempt

LEMMA ReportJobFields ==
  ASSUME TypeOK, NEW i \in JobIds
  PROVE  LET r == runs[i]
             j == ReportJob(i)
             k == r.job
         IN /\ SameAttempt(j, k) /\ j.state = k.state
            /\ j.remaining = IF k.remaining = <<>> THEN <<>> ELSE Tail(k.remaining)
            /\ j.retry = IF r.outcome \in Good THEN k.retry ELSE Append(k.retry, Head(r.todo))
            /\ j.processed = k.processed + 1
            /\ j.failures = IF r.outcome \in Good THEN k.failures ELSE k.failures + 1
            /\ j.rows = IF r.outcome \in WithBars THEN k.rows + 1 ELSE k.rows
<1>1. runs[i].job \in Job
  BY DEF TypeOK, Run
<1>2. QED
  BY <1>1 DEF ReportJob, Progress, Job, SameAttempt

LEMMA FinalJobFields ==
  ASSUME TypeOK, NEW i \in JobIds
  PROVE  LET j == FinalJob(i)
             k == runs[i].job
         IN /\ SameAttempt(j, k) /\ j.state = Verdict(k, runs[i].err)
            /\ j.retry = k.retry \o k.remaining /\ j.remaining = <<>>
            /\ j.processed = k.processed /\ j.finished = now
<1>1. runs[i].job \in Job
  BY DEF TypeOK, Run
<1> HIDE DEF Verdict
<1>2. QED
  BY <1>1 DEF FinalJob, Job, SameAttempt

\* A verdict is one of three, and success is the absence of an error.
LEMMA VerdictValues ==
  ASSUME NEW j, NEW err
  PROVE  /\ Verdict(j, err) \in {"succeeded", "partial", "failed"}
         /\ Verdict(j, err) = "succeeded" <=> err = "none"
         /\ Verdict(j, err) = "failed" => ~(j.rows > 0)
BY DEF Verdict

\* The steps of a worker, field by field.
LEMMA RunTyped ==
  ASSUME TypeOK, NEW i \in JobIds
  PROVE  /\ runs \in [JobIds -> Run] /\ runs[i] \in Run /\ runs[i].job \in Job
         /\ ledger \in [JobIds -> Job] /\ ledger[i] \in Job
BY DEF TypeOK, Run

\* Nothing of another worker or another record is touched.
LEMMA WorkerStep ==
  ASSUME TypeOK, NEW i \in JobIds, Worker(i) \/ Timeout(i)
  PROVE  /\ UNCHANGED <<nextId, up, sched, probe, now, legacy>>
         /\ Active(i)
         /\ \A k \in JobIds : k # i => runs'[k] = runs[k] /\ ledger'[k] = ledger[k]
<1>1. runs \in [JobIds -> Run] /\ ledger \in [JobIds -> Job]
  BY DEF TypeOK
<1>2. QED
  BY <1>1 DEF Worker, ConnectFails, Connect, ListFiles, Visit, Report, Leave, Finish, Release,
              Timeout, Active, Save

LEMMA ConnectStep ==
  ASSUME TypeOK, NEW i \in JobIds, Connect(i)
  PROVE  /\ runs[i].phase = "connect" /\ Online(runs[i].job)
         /\ runs'[i].job = PlanJob(i)
         /\ UNCHANGED <<refreshed, wrote>>
         /\ \/ /\ ledger'[i] = PlanJob(i)
               /\ runs'[i].phase = "loop" /\ runs'[i].todo = Plan(i)
            \/ /\ ledger' = ledger
               /\ runs'[i].phase = "finish" /\ runs'[i].err = "other"
<1>1. runs \in [JobIds -> Run] /\ runs[i] \in Run /\ ledger \in [JobIds -> Job]
  BY RunTyped
<1>2. PICK ok \in BOOLEAN :
        /\ Save(i, PlanJob(i), ok, runs[i].cancelled)
        /\ runs' = [runs EXCEPT ![i].job = PlanJob(i),
                      ![i].todo  = IF ok THEN Plan(i) ELSE <<>>,
                      ![i].phase = IF ok THEN "loop" ELSE "finish",
                      ![i].err   = IF ok THEN "none" ELSE "other"]
  BY DEF Connect, PlanJob
<1>3. /\ runs'[i].job = PlanJob(i) /\ runs'[i].todo = (IF ok THEN Plan(i) ELSE <<>>)
      /\ runs'[i].phase = (IF ok THEN "loop" ELSE "finish")
      /\ runs'[i].err = (IF ok THEN "none" ELSE "other")
  BY <1>1, <1>2 DEF Run
<1>4. ledger' = (IF ok THEN [ledger EXCEPT ![i] = PlanJob(i)] ELSE ledger)
  BY <1>2 DEF Save
<1>5. QED
  BY <1>1, <1>3, <1>4 DEF Connect

LEMMA ReportStep ==
  ASSUME TypeOK, Visiting, NEW i \in JobIds, Report(i)
  PROVE  /\ runs[i].phase = "report" /\ runs[i].todo # <<>>
         /\ runs'[i].job = ReportJob(i) /\ runs'[i].todo = Tail(runs[i].todo)
         /\ \/ runs'[i].phase = "loop"
            \/ runs'[i].phase = "finish" /\ runs'[i].err = "stopped"
         /\ ledger'[i] \in {ledger[i], ReportJob(i)}
         /\ UNCHANGED <<refreshed, wrote>>
<1>1. runs \in [JobIds -> Run] /\ runs[i] \in Run /\ ledger \in [JobIds -> Job]
  BY RunTyped
<1> DEFINE streak == IF runs[i].outcome \in Good THEN 0 ELSE runs[i].streak + 1
           stop   == Online(ReportJob(i)) /\ streak >= Breaker
<1>2. PICK ok \in BOOLEAN :
        /\ Save(i, ReportJob(i), ok, runs[i].cancelled)
        /\ runs' = [runs EXCEPT ![i].job = ReportJob(i), ![i].todo = Tail(@),
                      ![i].streak = streak,
                      ![i].phase = IF stop THEN "finish" ELSE "loop",
                      ![i].err   = IF stop THEN "stopped" ELSE "none"]
  BY DEF Report, ReportJob
<1> HIDE DEF stop, streak
<1>3. /\ runs'[i].job = ReportJob(i) /\ runs'[i].todo = Tail(runs[i].todo)
      /\ runs'[i].phase = (IF stop THEN "finish" ELSE "loop")
      /\ runs'[i].err = (IF stop THEN "stopped" ELSE "none")
  BY <1>1, <1>2 DEF Run
<1>4. ledger' = (IF ok THEN [ledger EXCEPT ![i] = ReportJob(i)] ELSE ledger)
  BY <1>2 DEF Save
<1>5. QED
  BY <1>1, <1>3, <1>4 DEF Report, Visiting

LEMMA FinishStep ==
  ASSUME TypeOK, NEW i \in JobIds, Finish(i)
  PROVE  /\ runs[i].phase = "finish" /\ runs'[i].phase = "release"
         /\ ledger'[i] \in {ledger[i], FinalJob(i)}
         /\ UNCHANGED <<refreshed, wrote>>
<1>1. runs \in [JobIds -> Run] /\ ledger \in [JobIds -> Job]
  BY DEF TypeOK
<1>2. PICK ok \in BOOLEAN :
        /\ Save(i, FinalJob(i), ok, FALSE)
        /\ runs' = [runs EXCEPT ![i] = [Idle EXCEPT !.phase = "release"]]
  BY DEF Finish, FinalJob
<1>3. runs'[i] = [Idle EXCEPT !.phase = "release"]
  BY <1>1, <1>2
<1>4. runs'[i].phase = "release"
  BY <1>3 DEF Idle
<1>5. ledger' = (IF ok THEN [ledger EXCEPT ![i] = FinalJob(i)] ELSE ledger)
  BY <1>2 DEF Save
<1>6. QED
  BY <1>1, <1>4, <1>5 DEF Finish

\* The steps of a worker that save nothing.
LEMMA QuietStep ==
  ASSUME TypeOK, NEW i \in JobIds,
         ConnectFails(i) \/ ListFiles(i) \/ Visit(i) \/ Leave(i) \/ Timeout(i)
  PROVE  /\ ledger' = ledger /\ runs[i].phase \notin {"idle", "release"}
         /\ runs'[i].phase \notin {"idle", "release"}
         /\ runs'[i].job = runs[i].job /\ runs'[i].list = runs[i].list
<1>1. runs \in [JobIds -> Run] /\ runs[i] \in Run
  BY RunTyped
<1>2. QED
  BY <1>1 DEF ConnectFails, ListFiles, Visit, Leave, Timeout, Active, Run

LEMMA ReleaseStep ==
  ASSUME TypeOK, NEW i \in JobIds, Release(i)
  PROVE  UNCHANGED <<ledger, refreshed, wrote>> /\ runs'[i].phase = "idle"
<1>1. runs \in [JobIds -> Run]
  BY DEF TypeOK
<1>2. QED
  BY <1>1 DEF Release, Idle

\* An accepted job, its record and its worker.
LEMMA StartStep ==
  ASSUME TypeOK, NEW kind, NEW list, NEW date, NEW retryOf,
         Start(kind, list, date, retryOf)
  PROVE  /\ nextId \in JobIds /\ nextId \in Nat \ {0} /\ nextId' = nextId + 1
         /\ up = "up" /\ busy = FALSE
         /\ ledger'[nextId] = NewJob(kind, date, retryOf)
         /\ runs'[nextId].phase = "connect" /\ runs'[nextId].list = list
         /\ runs'[nextId].job = NewJob(kind, date, retryOf)
         /\ \A k \in JobIds : k # nextId => runs'[k] = runs[k] /\ ledger'[k] = ledger[k]
         /\ Taken' = Taken \cup {nextId} /\ nextId \notin Taken /\ Taken \subseteq JobIds
<1>1. /\ nextId \in JobIds /\ nextId \in Nat \ {0} /\ nextId' = nextId + 1
      /\ up = "up" /\ busy = FALSE
      /\ runs \in [JobIds -> Run] /\ ledger \in [JobIds -> Job]
      /\ ledger' = [ledger EXCEPT ![nextId] = NewJob(kind, date, retryOf)]
      /\ runs' = [runs EXCEPT ![nextId] =
                    [Idle EXCEPT !.phase = "connect", !.list = list,
                                 !.job = NewJob(kind, date, retryOf)]]
  BY DEF Start, Accepts, TypeOK, JobIds
<1>2. /\ runs'[nextId].phase = "connect" /\ runs'[nextId].list = list
      /\ runs'[nextId].job = NewJob(kind, date, retryOf)
  BY <1>1 DEF Idle
<1>3. Taken' = Taken \cup {nextId} /\ nextId \notin Taken /\ Taken \subseteq JobIds
  BY <1>1, ConstantsOK DEF Taken, JobIds
<1>4. QED
  BY <1>1, <1>2, <1>3

\* What the ledger shows of it.
LEMMA StartRecord ==
  ASSUME TypeOK, NEW kind, NEW list, NEW date, NEW retryOf,
         Start(kind, list, date, retryOf)
  PROVE  /\ ledger'[nextId].date = date /\ ledger'[nextId].started = now
         /\ ledger'[nextId].state = "running"
         /\ Taken' = Taken \cup {nextId} /\ nextId \notin Taken
         /\ \A i \in Taken : ledger'[i] = ledger[i]
<1>1. /\ nextId \in JobIds /\ nextId \in Nat \ {0} /\ nextId' = nextId + 1
      /\ up = "up" /\ busy = FALSE
      /\ ledger'[nextId] = NewJob(kind, date, retryOf)
      /\ runs'[nextId].phase = "connect" /\ runs'[nextId].list = list
      /\ runs'[nextId].job = NewJob(kind, date, retryOf)
      /\ \A k \in JobIds : k # nextId => runs'[k] = runs[k] /\ ledger'[k] = ledger[k]
      /\ Taken' = Taken \cup {nextId} /\ nextId \notin Taken /\ Taken \subseteq JobIds
  BY StartStep
<1>2. LET j == NewJob(kind, date, retryOf)
      IN j.date = date /\ j.started = now /\ j.state = "running"
  BY NewJobFields
<1>3. QED
  BY <1>1, <1>2

\* The restart interrupts some of the records a dead process left running.
LEMMA OpenStep ==
  ASSUME TypeOK, Open
  PROVE  /\ up = "down"
         /\ UNCHANGED <<nextId, busy, runs, sched, probe, now, refreshed, wrote, legacy>>
         /\ \A i \in JobIds : \/ ledger'[i] = ledger[i]
                              \/ ledger[i].state = "running" /\ ledger'[i] = Interrupt(ledger[i])
BY DEF Open, Stale, TypeOK

(***************************************************************************)
(* Workers and the records they write.                                     *)
(***************************************************************************)

\* Every record was started, and an ended one has handed on its plan.
RecordsSettled ==
    /\ legacy \subseteq Taken /\ wrote \subseteq Taken \X {"bars", "issues"}
    /\ \A i \in Taken : /\ ledger[i].state # "absent"
                        /\ ledger[i].state # "running" => ledger[i].remaining = <<>>

\* A worker belongs to the newest job of a live process, and its record says
\* "running" until it has saved its verdict.
NewestWorks ==
    /\ up = "down" => sched.phase = "idle"
    /\ \A i \in JobIds : Active(i) => i = nextId - 1 /\ i \notin legacy /\ up # "down"
    /\ \A i \in JobIds : runs[i].phase \notin {"idle", "release"} =>
         /\ ledger[i].state = "running" /\ runs[i].job.state = "running"
         /\ runs[i].job.started = ledger[i].started /\ runs[i].job.date = ledger[i].date

WorkInv == RecordsSettled /\ NewestWorks

LEMMA InitWork == Init => WorkInv
<1> SUFFICES ASSUME Init PROVE WorkInv
  OBVIOUS
<1>1. NewestWorks
  BY DEF Init, NewestWorks, Active, Idle, Asleep
<1>2. RecordsSettled
  <2>1. CASE nextId = 1 /\ legacy = {}
    BY <2>1 DEF Init, RecordsSettled, Taken
  <2>2. ASSUME NEW h \in Inherited, nextId = 2, legacy = {1},
               ledger = [i \in JobIds |-> IF i = 1 THEN h.job ELSE NoJob]
        PROVE  RecordsSettled
    <3>1. Taken = {1} /\ 1 \in JobIds
      BY <2>2, ConstantsOK DEF Taken, JobIds
    <3>2. h.job.state # "absent" /\ h.job.remaining = <<>>
      BY ConstantsOK, InheritedOK
    <3>3. QED
      BY <2>2, <3>1, <3>2 DEF Init, RecordsSettled
  <2>3. QED
    BY <2>1, <2>2 DEF Init
<1>3. QED
  BY <1>1, <1>2 DEF WorkInv

\* The slot is free when a job is accepted, so no other worker exists.
LEMMA StartWork ==
  ASSUME TypeOK, WriterInv, WorkInv, NEW kind, NEW list, NEW date, NEW retryOf,
         Start(kind, list, date, retryOf),
         UNCHANGED <<up, wrote, legacy>>, sched' = sched \/ sched' = Asleep
  PROVE  WorkInv'
<1>1. /\ nextId \in JobIds /\ nextId \in Nat \ {0} /\ nextId' = nextId + 1
      /\ up = "up" /\ busy = FALSE
      /\ ledger'[nextId] = NewJob(kind, date, retryOf)
      /\ runs'[nextId].phase = "connect" /\ runs'[nextId].list = list
      /\ runs'[nextId].job = NewJob(kind, date, retryOf)
      /\ \A k \in JobIds : k # nextId => runs'[k] = runs[k] /\ ledger'[k] = ledger[k]
      /\ Taken' = Taken \cup {nextId} /\ nextId \notin Taken /\ Taken \subseteq JobIds
  BY StartStep
<1>2. NewJob(kind, date, retryOf).state = "running"
  BY NewJobFields
<1>3. RecordsSettled'
  <2>1. legacy' \subseteq Taken' /\ wrote' \subseteq Taken' \X {"bars", "issues"}
    BY <1>1 DEF WorkInv, RecordsSettled
  <2>2. ASSUME NEW i \in Taken'
        PROVE  /\ ledger'[i].state # "absent"
               /\ ledger'[i].state # "running" => ledger'[i].remaining = <<>>
    <3>1. CASE i = nextId
      BY <1>1, <1>2, <3>1
    <3>2. CASE i # nextId
      BY <1>1, <3>2 DEF WorkInv, RecordsSettled
    <3>3. QED
      BY <3>1, <3>2
  <2>3. QED
    BY <2>1, <2>2 DEF RecordsSettled
<1>4. NewestWorks'
  <2>1. \A i \in JobIds : runs[i].phase = "idle"
    BY <1>1 DEF WriterInv, Active
  <2>2. \A i \in JobIds : runs'[i].phase # "idle" => i = nextId
    BY <1>1, <2>1
  <2>3. nextId \notin legacy' /\ nextId = nextId' - 1
    BY <1>1 DEF WorkInv, RecordsSettled
  <2>4. QED
    BY <1>1, <1>2, <2>2, <2>3 DEF NewestWorks, Active
<1>5. QED
  BY <1>3, <1>4 DEF WorkInv

LEMMA WorkerWork ==
  ASSUME TypeOK, Visiting, WriterInv, WorkInv, NEW i \in JobIds, Worker(i) \/ Timeout(i)
  PROVE  WorkInv'
<1>1. /\ UNCHANGED <<nextId, up, sched, legacy>> /\ Active(i)
      /\ \A k \in JobIds : k # i => runs'[k] = runs[k] /\ ledger'[k] = ledger[k]
  BY WorkerStep
<1>2. i = nextId - 1 /\ i \notin legacy /\ up # "down" /\ i \in Taken /\ Taken \subseteq JobIds
  BY <1>1, ConstantsOK DEF WorkInv, NewestWorks, Taken, TypeOK, JobIds
<1>3. /\ wrote' \subseteq wrote \cup ({i} \X {"bars", "issues"})
      /\ ledger'[i].state # "absent"
      /\ ledger'[i].state # "running" => ledger'[i].remaining = <<>>
      /\ runs'[i].phase \notin {"idle", "release"} =>
           /\ ledger'[i].state = "running" /\ runs'[i].job.state = "running"
           /\ runs'[i].job.started = ledger'[i].started
           /\ runs'[i].job.date = ledger'[i].date
  <2>0. /\ ledger[i].state # "absent"
        /\ ledger[i].state # "running" => ledger[i].remaining = <<>>
        /\ runs[i].phase \notin {"idle", "release"} =>
             /\ ledger[i].state = "running" /\ runs[i].job.state = "running"
             /\ runs[i].job.started = ledger[i].started /\ runs[i].job.date = ledger[i].date
    BY <1>2 DEF WorkInv, NewestWorks, RecordsSettled
  <2>1. CASE ConnectFails(i) \/ ListFiles(i) \/ Visit(i) \/ Leave(i) \/ Timeout(i)
    <3>1. wrote' \subseteq wrote \cup ({i} \X {"bars", "issues"})
      BY <2>1 DEF ConnectFails, ListFiles, Visit, Leave, Timeout, Commits
    <3>2. QED
      BY <2>0, <2>1, <3>1, QuietStep
  <2>2. CASE Connect(i)
    BY <2>0, <2>2, ConnectStep, PlanJobFields DEF SameAttempt
  <2>3. CASE Report(i)
    BY <2>0, <2>3, ReportStep, ReportJobFields DEF SameAttempt
  <2>4. CASE Finish(i)
    <3>1. /\ FinalJob(i).state \in {"succeeded", "partial", "failed"}
          /\ FinalJob(i).remaining = <<>>
      BY FinalJobFields, VerdictValues
    <3>2. QED
      BY <2>0, <2>4, <3>1, FinishStep
  <2>5. CASE Release(i)
    BY <2>0, <2>5, ReleaseStep
  <2>6. QED
    BY <1>1, <2>1, <2>2, <2>3, <2>4, <2>5 DEF Worker
<1>4. RecordsSettled'
  <2>1. Taken' = Taken
    BY <1>1 DEF Taken
  <2>2. QED
    BY <1>1, <1>2, <1>3, <2>1 DEF WorkInv, RecordsSettled
<1>5. NewestWorks'
  BY <1>1, <1>2, <1>3 DEF WorkInv, NewestWorks, Active
<1>6. QED
  BY <1>4, <1>5 DEF WorkInv

\* The other steps leave the ledger alone and start no worker.
LEMMA CalmWork ==
  ASSUME TypeOK, WorkInv, UNCHANGED <<ledger, nextId, wrote, legacy>>,
         up' = "down" => sched'.phase = "idle" /\ \A i \in JobIds : runs'[i] = Idle,
         \A i \in JobIds : /\ runs'[i].phase # "idle" =>
                                runs'[i].phase = runs[i].phase /\ runs'[i].job = runs[i].job
  PROVE  WorkInv'
<1>1. RecordsSettled'
  BY DEF WorkInv, RecordsSettled, Taken
<1>2. NewestWorks'
  BY DEF WorkInv, NewestWorks, Active, Idle
<1>3. QED
  BY <1>1, <1>2 DEF WorkInv

LEMMA NextWork ==
  ASSUME TypeOK, Visiting, WriterInv, WorkInv, [Next]_vars
  PROVE  WorkInv'
<1>1. CASE StartManual
  BY <1>1, StartWork DEF StartManual
<1>2. CASE StartScheduled
  <2>1. CASE Start("daily", sched.list, sched.date, sched.retryOf)
    BY <1>2, <2>1, StartWork DEF StartScheduled
  <2>2. CASE UNCHANGED <<ledger, nextId, busy, runs>>
    <3>1. sched' = Asleep /\ UNCHANGED <<up, wrote, legacy>>
      BY <1>2 DEF StartScheduled
    <3>2. sched.phase # "idle" /\ up # "down"
      BY <1>2 DEF StartScheduled, WorkInv, NewestWorks
    <3>3. QED
      BY <2>2, <3>1, <3>2, CalmWork
  <2>3. QED
    BY <1>2, <2>1, <2>2 DEF StartScheduled
<1>3. ASSUME NEW i \in JobIds, Worker(i) \/ Timeout(i) PROVE WorkInv'
  BY <1>3, WorkerWork
<1>4. CASE Open
  <2>1. /\ up = "down"
        /\ UNCHANGED <<nextId, runs, sched, wrote, legacy>>
        /\ \A i \in JobIds : \/ ledger'[i] = ledger[i]
                             \/ ledger[i].state = "running" /\ ledger'[i] = Interrupt(ledger[i])
    BY <1>4, OpenStep
  <2>2. ASSUME NEW i \in JobIds
        PROVE  Interrupt(ledger[i]).state = "interrupted" /\ Interrupt(ledger[i]).remaining = <<>>
    BY InterruptFields, RunTyped
  <2>3. Taken \subseteq JobIds /\ Taken' = Taken
    BY <2>1, ConstantsOK DEF TypeOK, Taken, JobIds
  <2>4. RecordsSettled'
    <3>1. ASSUME NEW i \in Taken
          PROVE  /\ ledger'[i].state # "absent"
                 /\ ledger'[i].state # "running" => ledger'[i].remaining = <<>>
      BY <2>1, <2>2, <2>3 DEF WorkInv, RecordsSettled
    <3>2. QED
      BY <2>1, <2>3, <3>1 DEF WorkInv, RecordsSettled
  <2>5. \A i \in JobIds : ~Active(i)
    BY <2>1 DEF WorkInv, NewestWorks
  <2>6. NewestWorks'
    BY <2>1, <2>5 DEF WorkInv, NewestWorks, Active
  <2>7. QED
    BY <2>4, <2>6 DEF WorkInv
<1>5. CASE ScheduleTick
  <2>1. up = "up" /\ UNCHANGED <<ledger, nextId, up, runs, wrote, legacy>>
    BY <1>5 DEF ScheduleTick
  <2>2. QED
    BY <2>1, CalmWork
<1>6. CASE ConfirmSession
  <2>1. UNCHANGED <<ledger, nextId, up, runs, wrote, legacy>> /\ sched.phase # "idle"
    BY <1>6 DEF ConfirmSession
  <2>2. up # "down"
    BY <2>1 DEF WorkInv, NewestWorks
  <2>3. QED
    BY <2>1, <2>2, CalmWork
<1>7. CASE Close
  <2>1. UNCHANGED <<ledger, nextId, wrote, legacy>> /\ up' = "closing"
    BY <1>7 DEF Close
  <2>2. \A i \in JobIds : runs'[i].phase = runs[i].phase /\ runs'[i].job = runs[i].job
    BY <1>7 DEF Close, TypeOK, Run
  <2>3. QED
    BY <2>1, <2>2, CalmWork
<1>8. CASE Exit \/ Crash
  <2>1. /\ UNCHANGED <<ledger, nextId, wrote, legacy>>
        /\ sched' = Asleep /\ runs' = [i \in JobIds |-> Idle]
    BY <1>8 DEF Exit, Crash, Down
  <2>2. QED
    BY <2>1, CalmWork DEF Asleep, Idle
<1>9. CASE Tick \/ UNCHANGED vars
  <2>1. UNCHANGED <<ledger, nextId, wrote, legacy, up, sched, runs>>
    BY <1>9 DEF Tick, vars
  <2>2. QED
    BY <2>1 DEF WorkInv, RecordsSettled, NewestWorks, Taken, Active
<1>10. QED
  BY <1>1, <1>2, <1>3, <1>4, <1>5, <1>6, <1>7, <1>8, <1>9 DEF Next

(***************************************************************************)
(* The attempts of a day follow one another.                               *)
(***************************************************************************)

\* What the scheduler found when it read the ledger still holds when it gets to
\* start the attempt: every earlier one has ended and cooled down.
PlannedReady ==
    sched.phase # "idle" =>
        \A i \in AttemptsOf(sched.date) :
            ledger[i].state \notin {"succeeded", "running"} /\ Cooled(ledger[i])

SpacedInv == PlannedReady /\ AttemptsSpaced

LEMMA TakenAreJobs ==
  ASSUME TypeOK
  PROVE  Taken \subseteq JobIds /\ nextId \in Nat \ {0}
BY ConstantsOK DEF TypeOK, Taken, JobIds

\* The Jobs query shows the whole ledger.
LEMMA JobsShowAll ==
  ASSUME MaxJobs <= JobsLimit, TypeOK
  PROVE  Jobs = Taken /\ \A d : Attempts(d) = AttemptsOf(d)
<1>1. Jobs = Taken
  BY ConstantsOK DEF TypeOK, Jobs, Taken
<1>2. QED
  BY <1>1 DEF Attempts, AttemptsOf

\* A tick that decides to do something decides it about today.
LEMMA TickStep ==
  ASSUME TypeOK, ScheduleTick
  PROVE  /\ Ready(Today) /\ Today \in Dates /\ up = "up" /\ sched.phase = "idle"
         /\ UNCHANGED <<ledger, nextId, up, busy, runs, probe, now, refreshed, wrote, legacy>>
         /\ sched'.date = Today
         /\ \/ /\ Attempts(Today) = {} /\ sched'.phase = "probe"
               /\ sched'.list = <<>> /\ sched'.retryOf = 0
            \/ /\ Attempts(Today) # {} /\ sched'.phase = "start"
               /\ sched'.list \in RetryLists(ledger[Latest(Attempts(Today))])
               /\ sched'.retryOf = Latest(Attempts(Today))
<1>1. /\ Ready(Today) /\ Today \in Weekdays /\ up = "up" /\ sched.phase = "idle"
      /\ UNCHANGED <<ledger, nextId, up, busy, runs, probe, now, refreshed, wrote, legacy>>
  BY DEF ScheduleTick
<1>2. Today \in Dates
  BY <1>1, ConstantsOK
<1>3. CASE Attempts(Today) = {}
  <2>1. sched' = [Asleep EXCEPT !.phase = "probe", !.date = Today]
    BY <1>3 DEF ScheduleTick
  <2>2. QED
    BY <1>1, <1>2, <1>3, <2>1 DEF Asleep
<1>4. CASE Attempts(Today) # {}
  <2>1. PICK list \in RetryLists(ledger[Latest(Attempts(Today))]) :
          sched' = [phase |-> "start", date |-> Today, list |-> list,
                    retryOf |-> Latest(Attempts(Today))]
    BY <1>4 DEF ScheduleTick
  <2>2. QED
    BY <1>1, <1>2, <1>4, <2>1
<1>5. QED
  BY <1>3, <1>4

\* A worker's step keeps the day and the start of its record, and once the
\* record has left "running" it keeps all of it.
LEMMA WorkerRecord ==
  ASSUME TypeOK, Visiting, WorkInv, NEW i \in JobIds, Worker(i) \/ Timeout(i)
  PROVE  /\ i = nextId - 1
         /\ ledger'[i].date = ledger[i].date /\ ledger'[i].started = ledger[i].started
         /\ ledger'[i] # ledger[i] => ledger[i].state = "running"
<1>1. i = nextId - 1
  BY WorkerStep DEF WorkInv, NewestWorks
<1>2. runs[i].phase \notin {"idle", "release"} =>
        /\ ledger[i].state = "running"
        /\ runs[i].job.started = ledger[i].started /\ runs[i].job.date = ledger[i].date
  BY DEF WorkInv, NewestWorks
<1>3. CASE ConnectFails(i) \/ ListFiles(i) \/ Visit(i) \/ Leave(i) \/ Timeout(i)
  BY <1>1, <1>3, QuietStep
<1>4. CASE Connect(i)
  BY <1>1, <1>2, <1>4, ConnectStep, PlanJobFields DEF SameAttempt
<1>5. CASE Report(i)
  BY <1>1, <1>2, <1>5, ReportStep, ReportJobFields DEF SameAttempt
<1>6. CASE Finish(i)
  BY <1>1, <1>2, <1>6, FinishStep, FinalJobFields DEF SameAttempt
<1>7. CASE Release(i)
  BY <1>1, <1>7, ReleaseStep
<1>8. QED
  BY <1>3, <1>4, <1>5, <1>6, <1>7 DEF Worker

LEMMA InitSpaced == Init => SpacedInv
<1> SUFFICES ASSUME Init PROVE SpacedInv
  OBVIOUS
<1>1. \A i, k \in Taken : ~(i < k)
  BY DEF Init, Taken
<1>2. QED
  BY <1>1 DEF Init, SpacedInv, PlannedReady, AttemptsSpaced, Asleep

\* Steps that touch no record.
LEMMA CalmSpaced ==
  ASSUME SpacedInv, UNCHANGED <<ledger, nextId, now>>,
         sched'.phase # "idle" => sched.phase # "idle" /\ sched'.date = sched.date
  PROVE  SpacedInv'
<1>1. AttemptsSpaced'
  BY DEF SpacedInv, AttemptsSpaced, Taken
<1>2. PlannedReady'
  BY DEF SpacedInv, PlannedReady, AttemptsOf, Taken, Cooled
<1>3. QED
  BY <1>1, <1>2 DEF SpacedInv

LEMMA NextSpaced ==
  ASSUME MaxJobs <= JobsLimit, AttemptsInv, WriterInv, WorkInv, SpacedInv, [Next]_vars
  PROVE  SpacedInv'
<1>0. /\ TypeOK /\ Visiting /\ Taken \subseteq JobIds /\ nextId \in Nat \ {0}
      /\ ledger \in [JobIds -> Job]
  BY TakenAreJobs DEF AttemptsInv, TypeOK
<1>1. CASE StartManual
  <2>1. PICK q \in Requests : Start(q.kind, q.list, NoDate, 0)
    BY <1>1 DEF StartManual
  <2>2. /\ ledger'[nextId].date = NoDate /\ ledger'[nextId].started = now
        /\ ledger'[nextId].state = "running"
        /\ Taken' = Taken \cup {nextId} /\ nextId \notin Taken
        /\ \A i \in Taken : ledger'[i] = ledger[i]
    BY <1>0, <2>1, StartRecord
  <2>3. AttemptsSpaced'
    <3>1. ASSUME NEW i \in Taken', NEW n \in Taken', i < n,
                 ledger'[i].date = ledger'[n].date, ledger'[i].date \in Dates
          PROVE  /\ ledger'[i].state \in {"partial", "failed", "interrupted"}
                 /\ ledger'[n].started >= ledger'[i].finished + Cooldown
      <4>1. i \in Taken /\ n \in Taken
        BY <2>2, <3>1, NoDateIsNoDay
      <4>2. QED
        BY <2>2, <3>1, <4>1 DEF SpacedInv, AttemptsSpaced
    <3>2. QED
      BY <3>1 DEF AttemptsSpaced
  <2>4. PlannedReady'
    <3>1. UNCHANGED <<sched, now>>
      BY <1>1 DEF StartManual
    <3>2. ASSUME sched.phase # "idle", NEW i \in Taken', ledger'[i].date = sched.date
          PROVE  ledger'[i].state \notin {"succeeded", "running"}
                 /\ now >= ledger'[i].finished + Cooldown
      <4>1. sched.date \in Dates
        BY <1>0 DEF TypeOK, Plans
      <4>2. i \in Taken
        BY <2>2, <3>2, <4>1, NoDateIsNoDay
      <4>3. i \in AttemptsOf(sched.date) /\ ledger'[i] = ledger[i]
        BY <2>2, <3>2, <4>2 DEF AttemptsOf
      <4>4. QED
        BY <3>2, <4>3 DEF SpacedInv, PlannedReady, Cooled
    <3>3. QED
      BY <3>1, <3>2 DEF PlannedReady, AttemptsOf, Cooled
  <2>5. QED
    BY <2>3, <2>4 DEF SpacedInv
<1>2. CASE StartScheduled
  <2>1. sched.phase = "start" /\ sched' = Asleep /\ UNCHANGED now
    BY <1>2 DEF StartScheduled
  <2>2. CASE UNCHANGED <<ledger, nextId, busy, runs>>
    BY <2>1, <2>2, CalmSpaced DEF Asleep
  <2>3. CASE Start("daily", sched.list, sched.date, sched.retryOf)
    <3>1. /\ ledger'[nextId].date = sched.date /\ ledger'[nextId].started = now
          /\ ledger'[nextId].state = "running"
          /\ Taken' = Taken \cup {nextId} /\ nextId \notin Taken
          /\ \A i \in Taken : ledger'[i] = ledger[i]
      BY <1>0, <2>3, StartRecord
    <3>2. ASSUME NEW i \in Taken', NEW n \in Taken', i < n,
                 ledger'[i].date = ledger'[n].date, ledger'[i].date \in Dates
          PROVE  /\ ledger'[i].state \in {"partial", "failed", "interrupted"}
                 /\ ledger'[n].started >= ledger'[i].finished + Cooldown
      <4>1. i \in Taken /\ ledger'[i] = ledger[i]
        BY <1>0, <3>1, <3>2 DEF Taken
      <4>2. CASE n = nextId
        <5>1. i \in AttemptsOf(sched.date)
          BY <3>1, <3>2, <4>1, <4>2 DEF AttemptsOf
        <5>2. ledger[i].state \notin {"succeeded", "running"} /\ now >= ledger[i].finished + Cooldown
          BY <2>1, <5>1 DEF SpacedInv, PlannedReady, Cooled
        <5>3. ledger[i].state # "absent" /\ ledger[i] \in Job
          BY <1>0, <4>1 DEF WorkInv, RecordsSettled
        <5>4. QED
          BY <3>1, <4>1, <4>2, <5>2, <5>3 DEF Job
      <4>3. CASE n # nextId
        BY <3>1, <3>2, <4>1, <4>3 DEF SpacedInv, AttemptsSpaced
      <4>4. QED
        BY <4>2, <4>3
    <3>3. AttemptsSpaced'
      BY <3>2 DEF AttemptsSpaced
    <3>4. QED
      BY <2>1, <3>3 DEF SpacedInv, PlannedReady, Asleep
  <2>4. QED
    BY <1>2, <2>2, <2>3 DEF StartScheduled
<1>3. ASSUME NEW w \in JobIds, Worker(w) \/ Timeout(w)
      PROVE  SpacedInv'
  <2>1. /\ UNCHANGED <<nextId, sched, now>>
        /\ \A k \in JobIds : k # w => ledger'[k] = ledger[k]
    BY <1>0, <1>3, WorkerStep
  <2>2. /\ w = nextId - 1
        /\ ledger'[w].date = ledger[w].date /\ ledger'[w].started = ledger[w].started
        /\ ledger'[w] # ledger[w] => ledger[w].state = "running"
    BY <1>0, <1>3, WorkerRecord
  <2>3. Taken' = Taken
    BY <2>1 DEF Taken
  <2>4. ASSUME NEW i \in Taken, NEW n \in Taken, i < n,
               ledger'[i].date = ledger'[n].date, ledger'[i].date \in Dates
        PROVE  /\ ledger'[i].state \in {"partial", "failed", "interrupted"}
               /\ ledger'[n].started >= ledger'[i].finished + Cooldown
    <3>1. i # w
      BY <1>0, <2>2, <2>4 DEF Taken
    <3>2. ledger'[i] = ledger[i]
      BY <1>0, <2>1, <3>1
    <3>3. ledger'[n].date = ledger[n].date /\ ledger'[n].started = ledger[n].started
      BY <1>0, <2>1, <2>2
    <3>4. QED
      BY <2>4, <3>2, <3>3 DEF SpacedInv, AttemptsSpaced
  <2>5. AttemptsSpaced'
    BY <2>3, <2>4 DEF AttemptsSpaced
  <2>6. ASSUME sched.phase # "idle", NEW i \in Taken, ledger'[i].date = sched.date
        PROVE  ledger'[i].state \notin {"succeeded", "running"}
               /\ now >= ledger'[i].finished + Cooldown
    <3>1. ledger'[i].date = ledger[i].date
      BY <1>0, <2>1, <2>2
    <3>2. /\ ledger[i].state \notin {"succeeded", "running"}
          /\ now >= ledger[i].finished + Cooldown
      BY <2>6, <3>1 DEF SpacedInv, PlannedReady, AttemptsOf, Cooled
    <3>3. ledger'[i] = ledger[i]
      BY <1>0, <2>1, <2>2, <3>2
    <3>4. QED
      BY <3>2, <3>3
  <2>7. PlannedReady'
    BY <2>1, <2>3, <2>6 DEF PlannedReady, AttemptsOf, Cooled
  <2>8. QED
    BY <2>5, <2>7 DEF SpacedInv
<1>4. CASE Open
  <2>1. /\ up = "down" /\ UNCHANGED <<nextId, sched>>
        /\ \A i \in JobIds : \/ ledger'[i] = ledger[i]
                             \/ ledger[i].state = "running" /\ ledger'[i] = Interrupt(ledger[i])
    BY <1>0, <1>4, OpenStep
  <2>2. \A i \in JobIds : /\ Interrupt(ledger[i]).date = ledger[i].date
                          /\ Interrupt(ledger[i]).started = ledger[i].started
    BY <1>0, InterruptFields DEF SameAttempt
  <2>3. sched'.phase = "idle"
    BY <2>1 DEF WorkInv, NewestWorks
  <2>4. ASSUME NEW i \in Taken, NEW n \in Taken, i < n,
               ledger'[i].date = ledger'[n].date, ledger'[i].date \in Dates
        PROVE  /\ ledger'[i].state \in {"partial", "failed", "interrupted"}
               /\ ledger'[n].started >= ledger'[i].finished + Cooldown
    <3>1. /\ ledger'[i].date = ledger[i].date /\ ledger'[n].date = ledger[n].date
          /\ ledger'[n].started = ledger[n].started
      BY <1>0, <2>1, <2>2
    <3>2. /\ ledger[i].state \in {"partial", "failed", "interrupted"}
          /\ ledger[n].started >= ledger[i].finished + Cooldown
      BY <2>4, <3>1 DEF SpacedInv, AttemptsSpaced
    <3>3. ledger'[i] = ledger[i]
      BY <1>0, <2>1, <3>2
    <3>4. QED
      BY <3>1, <3>2, <3>3
  <2>5. AttemptsSpaced'
    BY <2>1, <2>4 DEF AttemptsSpaced, Taken
  <2>6. QED
    BY <2>3, <2>5 DEF SpacedInv, PlannedReady
<1>5. CASE ScheduleTick
  <2>1. Ready(Today) /\ UNCHANGED <<ledger, nextId, now>> /\ sched'.date = Today
    BY <1>0, <1>5, TickStep
  <2>2. \A i \in AttemptsOf(Today) :
           ledger[i].state \notin {"succeeded", "running"} /\ Cooled(ledger[i])
    BY <1>0, <2>1, JobsShowAll DEF Ready
  <2>3. PlannedReady'
    BY <2>1, <2>2 DEF PlannedReady, AttemptsOf, Taken, Cooled
  <2>4. AttemptsSpaced'
    BY <2>1 DEF SpacedInv, AttemptsSpaced, Taken
  <2>5. QED
    BY <2>3, <2>4 DEF SpacedInv
<1>6. CASE ConfirmSession
  <2>1. sched.phase = "probe" /\ (sched' = [sched EXCEPT !.phase = "start"] \/ sched' = Asleep)
    BY <1>6 DEF ConfirmSession
  <2>2. sched'.phase # "idle" => sched'.date = sched.date
    BY <1>0, <2>1 DEF Asleep, TypeOK, Plans
  <2>3. UNCHANGED <<ledger, nextId, now>>
    BY <1>6 DEF ConfirmSession
  <2>4. QED
    BY <2>1, <2>2, <2>3, CalmSpaced
<1>7. CASE Close \/ Exit \/ Crash \/ UNCHANGED vars
  <2>1. UNCHANGED <<ledger, nextId, now>> /\ (sched' = sched \/ sched' = Asleep)
    BY <1>7 DEF Close, Exit, Crash, Down, vars
  <2>2. QED
    BY <2>1, CalmSpaced DEF Asleep
<1>8. CASE Tick
  <2>1. UNCHANGED <<ledger, nextId, sched>> /\ now' = now + 1
    BY <1>8 DEF Tick
  <2>2. now \in Nat /\ Cooldown \in Nat /\ \A i \in Taken : ledger[i].finished \in Nat
    BY <1>0, ZeroIsTime, ConstantsOK DEF TypeOK, Job
  <2>3. \A i \in Taken : now >= ledger[i].finished + Cooldown
                           => now + 1 >= ledger[i].finished + Cooldown
    BY <2>2
  <2>4. PlannedReady'
    BY <2>1, <2>3 DEF SpacedInv, PlannedReady, AttemptsOf, Taken, Cooled
  <2>5. AttemptsSpaced'
    BY <2>1 DEF SpacedInv, AttemptsSpaced, Taken
  <2>6. QED
    BY <2>4, <2>5 DEF SpacedInv
<1>9. QED
  BY <1>1, <1>2, <1>3, <1>4, <1>5, <1>6, <1>7, <1>8 DEF Next

(***************************************************************************)
(* Scheduled jobs exist only for days the exchange was open.               *)
(***************************************************************************)

\* The probe's cached answer and the decision that waits to be started are
\* about an open day; a retry inherits that from the attempt it retries.
SessionInv ==
    /\ probe.open => probe.date \in OpenDays
    /\ sched.phase = "start" => sched.date \in OpenDays
    /\ SessionDaysOnly

LEMMA InitSession ==
  ASSUME Inherited = {} \/ 0 \in OpenDays
  PROVE  Init => SessionInv
<1> SUFFICES ASSUME Init PROVE SessionInv
  OBVIOUS
<1>1. ~probe.open /\ sched.phase = "idle"
  BY DEF Init, Unprobed, Asleep
<1>2. ASSUME NEW i \in Taken, ledger[i].date \in Dates PROVE ledger[i].date \in OpenDays
  <2>1. PICK h \in Inherited : ledger = [k \in JobIds |-> IF k = 1 THEN h.job ELSE NoJob]
    BY <1>2 DEF Init, Taken
  <2>2. nextId = 1 \/ nextId = 2
    BY DEF Init
  <2>3. i = 1 /\ 1 \in JobIds
    BY <1>2, <2>2, ConstantsOK DEF Taken, JobIds
  <2>4. ledger[i].date = 0
    BY <2>1, <2>3, ConstantsOK
  <2>5. QED
    BY <2>1, <2>4
<1>3. QED
  BY <1>1, <1>2 DEF SessionInv, SessionDaysOnly

LEMMA NextSession ==
  ASSUME TypeOK, Visiting, WorkInv, SessionInv, [Next]_vars
  PROVE  SessionInv'
<1>0. Taken \subseteq JobIds /\ ledger \in [JobIds -> Job]
  BY TakenAreJobs DEF TypeOK
<1>1. ASSUME UNCHANGED nextId, \A i \in JobIds : ledger'[i].date = ledger[i].date
      PROVE  SessionDaysOnly'
  BY <1>0, <1>1 DEF SessionInv, SessionDaysOnly, Taken
<1>2. CASE StartManual
  <2>1. PICK q \in Requests : Start(q.kind, q.list, NoDate, 0)
    BY <1>2 DEF StartManual
  <2>2. /\ ledger'[nextId].date = NoDate /\ ledger'[nextId].started = now
        /\ ledger'[nextId].state = "running"
        /\ Taken' = Taken \cup {nextId} /\ nextId \notin Taken
        /\ \A i \in Taken : ledger'[i] = ledger[i]
    BY <2>1, StartRecord
  <2>3. SessionDaysOnly'
    BY <2>2, NoDateIsNoDay DEF SessionInv, SessionDaysOnly
  <2>4. QED
    BY <1>2, <2>3 DEF StartManual, SessionInv
<1>3. CASE StartScheduled
  <2>1. sched.phase = "start" /\ sched' = Asleep /\ UNCHANGED probe
    BY <1>3 DEF StartScheduled
  <2>2. SessionDaysOnly'
    <3>1. CASE UNCHANGED <<ledger, nextId, busy, runs>>
      BY <1>1, <3>1
    <3>2. CASE Start("daily", sched.list, sched.date, sched.retryOf)
      <4>1. /\ ledger'[nextId].date = sched.date /\ ledger'[nextId].started = now
            /\ ledger'[nextId].state = "running"
            /\ Taken' = Taken \cup {nextId} /\ nextId \notin Taken
            /\ \A i \in Taken : ledger'[i] = ledger[i]
        BY <3>2, StartRecord
      <4>2. QED
        BY <2>1, <4>1 DEF SessionInv, SessionDaysOnly
    <3>3. QED
      BY <1>3, <3>1, <3>2 DEF StartScheduled
  <2>3. QED
    BY <2>1, <2>2 DEF SessionInv, Asleep
<1>4. CASE ScheduleTick
  <2>1. /\ UNCHANGED <<ledger, nextId, probe>> /\ sched'.date = Today /\ Today \in Dates
        /\ sched'.phase = "start" => Attempts(Today) # {}
    BY <1>4, TickStep
  <2>2. ASSUME NEW i \in Attempts(Today) PROVE Today \in OpenDays
    BY <2>1 DEF Attempts, Jobs, SessionInv, SessionDaysOnly
  <2>3. QED
    BY <1>1, <2>1, <2>2 DEF SessionInv
<1>5. CASE ConfirmSession
  <2>1. UNCHANGED <<ledger, nextId>>
    BY <1>5 DEF ConfirmSession
  <2>2. PICK seen \in BOOLEAN :
          /\ seen => sched.date \in OpenDays
          /\ probe' = IF probe.date = sched.date /\ now < probe.at + Cooldown THEN probe
                      ELSE [date |-> sched.date, at |-> now, open |-> seen]
          /\ sched' = IF probe'.open THEN [sched EXCEPT !.phase = "start"] ELSE Asleep
    BY <1>5 DEF ConfirmSession
  <2>3. probe'.open => probe'.date \in OpenDays /\ probe'.date = sched.date
    BY <2>2 DEF SessionInv
  <2>4. sched'.phase = "start" => sched'.date \in OpenDays
    BY <2>2, <2>3 DEF Asleep, TypeOK, Plans
  <2>5. QED
    BY <1>1, <2>1, <2>3, <2>4 DEF SessionInv
<1>6. ASSUME NEW i \in JobIds, Worker(i) \/ Timeout(i)
      PROVE  SessionInv'
  <2>1. /\ UNCHANGED <<nextId, sched, probe>>
        /\ \A k \in JobIds : k # i => ledger'[k] = ledger[k]
    BY <1>6, WorkerStep
  <2>2. ledger'[i].date = ledger[i].date
    BY <1>6, WorkerRecord
  <2>3. QED
    BY <1>1, <2>1, <2>2 DEF SessionInv
<1>7. CASE Open
  <2>1. /\ UNCHANGED <<nextId, sched, probe>>
        /\ \A i \in JobIds : \/ ledger'[i] = ledger[i]
                             \/ ledger[i].state = "running" /\ ledger'[i] = Interrupt(ledger[i])
    BY <1>7, OpenStep
  <2>2. \A i \in JobIds : Interrupt(ledger[i]).date = ledger[i].date
    BY <1>0, InterruptFields DEF SameAttempt
  <2>3. QED
    BY <1>1, <2>1, <2>2 DEF SessionInv
<1>8. CASE Close \/ Tick \/ UNCHANGED vars
  <2>1. UNCHANGED <<ledger, nextId, sched, probe>>
    BY <1>8 DEF Close, Tick, vars
  <2>2. QED
    BY <1>1, <2>1 DEF SessionInv
<1>9. CASE Exit \/ Crash
  <2>1. UNCHANGED <<ledger, nextId>> /\ sched' = Asleep /\ probe' = Unprobed
    BY <1>9 DEF Exit, Crash, Down
  <2>2. QED
    BY <1>1, <2>1 DEF SessionInv, Asleep, Unprobed
<1>10. QED
  BY <1>2, <1>3, <1>4, <1>5, <1>6, <1>7, <1>8, <1>9 DEF Next

\* A scheduled job exists only for a day on which the exchange was open: the
\* probe's cached answer is never used for another day, and a retry is made only
\* where an attempt was.  What an older release left must be of an open day.
THEOREM JobsOnSessionDays ==
  ASSUME Inherited = {} \/ 0 \in OpenDays
  PROVE  Spec => []SessionDaysOnly
<1> DEFINE Inv == TypeOK /\ Visiting /\ WriterInv /\ WorkInv /\ SessionInv
<1>1. Init => Inv
  BY InitType, InitVisiting, InitWriter, InitWork, InitSession
<1>2. Inv /\ [Next]_vars => Inv'
  BY NextType, NextVisiting, NextWriter, NextWork, NextSession
<1>3. Inv => SessionDaysOnly
  BY DEF SessionInv
<1>4. QED
  BY <1>1, <1>2, <1>3, PTL DEF Spec

\* A later attempt of a day starts only after every earlier one has ended without
\* success and Cooldown has passed since, across restarts, failed saves and the
\* time between the tick's look at the ledger and the start, as long as no more
\* jobs exist than the Jobs query returns.
THEOREM AttemptsAreSpaced ==
  ASSUME MaxJobs <= JobsLimit
  PROVE  Spec => []AttemptsSpaced
<1> DEFINE Inv == AttemptsInv /\ WriterInv /\ WorkInv /\ SpacedInv
<1>1. Init => Inv
  BY InitAttempts, InitWriter, InitWork, InitSpaced
<1>2. Inv /\ [Next]_vars => Inv'
  <2> SUFFICES ASSUME Inv, [Next]_vars PROVE Inv'
    OBVIOUS
  <2>1. TypeOK /\ Visiting
    BY DEF AttemptsInv
  <2>2. AttemptsInv'
    BY AttemptsStep
  <2>3. WriterInv' /\ WorkInv'
    BY <2>1, NextWriter, NextWork
  <2>4. SpacedInv'
    BY NextSpaced
  <2>5. QED
    BY <2>2, <2>3, <2>4
<1>3. Inv => AttemptsSpaced
  BY DEF SpacedInv
<1>4. QED
  BY <1>1, <1>2, <1>3, PTL DEF Spec

(***************************************************************************)
(* The elements of sequences.                                              *)
(***************************************************************************)

LEMMA ToSetEmpty == ToSet(<<>>) = {}
BY DEF ToSet

LEMMA ToSetNonempty ==
  ASSUME NEW S, NEW s \in Seq(S), s # <<>>
  PROVE  ToSet(s) # {}
<1>1. 1 \in DOMAIN s
  OBVIOUS
<1>2. QED
  BY <1>1 DEF ToSet

LEMMA ToSetConcat ==
  ASSUME NEW S, NEW s \in Seq(S), NEW t \in Seq(S)
  PROVE  ToSet(s \o t) = ToSet(s) \cup ToSet(t)
<1>1. ASSUME NEW x \in ToSet(s \o t) PROVE x \in ToSet(s) \cup ToSet(t)
  <2>1. PICK n \in DOMAIN (s \o t) : x = (s \o t)[n]
    BY DEF ToSet
  <2>2. CASE n <= Len(s)
    BY <2>1, <2>2 DEF ToSet
  <2>3. CASE n > Len(s)
    <3>1. x = t[n - Len(s)] /\ n - Len(s) \in DOMAIN t
      BY <2>1, <2>3
    <3>2. QED
      BY <3>1 DEF ToSet
  <2>4. QED
    BY <2>1, <2>2, <2>3
<1>2. ASSUME NEW x \in ToSet(s) PROVE x \in ToSet(s \o t)
  <2>1. PICK n \in DOMAIN s : x = s[n]
    BY DEF ToSet
  <2>2. n \in DOMAIN (s \o t) /\ (s \o t)[n] = s[n]
    BY <2>1
  <2>3. QED
    BY <2>1, <2>2 DEF ToSet
<1>3. ASSUME NEW x \in ToSet(t) PROVE x \in ToSet(s \o t)
  <2>1. PICK n \in DOMAIN t : x = t[n]
    BY DEF ToSet
  <2>2. n + Len(s) \in DOMAIN (s \o t) /\ (s \o t)[n + Len(s)] = t[n]
    BY <2>1
  <2>3. QED
    BY <2>1, <2>2 DEF ToSet
<1>4. QED
  BY <1>1, <1>2, <1>3

LEMMA ToSetAppend ==
  ASSUME NEW S, NEW s \in Seq(S), NEW x \in S
  PROVE  ToSet(Append(s, x)) = ToSet(s) \cup {x}
<1>1. Append(s, x) = s \o <<x>> /\ <<x>> \in Seq(S)
  OBVIOUS
<1>2. ToSet(<<x>>) = {x}
  BY DEF ToSet
<1>3. ToSet(s \o <<x>>) = ToSet(s) \cup ToSet(<<x>>)
  BY <1>1, ToSetConcat
<1>4. QED
  BY <1>1, <1>2, <1>3

LEMMA ToSetHeadTail ==
  ASSUME NEW S, NEW s \in Seq(S), s # <<>>
  PROVE  ToSet(s) = {Head(s)} \cup ToSet(Tail(s))
<1>1. ASSUME NEW x \in ToSet(s) PROVE x \in {Head(s)} \cup ToSet(Tail(s))
  <2>1. PICK n \in DOMAIN s : x = s[n]
    BY DEF ToSet
  <2>2. n # 1 => n - 1 \in DOMAIN Tail(s) /\ Tail(s)[n - 1] = x
    BY <2>1
  <2>3. QED
    BY <2>1, <2>2 DEF ToSet
<1>2. Head(s) \in ToSet(s)
  <2>1. 1 \in DOMAIN s /\ Head(s) = s[1]
    OBVIOUS
  <2>2. QED
    BY <2>1 DEF ToSet
<1>3. ASSUME NEW x \in ToSet(Tail(s)) PROVE x \in ToSet(s)
  <2>1. PICK n \in DOMAIN Tail(s) : x = Tail(s)[n]
    BY DEF ToSet
  <2>2. n + 1 \in DOMAIN s /\ s[n + 1] = x
    BY <2>1
  <2>3. QED
    BY <2>2 DEF ToSet
<1>4. QED
  BY <1>1, <1>2, <1>3

(***************************************************************************)
(* What a worker has written.                                              *)
(***************************************************************************)

LEMMA VisitStep ==
  ASSUME TypeOK, NEW i \in JobIds, Visit(i)
  PROVE  /\ runs[i].phase = "loop" /\ runs[i].todo # <<>>
         /\ runs'[i].phase = "report" /\ runs'[i].todo = runs[i].todo
         /\ wrote' = wrote \cup ({i} \X Commits(runs[i].job, runs'[i].outcome))
         /\ runs'[i].outcome \in Possible(runs[i].job)
         /\ \A d \in Dates :
              refreshed'[d] = IF runs'[i].outcome = "ok" /\ d = runs[i].job.date
                              THEN refreshed[d] \cup {Head(runs[i].todo)} ELSE refreshed[d]
<1>1. runs \in [JobIds -> Run] /\ runs[i] \in Run /\ refreshed \in [Dates -> SUBSET AllSymbols]
  BY RunTyped DEF TypeOK
<1>2. PICK outcome \in Possible(runs[i].job) :
         /\ runs' = [runs EXCEPT ![i].phase = "report", ![i].outcome = outcome]
         /\ wrote' = wrote \cup ({i} \X Commits(runs[i].job, outcome))
         /\ refreshed' = IF outcome = "ok" /\ runs[i].job.date \in Dates
                         THEN [refreshed EXCEPT ![runs[i].job.date] =
                                 @ \cup {Head(runs[i].todo)}]
                         ELSE refreshed
  BY DEF Visit
<1>3. /\ runs'[i].phase = "report" /\ runs'[i].outcome = outcome
      /\ runs'[i].todo = runs[i].todo
  BY <1>1, <1>2 DEF Run
<1>4. \A d \in Dates :
        refreshed'[d] = IF outcome = "ok" /\ d = runs[i].job.date
                        THEN refreshed[d] \cup {Head(runs[i].todo)} ELSE refreshed[d]
  BY <1>1, <1>2
<1>5. QED
  BY <1>2, <1>3, <1>4 DEF Visit

\* The other quiet steps refresh and write nothing.
LEMMA StillStep ==
  ASSUME TypeOK, NEW i \in JobIds, ConnectFails(i) \/ ListFiles(i) \/ Leave(i) \/ Timeout(i)
  PROVE  /\ UNCHANGED <<refreshed, wrote>>
         /\ runs[i].phase = "report" =>
              /\ runs'[i].phase = "report" /\ runs'[i].outcome = runs[i].outcome
              /\ runs'[i].todo = runs[i].todo
         /\ runs'[i].phase = "finish" /\ runs'[i].err = "none" =>
              \/ runs[i].phase = "finish" /\ runs[i].err = "none"
              \/ ~(runs[i].job.failures > 0)
<1>1. runs \in [JobIds -> Run] /\ runs[i] \in Run
  BY RunTyped
<1>2. QED
  BY <1>1 DEF ConnectFails, ListFiles, Leave, Timeout, Run

\* A worker whose job has written has counted it, or is about to; and it ends
\* without an error only if it has counted no failure.
Counted(i) ==
    /\ <<i, "bars">> \in wrote =>
         runs[i].job.rows > 0 \/ (runs[i].phase = "report" /\ runs[i].outcome \in WithBars)
    /\ <<i, "issues">> \in wrote =>
         runs[i].job.failures > 0 \/ (runs[i].phase = "report" /\ runs[i].outcome \notin Good)
    /\ runs[i].phase = "finish" /\ runs[i].err = "none" => ~(runs[i].job.failures > 0)

WriteInv ==
    /\ \A i \in JobIds : runs[i].phase \notin {"idle", "release"} => Counted(i)
    /\ \A i \in Taken : i \notin legacy =>
         /\ ledger[i].state = "failed" => <<i, "bars">> \notin wrote
         /\ ledger[i].state = "succeeded" => <<i, "issues">> \notin wrote

LEMMA InitWrite == Init => WriteInv
BY DEF Init, WriteInv, Idle

LEMMA StartWrite ==
  ASSUME TypeOK, WorkInv, WriteInv, NEW kind, NEW list, NEW date, NEW retryOf,
         Start(kind, list, date, retryOf), UNCHANGED <<wrote, legacy>>
  PROVE  WriteInv'
<1>1. /\ nextId \in JobIds /\ nextId \in Nat \ {0} /\ nextId' = nextId + 1
      /\ up = "up" /\ busy = FALSE
      /\ ledger'[nextId] = NewJob(kind, date, retryOf)
      /\ runs'[nextId].phase = "connect" /\ runs'[nextId].list = list
      /\ runs'[nextId].job = NewJob(kind, date, retryOf)
      /\ \A k \in JobIds : k # nextId => runs'[k] = runs[k] /\ ledger'[k] = ledger[k]
      /\ Taken' = Taken \cup {nextId} /\ nextId \notin Taken /\ Taken \subseteq JobIds
  BY StartStep
<1>2. <<nextId, "bars">> \notin wrote /\ <<nextId, "issues">> \notin wrote
  BY <1>1 DEF WorkInv, RecordsSettled
<1>3. NewJob(kind, date, retryOf).state = "running"
  BY NewJobFields
<1>4. QED
  BY <1>1, <1>2, <1>3 DEF WriteInv, Counted

LEMMA WorkerWrite ==
  ASSUME TypeOK, Visiting, WorkInv, WriteInv, NEW i \in JobIds, Worker(i) \/ Timeout(i)
  PROVE  WriteInv'
<1>1. /\ UNCHANGED <<nextId, legacy>> /\ Active(i)
      /\ \A k \in JobIds : k # i => runs'[k] = runs[k] /\ ledger'[k] = ledger[k]
  BY WorkerStep
<1>2. i = nextId - 1 /\ i \notin legacy /\ i \in Taken /\ Taken \subseteq JobIds
  <2>1. i = nextId - 1 /\ i \notin legacy
    BY <1>1 DEF WorkInv, NewestWorks
  <2>2. i \in Nat \ {0} /\ nextId \in Nat /\ Taken \subseteq JobIds
    BY TakenAreJobs, ConstantsOK DEF JobIds
  <2>3. QED
    BY <2>1, <2>2 DEF Taken
<1>3. /\ wrote' \subseteq wrote \cup ({i} \X {"bars", "issues"})
      /\ runs'[i].phase \notin {"idle", "release"} => Counted(i)'
      /\ ledger'[i].state = "failed" => <<i, "bars">> \notin wrote'
      /\ ledger'[i].state = "succeeded" => <<i, "issues">> \notin wrote'
  <2>0. /\ runs[i].phase \notin {"idle", "release"} =>
             ledger[i].state = "running" /\ runs[i].job.state = "running" /\ Counted(i)
        /\ runs[i].job.rows \in Nat /\ runs[i].job.failures \in Nat
    BY RunTyped DEF WorkInv, NewestWorks, Job, WriteInv
  <2>1. CASE Visit(i)
    <3>1. runs'[i].phase = "report" /\ ledger' = ledger /\ runs[i].phase = "loop"
      BY <2>1, VisitStep, QuietStep
    <3>2. wrote' = wrote \cup ({i} \X Commits(runs[i].job, runs'[i].outcome))
      BY <2>1, VisitStep
    <3>3. runs'[i].job = runs[i].job
      BY <2>1, QuietStep
    <3>4. /\ "bars" \in Commits(runs[i].job, runs'[i].outcome) => runs'[i].outcome \in WithBars
          /\ "issues" \in Commits(runs[i].job, runs'[i].outcome) => runs'[i].outcome \notin Good
          /\ Commits(runs[i].job, runs'[i].outcome) \subseteq {"bars", "issues"}
      BY DEF Commits, Good, WithBars
    <3>5. Counted(i)'
      BY <2>0, <3>1, <3>2, <3>3, <3>4 DEF Counted
    <3>6. QED
      BY <2>0, <3>1, <3>2, <3>4, <3>5
  <2>2. CASE ConnectFails(i) \/ ListFiles(i) \/ Leave(i) \/ Timeout(i)
    <3>1. ledger' = ledger /\ runs'[i].job = runs[i].job /\ runs[i].phase \notin {"idle", "release"}
      BY <2>2, QuietStep
    <3>2. /\ UNCHANGED wrote
          /\ runs[i].phase = "report" =>
               runs'[i].phase = "report" /\ runs'[i].outcome = runs[i].outcome
          /\ runs'[i].phase = "finish" /\ runs'[i].err = "none" =>
               \/ runs[i].phase = "finish" /\ runs[i].err = "none"
               \/ ~(runs[i].job.failures > 0)
      BY <2>2, StillStep
    <3>3. QED
      BY <2>0, <3>1, <3>2 DEF Counted
  <2>3. CASE Connect(i)
    <3>1. /\ runs[i].phase = "connect" /\ runs'[i].job = PlanJob(i) /\ UNCHANGED wrote
          /\ ledger'[i] \in {ledger[i], PlanJob(i)}
          /\ runs'[i].phase = "finish" => runs'[i].err = "other"
      BY <2>3, ConnectStep
    <3>2. /\ PlanJob(i).rows = runs[i].job.rows /\ PlanJob(i).state = runs[i].job.state
          /\ PlanJob(i).failures = runs[i].job.failures
      BY PlanJobFields
    <3>3. QED
      BY <2>0, <3>1, <3>2 DEF Counted
  <2>4. CASE Report(i)
    <3>1. /\ runs[i].phase = "report" /\ runs'[i].job = ReportJob(i) /\ UNCHANGED wrote
          /\ ledger'[i] \in {ledger[i], ReportJob(i)}
          /\ \/ runs'[i].phase = "loop"
             \/ runs'[i].phase = "finish" /\ runs'[i].err = "stopped"
      BY <2>4, ReportStep
    <3>2. /\ ReportJob(i).rows = IF runs[i].outcome \in WithBars THEN runs[i].job.rows + 1
                                 ELSE runs[i].job.rows
          /\ ReportJob(i).failures = IF runs[i].outcome \in Good THEN runs[i].job.failures
                                     ELSE runs[i].job.failures + 1
          /\ ReportJob(i).state = runs[i].job.state
      BY ReportJobFields
    <3>3. QED
      BY <2>0, <3>1, <3>2 DEF Counted
  <2>5. CASE Finish(i)
    <3>1. /\ runs[i].phase = "finish" /\ runs'[i].phase = "release" /\ UNCHANGED wrote
          /\ ledger'[i] \in {ledger[i], FinalJob(i)}
      BY <2>5, FinishStep
    <3>2. FinalJob(i).state = Verdict(runs[i].job, runs[i].err)
      BY FinalJobFields
    <3>3. /\ FinalJob(i).state = "failed" => ~(runs[i].job.rows > 0)
          /\ FinalJob(i).state = "succeeded" => runs[i].err = "none"
      BY <3>2 DEF Verdict
    <3>4. QED
      BY <2>0, <3>1, <3>3 DEF Counted
  <2>6. CASE Release(i)
    BY <1>2, <2>6, ReleaseStep DEF WriteInv
  <2>7. QED
    BY <1>1, <2>1, <2>2, <2>3, <2>4, <2>5, <2>6 DEF Worker
<1>4. Taken' = Taken
  BY <1>1 DEF Taken
<1>5. QED
  <2>1. ASSUME NEW k \in JobIds, k # i
        PROVE  /\ Counted(k) => Counted(k)'
               /\ \A w \in {"bars", "issues"} : <<k, w>> \in wrote' => <<k, w>> \in wrote
    <3>1. runs'[k] = runs[k]
      BY <1>1, <2>1
    <3>2. \A w \in {"bars", "issues"} : <<k, w>> \in wrote' => <<k, w>> \in wrote
      BY <1>3, <2>1
    <3>3. QED
      BY <3>1, <3>2 DEF Counted
  <2>2. QED
    BY <1>1, <1>2, <1>3, <1>4, <2>1 DEF WriteInv

LEMMA NextWrite ==
  ASSUME TypeOK, Visiting, WorkInv, WriteInv, [Next]_vars
  PROVE  WriteInv'
<1>1. CASE StartManual
  BY <1>1, StartWrite DEF StartManual
<1>2. ASSUME UNCHANGED <<nextId, legacy, wrote>>,
             \A i \in JobIds : ledger'[i] # ledger[i] => ledger'[i].state \notin {"failed", "succeeded"},
             \A i \in JobIds : runs'[i].phase # "idle" =>
                 /\ runs'[i].phase = runs[i].phase /\ runs'[i].job = runs[i].job
                 /\ runs'[i].outcome = runs[i].outcome /\ runs'[i].err = runs[i].err
      PROVE  WriteInv'
  <2>1. Taken' = Taken /\ Taken \subseteq JobIds
    BY <1>2, TakenAreJobs DEF Taken
  <2>2. QED
    BY <1>2, <2>1 DEF WriteInv, Counted
<1>3. CASE StartScheduled
  <2>1. CASE Start("daily", sched.list, sched.date, sched.retryOf)
    BY <1>3, <2>1, StartWrite DEF StartScheduled
  <2>2. CASE UNCHANGED <<ledger, nextId, busy, runs>>
    BY <1>2, <1>3, <2>2 DEF StartScheduled
  <2>3. QED
    BY <1>3, <2>1, <2>2 DEF StartScheduled
<1>4. ASSUME NEW i \in JobIds, Worker(i) \/ Timeout(i) PROVE WriteInv'
  BY <1>4, WorkerWrite
<1>5. CASE Open
  <2>1. /\ UNCHANGED <<nextId, runs, wrote, legacy>>
        /\ \A i \in JobIds : \/ ledger'[i] = ledger[i]
                             \/ ledger[i].state = "running" /\ ledger'[i] = Interrupt(ledger[i])
    BY <1>5, OpenStep
  <2>2. \A i \in JobIds : Interrupt(ledger[i]).state = "interrupted"
    BY InterruptFields, RunTyped
  <2>3. QED
    BY <1>2, <2>1, <2>2
<1>6. CASE ScheduleTick \/ ConfirmSession \/ Tick \/ UNCHANGED vars
  <2>1. UNCHANGED <<ledger, nextId, runs, wrote, legacy>>
    BY <1>6 DEF ScheduleTick, ConfirmSession, Tick, vars
  <2>2. QED
    BY <1>2, <2>1
<1>7. CASE Close
  <2>1. \A i \in JobIds : /\ runs'[i].phase = runs[i].phase /\ runs'[i].job = runs[i].job
                          /\ runs'[i].outcome = runs[i].outcome /\ runs'[i].err = runs[i].err
    BY <1>7 DEF Close, TypeOK, Run
  <2>2. QED
    BY <1>2, <1>7, <2>1 DEF Close
<1>8. CASE Exit \/ Crash
  BY <1>2, <1>8 DEF Exit, Crash, Down, Idle
<1>9. QED
  BY <1>1, <1>3, <1>4, <1>5, <1>6, <1>7, <1>8 DEF Next

(***************************************************************************)
(* What is left of a day is accounted for.                                 *)
(***************************************************************************)

Left(d)   == Symbols \ refreshed[d]
Newest(i) == \A k \in Taken : ledger[k].date = ledger[i].date => k <= i

\* What a worker of a scheduled job knows about the symbols that are left of its
\* day: the list it was given, the symbols it has still to visit together with
\* those that failed, and at the end what its record hands on.
AccountsOf(r, left) ==
    /\ Online(r.job)
    /\ r.phase = "connect" =>
         /\ r.job.retry = <<>> /\ r.job.remaining = <<>>
         /\ r.job.processed = 0 /\ r.job.failures = 0
         /\ r.list = <<>> \/ left \subseteq ToSet(r.list)
    /\ r.phase \in {"loop", "report"} =>
         /\ r.job.remaining = r.todo
         /\ left \subseteq ToSet(r.todo) \cup ToSet(r.job.retry)
         /\ r.job.failures = 0 => r.job.retry = <<>>
    /\ r.phase = "report" => r.outcome # "empty" /\ (r.outcome = "ok" => Head(r.todo) \notin left)
    /\ r.phase = "finish" => /\ left \subseteq Outstanding(r.job)
                             /\ r.err = "none" => left = {}

WorkerAccounts ==
    \A i \in JobIds :
        runs[i].phase \notin {"idle", "release"} /\ runs[i].job.date \in Dates =>
            AccountsOf(runs[i], Left(runs[i].job.date))

\* The newest record of a day hands on all that is left of it.
LedgerAccounts ==
    \A i \in Taken : ledger[i].date \in Dates /\ Newest(i) /\ i \notin legacy =>
        Left(ledger[i].date) \subseteq Outstanding(ledger[i])

\* After a scheduled success nothing is left of the day.
SuccessAccounts ==
    \A i \in Taken : ledger[i].state = "succeeded" /\ ledger[i].date \in Dates =>
        Left(ledger[i].date) = {}

\* A record of an older release is judged by its error list, which stays exact
\* until another attempt of the day is made.
LegacyAccounts ==
    \A i \in legacy :
        /\ ledger[i].date = 0 /\ ledger[i].retry = <<>> /\ ledger[i].remaining = <<>>
        /\ Newest(i) /\ ledger[i].processed > 0 /\ ErrorsComplete(ledger[i]) =>
             ledger[i].errors = Left(0)

\* What the scheduler is about to start covers what is left, and exactly that
\* when it comes from an old error list.
PlanAccounts ==
    /\ sched.phase = "probe" => sched.list = <<>> /\ sched.retryOf = 0
    /\ sched.phase = "start" =>
         sched.list = <<>> \/ Left(sched.date) \subseteq ToSet(sched.list)
    /\ sched.phase = "start" /\ sched.retryOf \in legacy =>
         /\ sched.date = 0
         /\ ledger[sched.retryOf].processed > 0 =>
              sched.list # <<>> /\ ToSet(sched.list) = Left(0)

AccountInv ==
    /\ WorkerAccounts /\ LedgerAccounts /\ SuccessAccounts /\ LegacyAccounts
    /\ PlanAccounts /\ LegacyRetryExact

LEMMA OutstandingCovers ==
  ASSUME NEW j, NEW left, left \subseteq Symbols,
         left \subseteq ToSet(j.retry) \cup ToSet(j.remaining)
  PROVE  left \subseteq Outstanding(j)
BY DEF Outstanding

LEMMA OutstandingSame ==
  ASSUME NEW j, NEW k, j.processed = k.processed,
         ToSet(j.retry) \cup ToSet(j.remaining) = ToSet(k.retry) \cup ToSet(k.remaining)
  PROVE  Outstanding(j) = Outstanding(k)
BY DEF Outstanding

\* The record that hands on what was not visited names the same symbols.
LEMMA FinalOutstanding ==
  ASSUME TypeOK, NEW i \in JobIds
  PROVE  Outstanding(FinalJob(i)) = Outstanding(runs[i].job)
<1>1. runs[i].job.retry \in Seq(AllSymbols) /\ runs[i].job.remaining \in Seq(AllSymbols)
  BY RunTyped DEF Job
<1>2. ToSet(runs[i].job.retry \o runs[i].job.remaining)
        = ToSet(runs[i].job.retry) \cup ToSet(runs[i].job.remaining)
  BY <1>1, ToSetConcat
<1>3. /\ FinalJob(i).retry = runs[i].job.retry \o runs[i].job.remaining
      /\ FinalJob(i).remaining = <<>> /\ FinalJob(i).processed = runs[i].job.processed
  BY FinalJobFields
<1>4. QED
  BY <1>2, <1>3, ToSetEmpty, OutstandingSame

LEMMA InterruptOutstanding ==
  ASSUME NEW j \in Job
  PROVE  Outstanding(Interrupt(j)) = Outstanding(j)
<1>1. j.retry \in Seq(AllSymbols) /\ j.remaining \in Seq(AllSymbols)
  BY DEF Job
<1>2. ToSet(j.retry \o j.remaining) = ToSet(j.retry) \cup ToSet(j.remaining)
  BY <1>1, ToSetConcat
<1>3. /\ Interrupt(j).retry = j.retry \o j.remaining
      /\ Interrupt(j).remaining = <<>> /\ Interrupt(j).processed = j.processed
  BY InterruptFields
<1>4. QED
  BY <1>2, <1>3, ToSetEmpty, OutstandingSame

(***************************************************************************)
(* The worker's own account, action by action.                             *)
(***************************************************************************)

LEMMA ConnectAccounts ==
  ASSUME TypeOK, NEW i \in JobIds, Connect(i), NEW left, left \subseteq Symbols,
         AccountsOf(runs[i], left)
  PROVE  /\ AccountsOf(runs'[i], left)
         /\ ledger'[i] # ledger[i] => left \subseteq Outstanding(ledger'[i])
<1>1. /\ runs[i].phase = "connect" /\ runs'[i].job = PlanJob(i)
      /\ \/ /\ ledger'[i] = PlanJob(i)
            /\ runs'[i].phase = "loop" /\ runs'[i].todo = Plan(i)
         \/ /\ ledger' = ledger
            /\ runs'[i].phase = "finish" /\ runs'[i].err = "other"
  BY ConnectStep
<1>2. LET j == PlanJob(i)
          k == runs[i].job
      IN /\ SameAttempt(j, k) /\ j.state = k.state /\ j.remaining = Plan(i)
         /\ j.retry = k.retry /\ j.processed = k.processed /\ j.failures = k.failures
         /\ j.rows = k.rows
  BY PlanJobFields
<1>3. /\ Online(runs[i].job) /\ runs[i].job.retry = <<>>
      /\ runs[i].list = <<>> \/ left \subseteq ToSet(runs[i].list)
  BY <1>1 DEF AccountsOf
<1>4. left \subseteq ToSet(Plan(i))
  BY <1>3 DEF Plan, Symbols
<1>5. left \subseteq Outstanding(PlanJob(i))
  BY <1>2, <1>4, OutstandingCovers
<1>6. Online(PlanJob(i))
  BY <1>2, <1>3 DEF Online, SameAttempt
<1>7. PlanJob(i).retry = <<>> /\ PlanJob(i).remaining = Plan(i)
  BY <1>2, <1>3
<1>8. QED
  BY <1>1, <1>4, <1>5, <1>6, <1>7 DEF AccountsOf

LEMMA ReportAccounts ==
  ASSUME TypeOK, Visiting, NEW i \in JobIds, Report(i), NEW left, left \subseteq Symbols,
         AccountsOf(runs[i], left)
  PROVE  /\ AccountsOf(runs'[i], left)
         /\ ledger'[i] # ledger[i] => left \subseteq Outstanding(ledger'[i])
<1> DEFINE r == runs[i]
           j == ReportJob(i)
<1>1. /\ r.phase = "report" /\ r.todo # <<>>
      /\ runs'[i].job = j /\ runs'[i].todo = Tail(r.todo)
      /\ \/ runs'[i].phase = "loop"
         \/ runs'[i].phase = "finish" /\ runs'[i].err = "stopped"
      /\ ledger'[i] \in {ledger[i], j}
  BY ReportStep
<1>2. /\ SameAttempt(j, r.job)
      /\ j.remaining = IF r.job.remaining = <<>> THEN <<>> ELSE Tail(r.job.remaining)
      /\ j.retry = IF r.outcome \in Good THEN r.job.retry ELSE Append(r.job.retry, Head(r.todo))
      /\ j.failures = IF r.outcome \in Good THEN r.job.failures ELSE r.job.failures + 1
  BY ReportJobFields
<1>3. /\ r.todo \in Seq(AllSymbols) /\ Head(r.todo) \in AllSymbols
      /\ r.job.retry \in Seq(AllSymbols) /\ r.job.failures \in Nat
  BY <1>1, RunTyped DEF Run, Job
<1>4. /\ Online(r.job) /\ r.job.remaining = r.todo
      /\ left \subseteq ToSet(r.todo) \cup ToSet(r.job.retry)
      /\ r.job.failures = 0 => r.job.retry = <<>>
      /\ r.outcome \in Good => Head(r.todo) \notin left
  BY <1>1 DEF AccountsOf, Good
<1>5. ToSet(r.todo) = {Head(r.todo)} \cup ToSet(Tail(r.todo))
  BY <1>1, <1>3, ToSetHeadTail
<1>6. ToSet(Append(r.job.retry, Head(r.todo))) = ToSet(r.job.retry) \cup {Head(r.todo)}
  BY <1>3, ToSetAppend
<1>7. j.remaining = Tail(r.todo)
  BY <1>1, <1>2, <1>4
<1>8. left \subseteq ToSet(Tail(r.todo)) \cup ToSet(j.retry)
  BY <1>2, <1>4, <1>5, <1>6
<1>9. j.failures = 0 => j.retry = <<>>
  BY <1>2, <1>3, <1>4
<1>10. left \subseteq Outstanding(j)
  BY <1>7, <1>8, OutstandingCovers
<1>11. Online(j)
  BY <1>2, <1>4 DEF Online, SameAttempt
<1> HIDE DEF r, j
<1>12. QED
  BY <1>1, <1>7, <1>8, <1>9, <1>10, <1>11 DEF AccountsOf

LEMMA LeaveAccounts ==
  ASSUME TypeOK, NEW i \in JobIds, Leave(i), NEW left, left \subseteq Symbols,
         AccountsOf(runs[i], left)
  PROVE  AccountsOf(runs'[i], left)
<1>1. runs \in [JobIds -> Run] /\ runs[i] \in Run /\ runs[i].job.failures \in Nat
  BY RunTyped DEF Job
<1>2. /\ runs[i].phase = "loop" /\ runs'[i].phase = "finish" /\ runs'[i].job = runs[i].job
      /\ runs'[i].err = IF runs[i].todo # <<>> THEN "other"
                        ELSE IF runs[i].job.failures > 0 THEN "some_failed" ELSE "none"
  BY <1>1 DEF Leave, Run
<1>3. /\ Online(runs[i].job) /\ runs[i].job.remaining = runs[i].todo
      /\ left \subseteq ToSet(runs[i].todo) \cup ToSet(runs[i].job.retry)
      /\ runs[i].job.failures = 0 => runs[i].job.retry = <<>>
  BY <1>2 DEF AccountsOf
<1>4. left \subseteq Outstanding(runs[i].job)
  BY <1>3, OutstandingCovers
<1>5. runs'[i].err = "none" => left = {}
  BY <1>1, <1>2, <1>3, ToSetEmpty
<1>6. QED
  BY <1>2, <1>3, <1>4, <1>5 DEF AccountsOf

LEMMA OtherAccounts ==
  ASSUME TypeOK, NEW i \in JobIds, ConnectFails(i) \/ ListFiles(i) \/ Timeout(i),
         NEW left, left \subseteq Symbols, AccountsOf(runs[i], left)
  PROVE  AccountsOf(runs'[i], left)
<1>1. runs \in [JobIds -> Run] /\ runs[i] \in Run
  BY RunTyped
<1>2. CASE ConnectFails(i)
  <2>1. /\ runs[i].phase = "connect" /\ runs'[i].phase = "finish"
        /\ runs'[i].job = runs[i].job /\ runs'[i].err = "other"
    BY <1>1, <1>2 DEF ConnectFails, Run
  <2>2. /\ Online(runs[i].job) /\ runs[i].job.retry = <<>> /\ runs[i].job.remaining = <<>>
        /\ runs[i].job.processed = 0
    BY <2>1 DEF AccountsOf
  <2>3. Outstanding(runs[i].job) = Symbols
    BY <2>2, ToSetEmpty DEF Outstanding
  <2>4. QED
    BY <2>1, <2>2, <2>3 DEF AccountsOf
<1>3. CASE ListFiles(i)
  BY <1>3 DEF ListFiles, AccountsOf
<1>4. CASE Timeout(i)
  <2>1. /\ runs'[i].phase = runs[i].phase /\ runs'[i].job = runs[i].job
        /\ runs'[i].list = runs[i].list /\ runs'[i].todo = runs[i].todo
        /\ runs'[i].outcome = runs[i].outcome /\ runs'[i].err = runs[i].err
    BY <1>1, <1>4 DEF Timeout, Run
  <2>2. QED
    BY <2>1 DEF AccountsOf
<1>5. QED
  BY <1>2, <1>3, <1>4

LEMMA VisitAccounts ==
  ASSUME TypeOK, NEW i \in JobIds, Visit(i), runs[i].job.date \in Dates,
         AccountsOf(runs[i], Left(runs[i].job.date))
  PROVE  AccountsOf(runs'[i], Symbols \ refreshed'[runs[i].job.date])
<1>1. /\ runs[i].phase = "loop" /\ runs[i].todo # <<>>
      /\ runs'[i].phase = "report" /\ runs'[i].todo = runs[i].todo
      /\ \A d \in Dates :
           refreshed'[d] = IF runs'[i].outcome = "ok" /\ d = runs[i].job.date
                           THEN refreshed[d] \cup {Head(runs[i].todo)} ELSE refreshed[d]
  BY VisitStep
<1>2. runs'[i].job = runs[i].job
  BY QuietStep
<1>3. /\ Online(runs[i].job) /\ runs[i].job.remaining = runs[i].todo
      /\ Left(runs[i].job.date) \subseteq ToSet(runs[i].todo) \cup ToSet(runs[i].job.retry)
      /\ runs[i].job.failures = 0 => runs[i].job.retry = <<>>
  BY <1>1 DEF AccountsOf
<1>4. /\ refreshed[runs[i].job.date] \subseteq refreshed'[runs[i].job.date]
      /\ runs'[i].outcome = "ok" => Head(runs[i].todo) \in refreshed'[runs[i].job.date]
  BY <1>1
<1>5. runs'[i].outcome # "empty"
  <2>1. runs'[i].outcome \in Possible(runs[i].job)
    BY VisitStep
  <2>2. QED
    BY <1>3, <2>1 DEF Possible
<1>6. QED
  BY <1>1, <1>2, <1>3, <1>4, <1>5 DEF AccountsOf, Left

\* A worker's step refreshes symbols of its own day only, and what it saves and
\* what it goes on with account for what is left of that day.
LEMMA WorkerDay ==
  ASSUME TypeOK, Visiting, WorkInv, WorkerAccounts,
         NEW i \in JobIds, Worker(i) \/ Timeout(i), NEW d, d = ledger[i].date
  PROVE  /\ \A e \in Dates : refreshed[e] \subseteq refreshed'[e]
         /\ \A e \in Dates : refreshed'[e] # refreshed[e] =>
                                 e = d /\ ledger[i].state = "running"
         /\ runs'[i].phase \notin {"idle", "release"} => runs'[i].job.date = d
         /\ runs'[i].phase \notin {"idle", "release"} /\ d \in Dates =>
              AccountsOf(runs'[i], Symbols \ refreshed'[d])
         /\ ledger'[i] # ledger[i] /\ d \in Dates =>
              /\ Symbols \ refreshed'[d] \subseteq Outstanding(ledger'[i])
              /\ ledger'[i].state = "succeeded" => Symbols \ refreshed'[d] = {}
         /\ runs'[i].phase = "connect" =>
              /\ runs[i].phase = "connect" /\ runs'[i].job = runs[i].job
              /\ runs'[i].list = runs[i].list
<1>0. /\ runs \in [JobIds -> Run] /\ runs[i] \in Run /\ runs[i].job \in Job
      /\ Left(d) \subseteq Symbols
  BY RunTyped DEF Left
<1>1. runs[i].phase \notin {"idle", "release"} =>
        /\ ledger[i].state = "running" /\ runs[i].job.state = "running"
        /\ runs[i].job.date = d
        /\ d \in Dates => AccountsOf(runs[i], Left(d))
  BY DEF WorkInv, NewestWorks, WorkerAccounts
<1>2. CASE Visit(i)
  <2>1. /\ runs[i].phase = "loop" /\ runs'[i].phase = "report"
        /\ \A e \in Dates :
             refreshed'[e] = IF runs'[i].outcome = "ok" /\ e = runs[i].job.date
                             THEN refreshed[e] \cup {Head(runs[i].todo)} ELSE refreshed[e]
    BY <1>2, VisitStep
  <2>2. ledger' = ledger /\ runs'[i].job = runs[i].job
    BY <1>2, QuietStep
  <2>3. d \in Dates => AccountsOf(runs'[i], Symbols \ refreshed'[d])
    BY <1>1, <1>2, <2>1, VisitAccounts
  <2>4. QED
    BY <1>1, <2>1, <2>2, <2>3
<1>3. CASE Connect(i)
  <2>1. /\ runs[i].phase = "connect" /\ runs'[i].job = PlanJob(i) /\ UNCHANGED refreshed
        /\ runs'[i].phase # "connect" /\ ledger'[i] \in {ledger[i], PlanJob(i)}
    BY <1>3, ConnectStep
  <2>2. PlanJob(i).date = d /\ PlanJob(i).state = "running"
    BY <1>1, <2>1, PlanJobFields DEF SameAttempt
  <2>3. d \in Dates => /\ AccountsOf(runs'[i], Left(d))
                       /\ ledger'[i] # ledger[i] => Left(d) \subseteq Outstanding(ledger'[i])
    BY <1>0, <1>1, <1>3, <2>1, ConnectAccounts
  <2>4. QED
    BY <2>1, <2>2, <2>3 DEF Left
<1>4. CASE Report(i)
  <2>1. /\ runs[i].phase = "report" /\ runs'[i].job = ReportJob(i) /\ UNCHANGED refreshed
        /\ runs'[i].phase # "connect" /\ ledger'[i] \in {ledger[i], ReportJob(i)}
    BY <1>4, ReportStep
  <2>2. ReportJob(i).date = d /\ ReportJob(i).state = "running"
    BY <1>1, <2>1, ReportJobFields DEF SameAttempt
  <2>3. d \in Dates => /\ AccountsOf(runs'[i], Left(d))
                       /\ ledger'[i] # ledger[i] => Left(d) \subseteq Outstanding(ledger'[i])
    BY <1>0, <1>1, <1>4, <2>1, ReportAccounts
  <2>4. QED
    BY <2>1, <2>2, <2>3 DEF Left
<1>5. CASE Leave(i) \/ ConnectFails(i) \/ ListFiles(i) \/ Timeout(i)
  <2>1. /\ ledger' = ledger /\ runs[i].phase \notin {"idle", "release"}
        /\ runs'[i].job = runs[i].job /\ runs'[i].list = runs[i].list
        /\ UNCHANGED refreshed
    BY <1>5, QuietStep, StillStep
  <2>2. d \in Dates => AccountsOf(runs'[i], Left(d))
    BY <1>0, <1>1, <1>5, <2>1, LeaveAccounts, OtherAccounts
  <2>3. runs'[i].phase = "connect" => runs[i].phase = "connect"
    BY <1>0, <1>5 DEF Leave, ConnectFails, ListFiles, Timeout, Run
  <2>4. QED
    BY <1>1, <2>1, <2>2, <2>3 DEF Left
<1>6. CASE Finish(i)
  <2>1. /\ runs[i].phase = "finish" /\ runs'[i].phase = "release"
        /\ ledger'[i] \in {ledger[i], FinalJob(i)} /\ UNCHANGED refreshed
    BY <1>6, FinishStep
  <2>2. FinalJob(i).state = Verdict(runs[i].job, runs[i].err)
    BY FinalJobFields
  <2>3. FinalJob(i).state = "succeeded" => runs[i].err = "none"
    BY <2>2, VerdictValues
  <2>4. d \in Dates => /\ Left(d) \subseteq Outstanding(FinalJob(i))
                       /\ FinalJob(i).state = "succeeded" => Left(d) = {}
    BY <1>1, <2>1, <2>3, FinalOutstanding DEF AccountsOf
  <2>5. QED
    BY <2>1, <2>4 DEF Left
<1>7. CASE Release(i)
  BY <1>7, ReleaseStep
<1>8. QED
  BY <1>2, <1>3, <1>4, <1>5, <1>6, <1>7 DEF Worker

LEMMA WorkerAccount ==
  ASSUME AttemptsInv, WriterInv, WorkInv, SpacedInv, AccountInv,
         NEW i \in JobIds, Worker(i) \/ Timeout(i)
  PROVE  AccountInv'
<1> DEFINE d == ledger[i].date
<1>0. /\ TypeOK /\ Visiting /\ WorkerAccounts
      /\ Taken \subseteq JobIds /\ nextId \in Nat \ {0} /\ legacy \subseteq Taken
  BY TakenAreJobs DEF AttemptsInv, AccountInv, WorkInv, RecordsSettled
<1>1. /\ UNCHANGED <<nextId, sched, legacy>> /\ Active(i)
      /\ \A k \in JobIds : k # i => runs'[k] = runs[k] /\ ledger'[k] = ledger[k]
  BY <1>0, WorkerStep
<1>2. /\ i = nextId - 1 /\ ledger'[i].date = d
      /\ ledger'[i] # ledger[i] => ledger[i].state = "running"
  BY <1>0, WorkerRecord
<1>3. i \notin legacy /\ i \in Taken /\ \A k \in Taken : k <= i
  <2>1. i \notin legacy
    BY <1>1 DEF WorkInv, NewestWorks
  <2>2. i \in Nat \ {0}
    BY ConstantsOK DEF JobIds
  <2>3. QED
    BY <1>0, <1>2, <2>1, <2>2 DEF Taken
<1>4. \A k \in JobIds : k # i => runs[k].phase = "idle"
  BY <1>1 DEF WriterInv, SingleWriter, Active
<1>5. /\ \A e \in Dates : refreshed[e] \subseteq refreshed'[e]
      /\ \A e \in Dates : refreshed'[e] # refreshed[e] => e = d /\ ledger[i].state = "running"
      /\ runs'[i].phase \notin {"idle", "release"} => runs'[i].job.date = d
      /\ runs'[i].phase \notin {"idle", "release"} /\ d \in Dates =>
           AccountsOf(runs'[i], Symbols \ refreshed'[d])
      /\ ledger'[i] # ledger[i] /\ d \in Dates =>
           /\ Symbols \ refreshed'[d] \subseteq Outstanding(ledger'[i])
           /\ ledger'[i].state = "succeeded" => Symbols \ refreshed'[d] = {}
      /\ runs'[i].phase = "connect" =>
           /\ runs[i].phase = "connect" /\ runs'[i].job = runs[i].job
           /\ runs'[i].list = runs[i].list
  BY <1>0, WorkerDay
<1> HIDE DEF d
<1>6. /\ Taken' = Taken /\ \A k \in Taken : ledger'[k].date = ledger[k].date
      /\ \A k \in Taken : Newest(k)' => Newest(k)
  BY <1>0, <1>1, <1>2 DEF Taken, Newest, d
<1>7. WorkerAccounts'
  <2>1. ASSUME NEW k \in JobIds, runs'[k].phase \notin {"idle", "release"},
               runs'[k].job.date \in Dates
        PROVE  AccountsOf(runs'[k], Symbols \ refreshed'[runs'[k].job.date])
    <3>1. k = i
      BY <1>1, <1>4, <2>1
    <3>2. QED
      BY <1>5, <2>1, <3>1
  <2>2. QED
    BY <2>1 DEF WorkerAccounts, Left
<1>8. LedgerAccounts' /\ SuccessAccounts'
  <2>1. ASSUME NEW k \in Taken, ledger'[k].date \in Dates, Newest(k)', k \notin legacy
        PROVE  Symbols \ refreshed'[ledger'[k].date] \subseteq Outstanding(ledger'[k])
    <3>1. CASE ledger'[k] = ledger[k]
      BY <1>5, <1>6, <2>1, <3>1 DEF AccountInv, LedgerAccounts, Left
    <3>2. CASE ledger'[k] # ledger[k]
      BY <1>0, <1>1, <1>2, <1>5, <2>1, <3>2
    <3>3. QED
      BY <3>1, <3>2
  <2>2. ASSUME NEW k \in Taken, ledger'[k].date \in Dates, ledger'[k].state = "succeeded"
        PROVE  Symbols \ refreshed'[ledger'[k].date] = {}
    <3>1. CASE ledger'[k] = ledger[k]
      BY <1>5, <2>2, <3>1 DEF AccountInv, SuccessAccounts, Left
    <3>2. CASE ledger'[k] # ledger[k]
      BY <1>0, <1>1, <1>2, <1>5, <2>2, <3>2
    <3>3. QED
      BY <3>1, <3>2
  <2>3. QED
    BY <1>1, <1>6, <2>1, <2>2 DEF LedgerAccounts, SuccessAccounts, Left
<1>9. 0 \in Dates
  BY ConstantsOK DEF Dates
<1>10. LegacyAccounts'
  <2>1. ASSUME NEW k \in legacy
        PROVE  /\ ledger'[k] = ledger[k]
               /\ Newest(k)' => Newest(k) /\ (ledger[k].date = 0 => refreshed'[0] = refreshed[0])
    <3>1. k \in Taken /\ k # i
      BY <1>0, <1>3
    <3>2. Newest(k) => ~(d = ledger[k].date)
      BY <1>0, <1>2, <1>3, <3>1 DEF Newest, Taken, d
    <3>3. QED
      BY <1>0, <1>1, <1>5, <1>6, <1>9, <3>1, <3>2
  <2>2. QED
    BY <1>1, <2>1 DEF AccountInv, LegacyAccounts, Left
<1>11. PlanAccounts'
  <2>1. sched.phase # "idle" => refreshed'[sched.date] = refreshed[sched.date]
    <3>1. sched.date \in Dates
      BY <1>0 DEF TypeOK, Plans
    <3>2. sched.phase # "idle" /\ sched.date = d => ledger[i].state # "running"
      BY <1>3 DEF SpacedInv, PlannedReady, AttemptsOf, d
    <3>3. QED
      BY <1>5, <3>1, <3>2
  <2>2. \A k \in legacy : ledger'[k] = ledger[k]
    BY <1>0, <1>1, <1>3
  <2>3. QED
    BY <1>1, <2>1, <2>2 DEF AccountInv, PlanAccounts, Left
<1>12. LegacyRetryExact'
  <2>1. ASSUME NEW k \in JobIds, runs'[k].phase = "connect", runs'[k].job.retryOf \in legacy,
               ledger'[runs'[k].job.retryOf].processed > 0
        PROVE  ToSet(IF runs'[k].list = <<>> THEN Universe ELSE runs'[k].list)
                 = Symbols \ refreshed'[0]
    <3>1. k = i
      BY <1>1, <1>4, <2>1
    <3>2. /\ runs[i].phase = "connect" /\ runs'[i].job = runs[i].job
          /\ runs'[i].list = runs[i].list
      BY <1>5, <2>1, <3>1
    <3>3. ledger'[runs'[k].job.retryOf] = ledger[runs'[k].job.retryOf]
      BY <1>0, <1>1, <1>3, <2>1
    <3>4. refreshed' = refreshed
      <4>1. ~Visit(i)
        BY <3>2 DEF Visit
      <4>2. QED
        BY <1>0, <4>1, ConnectStep, ReportStep, FinishStep, ReleaseStep, StillStep DEF Worker
    <3>5. ToSet(IF runs[i].list = <<>> THEN Universe ELSE runs[i].list) = Symbols \ refreshed[0]
      BY <2>1, <3>1, <3>2, <3>3 DEF AccountInv, LegacyRetryExact, Plan
    <3>6. QED
      BY <3>1, <3>2, <3>4, <3>5
  <2>2. QED
    BY <1>1, <2>1 DEF LegacyRetryExact, Plan
<1>13. QED
  BY <1>7, <1>8, <1>10, <1>11, <1>12 DEF AccountInv

LEMMA InitAccount == Init => AccountInv
<1> SUFFICES ASSUME Init PROVE AccountInv
  OBVIOUS
<1>1. WorkerAccounts /\ PlanAccounts /\ LegacyRetryExact
  BY DEF Init, WorkerAccounts, PlanAccounts, LegacyRetryExact, Idle, Asleep
<1>2. 0 \in Dates /\ 1 \in JobIds
  BY ConstantsOK DEF Dates, JobIds
<1>3. CASE nextId = 1 /\ legacy = {}
  <2>1. Taken = {}
    BY <1>3 DEF Taken
  <2>2. QED
    BY <1>1, <1>3, <2>1 DEF AccountInv, LedgerAccounts, SuccessAccounts, LegacyAccounts
<1>4. ASSUME NEW h \in Inherited, nextId = 2, legacy = {1},
             ledger = [i \in JobIds |-> IF i = 1 THEN h.job ELSE NoJob],
             refreshed = [d \in Dates |-> IF d = 0 THEN h.done ELSE {}]
      PROVE  AccountInv
  <2>1. Taken = {1} /\ ledger[1] = h.job /\ refreshed[0] = h.done
    BY <1>2, <1>4 DEF Taken
  <2>2. h.job.date = 0
    BY ConstantsOK
  <2>3. /\ h.job.retry = <<>> /\ h.job.remaining = <<>>
        /\ h.job.state = "succeeded" => Symbols \subseteq h.done
        /\ NoPlan(h.job) /\ ErrorsComplete(h.job) => h.job.errors = Symbols \ h.done
    BY InheritedOK
  <2>4. LedgerAccounts /\ SuccessAccounts
    BY <1>4, <2>1, <2>2, <2>3 DEF LedgerAccounts, SuccessAccounts, Left
  <2>5. LegacyAccounts
    BY <1>4, <2>1, <2>2, <2>3 DEF LegacyAccounts, Left, NoPlan
  <2>6. QED
    BY <1>1, <2>4, <2>5 DEF AccountInv
<1>5. QED
  BY <1>3, <1>4 DEF Init

\* Accepting a job opens a record that still owes everything.
LEMMA StartAccount ==
  ASSUME TypeOK, WriterInv, WorkInv, AccountInv,
         NEW kind, NEW list, NEW date, NEW retryOf,
         Start(kind, list, date, retryOf), UNCHANGED <<refreshed, legacy>>,
         sched' = sched \/ sched' = Asleep,
         date \in Dates => /\ kind # "import"
                           /\ list = <<>> \/ Left(date) \subseteq ToSet(list),
         retryOf \in legacy => /\ date = 0
                               /\ ledger[retryOf].processed > 0 =>
                                     list # <<>> /\ ToSet(list) = Left(0)
  PROVE  AccountInv'
<1>1. /\ nextId \in JobIds /\ nextId \in Nat \ {0} /\ nextId' = nextId + 1
      /\ up = "up" /\ busy = FALSE
      /\ ledger'[nextId] = NewJob(kind, date, retryOf)
      /\ runs'[nextId].phase = "connect" /\ runs'[nextId].list = list
      /\ runs'[nextId].job = NewJob(kind, date, retryOf)
      /\ \A k \in JobIds : k # nextId => runs'[k] = runs[k] /\ ledger'[k] = ledger[k]
      /\ Taken' = Taken \cup {nextId} /\ nextId \notin Taken /\ Taken \subseteq JobIds
  BY StartStep
<1>2. LET j == NewJob(kind, date, retryOf)
      IN /\ j.kind = kind /\ j.date = date /\ j.retryOf = retryOf /\ j.started = now
         /\ j.state = "running" /\ j.retry = <<>> /\ j.remaining = <<>>
         /\ j.processed = 0 /\ j.failures = 0 /\ j.rows = 0
  BY NewJobFields
<1>3. \A k \in JobIds : runs[k].phase = "idle"
  BY <1>1 DEF WriterInv, Active
<1>4. /\ legacy \subseteq Taken /\ \A k \in Taken : ledger'[k] = ledger[k]
      /\ \A k \in Taken : Newest(k)' => Newest(k)
  <2>1. legacy \subseteq Taken /\ \A k \in Taken : ledger'[k] = ledger[k]
    BY <1>1 DEF WorkInv, RecordsSettled
  <2>2. QED
    BY <1>1, <2>1 DEF Newest
<1>5. WorkerAccounts'
  <2>1. date \in Dates => AccountsOf(runs'[nextId], Left(date))
    BY <1>1, <1>2 DEF AccountsOf, Online
  <2>2. runs'[nextId].job.date = date
    BY <1>1, <1>2
  <2>3. QED
    BY <1>1, <1>3, <2>1, <2>2 DEF WorkerAccounts, Left
<1>6. LedgerAccounts' /\ SuccessAccounts'
  <2>1. Outstanding(NewJob(kind, date, retryOf)) = Symbols
    BY <1>2, ToSetEmpty DEF Outstanding
  <2>2. LedgerAccounts'
    <3>1. ASSUME NEW k \in Taken', ledger'[k].date \in Dates, Newest(k)', k \notin legacy
          PROVE  Symbols \ refreshed[ledger'[k].date] \subseteq Outstanding(ledger'[k])
      BY <1>1, <1>4, <2>1, <3>1 DEF AccountInv, LedgerAccounts, Left
    <3>2. QED
      BY <3>1 DEF LedgerAccounts, Left
  <2>3. SuccessAccounts'
    <3>1. ASSUME NEW k \in Taken', ledger'[k].date \in Dates, ledger'[k].state = "succeeded"
          PROVE  Symbols \ refreshed[ledger'[k].date] = {}
      <4>1. k \in Taken
        BY <1>1, <1>2, <3>1
      <4>2. QED
        BY <1>4, <3>1, <4>1 DEF AccountInv, SuccessAccounts, Left
    <3>2. QED
      BY <3>1 DEF SuccessAccounts, Left
  <2>4. QED
    BY <2>2, <2>3
<1>7. LegacyAccounts'
  BY <1>4 DEF AccountInv, LegacyAccounts, Left
<1>8. PlanAccounts'
  <2>1. CASE sched' = sched
    BY <1>4, <2>1 DEF AccountInv, PlanAccounts, Left
  <2>2. CASE sched' = Asleep
    BY <2>2 DEF PlanAccounts, Asleep
  <2>3. QED
    BY <2>1, <2>2
<1>9. LegacyRetryExact'
  <2>1. ASSUME NEW k \in JobIds, runs'[k].phase = "connect", runs'[k].job.retryOf \in legacy,
               ledger'[runs'[k].job.retryOf].processed > 0
        PROVE  ToSet(IF runs'[k].list = <<>> THEN Universe ELSE runs'[k].list)
                 = Symbols \ refreshed[0]
    <3>1. k = nextId
      BY <1>1, <1>3, <2>1
    <3>2. runs'[k].job.retryOf = retryOf
      BY <1>1, <1>2, <3>1
    <3>3. ledger[retryOf].processed > 0
      BY <1>4, <2>1, <3>2
    <3>4. QED
      BY <1>1, <2>1, <3>1, <3>2, <3>3 DEF Left
  <2>2. QED
    BY <2>1 DEF LegacyRetryExact, Plan
<1>10. QED
  BY <1>5, <1>6, <1>7, <1>8, <1>9 DEF AccountInv

\* The tick asks for what the newest record of the day hands on.
LEMMA TickAccount ==
  ASSUME MaxJobs <= JobsLimit, TypeOK, WorkInv, AccountInv, ScheduleTick
  PROVE  AccountInv'
<1>1. /\ Ready(Today) /\ Today \in Dates /\ sched'.date = Today
      /\ UNCHANGED <<ledger, nextId, runs, refreshed, legacy>>
      /\ \/ /\ sched'.phase = "probe" /\ sched'.list = <<>> /\ sched'.retryOf = 0
         \/ /\ Attempts(Today) # {} /\ sched'.phase = "start"
            /\ sched'.list \in RetryLists(ledger[Latest(Attempts(Today))])
            /\ sched'.retryOf = Latest(Attempts(Today))
  BY TickStep
<1>2. \A d : Attempts(d) = AttemptsOf(d)
  BY JobsShowAll
<1>3. WorkerAccounts' /\ LedgerAccounts' /\ SuccessAccounts' /\ LegacyAccounts' /\ LegacyRetryExact'
  BY <1>1 DEF AccountInv, WorkerAccounts, LedgerAccounts, SuccessAccounts, LegacyAccounts,
              LegacyRetryExact, Left, Newest, Taken, Plan
<1>4. PlanAccounts'
  <2>1. CASE sched'.phase = "probe"
    BY <1>1, <2>1 DEF PlanAccounts
  <2>2. CASE /\ Attempts(Today) # {} /\ sched'.phase = "start"
             /\ sched'.list \in RetryLists(ledger[Latest(Attempts(Today))])
             /\ sched'.retryOf = Latest(Attempts(Today))
    <3> DEFINE n == Latest(AttemptsOf(Today))
               j == ledger[n]
               list == sched'.list
    <3>1. n \in AttemptsOf(Today) /\ \A k \in AttemptsOf(Today) : k <= n
      BY <1>2, <2>2, AttemptsAreJobs, LatestExists
    <3>2. n \in Taken /\ j.date = Today /\ Newest(n)
      BY <3>1 DEF AttemptsOf, Newest
    <3>3. /\ j.state \notin {"succeeded", "running"}
          /\ NoPlan(j) => ErrorsComplete(j)
      <4>1. \A i \in AttemptsOf(Today) : ledger[i].state \notin {"succeeded", "running"}
        BY <1>1, <1>2 DEF Ready
      <4>2. AttemptsOf(Today) # {} /\ NoPlan(j) => ErrorsComplete(j)
        BY <1>1, <1>2 DEF Ready, Retriable
      <4>3. QED
        BY <3>1, <4>1, <4>2
    <3>4. j \in Job /\ j.remaining = <<>> /\ n \in JobIds
      BY <3>2, <3>3, TakenAreJobs DEF WorkInv, RecordsSettled, TypeOK
    <3>5. list \in RetryLists(j) /\ sched'.retryOf = n
      BY <1>2, <2>2
    <3>6. CASE n \notin legacy
      <4>1. Left(Today) \subseteq Outstanding(j)
        BY <1>1, <3>2, <3>6 DEF AccountInv, LedgerAccounts
      <4>2. CASE NoPlan(j)
        <5>1. Outstanding(j) = {}
          <6>1. j.retry = <<>> /\ j.processed # 0
            BY <3>4, <4>2 DEF NoPlan
          <6>2. QED
            BY <3>4, <6>1, ToSetEmpty DEF Outstanding
        <5>2. QED
          BY <1>1, <2>2, <3>5, <3>6, <4>1, <5>1 DEF PlanAccounts, Left
      <4>3. CASE ~NoPlan(j)
        <5>1. list = j.retry
          BY <3>5, <4>3 DEF RetryLists
        <5>2. list # <<>> => Outstanding(j) = ToSet(list)
          <6>1. list # <<>> => ToSet(j.retry) # {}
            BY <3>4, <5>1, ToSetNonempty DEF Job
          <6>2. QED
            BY <3>4, <5>1, <6>1, ToSetEmpty DEF Outstanding
        <5>3. QED
          BY <1>1, <2>2, <3>5, <3>6, <4>1, <5>2 DEF PlanAccounts, Left
      <4>4. QED
        BY <4>2, <4>3
    <3>7. CASE n \in legacy
      <4>1. /\ j.date = 0 /\ j.retry = <<>>
            /\ j.processed > 0 /\ ErrorsComplete(j) => j.errors = Left(0)
        BY <3>2, <3>7 DEF AccountInv, LegacyAccounts
      <4>2. Today = 0
        BY <3>2, <4>1
      <4>3. CASE NoPlan(j)
        <5>1. ErrorsComplete(j) /\ j.processed > 0 /\ j.errors = Left(0)
          BY <3>3, <4>1, <4>3 DEF NoPlan
        <5>2. ToSet(list) = Left(0)
          BY <3>5, <4>3, <5>1 DEF RetryLists
        <5>3. j.errors # {}
          <6>1. j.failures > 0 /\ Cardinality(j.errors) = j.failures
            BY <5>1 DEF ErrorsComplete
          <6>2. Cardinality({}) = 0
            BY FS_EmptySet
          <6>3. QED
            BY <6>1, <6>2
        <5>4. list # <<>>
          BY <5>1, <5>2, <5>3, ToSetEmpty
        <5>5. QED
          BY <1>1, <2>2, <3>5, <3>7, <4>2, <5>2, <5>4 DEF PlanAccounts, Left
      <4>4. CASE ~NoPlan(j)
        <5>1. list = <<>> /\ ~(j.processed > 0)
          BY <3>5, <4>1, <4>4 DEF RetryLists, NoPlan
        <5>2. QED
          BY <1>1, <2>2, <3>5, <4>2, <5>1 DEF PlanAccounts
      <4>5. QED
        BY <4>3, <4>4
    <3>8. QED
      BY <3>6, <3>7
  <2>3. QED
    BY <1>1, <2>1, <2>2
<1>5. QED
  BY <1>3, <1>4 DEF AccountInv

\* Interrupting a record changes neither what it hands on nor how an old error
\* list is judged.
LEMMA OpenAccount ==
  ASSUME TypeOK, WorkInv, AccountInv, Open
  PROVE  AccountInv'
<1>1. /\ up = "down"
      /\ UNCHANGED <<nextId, busy, runs, sched, probe, now, refreshed, wrote, legacy>>
      /\ \A i \in JobIds : \/ ledger'[i] = ledger[i]
                           \/ ledger[i].state = "running" /\ ledger'[i] = Interrupt(ledger[i])
  BY OpenStep
<1>2. Taken' = Taken /\ Taken \subseteq JobIds /\ legacy \subseteq Taken
  BY <1>1, TakenAreJobs DEF Taken, WorkInv, RecordsSettled
<1>3. ASSUME NEW i \in JobIds
      PROVE  LET j == ledger[i]
                 k == ledger'[i]
             IN /\ k.date = j.date /\ k.processed = j.processed /\ k.errors = j.errors
                /\ Outstanding(k) = Outstanding(j)
                /\ k.state = "succeeded" => j.state = "succeeded"
                /\ j.retry = <<>> /\ j.remaining = <<>> => k.retry = <<>> /\ k.remaining = <<>>
                /\ ErrorsComplete(k) => ErrorsComplete(j)
  <2>1. CASE ledger'[i] = ledger[i]
    BY <2>1
  <2>2. CASE ledger'[i] = Interrupt(ledger[i])
    <3>1. ledger[i] \in Job
      BY RunTyped
    <3>2. /\ SameAttempt(Interrupt(ledger[i]), ledger[i])
          /\ Interrupt(ledger[i]).state = "interrupted"
          /\ Interrupt(ledger[i]).error = "interrupted"
          /\ Interrupt(ledger[i]).finished = now
          /\ Interrupt(ledger[i]).retry = ledger[i].retry \o ledger[i].remaining
          /\ Interrupt(ledger[i]).remaining = <<>>
          /\ Interrupt(ledger[i]).processed = ledger[i].processed
          /\ Interrupt(ledger[i]).total = ledger[i].total
          /\ Interrupt(ledger[i]).failures = ledger[i].failures
          /\ Interrupt(ledger[i]).errors = ledger[i].errors
      BY <3>1, InterruptFields
    <3>3. Outstanding(Interrupt(ledger[i])) = Outstanding(ledger[i])
      BY <3>1, InterruptOutstanding
    <3>4. ledger[i].retry = <<>> /\ ledger[i].remaining = <<>>
            => Interrupt(ledger[i]).retry = <<>>
      BY <3>2
    <3>5. ErrorsComplete(Interrupt(ledger[i])) => ErrorsComplete(ledger[i])
      BY <3>2 DEF ErrorsComplete
    <3>6. QED
      BY <2>2, <3>2, <3>3, <3>4, <3>5 DEF SameAttempt
  <2>3. QED
    BY <1>1, <2>1, <2>2
<1>4. \A i \in Taken : Newest(i)' => Newest(i)
  BY <1>2, <1>3 DEF Newest
<1>5. WorkerAccounts'
  BY <1>1 DEF AccountInv, WorkerAccounts, Left
<1>6. LedgerAccounts'
  <2>1. ASSUME NEW i \in Taken, ledger'[i].date \in Dates, Newest(i)', i \notin legacy
        PROVE  Symbols \ refreshed[ledger'[i].date] \subseteq Outstanding(ledger'[i])
    BY <1>2, <1>3, <1>4, <2>1 DEF AccountInv, LedgerAccounts, Left
  <2>2. QED
    BY <1>1, <1>2, <2>1 DEF LedgerAccounts, Left
<1>7. SuccessAccounts'
  <2>1. ASSUME NEW i \in Taken, ledger'[i].date \in Dates, ledger'[i].state = "succeeded"
        PROVE  Symbols \ refreshed[ledger'[i].date] = {}
    BY <1>2, <1>3, <2>1 DEF AccountInv, SuccessAccounts, Left
  <2>2. QED
    BY <1>1, <1>2, <2>1 DEF SuccessAccounts, Left
<1>8. LegacyAccounts'
  <2>1. ASSUME NEW i \in legacy
        PROVE  /\ ledger'[i].date = 0 /\ ledger'[i].retry = <<>> /\ ledger'[i].remaining = <<>>
               /\ Newest(i)' /\ ledger'[i].processed > 0 /\ ErrorsComplete(ledger'[i]) =>
                    ledger'[i].errors = Symbols \ refreshed[0]
    BY <1>2, <1>3, <1>4 DEF AccountInv, LegacyAccounts, Left
  <2>2. QED
    BY <1>1, <2>1 DEF LegacyAccounts, Left
<1>9. sched'.phase = "idle"
  BY <1>1 DEF WorkInv, NewestWorks
<1>10. LegacyRetryExact'
  <2>1. \A i \in JobIds : runs'[i].phase = "idle"
    BY <1>1 DEF WorkInv, NewestWorks, Active
  <2>2. QED
    BY <2>1 DEF LegacyRetryExact
<1>11. QED
  BY <1>5, <1>6, <1>7, <1>8, <1>9, <1>10 DEF AccountInv, PlanAccounts

\* Steps that touch no record and refresh nothing.
LEMMA CalmAccount ==
  ASSUME AccountInv, UNCHANGED <<ledger, nextId, refreshed, legacy>>,
         \/ sched'.phase = "idle"
         \/ sched' = sched
         \/ /\ sched.phase = "probe" /\ sched'.phase = "start"
            /\ sched'.list = sched.list /\ sched'.retryOf = sched.retryOf,
         0 \notin legacy,
         \A i \in JobIds : runs'[i].phase # "idle" =>
             /\ runs'[i].phase = runs[i].phase /\ runs'[i].job = runs[i].job
             /\ runs'[i].list = runs[i].list /\ runs'[i].todo = runs[i].todo
             /\ runs'[i].outcome = runs[i].outcome /\ runs'[i].err = runs[i].err
  PROVE  AccountInv'
<1>1. LedgerAccounts' /\ SuccessAccounts' /\ LegacyAccounts'
  BY DEF AccountInv, LedgerAccounts, SuccessAccounts, LegacyAccounts, Left, Newest, Taken
<1>2. PlanAccounts'
  BY DEF AccountInv, PlanAccounts, Left
<1>3. WorkerAccounts'
  <2>1. ASSUME NEW i \in JobIds, runs'[i].phase \notin {"idle", "release"},
               runs'[i].job.date \in Dates
        PROVE  AccountsOf(runs'[i], Left(runs'[i].job.date))
    <3>1. AccountsOf(runs[i], Left(runs'[i].job.date))
      BY <2>1 DEF AccountInv, WorkerAccounts
    <3>2. QED
      BY <2>1, <3>1 DEF AccountsOf
  <2>2. QED
    BY <2>1 DEF WorkerAccounts, Left
<1>4. LegacyRetryExact'
  BY DEF AccountInv, LegacyRetryExact, Plan
<1>5. QED
  BY <1>1, <1>2, <1>3, <1>4 DEF AccountInv

LEMMA NextAccount ==
  ASSUME MaxJobs <= JobsLimit, AttemptsInv, WriterInv, WorkInv, SpacedInv, AccountInv, [Next]_vars
  PROVE  AccountInv'
<1>0. TypeOK /\ 0 \notin legacy
  BY DEF AttemptsInv, TypeOK
<1>1. CASE StartManual
  <2>1. PICK q \in Requests : Start(q.kind, q.list, NoDate, 0)
    BY <1>1 DEF StartManual
  <2>2. NoDate \notin Dates /\ UNCHANGED <<refreshed, legacy, sched>>
    BY <1>1, NoDateIsNoDay DEF StartManual
  <2>3. QED
    BY <1>0, <2>1, <2>2, StartAccount
<1>2. CASE StartScheduled
  <2>1. sched.phase = "start" /\ sched' = Asleep /\ UNCHANGED <<refreshed, legacy>>
    BY <1>2 DEF StartScheduled
  <2>2. CASE UNCHANGED <<ledger, nextId, busy, runs>>
    BY <1>0, <2>1, <2>2, CalmAccount DEF Asleep
  <2>3. CASE Start("daily", sched.list, sched.date, sched.retryOf)
    <3>1. /\ sched.list = <<>> \/ Left(sched.date) \subseteq ToSet(sched.list)
          /\ sched.retryOf \in legacy =>
               /\ sched.date = 0
               /\ ledger[sched.retryOf].processed > 0 =>
                    sched.list # <<>> /\ ToSet(sched.list) = Left(0)
      BY <2>1 DEF AccountInv, PlanAccounts
    <3>2. QED
      BY <1>0, <2>1, <2>3, <3>1, StartAccount
  <2>4. QED
    BY <1>2, <2>2, <2>3 DEF StartScheduled
<1>3. ASSUME NEW i \in JobIds, Worker(i) \/ Timeout(i) PROVE AccountInv'
  BY <1>3, WorkerAccount
<1>4. CASE Open
  BY <1>0, <1>4, OpenAccount
<1>5. CASE ScheduleTick
  BY <1>0, <1>5, TickAccount
<1>6. CASE ConfirmSession
  <2>1. /\ UNCHANGED <<ledger, nextId, refreshed, legacy, runs>> /\ sched.phase = "probe"
        /\ sched' = [sched EXCEPT !.phase = "start"] \/ sched' = Asleep
    BY <1>6 DEF ConfirmSession
  <2>2. \/ sched'.phase = "idle"
        \/ /\ sched'.phase = "start" /\ sched'.list = sched.list
           /\ sched'.retryOf = sched.retryOf
    BY <1>0, <2>1 DEF Asleep, TypeOK, Plans
  <2>3. QED
    BY <1>0, <2>1, <2>2, CalmAccount
<1>7. CASE Close
  <2>1. UNCHANGED <<ledger, nextId, refreshed, legacy, sched>>
    BY <1>7 DEF Close
  <2>2. \A i \in JobIds :
             /\ runs'[i].phase = runs[i].phase /\ runs'[i].job = runs[i].job
             /\ runs'[i].list = runs[i].list /\ runs'[i].todo = runs[i].todo
             /\ runs'[i].outcome = runs[i].outcome /\ runs'[i].err = runs[i].err
    BY <1>0, <1>7 DEF Close, TypeOK, Run
  <2>3. QED
    BY <1>0, <2>1, <2>2, CalmAccount
<1>8. CASE Exit \/ Crash
  <2>1. /\ UNCHANGED <<ledger, nextId, refreshed, legacy>> /\ sched' = Asleep
        /\ runs' = [i \in JobIds |-> Idle]
    BY <1>8 DEF Exit, Crash, Down
  <2>2. sched'.phase = "idle" /\ \A i \in JobIds : runs'[i].phase = "idle"
    BY <2>1 DEF Asleep, Idle
  <2>3. QED
    BY <1>0, <2>1, <2>2, CalmAccount
<1>9. CASE Tick \/ UNCHANGED vars
  <2>1. UNCHANGED <<ledger, nextId, refreshed, legacy, sched, runs>>
    BY <1>9 DEF Tick, vars
  <2>2. QED
    BY <1>0, <2>1, CalmAccount
<1>10. QED
  BY <1>1, <1>2, <1>3, <1>4, <1>5, <1>6, <1>7, <1>8, <1>9 DEF Next

\* The whole inductive invariant.
ServiceInv == AttemptsInv /\ WriterInv /\ WorkInv /\ SpacedInv /\ AccountInv /\ WriteInv

LEMMA ServiceInvariant ==
  ASSUME MaxJobs <= JobsLimit
  PROVE  /\ Init => ServiceInv
         /\ ServiceInv /\ [Next]_vars => ServiceInv'
<1>1. Init => ServiceInv
  BY InitAttempts, InitWriter, InitWork, InitSpaced, InitAccount, InitWrite DEF ServiceInv
<1>2. ASSUME ServiceInv, [Next]_vars PROVE ServiceInv'
  <2>1. AttemptsInv /\ WriterInv /\ WorkInv /\ SpacedInv /\ AccountInv /\ WriteInv
    BY <1>2 DEF ServiceInv
  <2>2. TypeOK /\ Visiting
    BY <2>1 DEF AttemptsInv
  <2>3. AttemptsInv'
    BY <1>2, <2>1, AttemptsStep
  <2>4. WriterInv' /\ WorkInv' /\ WriteInv'
    BY <1>2, <2>1, <2>2, NextWriter, NextWork, NextWrite
  <2>5. SpacedInv' /\ AccountInv'
    BY <1>2, <2>1, NextSpaced, NextAccount
  <2>6. QED
    BY <2>3, <2>4, <2>5 DEF ServiceInv
<1>3. QED
  BY <1>1, <1>2

\* The newest attempt of a day is the newest record of that day.
LEMMA LatestIsNewest ==
  ASSUME TypeOK, NEW d, AttemptsOf(d) # {}
  PROVE  /\ Latest(AttemptsOf(d)) \in AttemptsOf(d) /\ Latest(AttemptsOf(d)) \in Taken
         /\ ledger[Latest(AttemptsOf(d))].date = d /\ Newest(Latest(AttemptsOf(d)))
<1>1. /\ Latest(AttemptsOf(d)) \in AttemptsOf(d)
      /\ \A k \in AttemptsOf(d) : k <= Latest(AttemptsOf(d))
  BY AttemptsAreJobs, LatestExists
<1>2. QED
  BY <1>1 DEF AttemptsOf, Newest

\* And the only one that is.
LEMMA NewestIsLatest ==
  ASSUME TypeOK, NEW d, NEW i \in AttemptsOf(d), \A k \in AttemptsOf(d) : k <= i
  PROVE  Latest(AttemptsOf(d)) = i
<1>1. /\ Latest(AttemptsOf(d)) \in AttemptsOf(d) /\ i <= Latest(AttemptsOf(d))
      /\ AttemptsOf(d) \subseteq JobIds
  BY AttemptsAreJobs, LatestExists
<1>2. QED
  BY <1>1 DEF JobIds

\* No configured symbol is ever forgotten: on every day with an attempt, what is
\* not refreshed is in what the newest record hands on, through failures, lost
\* saves, timeouts, closes, crashes and restarts.
THEOREM NothingIsDropped ==
  ASSUME MaxJobs <= JobsLimit
  PROVE  Spec => []NothingDropped
<1>1. ServiceInv => NothingDropped
  <2> SUFFICES ASSUME ServiceInv, NEW d \in Dates,
                      AttemptsOf(d) # {}, AttemptsOf(d) \cap legacy = {}
               PROVE  Symbols \ refreshed[d] \subseteq Outstanding(ledger[Latest(AttemptsOf(d))])
    BY DEF NothingDropped
  <2> DEFINE n == Latest(AttemptsOf(d))
  <2>1. n \in AttemptsOf(d) /\ n \in Taken /\ ledger[n].date = d /\ Newest(n)
    BY LatestIsNewest DEF ServiceInv, AttemptsInv
  <2>2. n \notin legacy
    BY <2>1
  <2> HIDE DEF n
  <2>3. Left(ledger[n].date) \subseteq Outstanding(ledger[n])
    BY <2>1, <2>2 DEF ServiceInv, AccountInv, LedgerAccounts
  <2>4. QED
    BY <2>1, <2>3 DEF Left, n
<1>2. QED
  BY <1>1, ServiceInvariant, PTL DEF Spec

\* A failed job committed no bars, a succeeded one put nothing in quarantine, and
\* after a scheduled job succeeded every configured symbol of its day is
\* refreshed, by it or by an earlier attempt.
THEOREM VerdictsAreHonest ==
  ASSUME MaxJobs <= JobsLimit
  PROVE  Spec => []VerdictHonest
<1>1. ServiceInv => VerdictHonest
  BY DEF ServiceInv, AccountInv, SuccessAccounts, WriteInv, VerdictHonest, Left
<1>2. QED
  BY <1>1, ServiceInvariant, PTL DEF Spec

\* A retry of an older release's record asks for exactly the symbols that record
\* had not refreshed, whatever has happened between its end and the retry.
THEOREM LegacyRetriesAreExact ==
  ASSUME MaxJobs <= JobsLimit
  PROVE  Spec => []LegacyRetryExact
<1>1. ServiceInv => LegacyRetryExact
  BY DEF ServiceInv, AccountInv
<1>2. QED
  BY <1>1, ServiceInvariant, PTL DEF Spec

(***************************************************************************)
(* The service implements DailyPlan.                                       *)
(***************************************************************************)

StatusMap   == [d \in Dates |-> Status(d)]
AttemptsMap == [d \in Dates |-> Cardinality(AttemptsOf(d))]

\* What a record's state says of its day.
StatusOf(state) == CASE state = "running"   -> "open"
                     [] state = "succeeded" -> "complete"
                     [] OTHER               -> "incomplete"

LEMMA StatusByNewest ==
  ASSUME TypeOK, NEW d
  PROVE  /\ AttemptsOf(d) = {} => Status(d) = "none"
         /\ \A i \in AttemptsOf(d) :
              (\A k \in AttemptsOf(d) : k <= i) => Status(d) = StatusOf(ledger[i].state)
<1>1. AttemptsOf(d) = {} => Status(d) = "none"
  BY DEF Status
<1>2. ASSUME NEW i \in AttemptsOf(d), \A k \in AttemptsOf(d) : k <= i
      PROVE  Status(d) = StatusOf(ledger[i].state)
  <2>1. Latest(AttemptsOf(d)) = i
    BY <1>2, NewestIsLatest
  <2>2. QED
    BY <1>2, <2>1 DEF Status, StatusOf
<1>3. QED
  BY <1>1, <1>2

LEMMA StatusType ==
  ASSUME NEW d
  PROVE  /\ Status(d) \in {"none", "open", "incomplete", "complete"}
         /\ Status(d) = "none" <=> AttemptsOf(d) = {}
BY DEF Status

\* With the same attempts, a day's status moves with its newest record only.
LEMMA StatusKept ==
  ASSUME TypeOK, TypeOK', NEW d, AttemptsOf(d)' = AttemptsOf(d),
         \A i \in AttemptsOf(d) : (\A k \in AttemptsOf(d) : k <= i) =>
             StatusOf(ledger'[i].state) = StatusOf(ledger[i].state)
  PROVE  Status(d)' = Status(d)
<1>1. CASE AttemptsOf(d) = {}
  BY <1>1 DEF Status
<1>2. CASE AttemptsOf(d) # {}
  <2>1. PICK i \in AttemptsOf(d) : \A k \in AttemptsOf(d) : k <= i
    BY <1>2, AttemptsAreJobs, LatestExists
  <2>2. Latest(AttemptsOf(d)) = i
    BY <2>1, NewestIsLatest
  <2>3. Status(d) = StatusOf(ledger[i].state) /\ Status(d)' = StatusOf(ledger'[i].state)
    BY <1>2, <2>2 DEF Status, StatusOf
  <2>4. QED
    BY <2>1, <2>3
<1>3. QED
  BY <1>1, <1>2

LEMMA InitPlan == Init => Promise!Init
<1> SUFFICES ASSUME Init PROVE Promise!Init
  OBVIOUS
<1>1. TypeOK /\ AttemptsInv /\ AccountInv
  BY InitType, InitAttempts, InitAccount
<1>2. ASSUME NEW d \in Dates
      PROVE  /\ Status(d) \in {"none", "open", "incomplete", "complete"}
             /\ Cardinality(AttemptsOf(d)) \in 0 .. MaxAttempts
             /\ Status(d) = "none" <=> Cardinality(AttemptsOf(d)) = 0
             /\ Status(d) = "complete" => Symbols \subseteq refreshed[d]
  <2>1. IsFiniteSet(AttemptsOf(d)) /\ Cardinality(AttemptsOf(d)) \in Nat
    BY <1>1, AttemptsFinite
  <2>2. Cardinality(AttemptsOf(d)) = 0 <=> AttemptsOf(d) = {}
    BY <2>1, FS_EmptySet
  <2>3. Cardinality(AttemptsOf(d)) <= MaxAttempts /\ MaxAttempts \in Nat
    BY <1>1, ConstantsOK DEF AttemptsInv, AttemptsBounded
  <2>4. ASSUME Status(d) = "complete" PROVE Symbols \subseteq refreshed[d]
    <3>1. AttemptsOf(d) # {} /\ ledger[Latest(AttemptsOf(d))].state = "succeeded"
      BY <2>4 DEF Status
    <3>2. /\ Latest(AttemptsOf(d)) \in Taken
          /\ ledger[Latest(AttemptsOf(d))].date = d
      BY <1>1, <3>1, LatestIsNewest
    <3>3. QED
      BY <1>1, <3>1, <3>2 DEF AccountInv, SuccessAccounts, Left
  <2>5. QED
    BY <2>1, <2>2, <2>3, <2>4, StatusType
<1>3. refreshed \in [Dates -> SUBSET AllSymbols]
  BY <1>1 DEF TypeOK
<1>4. QED
  BY <1>2, <1>3 DEF Promise!Init

\* An accepted job of a day is a Begin of that day.
LEMMA StartPlan ==
  ASSUME ServiceInv, ServiceInv', NEW kind, NEW list, NEW d \in Dates, NEW retryOf,
         Start(kind, list, d, retryOf), UNCHANGED refreshed,
         \A i \in AttemptsOf(d) : ledger[i].state \notin {"succeeded", "running"},
         Cardinality(AttemptsOf(d)) < MaxAttempts
  PROVE  Promise!Begin(d)
<1>0. TypeOK /\ TypeOK'
  BY DEF ServiceInv, AttemptsInv
<1>1. /\ ledger'[nextId].date = d /\ ledger'[nextId].started = now
      /\ ledger'[nextId].state = "running"
      /\ Taken' = Taken \cup {nextId} /\ nextId \notin Taken
      /\ \A i \in Taken : ledger'[i] = ledger[i]
  BY <1>0, StartRecord
<1>2. /\ AttemptsOf(d)' = AttemptsOf(d) \cup {nextId} /\ nextId \notin AttemptsOf(d)
      /\ \A e : e # d => AttemptsOf(e)' = AttemptsOf(e)
  BY <1>1 DEF AttemptsOf
<1>3. Status(d) \in {"none", "incomplete"}
  <2>1. CASE AttemptsOf(d) = {}
    BY <2>1, StatusType
  <2>2. CASE AttemptsOf(d) # {}
    <3>1. Latest(AttemptsOf(d)) \in AttemptsOf(d)
      BY <1>0, <2>2, LatestIsNewest
    <3>2. QED
      BY <2>2, <3>1 DEF Status
  <2>3. QED
    BY <2>1, <2>2
<1>4. Status(d)' = "open"
  <2>1. \A k \in AttemptsOf(d)' : k <= nextId
    BY <1>0, <1>2, TakenAreJobs DEF AttemptsOf, Taken
  <2>2. Latest(AttemptsOf(d)') = nextId
    <3>1. AttemptsOf(d)' \subseteq JobIds /\ AttemptsOf(d)' # {}
      BY <1>0, <1>2, AttemptsAreJobs DEF Start
    <3>2. /\ Latest(AttemptsOf(d)') \in AttemptsOf(d)'
          /\ nextId <= Latest(AttemptsOf(d)')
      BY <1>2, <3>1, LatestExists
    <3>3. QED
      BY <1>0, <2>1, <3>1, <3>2, TakenAreJobs DEF JobIds
  <2>3. QED
    BY <1>1, <1>2, <2>2 DEF Status
<1>5. ASSUME NEW e \in Dates, e # d PROVE Status(e)' = Status(e)
  <2>1. AttemptsOf(e)' = AttemptsOf(e) /\ \A i \in AttemptsOf(e) : ledger'[i] = ledger[i]
    BY <1>1, <1>2, <1>5 DEF AttemptsOf
  <2>2. QED
    BY <1>0, <2>1, StatusKept
<1>6. Cardinality(AttemptsOf(d)') = Cardinality(AttemptsOf(d)) + 1
  BY <1>0, <1>2, AttemptsFinite, FS_AddElement
<1>7. [e \in Dates |-> Status(e)]' = [[e \in Dates |-> Status(e)] EXCEPT ![d] = "open"]
  BY <1>4, <1>5
<1>8. [e \in Dates |-> Cardinality(AttemptsOf(e))]'
        = [[e \in Dates |-> Cardinality(AttemptsOf(e))] EXCEPT ![d] = @ + 1]
  BY <1>2, <1>6
<1>9. QED
  BY <1>3, <1>7, <1>8 DEF Promise!Begin

\* The three ways the day's status moves without a new attempt.
LEMMA SamePlan ==
  ASSUME ServiceInv, ServiceInv', UNCHANGED nextId,
         \A i \in JobIds : ledger'[i].date = ledger[i].date
  PROVE  /\ [e \in Dates |-> Cardinality(AttemptsOf(e))]'
              = [e \in Dates |-> Cardinality(AttemptsOf(e))]
         /\ \A e : AttemptsOf(e)' = AttemptsOf(e)
<1>1. \A e : AttemptsOf(e)' = AttemptsOf(e)
  BY SameDaysSameAttempts DEF SameDays, ServiceInv, AttemptsInv
<1>2. QED
  BY <1>1

LEMMA CalmPlan ==
  ASSUME ServiceInv, ServiceInv', UNCHANGED <<nextId, refreshed>>,
         \A i \in JobIds : /\ ledger'[i].date = ledger[i].date
                           /\ ledger[i].date \in Dates => ledger'[i].state = ledger[i].state
  PROVE  UNCHANGED <<StatusMap, AttemptsMap, refreshed>>
<1>1. /\ [e \in Dates |-> Cardinality(AttemptsOf(e))]'
           = [e \in Dates |-> Cardinality(AttemptsOf(e))]
      /\ \A e : AttemptsOf(e)' = AttemptsOf(e)
  BY SamePlan
<1>2. ASSUME NEW e \in Dates PROVE Status(e)' = Status(e)
  <2>1. \A i \in AttemptsOf(e) : ledger'[i].state = ledger[i].state
    BY AttemptsAreJobs DEF AttemptsOf, ServiceInv, AttemptsInv
  <2>2. QED
    BY <1>1, <2>1, StatusKept DEF ServiceInv, AttemptsInv
<1>3. QED
  BY <1>1, <1>2 DEF StatusMap, AttemptsMap

\* Only the newest record changes: the status of its day is what it now says.
LEMMA OneRecordPlan ==
  ASSUME ServiceInv, ServiceInv', UNCHANGED nextId,
         NEW i \in JobIds, i = nextId - 1, NEW d \in Dates, d = ledger[i].date,
         ledger'[i].date = d, \A k \in JobIds : k # i => ledger'[k] = ledger[k]
  PROVE  /\ Status(d) = StatusOf(ledger[i].state)
         /\ [e \in Dates |-> Status(e)]'
              = [[e \in Dates |-> Status(e)] EXCEPT ![d] = StatusOf(ledger'[i].state)]
         /\ [e \in Dates |-> Cardinality(AttemptsOf(e))]'
              = [e \in Dates |-> Cardinality(AttemptsOf(e))]
<1>0. TypeOK /\ TypeOK'
  BY DEF ServiceInv, AttemptsInv
<1>1. /\ [e \in Dates |-> Cardinality(AttemptsOf(e))]'
           = [e \in Dates |-> Cardinality(AttemptsOf(e))]
      /\ \A e : AttemptsOf(e)' = AttemptsOf(e)
  BY SamePlan
<1>2. i \in AttemptsOf(d) /\ \A k \in AttemptsOf(d) : k <= i
  BY <1>0, TakenAreJobs DEF AttemptsOf, Taken, JobIds
<1>3. Latest(AttemptsOf(d)) = i
  BY <1>0, <1>2, NewestIsLatest
<1>4. Status(d) = StatusOf(ledger[i].state) /\ Status(d)' = StatusOf(ledger'[i].state)
  BY <1>1, <1>2, <1>3 DEF Status, StatusOf
<1>5. ASSUME NEW e \in Dates, e # d PROVE Status(e)' = Status(e)
  <2>1. \A k \in AttemptsOf(e) : k # i /\ k \in JobIds
    BY <1>0, <1>5, AttemptsAreJobs DEF AttemptsOf
  <2>2. QED
    BY <1>0, <1>1, <2>1, StatusKept
<1>6. QED
  BY <1>1, <1>4, <1>5

\* A worker refreshes a symbol of an open day, or it ends the day's attempt, or
\* the plan does not see its step.
LEMMA WorkerPlan ==
  ASSUME ServiceInv, ServiceInv', NEW i \in JobIds, Worker(i) \/ Timeout(i)
  PROVE  Promise!Next \/ UNCHANGED <<StatusMap, AttemptsMap, refreshed>>
<1>0. TypeOK /\ Visiting /\ WorkInv /\ AccountInv'
  BY DEF ServiceInv, AttemptsInv
<1>1. /\ i = nextId - 1
      /\ ledger'[i].date = ledger[i].date /\ ledger'[i].started = ledger[i].started
      /\ ledger'[i] # ledger[i] => ledger[i].state = "running"
  BY <1>0, WorkerRecord
<1>2. /\ UNCHANGED nextId
      /\ \A k \in JobIds : k # i => runs'[k] = runs[k] /\ ledger'[k] = ledger[k]
  BY <1>0, WorkerStep
<1>3. CASE Visit(i)
  <2>1. /\ runs[i].phase = "loop" /\ runs[i].todo # <<>>
        /\ runs'[i].phase = "report" /\ runs'[i].todo = runs[i].todo
        /\ \A d \in Dates :
             refreshed'[d] = IF runs'[i].outcome = "ok" /\ d = runs[i].job.date
                             THEN refreshed[d] \cup {Head(runs[i].todo)} ELSE refreshed[d]
    BY <1>0, <1>3, VisitStep
  <2>2. ledger' = ledger
    BY <1>0, <1>3, QuietStep
  <2>3. CASE refreshed' = refreshed
    BY <1>2, <2>2, <2>3, CalmPlan
  <2>4. CASE refreshed' # refreshed
    <3>1. PICK outcome \in Possible(runs[i].job) :
            refreshed' = IF outcome = "ok" /\ runs[i].job.date \in Dates
                         THEN [refreshed EXCEPT ![runs[i].job.date] = @ \cup {Head(runs[i].todo)}]
                         ELSE refreshed
      BY <1>3 DEF Visit
    <3>2. /\ runs[i].job.date \in Dates
          /\ refreshed' = [refreshed EXCEPT ![runs[i].job.date] = @ \cup {Head(runs[i].todo)}]
      BY <2>4, <3>1
    <3>3. runs[i].job.date = ledger[i].date /\ ledger[i].state = "running"
      BY <1>0, <2>1 DEF WorkInv, NewestWorks
    <3>4. Head(runs[i].todo) \in AllSymbols
      BY <1>0, <2>1, RunTyped DEF Run
    <3>5. /\ Status(ledger[i].date) = StatusOf(ledger[i].state)
          /\ [e \in Dates |-> Status(e)]'
               = [[e \in Dates |-> Status(e)] EXCEPT ![ledger[i].date] = StatusOf(ledger'[i].state)]
          /\ [e \in Dates |-> Cardinality(AttemptsOf(e))]'
               = [e \in Dates |-> Cardinality(AttemptsOf(e))]
      BY <1>1, <1>2, <3>2, <3>3, OneRecordPlan
    <3>6. Status(ledger[i].date) = "open"
      BY <3>3, <3>5 DEF StatusOf
    <3>7. [e \in Dates |-> Status(e)]' = [e \in Dates |-> Status(e)]
      BY <2>2, <3>2, <3>3, <3>5
    <3>8. Promise!Refresh(ledger[i].date)
      BY <3>2, <3>3, <3>4, <3>5, <3>6, <3>7 DEF Promise!Refresh
    <3>9. QED
      BY <3>2, <3>3, <3>8 DEF Promise!Next
  <2>5. QED
    BY <2>3, <2>4
<1>4. CASE ~Visit(i)
  <2>1. refreshed' = refreshed
    BY <1>0, <1>4, ConnectStep, ReportStep, FinishStep, ReleaseStep, StillStep DEF Worker
  <2>2. CASE ledger'[i] = ledger[i] \/ ledger[i].date \notin Dates
    BY <1>1, <1>2, <2>1, <2>2, CalmPlan
  <2>3. CASE ledger'[i] # ledger[i] /\ ledger[i].date \in Dates
    <3>1. ledger[i].state = "running"
      BY <1>1, <2>3
    <3>2. /\ Status(ledger[i].date) = StatusOf(ledger[i].state)
          /\ [e \in Dates |-> Status(e)]'
               = [[e \in Dates |-> Status(e)] EXCEPT ![ledger[i].date] = StatusOf(ledger'[i].state)]
          /\ [e \in Dates |-> Cardinality(AttemptsOf(e))]'
               = [e \in Dates |-> Cardinality(AttemptsOf(e))]
      BY <1>1, <1>2, <2>3, OneRecordPlan
    <3>3. Status(ledger[i].date) = "open"
      BY <3>1, <3>2 DEF StatusOf
    <3>4. CASE ledger'[i].state = "running"
      <4>1. [e \in Dates |-> Status(e)]' = [e \in Dates |-> Status(e)]
        BY <2>3, <3>1, <3>2, <3>4
      <4>2. QED
        BY <2>1, <3>2, <4>1 DEF StatusMap, AttemptsMap
    <3>5. CASE ledger'[i].state = "succeeded"
      <4>1. i \in Taken'
        BY <1>0, <1>1, <1>2, TakenAreJobs DEF Taken, JobIds
      <4>2. Symbols \subseteq refreshed[ledger[i].date]
        BY <1>0, <1>1, <2>1, <2>3, <3>5, <4>1 DEF AccountInv, SuccessAccounts, Left
      <4>3. StatusOf(ledger'[i].state) = "complete"
        BY <3>5 DEF StatusOf
      <4>4. Promise!Complete(ledger[i].date)
        BY <2>1, <2>3, <3>2, <3>3, <4>2, <4>3 DEF Promise!Complete
      <4>5. QED
        BY <2>3, <4>4 DEF Promise!Next
    <3>6. CASE ledger'[i].state \notin {"running", "succeeded"}
      <4>1. StatusOf(ledger'[i].state) = "incomplete"
        BY <3>6 DEF StatusOf
      <4>2. Promise!GiveUp
        <5>1. {ledger[i].date} \in SUBSET {d \in Dates : [e \in Dates |-> Status(e)][d] = "open"}
          BY <2>3, <3>3
        <5>2. [e \in Dates |-> Status(e)]' =
                [d \in Dates |-> IF d \in {ledger[i].date} THEN "incomplete"
                                 ELSE [e \in Dates |-> Status(e)][d]]
          BY <2>3, <3>2, <4>1
        <5>3. QED
          BY <2>1, <3>2, <5>1, <5>2 DEF Promise!GiveUp
      <4>3. QED
        BY <4>2 DEF Promise!Next
    <3>7. QED
      BY <3>4, <3>5, <3>6
  <2>4. QED
    BY <2>2, <2>3
<1>5. QED
  BY <1>3, <1>4

LEMMA OpenPlan ==
  ASSUME ServiceInv, ServiceInv', Open
  PROVE  Promise!Next
<1>0. TypeOK /\ TypeOK'
  BY DEF ServiceInv, AttemptsInv
<1>1. /\ UNCHANGED <<nextId, refreshed>>
      /\ \A i \in JobIds : \/ ledger'[i] = ledger[i]
                           \/ ledger[i].state = "running" /\ ledger'[i] = Interrupt(ledger[i])
  BY <1>0, OpenStep
<1>2. \A i \in JobIds : /\ Interrupt(ledger[i]).date = ledger[i].date
                        /\ Interrupt(ledger[i]).state = "interrupted"
  BY <1>0, InterruptFields, RunTyped DEF SameAttempt
<1>3. /\ [e \in Dates |-> Cardinality(AttemptsOf(e))]'
           = [e \in Dates |-> Cardinality(AttemptsOf(e))]
      /\ \A e : AttemptsOf(e)' = AttemptsOf(e)
  BY <1>1, <1>2, SamePlan
<1>4. ASSUME NEW d \in Dates, Status(d)' # Status(d)
      PROVE  Status(d) = "open" /\ Status(d)' = "incomplete"
  <2>1. AttemptsOf(d) # {}
    BY <1>3, <1>4, StatusType, StatusByNewest, <1>0 DEF Status
  <2>2. PICK i \in AttemptsOf(d) : \A k \in AttemptsOf(d) : k <= i
    BY <1>0, <2>1, AttemptsAreJobs, LatestExists
  <2>3. Latest(AttemptsOf(d)) = i /\ i \in JobIds
    BY <1>0, <2>2, NewestIsLatest, AttemptsAreJobs
  <2>4. Status(d) = StatusOf(ledger[i].state) /\ Status(d)' = StatusOf(ledger'[i].state)
    BY <1>3, <2>1, <2>3 DEF Status, StatusOf
  <2>5. QED
    BY <1>1, <1>2, <1>4, <2>3, <2>4 DEF StatusOf
<1> DEFINE D == {d \in Dates : Status(d)' # Status(d)}
<1>5. D \in SUBSET {d \in Dates : [e \in Dates |-> Status(e)][d] = "open"}
  BY <1>4
<1>6. [e \in Dates |-> Status(e)]' =
        [d \in Dates |-> IF d \in D THEN "incomplete" ELSE [e \in Dates |-> Status(e)][d]]
  BY <1>4
<1> HIDE DEF D
<1>7. Promise!GiveUp
  BY <1>1, <1>3, <1>5, <1>6 DEF Promise!GiveUp
<1>8. QED
  BY <1>7 DEF Promise!Next

LEMMA NextPlan ==
  ASSUME ServiceInv, ServiceInv', [Next]_vars
  PROVE  Promise!Next \/ UNCHANGED <<StatusMap, AttemptsMap, refreshed>>
<1>0. TypeOK /\ SpacedInv /\ PlannedHasRoom
  BY DEF ServiceInv, AttemptsInv
<1>1. CASE StartManual
  <2>1. PICK q \in Requests : Start(q.kind, q.list, NoDate, 0)
    BY <1>1 DEF StartManual
  <2>2. /\ ledger'[nextId].date = NoDate /\ ledger'[nextId].started = now
        /\ ledger'[nextId].state = "running"
        /\ Taken' = Taken \cup {nextId} /\ nextId \notin Taken
        /\ \A i \in Taken : ledger'[i] = ledger[i]
    BY <1>0, <2>1, StartRecord
  <2>3. ASSUME NEW d \in Dates PROVE AttemptsOf(d)' = AttemptsOf(d)
    BY <2>2, NoDateIsNoDay DEF AttemptsOf
  <2>4. ASSUME NEW d \in Dates PROVE Status(d)' = Status(d)
    <3>1. \A i \in AttemptsOf(d) : ledger'[i] = ledger[i]
      BY <2>2 DEF AttemptsOf
    <3>2. QED
      BY <2>3, <3>1, StatusKept DEF ServiceInv, AttemptsInv
  <2>5. UNCHANGED refreshed
    BY <1>1 DEF StartManual
  <2>6. QED
    BY <2>3, <2>4, <2>5 DEF StatusMap, AttemptsMap
<1>2. CASE StartScheduled
  <2>1. sched.phase = "start" /\ UNCHANGED refreshed
    BY <1>2 DEF StartScheduled
  <2>2. CASE UNCHANGED <<ledger, nextId, busy, runs>>
    BY <2>1, <2>2, CalmPlan
  <2>3. CASE Start("daily", sched.list, sched.date, sched.retryOf)
    <3>1. sched.date \in Dates
      BY <1>0 DEF TypeOK, Plans
    <3>2. /\ \A i \in AttemptsOf(sched.date) : ledger[i].state \notin {"succeeded", "running"}
          /\ Cardinality(AttemptsOf(sched.date)) < MaxAttempts
      BY <1>0, <2>1 DEF SpacedInv, PlannedReady, PlannedHasRoom
    <3>3. Promise!Begin(sched.date)
      BY <2>1, <2>3, <3>1, <3>2, StartPlan
    <3>4. QED
      BY <3>1, <3>3 DEF Promise!Next
  <2>4. QED
    BY <1>2, <2>2, <2>3 DEF StartScheduled
<1>3. CASE \E i \in JobIds : Worker(i) \/ Timeout(i)
  BY <1>3, WorkerPlan
<1>4. CASE Open
  BY <1>4, OpenPlan
<1>5. CASE \/ ScheduleTick \/ ConfirmSession \/ Close \/ Exit \/ Crash \/ Tick
           \/ UNCHANGED vars
  <2>1. UNCHANGED <<ledger, nextId, refreshed>>
    BY <1>5 DEF ScheduleTick, ConfirmSession, Close, Exit, Crash, Down, Tick, vars
  <2>2. QED
    BY <2>1, CalmPlan
<1>6. QED
  BY <1>1, <1>2, <1>3, <1>4, <1>5 DEF Next

\* The ledger, its workers, their crashes and restarts implement the daily plan:
\* attempts one after the other and never too many, symbols refreshed only while
\* an attempt is open, and a day declared complete only when nothing is left.
THEOREM ImplementsPlan ==
  ASSUME MaxJobs <= JobsLimit
  PROVE  Spec => ImplementsDailyPlan
<1>1. Init => Promise!Init
  BY InitPlan
<1>2. ServiceInv /\ ServiceInv' /\ [Next]_vars
        => [Promise!Next]_<<StatusMap, AttemptsMap, refreshed>>
  BY NextPlan
<1>3. QED
  BY <1>1, <1>2, ServiceInvariant, PTL
     DEF Spec, ImplementsDailyPlan, Promise!Spec, StatusMap, AttemptsMap
===============================================================================
