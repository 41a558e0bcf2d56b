----------------------------- MODULE StoresProofs -----------------------------
(* What TLAPS proves of the stores that MCStores runs side by side: the        *)
(* once-a-day stores Gbbq, Workday and Codes, the update of the day bars and   *)
(* the download of the package, for any number of stocks, events, sessions,    *)
(* codes, days and versions, every length of time and every retry limit.       *)
EXTENDS Codes, Gbbq, Workday, PullUpdate, PackageDownload, TLAPS, WellFoundedInduction

(***************************************************************************)
(* Marks and the node of the day.                                          *)
(***************************************************************************)
LEMMA NodeIsNear ==
  ASSUME NEW now \in Nat
  PROVE  LastNode(now) \in {now, now - 1}
BY DEF LastNode

(***************************************************************************)
(* Gbbq: the inductive invariant.                                          *)
(***************************************************************************)
GbbqType ==
    /\ clock \in Nat
    /\ events \in [Stocks -> Nat \ {NoEvents}]
    /\ gbbqTable \in [Stocks -> Nat]
    /\ gbbqMark \in Nat \cup {Never}
    /\ gbbqRun \in [pc : {"down", "load", "idle", "fetch", "store", "mark"},
                    new : BOOLEAN, got : [Stocks -> Nat], next : Nat \ {0},
                    tries : Nat, begun : Nat]
    /\ eventful \in [Stocks -> Nat]

\* The answer for a stock has all the events the server had when Update began.
Fetched(s) ==
    /\ gbbqRun.got[s] # NoEvents
    /\ eventful[s] < gbbqRun.begun => gbbqRun.got[s] = events[s]

\* An Update under way: how late it is, and what it has so far.
GbbqProgress ==
    /\ gbbqRun.pc \in {"fetch", "store", "mark"} =>
          /\ gbbqRun.begun <= clock /\ clock <= gbbqRun.begun + 1
          /\ gbbqMark # Never => gbbqMark <= gbbqRun.begun
    /\ gbbqRun.pc = "fetch" =>
          /\ gbbqRun.next <= Len(StockList)
          /\ \A i \in 1 .. gbbqRun.next - 1 : Fetched(StockList[i])
    /\ gbbqRun.pc \in {"store", "mark"} => \A s \in Stocks : Fetched(s)
    /\ gbbqRun.pc = "mark" => gbbqTable = gbbqRun.got

\* A mark, current or not, vouches for the table: later failed Updates only
\* make it fresher.
MarkedTable ==
    gbbqMark # Never =>
        /\ gbbqMark <= clock
        /\ \A s \in Stocks :
              /\ gbbqTable[s] # NoEvents
              /\ eventful[s] < gbbqMark - 1 => gbbqTable[s] = events[s]

GbbqInv == GbbqType /\ GbbqProgress /\ MarkedTable

LEMMA StockFacts ==
  /\ Len(StockList) \in Nat /\ Len(StockList) >= 1
  /\ \A i \in 1 .. Len(StockList) : StockList[i] \in Stocks
  /\ \A s \in Stocks : \E i \in 1 .. Len(StockList) : s = StockList[i]
BY GbbqConstants DEF Stocks

LEMMA DownFacts ==
  /\ GbbqDown.pc = "down" /\ GbbqDown.begun = 0
  /\ GbbqDown \in [pc : {"down"}, new : BOOLEAN, got : [Stocks -> Nat], next : Nat \ {0},
                   tries : Nat, begun : Nat]
<1>1. Blank \in [Stocks -> Nat]
  BY DEF Blank, NoEvents
<1>2. QED
  BY <1>1 DEF GbbqDown

\* However an Update fails, it is over.
LEMMA ErrorFacts ==
  ASSUME GbbqType, GbbqError
  PROVE  /\ gbbqRun'.pc \in {"down", "load", "idle"}
         /\ gbbqRun' \in [pc : {"down", "load", "idle"}, new : BOOLEAN, got : [Stocks -> Nat],
                          next : Nat \ {0}, tries : Nat, begun : Nat]
BY DownFacts DEF GbbqError, GbbqType, Turn

\* A step to a state without an Update under way, that keeps table and mark.
LEMMA QuietStep ==
  ASSUME GbbqInv,
         gbbqRun'.pc \in {"down", "load", "idle"},
         gbbqRun' \in [pc : {"down", "load", "idle"}, new : BOOLEAN, got : [Stocks -> Nat],
                       next : Nat \ {0}, tries : Nat, begun : Nat],
         UNCHANGED <<clock, events, gbbqTable, gbbqMark, eventful>>
  PROVE  GbbqInv'
<1> USE DEF GbbqInv
<1>1. GbbqType'
  BY DEF GbbqType
<1>2. GbbqProgress'
  BY DEF GbbqProgress
<1>3. MarkedTable'
  BY DEF MarkedTable
<1>4. QED
  BY <1>1, <1>2, <1>3

LEMMA GbbqInitInv == ClockInit /\ GbbqInit => GbbqInv
<1> SUFFICES ASSUME ClockInit, GbbqInit PROVE GbbqInv
  OBVIOUS
<1>1. gbbqRun.pc = "down" /\ gbbqMark = Never
  BY DownFacts DEF GbbqInit
<1>2. Blank \in [Stocks -> Nat] /\ [s \in Stocks |-> 1] \in [Stocks -> Nat \ {NoEvents}]
      /\ [s \in Stocks |-> 0] \in [Stocks -> Nat]
  BY DEF Blank, NoEvents
<1>3. gbbqRun \in [pc : {"down", "load", "idle", "fetch", "store", "mark"},
                   new : BOOLEAN, got : [Stocks -> Nat], next : Nat \ {0},
                   tries : Nat, begun : Nat]
  BY DownFacts DEF GbbqInit
<1>4. GbbqType
  BY <1>1, <1>2, <1>3 DEF ClockInit, GbbqInit, GbbqType
<1>5. GbbqProgress /\ MarkedTable
  BY <1>1 DEF GbbqProgress, MarkedTable
<1>6. QED
  BY <1>4, <1>5 DEF GbbqInv

(***************************************************************************)
(* Gbbq: the steps that change the table, the mark or the answers.         *)
(***************************************************************************)
LEMMA LoadStep ==
  ASSUME GbbqInv, GbbqLoad
  PROVE  GbbqInv'
<1>0. UNCHANGED <<clock, events, gbbqTable, gbbqMark, eventful>> /\ gbbqRun.pc = "load"
  BY DEF GbbqLoad, Doing
<1>1. CASE Turn("idle")
  <2>1. /\ gbbqRun'.pc = "idle"
        /\ gbbqRun' \in [pc : {"down", "load", "idle"}, new : BOOLEAN, got : [Stocks -> Nat],
                         next : Nat \ {0}, tries : Nat, begun : Nat]
    BY <1>1 DEF Turn, GbbqInv, GbbqType
  <2>2. QED
    BY <1>0, <2>1, QuietStep
<1>2. CASE GbbqError
  BY <1>0, <1>2, ErrorFacts, QuietStep DEF GbbqInv
<1>3. CASE gbbqRun' = [gbbqRun EXCEPT !.pc = "fetch", !.got = Blank, !.next = 1,
                          !.tries = 0, !.begun = clock]
  <2> USE DEF GbbqInv
  <2>1. Blank \in [Stocks -> Nat]
    BY DEF Blank, NoEvents
  <2>2. gbbqRun'.pc = "fetch" /\ gbbqRun'.next = 1 /\ gbbqRun'.begun = clock
    BY <1>3 DEF GbbqType
  <2>3. GbbqType'
    <3>1. gbbqRun' \in [pc : {"down", "load", "idle", "fetch", "store", "mark"},
                        new : BOOLEAN, got : [Stocks -> Nat], next : Nat \ {0},
                        tries : Nat, begun : Nat]
      <4>1. clock \in Nat /\ 1 \in Nat \ {0} /\ 0 \in Nat
        BY DEF GbbqType
      <4>2. gbbqRun \in [pc : {"down", "load", "idle", "fetch", "store", "mark"},
                         new : BOOLEAN, got : [Stocks -> Nat], next : Nat \ {0},
                         tries : Nat, begun : Nat]
        BY DEF GbbqType
      <4>3. QED
        BY <1>3, <2>1, <4>1, <4>2
    <3>2. QED
      BY <1>0, <3>1 DEF GbbqType
  <2>4. GbbqProgress'
    BY <1>0, <2>2, StockFacts DEF GbbqProgress, GbbqType, MarkedTable
  <2>5. MarkedTable'
    BY <1>0 DEF MarkedTable
  <2>6. QED
    BY <2>3, <2>4, <2>5
<1>4. QED
  BY <1>1, <1>2, <1>3 DEF GbbqLoad

\* One stock is answered.
LEMMA AnswerStep ==
  ASSUME GbbqInv, gbbqRun.pc = "fetch", gbbqRun.next \in 1 .. Len(StockList),
         UNCHANGED <<clock, events, gbbqTable, gbbqMark, eventful>>,
         NEW s \in Stocks, s = StockList[gbbqRun.next],
         gbbqRun' = [gbbqRun EXCEPT !.got[s] = events[s], !.next = @ + 1, !.tries = 0,
                        !.pc = IF gbbqRun.next = Len(StockList) THEN "store" ELSE @]
  PROVE  GbbqInv'
<1> USE DEF GbbqInv
<1>1. events[s] \in Nat \ {NoEvents}
  BY DEF GbbqType
<1>2. [gbbqRun.got EXCEPT ![s] = events[s]] \in [Stocks -> Nat]
  BY <1>1 DEF GbbqType
<1>3. /\ gbbqRun'.got = [gbbqRun.got EXCEPT ![s] = events[s]]
      /\ gbbqRun'.next = gbbqRun.next + 1 /\ gbbqRun'.begun = gbbqRun.begun
      /\ gbbqRun'.pc = IF gbbqRun.next = Len(StockList) THEN "store" ELSE "fetch"
  BY DEF GbbqType
<1>4. GbbqType'
  <2>1. gbbqRun' = [gbbqRun EXCEPT !.got = [gbbqRun.got EXCEPT ![s] = events[s]],
                       !.next = gbbqRun.next + 1, !.tries = 0, !.pc = gbbqRun'.pc]
    BY <1>3 DEF GbbqType
  <2>2. gbbqRun'.pc \in {"fetch", "store"} /\ gbbqRun.next + 1 \in Nat \ {0}
    BY <1>3
  <2>3. gbbqRun' \in [pc : {"down", "load", "idle", "fetch", "store", "mark"},
                      new : BOOLEAN, got : [Stocks -> Nat], next : Nat \ {0},
                      tries : Nat, begun : Nat]
    BY <1>2, <2>1, <2>2 DEF GbbqType
  <2>4. QED
    BY <2>3 DEF GbbqType
<1>5. /\ gbbqRun'.got[s] = events[s]
      /\ \A d \in Stocks \ {s} : gbbqRun'.got[d] = gbbqRun.got[d]
  BY <1>3 DEF GbbqType
<1>6. ASSUME NEW d \in Stocks, d = s \/ Fetched(d)
      PROVE  Fetched(d)'
  BY <1>1, <1>3, <1>5, <1>6 DEF Fetched
<1>7. ASSUME NEW i \in 1 .. gbbqRun.next
      PROVE  Fetched(StockList[i])'
  <2>1. StockList[i] \in Stocks
    BY StockFacts
  <2>2. StockList[i] = s \/ Fetched(StockList[i])
    BY DEF GbbqProgress, GbbqType
  <2>3. QED
    BY <2>1, <2>2, <1>6
<1>8. GbbqProgress'
  <2>1. /\ gbbqRun.begun <= clock /\ clock <= gbbqRun.begun + 1
        /\ gbbqMark # Never => gbbqMark <= gbbqRun.begun
    BY DEF GbbqProgress
  <2>2. CASE gbbqRun.next = Len(StockList)
    <3>1. ASSUME NEW d \in Stocks PROVE Fetched(d)'
      <4>1. PICK i \in 1 .. Len(StockList) : d = StockList[i]
        BY StockFacts
      <4>2. QED
        BY <1>7, <2>2, <4>1
    <3>2. QED
      BY <1>3, <2>1, <2>2, <3>1 DEF GbbqProgress
  <2>3. CASE gbbqRun.next # Len(StockList)
    <3>1. gbbqRun'.pc = "fetch" /\ gbbqRun'.next <= Len(StockList)
          /\ 1 .. gbbqRun'.next - 1 = 1 .. gbbqRun.next
      BY <1>3, <2>3, StockFacts
    <3>2. QED
      BY <1>3, <1>7, <2>1, <3>1 DEF GbbqProgress
  <2>4. QED
    BY <2>2, <2>3
<1>9. MarkedTable'
  BY DEF MarkedTable
<1>10. QED
  BY <1>4, <1>8, <1>9

LEMMA FetchStep ==
  ASSUME GbbqInv, GbbqFetch
  PROVE  GbbqInv'
<1>0. /\ UNCHANGED <<clock, events, gbbqTable, gbbqMark, eventful>> /\ gbbqRun.pc = "fetch"
      /\ gbbqRun.next \in 1 .. Len(StockList)
  BY DEF GbbqFetch, Doing, GbbqInv, GbbqProgress, GbbqType
<1>1. CASE GbbqGivesUp
  BY <1>0, <1>1, ErrorFacts, QuietStep DEF GbbqInv, GbbqGivesUp
<1>2. CASE gbbqRun' = [gbbqRun EXCEPT !.tries = @ + 1]
  <2> USE DEF GbbqInv
  <2>1. /\ gbbqRun'.pc = gbbqRun.pc /\ gbbqRun'.got = gbbqRun.got
        /\ gbbqRun'.next = gbbqRun.next /\ gbbqRun'.begun = gbbqRun.begun
    BY <1>2 DEF GbbqType
  <2>2. GbbqType'
    <3>1. gbbqRun.tries + 1 \in Nat
      BY DEF GbbqType
    <3>2. gbbqRun' \in [pc : {"down", "load", "idle", "fetch", "store", "mark"},
                        new : BOOLEAN, got : [Stocks -> Nat], next : Nat \ {0},
                        tries : Nat, begun : Nat]
      BY <1>2, <3>1 DEF GbbqType
    <3>3. QED
      BY <1>0, <3>2 DEF GbbqType
  <2>3. GbbqProgress' /\ MarkedTable'
    BY <1>0, <2>1 DEF GbbqProgress, MarkedTable, Fetched
  <2>4. QED
    BY <2>2, <2>3
<1>3. CASE gbbqRun' = [gbbqRun EXCEPT
                          !.got[StockList[gbbqRun.next]] = events[StockList[gbbqRun.next]],
                          !.next = @ + 1, !.tries = 0,
                          !.pc = IF gbbqRun.next = Len(StockList) THEN "store" ELSE @]
  BY <1>0, <1>3, AnswerStep, StockFacts
<1>4. QED
  BY <1>1, <1>2, <1>3 DEF GbbqFetch

\* The table is replaced, and the mark is older than what replaces it.
LEMMA StoreStep ==
  ASSUME GbbqInv, GbbqStore
  PROVE  GbbqInv'
<1>0. UNCHANGED <<clock, events, gbbqMark, eventful>> /\ gbbqRun.pc = "store"
  BY DEF GbbqStore, Doing
<1>1. CASE GbbqError /\ gbbqTable' = gbbqTable
  BY <1>0, <1>1, ErrorFacts, QuietStep DEF GbbqInv
<1>2. CASE gbbqTable' = gbbqRun.got /\ Turn("mark")
  <2> USE DEF GbbqInv
  <2>1. /\ gbbqRun'.pc = "mark" /\ gbbqRun'.got = gbbqRun.got
        /\ gbbqRun'.next = gbbqRun.next /\ gbbqRun'.begun = gbbqRun.begun
    BY <1>2 DEF Turn, GbbqType
  <2>2. GbbqType'
    BY <1>0, <1>2 DEF Turn, GbbqType
  <2>3. GbbqProgress'
    BY <1>0, <1>2, <2>1 DEF GbbqProgress, Fetched
  <2>4. ASSUME gbbqMark # Never, NEW s \in Stocks
        PROVE  gbbqRun.got[s] # NoEvents
               /\ (eventful[s] < gbbqMark - 1 => gbbqRun.got[s] = events[s])
    BY <1>0, <2>4 DEF GbbqProgress, Fetched, GbbqType, Never
  <2>5. MarkedTable'
    BY <1>0, <1>2, <2>4 DEF MarkedTable
  <2>6. QED
    BY <2>2, <2>3, <2>5
<1>3. QED
  BY <1>1, <1>2 DEF GbbqStore

\* The mark is at most one half day later than the start of its Update.
LEMMA MarkStep ==
  ASSUME GbbqInv, GbbqMark
  PROVE  GbbqInv'
<1>0. UNCHANGED <<clock, events, gbbqTable, eventful>> /\ gbbqRun.pc = "mark"
  BY DEF GbbqMark, Doing
<1>1. CASE GbbqError /\ UNCHANGED <<gbbqMark, gbbqMemory>>
  BY <1>0, <1>1, ErrorFacts, QuietStep DEF GbbqInv
<1>2. CASE gbbqMark' = clock /\ Turn("idle")
  <2> USE DEF GbbqInv
  <2>1. gbbqRun'.pc = "idle"
    BY <1>2 DEF Turn, GbbqType
  <2>2. GbbqType'
    BY <1>0, <1>2 DEF Turn, GbbqType
  <2>3. GbbqProgress'
    BY <2>1 DEF GbbqProgress
  <2>4. ASSUME NEW s \in Stocks
        PROVE  gbbqTable[s] # NoEvents
               /\ (eventful[s] < clock - 1 => gbbqTable[s] = events[s])
    BY <1>0 DEF GbbqProgress, Fetched, GbbqType
  <2>5. MarkedTable'
    BY <1>0, <1>2, <2>4 DEF MarkedTable, GbbqType
  <2>6. QED
    BY <2>2, <2>3, <2>5
<1>3. QED
  BY <1>1, <1>2 DEF GbbqMark

LEMMA NewEventStep ==
  ASSUME GbbqInv, NEW s \in Stocks, NewEvent(s)
  PROVE  GbbqInv'
<1> USE DEF GbbqInv
<1>0. /\ UNCHANGED <<clock, gbbqTable, gbbqMark, gbbqRun>>
      /\ events' = [events EXCEPT ![s] = events[s] + 1]
      /\ eventful' = [eventful EXCEPT ![s] = clock]
  BY DEF NewEvent
<1>1. GbbqType'
  BY <1>0 DEF GbbqType, NoEvents
<1>2. /\ eventful'[s] = clock
      /\ \A d \in Stocks \ {s} : eventful'[d] = eventful[d] /\ events'[d] = events[d]
  BY <1>0 DEF GbbqType
<1>3. ASSUME gbbqRun.pc \in {"fetch", "store", "mark"}, NEW d \in Stocks, Fetched(d)
      PROVE  Fetched(d)'
  BY <1>0, <1>2, <1>3 DEF Fetched, GbbqProgress, GbbqType
<1>4. GbbqProgress'
  <2>1. gbbqRun'.pc = gbbqRun.pc /\ gbbqRun'.next = gbbqRun.next
        /\ gbbqRun'.begun = gbbqRun.begun /\ gbbqRun'.got = gbbqRun.got
    BY <1>0
  <2>2. CASE gbbqRun.pc = "fetch"
    <3>1. ASSUME NEW i \in 1 .. gbbqRun.next - 1 PROVE Fetched(StockList[i])'
      <4>1. StockList[i] \in Stocks /\ Fetched(StockList[i])
        BY <2>2, StockFacts DEF GbbqProgress, GbbqType
      <4>2. QED
        BY <1>3, <2>2, <4>1
    <3>2. QED
      BY <1>0, <2>1, <2>2, <3>1 DEF GbbqProgress
  <2>3. CASE gbbqRun.pc \in {"store", "mark"}
    <3>1. ASSUME NEW d \in Stocks PROVE Fetched(d)'
      BY <1>3, <2>3 DEF GbbqProgress
    <3>2. QED
      BY <1>0, <2>1, <2>3, <3>1 DEF GbbqProgress
  <2>4. CASE gbbqRun.pc \notin {"fetch", "store", "mark"}
    BY <2>1, <2>4 DEF GbbqProgress
  <2>5. QED
    BY <2>2, <2>3, <2>4
<1>5. MarkedTable'
  BY <1>0, <1>2 DEF MarkedTable, GbbqType, Never
<1>6. QED
  BY <1>1, <1>4, <1>5

LEMMA GbbqTickStep ==
  ASSUME GbbqInv, GbbqTick
  PROVE  GbbqInv'
<1> USE DEF GbbqInv
<1>0. /\ UNCHANGED <<events, gbbqTable, gbbqMark, gbbqRun, eventful>> /\ clock' = clock + 1
      /\ gbbqRun.pc \in {"fetch", "store", "mark"} => clock <= gbbqRun.begun
  BY DEF GbbqTick, Tick
<1>1. GbbqType'
  BY <1>0 DEF GbbqType
<1>2. GbbqProgress'
  BY <1>0 DEF GbbqProgress, GbbqType, Fetched
<1>3. MarkedTable'
  BY <1>0 DEF MarkedTable, GbbqType, Never
<1>4. QED
  BY <1>1, <1>2, <1>3

LEMMA GbbqNextInv ==
  ASSUME GbbqInv, [GbbqNext]_gbbqVars
  PROVE  GbbqInv'
<1>1. CASE NewGbbq
  <2>1. /\ gbbqRun' = [GbbqDown EXCEPT !.pc = "load"]
        /\ UNCHANGED <<clock, events, gbbqTable, gbbqMark, eventful>>
    BY <1>1 DEF NewGbbq
  <2>2. QED
    BY <2>1, DownFacts, QuietStep
<1>2. CASE GbbqCron
  <2>1. /\ gbbqRun' = [GbbqDown EXCEPT !.pc = "load", !.new = FALSE]
        /\ UNCHANGED <<clock, events, gbbqTable, gbbqMark, eventful>>
    BY <1>2 DEF GbbqCron
  <2>2. QED
    BY <2>1, DownFacts, QuietStep
<1>3. CASE GbbqCrash
  BY <1>3, DownFacts, QuietStep DEF GbbqCrash
<1>4. CASE UNCHANGED gbbqVars
  BY <1>4 DEF gbbqVars, GbbqInv, GbbqType, GbbqProgress, Fetched, MarkedTable
<1>5. QED
  BY <1>1, <1>2, <1>3, <1>4, LoadStep, FetchStep, StoreStep, MarkStep, NewEventStep,
     GbbqTickStep DEF GbbqNext

\* A current mark of the share changes vouches for the table: every stock has
\* an answer, with all the events of half a day before the node, for any
\* number of stocks, retries, events, failures and crashes.
THEOREM GbbqMarksVouch == GbbqSpec => []GbbqMarkVouches
<1>1. GbbqInv => GbbqMarkVouches
  <2> SUFFICES ASSUME GbbqInv, IsCurrent(gbbqMark, clock), NEW s \in Stocks
               PROVE  /\ gbbqTable[s] # NoEvents
                      /\ eventful[s] < LastNode(clock) - 1 => gbbqTable[s] = events[s]
    BY DEF GbbqMarkVouches
  <2>1. LastNode(clock) \in {clock, clock - 1} /\ clock \in Nat
    BY NodeIsNear DEF GbbqInv, GbbqType
  <2>2. gbbqMark \in Nat /\ gbbqMark >= LastNode(clock) /\ gbbqMark # Never
    BY DEF IsCurrent, GbbqInv, GbbqType
  <2>3. eventful[s] \in Nat
    BY DEF GbbqInv, GbbqType
  <2>4. QED
    BY <2>1, <2>2, <2>3 DEF GbbqInv, MarkedTable
<1>2. QED
  BY GbbqInitInv, GbbqNextInv, <1>1, PTL DEF GbbqSpec

(***************************************************************************)
(* Workday: the newest stored day.                                         *)
(***************************************************************************)

\* A bounded set of days, or of -1 for none, has a maximum, and Max is it.
LEMMA NewestDay ==
  ASSUME NEW S, S # {}, NEW bound \in Nat, \A d \in S : d \in Int /\ d <= bound
  PROVE  Max(S) \in S /\ \A d \in S : d <= Max(S)
<1> DEFINE T == {bound - d : d \in S}
           R == OpToRel(<, Nat)
<1>1. T \subseteq Nat /\ T # {}
  OBVIOUS
<1>2. IsWellFoundedOn(R, Nat)
  BY NatLessThanWellFounded
<1>3. PICK t \in T : \A u \in T : ~ (<<u, t>> \in R)
  <2> HIDE DEF T, R
  <2>1. QED
    BY <1>1, <1>2, WFMin
<1>4. \A u \in T : t <= u
  <2>0. T \subseteq Int
    BY <1>1
  <2> HIDE DEF T
  <2> SUFFICES ASSUME NEW u \in T, u < t PROVE FALSE
    BY <2>0
  <2>1. <<u, t>> \in R
    BY <1>1 DEF OpToRel
  <2>2. QED
    BY <1>3, <2>1
<1>5. PICK m \in S : t = bound - m
  OBVIOUS
<1>6. \A d \in S : d <= m
  <2> SUFFICES ASSUME NEW d \in S PROVE d <= m
    OBVIOUS
  <2>1. t <= bound - d
    BY <1>4
  <2>2. QED
    BY <1>5, <2>1
<1>7. \E x \in S : \A y \in S : x >= y
  BY <1>6
<1>8. Max(S) \in S /\ \A d \in S : Max(S) >= d
  BY <1>7 DEF Max
<1>9. QED
  BY <1>8

(***************************************************************************)
(* Workday: the inductive invariant.                                       *)
(***************************************************************************)
WorkdayType ==
    /\ clock \in Nat
    /\ dayTable \subseteq Sessions
    /\ dayBits \subseteq Sessions
    /\ dayRun \in [pc : {"down", "update", "fetch", "insert", "idle"}, new : BOOLEAN,
                   last : Nat \cup {-1}, got : SUBSET Sessions]

\* Days are known only after they have begun.
KnownDays == dayTable \subseteq Served(clock)

\* A process that has read the table once has it in memory, also after an
\* update that failed.
TableInMemory ==
    (dayRun.pc \in {"fetch", "insert", "idle"} \/ (dayRun.pc = "update" /\ ~dayRun.new))
        => dayTable \subseteq dayBits

\* What the update of the moment goes by.
WorkdayProgress ==
    /\ dayRun.pc = "fetch" =>
          /\ dayRun.last \in dayTable \cup {-1}
          /\ \A d \in dayTable : d <= dayRun.last
    /\ dayRun.pc = "insert" =>
          /\ dayRun.got \subseteq dayBits
          /\ dayRun.got \subseteq Served(clock)
          /\ NoGap(dayTable \cup dayRun.got)

WorkdayInv ==
    /\ WorkdayType /\ KnownDays /\ TableInMemory /\ WorkdayProgress
    /\ NoGap(dayTable) /\ NoGap(dayBits)

LEMMA NoGapJoins ==
  ASSUME NEW A, NEW B, NoGap(A), NoGap(B)
  PROVE  NoGap(A \cup B)
BY DEF NoGap

LEMMA DaysDownFacts ==
  /\ DaysDown.pc = "down"
  /\ DaysDown \in [pc : {"down"}, new : BOOLEAN, last : Nat \cup {-1}, got : SUBSET Sessions]
BY DEF DaysDown

LEMMA WorkdayInitInv == ClockInit /\ WorkdayInit => WorkdayInv
<1> SUFFICES ASSUME ClockInit, WorkdayInit PROVE WorkdayInv
  OBVIOUS
<1>1. WorkdayType
  BY DaysDownFacts DEF ClockInit, WorkdayInit, WorkdayType
<1>2. KnownDays /\ NoGap(dayTable) /\ NoGap(dayBits)
  BY DEF WorkdayInit, KnownDays, NoGap
<1>3. TableInMemory /\ WorkdayProgress
  BY DaysDownFacts DEF WorkdayInit, TableInMemory, WorkdayProgress
<1>4. QED
  BY <1>1, <1>2, <1>3 DEF WorkdayInv

(***************************************************************************)
(* Workday: the steps.                                                     *)
(***************************************************************************)

\* A step to a state without an update under way, or to one that has just
\* begun, that keeps the table.
LEMMA RestStep ==
  ASSUME WorkdayInv, UNCHANGED <<clock, dayTable>>,
         dayRun' \in [pc : {"down", "update", "idle"}, new : BOOLEAN,
                      last : Nat \cup {-1}, got : SUBSET Sessions],
         dayBits' \subseteq Sessions, NoGap(dayBits'),
         TableInMemory'
  PROVE  WorkdayInv'
<1> USE DEF WorkdayInv
<1>1. WorkdayType'
  BY DEF WorkdayType
<1>2. KnownDays'
  BY DEF KnownDays, Served
<1>3. WorkdayProgress'
  BY DEF WorkdayProgress
<1>4. NoGap(dayTable)' /\ NoGap(dayBits)'
  BY DEF NoGap
<1>5. QED
  BY <1>1, <1>2, <1>3, <1>4

\* However an update fails, the table stays, and so does what a running
\* process has in memory.
LEMMA WorkdayErrorStep ==
  ASSUME WorkdayInv, WorkdayError, UNCHANGED <<clock, dayTable>>,
         dayRun.pc \in {"update", "fetch", "insert"}
  PROVE  WorkdayInv'
<1>1. CASE dayRun.new
  <2>1. dayRun' = DaysDown /\ dayBits' = {}
    BY <1>1 DEF WorkdayError
  <2>2. TableInMemory'
    BY <2>1, DaysDownFacts DEF TableInMemory
  <2>3. NoGap(dayBits') /\ dayBits' \subseteq Sessions
    BY <2>1 DEF NoGap
  <2>4. QED
    BY <2>1, <2>2, <2>3, DaysDownFacts, RestStep
<1>2. CASE ~dayRun.new
  <2>1. PICK pc \in {"update", "idle"} : dayRun' = [dayRun EXCEPT !.pc = pc]
    BY <1>2 DEF WorkdayError
  <2>2. dayBits' = dayBits
    BY <1>2 DEF WorkdayError
  <2>3. dayRun' \in [pc : {"down", "update", "idle"}, new : BOOLEAN,
                     last : Nat \cup {-1}, got : SUBSET Sessions]
    BY <2>1 DEF WorkdayInv, WorkdayType
  <2>4. dayTable \subseteq dayBits
    BY <1>2 DEF WorkdayInv, TableInMemory
  <2>5. TableInMemory'
    BY <2>2, <2>4 DEF TableInMemory
  <2>6. QED
    BY <2>2, <2>3, <2>5, RestStep DEF WorkdayInv, WorkdayType
<1>3. QED
  BY <1>1, <1>2

LEMMA ReadStep ==
  ASSUME WorkdayInv, WorkdayRead
  PROVE  WorkdayInv'
<1>0. UNCHANGED <<clock, dayTable>> /\ dayRun.pc = "update"
  BY DEF WorkdayRead, In
<1>1. CASE WorkdayError
  BY <1>0, <1>1, WorkdayErrorStep
<1>2. CASE /\ dayBits' = dayBits \cup dayTable
           /\ LET last == Max(dayTable \cup {-1})
              IN dayRun' = [dayRun EXCEPT !.last = last,
                               !.pc = IF last < DayOf(clock) THEN "fetch" ELSE "idle"]
  <2> DEFINE last == Max(dayTable \cup {-1})
  <2> USE DEF WorkdayInv
  <2>1. \A d \in dayTable \cup {-1} : d \in Int /\ d <= clock
    BY WorkdayConstants DEF WorkdayType, KnownDays, Served
  <2>2. last \in dayTable \cup {-1} /\ \A d \in dayTable \cup {-1} : d <= last
    BY <2>1, NewestDay DEF WorkdayType
  <2>3. last \in Nat \cup {-1}
    BY <2>2, WorkdayConstants DEF WorkdayType
  <2> HIDE DEF last
  <2>4. PICK pc \in {"fetch", "idle"} : dayRun' = [dayRun EXCEPT !.last = last, !.pc = pc]
    BY <1>2 DEF last
  <2>5. dayRun'.pc = pc /\ dayRun'.last = last
    BY <2>4 DEF WorkdayType
  <2>6. WorkdayType'
    <3>1. dayRun' \in [pc : {"fetch", "idle"}, new : BOOLEAN,
                       last : Nat \cup {-1}, got : SUBSET Sessions]
      BY <2>3, <2>4 DEF WorkdayType
    <3>2. QED
      BY <1>0, <1>2, <3>1 DEF WorkdayType
  <2>7. KnownDays' /\ TableInMemory'
    BY <1>0, <1>2 DEF KnownDays, Served, TableInMemory
  <2>8. WorkdayProgress'
    BY <1>0, <2>2, <2>5 DEF WorkdayProgress
  <2>9. NoGap(dayTable)' /\ NoGap(dayBits)'
    BY <1>0, <1>2, NoGapJoins DEF NoGap
  <2>10. QED
    BY <2>6, <2>7, <2>8, <2>9
<1>3. QED
  BY <1>1, <1>2 DEF WorkdayRead

\* The later days of the answer join the days up to the newest row without a
\* gap, in the bitmap and in the table they are inserted into next.
LEMMA AnswerJoins ==
  ASSUME WorkdayInv, dayRun.pc = "fetch",
         NEW days, dayTable \subseteq days, NoGap(days)
  PROVE  NoGap(days \cup LaterDays(Served(clock)))
<1> SUFFICES ASSUME NEW d \in Sessions, NEW e \in days \cup LaterDays(Served(clock)), d <= e
             PROVE  d \in days \cup LaterDays(Served(clock))
  BY DEF NoGap
<1>1. CASE e \in days
  BY <1>1 DEF NoGap
<1>2. CASE e \in LaterDays(Served(clock)) /\ d > dayRun.last
  <2>1. e \in Nat /\ 2 * e + 1 <= clock /\ d \in Nat /\ clock \in Nat
    BY <1>2, WorkdayConstants DEF LaterDays, Served, WorkdayInv, WorkdayType
  <2>2. 2 * d + 1 <= clock
    BY <2>1
  <2>3. QED
    BY <1>2, <2>2 DEF LaterDays, Served
<1>3. CASE ~(d > dayRun.last)
  <2>1. d \in Nat /\ dayRun.last \in Nat \cup {-1}
    BY WorkdayConstants DEF WorkdayInv, WorkdayType
  <2>2. d <= dayRun.last /\ dayRun.last # -1
    BY <1>3, <2>1
  <2>3. dayRun.last \in dayTable
    BY <2>2 DEF WorkdayInv, WorkdayProgress
  <2>4. QED
    BY <2>2, <2>3 DEF NoGap
<1>4. QED
  BY <1>1, <1>2, <1>3

LEMMA FetchDaysStep ==
  ASSUME WorkdayInv, WorkdayFetch
  PROVE  WorkdayInv'
<1>0. UNCHANGED <<clock, dayTable>> /\ dayRun.pc = "fetch"
  BY DEF WorkdayFetch, In
<1>1. CASE WorkdayError
  BY <1>0, <1>1, WorkdayErrorStep
<1>2. CASE LET got == LaterDays(Served(clock))
           IN /\ dayBits' = dayBits \cup got
              /\ dayRun' = [dayRun EXCEPT !.got = got,
                               !.pc = IF got = {} THEN "idle" ELSE "insert"]
  <2> DEFINE got == LaterDays(Served(clock))
  <2> USE DEF WorkdayInv
  <2>1. got \subseteq Served(clock) /\ Served(clock) \subseteq Sessions
    BY DEF LaterDays, Served
  <2>2. dayTable \subseteq dayBits
    BY <1>0 DEF TableInMemory
  <2>3. NoGap(dayBits \cup got) /\ NoGap(dayTable \cup got)
    BY <1>0, <2>2, AnswerJoins
  <2> HIDE DEF got
  <2>4. PICK pc \in {"insert", "idle"} : dayRun' = [dayRun EXCEPT !.got = got, !.pc = pc]
    BY <1>2 DEF got
  <2>5. dayRun'.pc = pc /\ dayRun'.got = got
    BY <2>4 DEF WorkdayType
  <2>6. dayBits' = dayBits \cup got
    BY <1>2 DEF got
  <2>7. WorkdayType'
    <3>1. dayRun' \in [pc : {"insert", "idle"}, new : BOOLEAN,
                       last : Nat \cup {-1}, got : SUBSET Sessions]
      BY <2>1, <2>4 DEF WorkdayType
    <3>2. QED
      BY <1>0, <2>1, <2>6, <3>1 DEF WorkdayType
  <2>8. KnownDays' /\ TableInMemory'
    BY <1>0, <2>2, <2>6 DEF KnownDays, Served, TableInMemory
  <2>9. WorkdayProgress'
    BY <1>0, <2>1, <2>3, <2>5, <2>6 DEF WorkdayProgress, Served, NoGap
  <2>10. NoGap(dayTable)' /\ NoGap(dayBits)'
    BY <1>0, <2>3, <2>6 DEF NoGap
  <2>11. QED
    BY <2>7, <2>8, <2>9, <2>10
<1>3. QED
  BY <1>1, <1>2 DEF WorkdayFetch

LEMMA InsertStep ==
  ASSUME WorkdayInv, WorkdayInsert
  PROVE  WorkdayInv'
<1>0. clock' = clock /\ dayRun.pc = "insert"
  BY DEF WorkdayInsert, In
<1>1. CASE WorkdayError /\ dayTable' = dayTable
  BY <1>0, <1>1, WorkdayErrorStep
<1>2. CASE /\ dayTable' = dayTable \cup dayRun.got
           /\ dayRun' = [dayRun EXCEPT !.pc = "idle"]
           /\ dayBits' = dayBits
  <2> USE DEF WorkdayInv
  <2>1. dayRun'.pc = "idle"
    BY <1>2 DEF WorkdayType
  <2>2. dayRun.got \subseteq dayBits /\ dayRun.got \subseteq Served(clock)
        /\ NoGap(dayTable \cup dayRun.got)
    BY <1>0 DEF WorkdayProgress
  <2>3. WorkdayType'
    BY <1>0, <1>2, <2>2 DEF WorkdayType
  <2>4. KnownDays' /\ TableInMemory'
    BY <1>0, <1>2, <2>2 DEF KnownDays, Served, TableInMemory
  <2>5. WorkdayProgress'
    BY <2>1 DEF WorkdayProgress
  <2>6. NoGap(dayTable)' /\ NoGap(dayBits)'
    BY <1>2, <2>2 DEF NoGap
  <2>7. QED
    BY <2>3, <2>4, <2>5, <2>6
<1>3. QED
  BY <1>1, <1>2 DEF WorkdayInsert

LEMMA WorkdayNextInv ==
  ASSUME WorkdayInv, [WorkdayNext]_dayVars
  PROVE  WorkdayInv'
<1>1. CASE NewWorkday
  <2>1. /\ dayRun' = [DaysDown EXCEPT !.pc = "update"] /\ dayRun.pc = "down"
        /\ UNCHANGED <<clock, dayTable, dayBits>>
    BY <1>1 DEF NewWorkday, In
  <2>2. dayRun'.new /\ dayRun'.pc = "update"
    BY <2>1 DEF DaysDown
  <2>3. dayRun' \in [pc : {"down", "update", "idle"}, new : BOOLEAN,
                     last : Nat \cup {-1}, got : SUBSET Sessions]
    BY <2>1, DaysDownFacts
  <2>4. TableInMemory'
    BY <2>2 DEF TableInMemory
  <2>5. QED
    BY <2>1, <2>3, <2>4, RestStep DEF WorkdayInv, WorkdayType
<1>2. CASE WorkdayCron
  <2>1. /\ dayRun' = [DaysDown EXCEPT !.pc = "update", !.new = FALSE] /\ dayRun.pc = "idle"
        /\ UNCHANGED <<clock, dayTable, dayBits>>
    BY <1>2 DEF WorkdayCron, In
  <2>2. dayRun' \in [pc : {"down", "update", "idle"}, new : BOOLEAN,
                     last : Nat \cup {-1}, got : SUBSET Sessions]
    BY <2>1, DaysDownFacts
  <2>3. TableInMemory'
    BY <2>1 DEF TableInMemory, WorkdayInv
  <2>4. QED
    BY <2>1, <2>2, <2>3, RestStep DEF WorkdayInv, WorkdayType
<1>3. CASE WorkdayCrash
  <2>1. dayRun' = DaysDown /\ dayBits' = {} /\ UNCHANGED <<clock, dayTable>>
    BY <1>3 DEF WorkdayCrash
  <2>2. TableInMemory' /\ NoGap(dayBits') /\ dayBits' \subseteq Sessions
    BY <2>1, DaysDownFacts DEF TableInMemory, NoGap
  <2>3. QED
    BY <2>1, <2>2, DaysDownFacts, RestStep
<1>4. CASE WorkdayTick
  <2>1. clock' = clock + 1 /\ UNCHANGED <<dayTable, dayBits, dayRun>>
    BY <1>4 DEF WorkdayTick, Tick
  <2>2. Served(clock) \subseteq Served(clock')
    <3>1. clock \in Nat
      BY DEF WorkdayInv, WorkdayType
    <3>2. \A d \in Sessions : 2 * d + 1 <= clock => 2 * d + 1 <= clock'
      BY <2>1, <3>1, WorkdayConstants
    <3>3. QED
      BY <3>2 DEF Served
  <2>3. WorkdayType' /\ KnownDays'
    BY <2>1, <2>2 DEF WorkdayInv, WorkdayType, KnownDays, Served
  <2>4. WorkdayProgress' /\ TableInMemory'
    BY <2>1, <2>2 DEF WorkdayInv, WorkdayProgress, TableInMemory, NoGap, Served
  <2>5. NoGap(dayTable)' /\ NoGap(dayBits)'
    BY <2>1 DEF WorkdayInv, NoGap
  <2>6. QED
    BY <2>3, <2>4, <2>5 DEF WorkdayInv
<1>5. CASE UNCHANGED dayVars
  BY <1>5 DEF dayVars, WorkdayInv, WorkdayType, KnownDays, Served, TableInMemory,
              WorkdayProgress, NoGap
<1>6. QED
  BY <1>1, <1>2, <1>3, <1>4, <1>5, ReadStep, FetchDaysStep, InsertStep DEF WorkdayNext

\* Table and bitmap of the trading calendar are sets of sessions without a gap
\* before their newest day, and the bitmap has all of the table, for any set
\* of sessions, however often requests, inserts and processes fail.
THEOREM CalendarHasNoGap == WorkdaySpec => []CalendarWithoutGap
<1>1. WorkdayInv => CalendarWithoutGap
  BY DEF WorkdayInv, WorkdayType, TableInMemory, CalendarWithoutGap
<1>2. QED
  BY WorkdayInitInv, WorkdayNextInv, <1>1, PTL DEF WorkdaySpec

(***************************************************************************)
(* Codes: the inductive invariant, for the default database.               *)
(***************************************************************************)
CodesType ==
    /\ clock \in Nat
    /\ listing \in Listing
    /\ codesMark \in Nat \cup {Never}
    /\ codesTable \in Listing
    /\ codesRun \in [pc : {"down", "update", "idle", "fetch", "store", "insert", "mark"},
                     new : BOOLEAN, list : Listing, got : Listing, next : 1 .. 4,
                     begun : Nat]
    /\ relisted \in [CodeSet -> Nat]

\* The exchange of a code has answered, in this update.
Asked(c) == \E i \in 1 .. codesRun.next - 1 : ExchangeOf[c] = Exchanges[i]

\* The answer about a code has what was listed when the update began.
Answered(c) == relisted[c] < codesRun.begun => codesRun.got[c] = listing[c]

CodesProgress ==
    /\ codesRun.pc \in {"fetch", "store", "mark"} =>
          /\ codesRun.begun <= clock /\ clock <= codesRun.begun + 1
          /\ codesMark # Never => codesMark <= codesRun.begun
    /\ codesRun.pc = "fetch" =>
          codesRun.next <= 3 /\ \A c \in CodeSet : Asked(c) => Answered(c)
    /\ codesRun.pc \in {"fetch", "store"} => codesRun.list = codesTable
    /\ codesRun.pc \in {"store", "mark"} => \A c \in CodeSet : Answered(c)
    /\ codesRun.pc = "mark" => \A c \in CodeSet : codesTable[c] = codesRun.got[c]
    /\ codesRun.pc # "insert"

MarkedCodes ==
    codesMark # Never =>
        /\ codesMark <= clock
        /\ \A c \in CodeSet : relisted[c] < codesMark - 1 => codesTable[c] = listing[c]

CodesInv == dialect = "sqlite" => CodesType /\ CodesProgress /\ MarkedCodes

\* An update that is over, or has not read the table yet.
AtRest == [pc : {"down", "update", "idle"}, new : BOOLEAN, list : Listing,
            got : Listing, next : 1 .. 4, begun : Nat]

LEMMA CodesDownFacts ==
  CodesDown.pc = "down" /\ CodesDown \in AtRest
<1>1. Empty \in Listing
  BY DEF Empty, Listing
<1>2. QED
  BY <1>1 DEF CodesDown, AtRest

LEMMA ExchangeFacts ==
  /\ Len(Exchanges) = 3
  /\ \A c \in CodeSet : \E i \in 1 .. 3 : ExchangeOf[c] = Exchanges[i]
BY CodesConstants DEF Exchanges

LEMMA CodesErrorFacts ==
  ASSUME CodesType, CodesError
  PROVE  codesRun' \in AtRest
BY CodesDownFacts DEF CodesError, CodesType, Enter, AtRest

LEMMA CodesRest ==
  ASSUME dialect = "sqlite", CodesInv, codesRun' \in AtRest,
         UNCHANGED <<clock, dialect, listing, codesTable, codesMark, relisted>>
  PROVE  CodesInv'
<1>1. codesRun'.pc \in {"down", "update", "idle"}
  BY DEF AtRest
<1>2. CodesType'
  BY DEF CodesInv, CodesType, AtRest
<1>3. CodesProgress'
  BY <1>1 DEF CodesProgress
<1>4. MarkedCodes'
  BY DEF CodesInv, MarkedCodes
<1>5. QED
  BY <1>2, <1>3, <1>4 DEF CodesInv

LEMMA CodesInitInv == ClockInit /\ CodesInit => CodesInv
<1> SUFFICES ASSUME ClockInit, CodesInit PROVE CodesInv
  OBVIOUS
<1>1. codesRun.pc = "down" /\ codesRun \in AtRest
  BY CodesDownFacts DEF CodesInit
<1>2. listing \in Listing /\ codesTable \in Listing /\ relisted \in [CodeSet -> Nat]
  BY CodesConstants DEF CodesInit, Listing, Empty
<1>3. CodesType
  BY <1>1, <1>2 DEF ClockInit, CodesInit, CodesType, AtRest
<1>4. CodesProgress /\ MarkedCodes
  BY <1>1 DEF CodesInit, CodesProgress, MarkedCodes
<1>5. QED
  BY <1>3, <1>4 DEF CodesInv

(***************************************************************************)
(* Codes: the steps of an update.                                          *)
(***************************************************************************)
LEMMA CodesReadStep ==
  ASSUME dialect = "sqlite", CodesInv, CodesRead
  PROVE  CodesInv'
<1>0. UNCHANGED <<clock, dialect, listing, codesTable, codesMark, relisted>>
      /\ codesRun.pc = "update" /\ CodesType /\ CodesProgress /\ MarkedCodes
  BY DEF CodesRead, At, CodesInv
<1>1. CASE Enter("idle")
  BY <1>0, <1>1, CodesRest DEF Enter, AtRest, CodesType
<1>2. CASE CodesError
  BY <1>0, <1>2, CodesErrorFacts, CodesRest
<1>3. CASE codesRun' = [codesRun EXCEPT !.pc = "fetch", !.list = codesTable,
                           !.got = Empty, !.next = 1, !.begun = clock]
  <2>1. Empty \in Listing /\ codesTable \in Listing /\ clock \in Nat
    BY <1>0 DEF Empty, Listing, CodesType
  <2>2. /\ codesRun'.pc = "fetch" /\ codesRun'.next = 1 /\ codesRun'.begun = clock
        /\ codesRun'.list = codesTable
    BY <1>0, <1>3 DEF CodesType
  <2>3. CodesType'
    <3>1. codesRun' \in [pc : {"fetch"}, new : BOOLEAN, list : Listing, got : Listing,
                         next : 1 .. 4, begun : Nat]
      <4>1. codesRun \in [pc : {"down", "update", "idle", "fetch", "store", "insert", "mark"},
                          new : BOOLEAN, list : Listing, got : Listing, next : 1 .. 4,
                          begun : Nat]
        BY <1>0 DEF CodesType
      <4>2. 1 \in 1 .. 4
        OBVIOUS
      <4>3. ASSUME NEW L, NEW N, NEW pc \in {"fetch"}, NEW table \in L, NEW none \in L,
                   NEW one \in N, NEW now \in Nat,
                   NEW run \in [pc : {"down", "update", "idle", "fetch", "store", "insert",
                                      "mark"}, new : BOOLEAN, list : L, got : L, next : N,
                                begun : Nat]
            PROVE  [run EXCEPT !.pc = pc, !.list = table, !.got = none, !.next = one,
                       !.begun = now]
                      \in [pc : {"fetch"}, new : BOOLEAN, list : L, got : L, next : N,
                           begun : Nat]
        OBVIOUS
      <4>4. QED
        BY <1>3, <2>1, <4>1, <4>2, <4>3
    <3>2. QED
      BY <1>0, <3>1 DEF CodesType
  <2>4. CodesProgress'
    BY <1>0, <2>1, <2>2 DEF CodesProgress, Asked, MarkedCodes
  <2>5. MarkedCodes'
    BY <1>0 DEF MarkedCodes
  <2>6. QED
    BY <2>3, <2>4, <2>5 DEF CodesInv
<1>4. QED
  BY <1>1, <1>2, <1>3 DEF CodesRead

LEMMA CodesFetchStep ==
  ASSUME dialect = "sqlite", CodesInv, CodesFetch
  PROVE  CodesInv'
<1>0. UNCHANGED <<clock, dialect, listing, codesTable, codesMark, relisted>>
      /\ codesRun.pc = "fetch" /\ CodesType /\ CodesProgress /\ MarkedCodes
      /\ codesRun.next \in 1 .. 3
  BY DEF CodesFetch, At, CodesInv, CodesType, CodesProgress
<1>1. CASE CodesError
  BY <1>0, <1>1, CodesErrorFacts, CodesRest
<1>2. CASE codesRun' =
             [codesRun EXCEPT
                !.got  = [c \in CodeSet |-> IF ExchangeOf[c] = Exchanges[codesRun.next]
                                            THEN listing[c] ELSE codesRun.got[c]],
                !.next = codesRun.next + 1,
                !.pc   = IF codesRun.next = Len(Exchanges) THEN "store" ELSE codesRun.pc]
  <2> DEFINE got == [c \in CodeSet |-> IF ExchangeOf[c] = Exchanges[codesRun.next]
                                       THEN listing[c] ELSE codesRun.got[c]]
  <2>1. got \in Listing
    BY <1>0 DEF Listing, CodesType
  <2>2. \A c \in CodeSet : got[c] = IF ExchangeOf[c] = Exchanges[codesRun.next]
                                    THEN listing[c] ELSE codesRun.got[c]
    OBVIOUS
  <2> HIDE DEF got
  <2>3. PICK pc \in {"fetch", "store"} :
           /\ pc = (IF codesRun.next = 3 THEN "store" ELSE "fetch")
           /\ codesRun' = [codesRun EXCEPT !.got = got, !.next = codesRun.next + 1, !.pc = pc]
    BY <1>0, <1>2, ExchangeFacts DEF got
  <2>4. /\ codesRun'.pc = pc /\ codesRun'.got = got /\ codesRun'.next = codesRun.next + 1
        /\ codesRun'.begun = codesRun.begun /\ codesRun'.list = codesRun.list
    BY <1>0, <2>3 DEF CodesType
  <2>5. CodesType'
    <3>1. codesRun.next + 1 \in 1 .. 4
      BY <1>0
    <3>2. codesRun' \in [pc : {"fetch", "store"}, new : BOOLEAN, list : Listing,
                         got : Listing, next : 1 .. 4, begun : Nat]
      BY <1>0, <2>1, <2>3, <3>1 DEF CodesType
    <3>3. QED
      BY <1>0, <3>2 DEF CodesType
  <2>6. ASSUME NEW c \in CodeSet, NEW i \in 1 .. codesRun.next, ExchangeOf[c] = Exchanges[i]
        PROVE  Answered(c)'
    <3>1. CASE ExchangeOf[c] = Exchanges[codesRun.next]
      BY <1>0, <2>2, <2>4, <3>1 DEF Answered
    <3>2. CASE ExchangeOf[c] # Exchanges[codesRun.next]
      <4>1. i \in 1 .. codesRun.next - 1
        BY <1>0, <2>6, <3>2
      <4>2. Answered(c)
        BY <1>0, <2>6, <4>1 DEF CodesProgress, Asked
      <4>3. QED
        BY <1>0, <2>2, <2>4, <3>2, <4>2 DEF Answered
    <3>3. QED
      BY <3>1, <3>2
  <2>7. /\ codesRun.begun <= clock /\ clock <= codesRun.begun + 1
        /\ codesMark # Never => codesMark <= codesRun.begun
        /\ codesRun.list = codesTable
    BY <1>0 DEF CodesProgress
  <2>8. CodesProgress'
    <3>1. CASE codesRun.next = 3
      <4>1. \A c \in CodeSet : Answered(c)'
        BY <2>6, <3>1, ExchangeFacts
      <4>2. QED
        BY <1>0, <2>3, <2>4, <2>7, <3>1, <4>1 DEF CodesProgress
    <3>2. CASE codesRun.next # 3
      <4>1. ASSUME NEW c \in CodeSet, Asked(c)' PROVE Answered(c)'
        <5>1. PICK i \in 1 .. codesRun'.next - 1 : ExchangeOf[c] = Exchanges[i]
          BY <4>1 DEF Asked
        <5>2. i \in 1 .. codesRun.next
          BY <1>0, <2>4, <5>1
        <5>3. QED
          BY <2>6, <5>1, <5>2
      <4>2. codesRun'.pc = "fetch" /\ codesRun'.next <= 3
        BY <1>0, <2>3, <2>4, <3>2
      <4>3. QED
        BY <1>0, <2>4, <2>7, <4>1, <4>2 DEF CodesProgress
    <3>3. QED
      BY <3>1, <3>2
  <2>9. MarkedCodes'
    BY <1>0 DEF MarkedCodes
  <2>10. QED
    BY <2>5, <2>8, <2>9 DEF CodesInv
<1>3. QED
  BY <1>1, <1>2 DEF CodesFetch

\* Deleting the leavers, inserting and updating makes the table the answer.
LEMMA CodesStoreStep ==
  ASSUME dialect = "sqlite", CodesInv, CodesStore
  PROVE  CodesInv'
<1>0. UNCHANGED <<clock, dialect, listing, codesMark, relisted>>
      /\ codesRun.pc = "store" /\ CodesType /\ CodesProgress /\ MarkedCodes
  BY DEF CodesStore, At, CodesInv
<1>1. CASE CodesError /\ codesTable' = codesTable
  BY <1>0, <1>1, CodesErrorFacts, CodesRest
<1>2. CASE /\ codesTable' = [c \in CodeSet |->
                     IF c \in Leavers THEN Gone
                     ELSE IF c \in Inserts \cup Updates THEN codesRun.got[c]
                     ELSE codesTable[c]]
           /\ Enter("mark")
  <2>1. /\ codesRun'.pc = "mark" /\ codesRun'.got = codesRun.got
        /\ codesRun'.begun = codesRun.begun
    BY <1>0, <1>2 DEF Enter, CodesType
  <2>2. \A c \in CodeSet : codesTable'[c] = codesRun.got[c]
    <3>1. codesRun.list = codesTable
      BY <1>0 DEF CodesProgress
    <3>2. QED
      BY <1>2, <3>1 DEF Leavers, Inserts, Updates
  <2>3. codesTable' \in Listing
    <3>1. codesTable' = [c \in CodeSet |-> codesRun.got[c]]
      BY <1>2, <2>2
    <3>2. QED
      BY <1>0, <3>1 DEF Listing, CodesType
  <2>4. CodesType'
    BY <1>0, <1>2, <2>3 DEF Enter, CodesType
  <2>5. CodesProgress'
    BY <1>0, <2>1, <2>2 DEF CodesProgress, Answered
  <2>6. ASSUME codesMark # Never, NEW c \in CodeSet, relisted[c] < codesMark - 1
        PROVE  codesRun.got[c] = listing[c]
    BY <1>0, <2>6 DEF CodesProgress, Answered, CodesType, Never
  <2>7. MarkedCodes'
    BY <1>0, <2>2, <2>6 DEF MarkedCodes
  <2>8. QED
    BY <2>4, <2>5, <2>7 DEF CodesInv
<1>3. QED
  BY <1>1, <1>2 DEF CodesStore

LEMMA CodesMarkStep ==
  ASSUME dialect = "sqlite", CodesInv, CodesMark
  PROVE  CodesInv'
<1>0. UNCHANGED <<clock, dialect, listing, codesTable, relisted>>
      /\ codesRun.pc = "mark" /\ CodesType /\ CodesProgress /\ MarkedCodes
  BY DEF CodesMark, At, CodesInv
<1>1. CASE CodesError /\ UNCHANGED <<codesMark, codesMemory>>
  BY <1>0, <1>1, CodesErrorFacts, CodesRest
<1>2. CASE codesMark' = clock /\ Enter("idle")
  <2>1. codesRun'.pc = "idle"
    BY <1>0, <1>2 DEF Enter, CodesType
  <2>2. CodesType'
    BY <1>0, <1>2 DEF Enter, CodesType
  <2>3. CodesProgress'
    BY <2>1 DEF CodesProgress
  <2>4. ASSUME NEW c \in CodeSet, relisted[c] < clock - 1
        PROVE  codesTable[c] = listing[c]
    BY <1>0, <2>4 DEF CodesProgress, Answered, CodesType
  <2>5. MarkedCodes'
    BY <1>0, <1>2, <2>4 DEF MarkedCodes, CodesType
  <2>6. QED
    BY <2>2, <2>3, <2>5 DEF CodesInv
<1>3. QED
  BY <1>1, <1>2 DEF CodesMark

LEMMA RelistStep ==
  ASSUME dialect = "sqlite", CodesInv, NEW c \in CodeSet, NEW n \in Names \cup {Gone},
         Relist(c, n)
  PROVE  CodesInv'
<1>0. /\ UNCHANGED <<clock, dialect, codesTable, codesMark, codesRun>>
      /\ listing' = [listing EXCEPT ![c] = n]
      /\ relisted' = [relisted EXCEPT ![c] = clock]
      /\ CodesType /\ CodesProgress /\ MarkedCodes
  BY DEF Relist, CodesInv
<1>1. CodesType'
  BY <1>0 DEF CodesType, Listing
<1>2. /\ relisted'[c] = clock
      /\ \A d \in CodeSet \ {c} : relisted'[d] = relisted[d] /\ listing'[d] = listing[d]
  BY <1>0 DEF CodesType, Listing
<1>3. ASSUME codesRun.pc \in {"fetch", "store", "mark"}, NEW d \in CodeSet, Answered(d)
      PROVE  Answered(d)'
  BY <1>0, <1>2, <1>3 DEF Answered, CodesProgress, CodesType
<1>4. CodesProgress'
  <2>1. \A d \in CodeSet : Asked(d)' <=> Asked(d)
    BY <1>0 DEF Asked
  <2>2. CASE codesRun.pc = "fetch"
    <3>1. \A d \in CodeSet : Asked(d)' => Answered(d)'
      BY <1>0, <1>3, <2>1, <2>2 DEF CodesProgress
    <3>2. QED
      BY <1>0, <2>2, <3>1 DEF CodesProgress
  <2>3. CASE codesRun.pc \in {"store", "mark"}
    <3>1. \A d \in CodeSet : Answered(d)'
      BY <1>0, <1>3, <2>3 DEF CodesProgress
    <3>2. QED
      BY <1>0, <2>3, <3>1 DEF CodesProgress
  <2>4. CASE codesRun.pc \notin {"fetch", "store", "mark"}
    BY <1>0, <2>4 DEF CodesProgress
  <2>5. QED
    BY <2>2, <2>3, <2>4
<1>5. MarkedCodes'
  BY <1>0, <1>2 DEF MarkedCodes, CodesType, Never
<1>6. QED
  BY <1>1, <1>4, <1>5 DEF CodesInv

LEMMA CodesTickStep ==
  ASSUME dialect = "sqlite", CodesInv, CodesTick
  PROVE  CodesInv'
<1>0. /\ UNCHANGED <<dialect, listing, codesTable, codesMark, codesRun, relisted>>
      /\ clock' = clock + 1
      /\ codesRun.pc \in {"fetch", "store", "mark"} => clock <= codesRun.begun
      /\ CodesType /\ CodesProgress /\ MarkedCodes
  BY DEF CodesTick, Tick, CodesInv
<1>1. CodesType'
  BY <1>0 DEF CodesType
<1>2. CodesProgress'
  BY <1>0 DEF CodesProgress, CodesType, Asked, Answered
<1>3. MarkedCodes'
  BY <1>0 DEF MarkedCodes, CodesType, Never
<1>4. QED
  BY <1>1, <1>2, <1>3 DEF CodesInv

LEMMA CodesNextInv ==
  ASSUME CodesInv, [CodesNext]_codesVars
  PROVE  CodesInv'
<1>0. dialect' = dialect
  BY DEF CodesNext, codesVars, NewCodes, CodesCron, CodesRead, CodesFetch, CodesStore,
         CodesTruncate, CodesInsert, CodesMark, CodesCrash, Relist, CodesTick
<1>1. CASE dialect # "sqlite"
  BY <1>0, <1>1 DEF CodesInv
<1>2. CASE dialect = "sqlite"
  <2>1. ASSUME NewCodes \/ CodesCron \/ CodesCrash PROVE CodesInv'
    <3>1. codesRun' \in AtRest
      BY <2>1, CodesDownFacts DEF NewCodes, CodesCron, CodesCrash, AtRest
    <3>2. UNCHANGED <<clock, dialect, listing, codesTable, codesMark, relisted>>
      BY <2>1 DEF NewCodes, CodesCron, CodesCrash
    <3>3. QED
      BY <1>2, <3>1, <3>2, CodesRest
  <2>2. CASE CodesTruncate
    BY <1>2, <2>2 DEF CodesTruncate
  <2>3. CASE CodesInsert
    BY <1>2, <2>3 DEF CodesInsert, At, CodesInv, CodesProgress
  <2>4. CASE UNCHANGED codesVars
    BY <2>4 DEF codesVars, CodesInv, CodesType, CodesProgress, Asked, Answered, MarkedCodes
  <2>5. QED
    BY <1>2, <2>1, <2>2, <2>3, <2>4, CodesReadStep, CodesFetchStep, CodesStoreStep,
       CodesMarkStep, RelistStep, CodesTickStep DEF CodesNext
<1>3. QED
  BY <1>1, <1>2

\* A current mark of the code table vouches for it, on the default database:
\* it agrees with the exchanges about every code whose listing has not changed
\* since half a day before the node, for any number of codes and changes.
THEOREM CodesMarksVouch == CodesSpec => []CodesMarkVouches
<1>1. CodesInv => CodesMarkVouches
  <2> SUFFICES ASSUME CodesInv, dialect = "sqlite", IsCurrent(codesMark, clock),
                      NEW c \in CodeSet, relisted[c] < LastNode(clock) - 1
               PROVE  codesTable[c] = listing[c]
    BY DEF CodesMarkVouches, ListedIsStored
  <2>0. CodesType /\ MarkedCodes
    BY DEF CodesInv
  <2>1. LastNode(clock) \in {clock, clock - 1} /\ clock \in Nat
    BY <2>0, NodeIsNear DEF CodesType
  <2>2. codesMark \in Nat /\ codesMark >= LastNode(clock) /\ codesMark # Never
    BY <2>0 DEF IsCurrent, CodesType
  <2>3. relisted[c] \in Nat
    BY <2>0 DEF CodesType
  <2>4. QED
    BY <2>0, <2>1, <2>2, <2>3 DEF MarkedCodes
<1>2. QED
  BY CodesInitInv, CodesNextInv, <1>1, PTL DEF CodesSpec

(***************************************************************************)
(* PullUpdate: what the answers and the stored series are.                 *)
(***************************************************************************)
(***************************************************************************)
(* PullUpdate: the series of a code and the answers merged into it.        *)
(***************************************************************************)

\* The server listed the bar of day d at time t, when the bars w were withdrawn.
Listed(c, d, t, w) == d \in TradeDays /\ <<c, d>> \notin w /\ 2 * d <= t

\* A series written up to time t: what is final stays listed, only the newest
\* bar may be provisional, there is no hole from the start or the first bar on,
\* and at most one bar lies before the start.
SeriesOf(c, bars, t, w) ==
    /\ bars \in [Days -> BarStates]
    /\ \A d \in DaysOf(bars) :
         /\ d \in TradeDays /\ 2 * d <= t
         /\ bars[d] = "final" => 2 * d < t /\ <<c, d>> \notin w
    /\ \A d, e \in DaysOf(bars) : d < e => bars[d] = "final"
    /\ \A d \in TradeDays, e \in DaysOf(bars) :
         <<c, d>> \notin w /\ d < e /\ (d >= StartDay \/ \E f \in DaysOf(bars) : f < d)
           => d \in DaysOf(bars)
    /\ \A d, e \in DaysOf(bars) : d < StartDay /\ e < StartDay => d = e

\* What FetchDay brings back for a code whose newest stored bar is last: listed
\* bars, all of them from the start and from last on, nothing left out after the
\* first, and at most one from before the start.
AnswerOf(c, got, last, t, w) ==
    /\ got \in [Days -> BarStates]
    /\ \A d \in DaysOf(got) :
         Listed(c, d, t, w) /\ got[d] = IF 2 * d = t THEN "provisional" ELSE "final"
    /\ \A d \in Days : Listed(c, d, t, w) /\ d >= StartDay /\ d >= last => d \in DaysOf(got)
    /\ \A d \in DaysOf(got), e \in Days : Listed(c, e, t, w) =>
         /\ e >= d => e \in DaysOf(got)
         /\ d < StartDay /\ e < StartDay => e <= d

\* All bars of the code that were final at time t are in the series.
HasFinal(c, bars, t, w) ==
    \A d \in TradeDays : d >= StartDay /\ 2 * d < t /\ <<c, d>> \notin w => bars[d] = "final"

LEMMA DayFacts ==
  /\ Days \subseteq Nat /\ TradeDays \subseteq Days /\ MaxTime \in Nat /\ StartDay \in Nat
  /\ \A d \in Days : d <= MaxTime \div 2
  /\ MaxTime \div 2 \in Nat
BY PullConstants DEF Days

LEMMA NewestBar ==
  ASSUME NEW bars
  PROVE  /\ Newest(bars) \in Int
         /\ \A d \in DaysOf(bars) : d <= Newest(bars)
         /\ DaysOf(bars) = {} => Newest(bars) = -1
         /\ DaysOf(bars) # {} => Newest(bars) \in DaysOf(bars)
<1> DEFINE S == DaysOf(bars) \cup {-1}
<1>1. S # {} /\ \A d \in S : d \in Int /\ d <= MaxTime \div 2
  BY DayFacts DEF DaysOf
<1>2. Max(S) \in S /\ \A d \in S : d <= Max(S)
  <2> HIDE DEF S
  <2>1. QED
    BY <1>1, DayFacts, NewestDay
<1>3. DaysOf(bars) \subseteq Nat
  BY DayFacts DEF DaysOf
<1>4. QED
  BY <1>1, <1>2, <1>3 DEF Newest

\* The merge of an answer leaves a series; what was final is kept.
LEMMA UpsertSeries ==
  ASSUME NEW c, NEW bars, NEW got, NEW t \in Nat, NEW w, NEW v, v \subseteq w,
         \A d \in Days : <<c, d>> \in w \ v => 2 * d >= t,
         SeriesOf(c, bars, t, w), AnswerOf(c, got, Newest(bars), t, v),
         ~ \E d \in DaysOf(got) : d < Newest(bars) /\ bars[d] # NoBar
  PROVE  /\ SeriesOf(c, Upsert(bars, Newest(bars), got), t, w)
         /\ \A d \in Days : d >= StartDay /\ bars[d] = "final"
                              => Upsert(bars, Newest(bars), got)[d] = "final"
         /\ HasFinal(c, Upsert(bars, Newest(bars), got), t, w)
         /\ DaysOf(got) = {} => HasFinal(c, bars, t, w)
<1> DEFINE last == Newest(bars)
           new  == Upsert(bars, last, got)
           B    == DaysOf(bars)
           G    == DaysOf(got)
           N    == DaysOf(new)
<1>0. /\ Days \subseteq Nat /\ TradeDays \subseteq Days /\ StartDay \in Nat
      /\ last \in Int /\ (\A d \in B : d <= last)
      /\ B # {} => last \in B
      /\ B = {} => last = -1
  BY DayFacts, NewestBar
<1>1. /\ B \subseteq Days /\ G \subseteq Days /\ N \subseteq Days
      /\ \A d \in Days : /\ d \in B <=> bars[d] # NoBar
                         /\ d \in G <=> got[d] # NoBar
                         /\ d \in N <=> new[d] # NoBar
  BY DEF DaysOf
<1>2. /\ \A d \in Days : new[d] = IF d >= last \/ d \in G THEN got[d] ELSE bars[d]
      /\ new \in [Days -> BarStates]
  BY <1>1 DEF Upsert, SeriesOf, AnswerOf
<1>4. \A d \in G : /\ d \in TradeDays /\ <<c, d>> \notin v /\ 2 * d <= t
                   /\ got[d] = IF 2 * d = t THEN "provisional" ELSE "final"
  BY DEF AnswerOf, Listed
\* A trading day before t, not withdrawn now, was listed.
<1>5. \A d \in TradeDays : <<c, d>> \notin w /\ 2 * d <= t => Listed(c, d, t, v)
  BY DEF Listed
<1>6. \A d \in Days : Listed(c, d, t, v) /\ d >= StartDay /\ d >= last => d \in G
  BY DEF AnswerOf
<1>7. \A d \in G, e \in Days : Listed(c, e, t, v) =>
        /\ e >= d => e \in G
        /\ d < StartDay /\ e < StartDay => e <= d
  BY DEF AnswerOf
<1>8. /\ \A d \in B : /\ d \in TradeDays /\ 2 * d <= t
                      /\ bars[d] = "final" => 2 * d < t /\ <<c, d>> \notin w
      /\ \A d, e \in B : d < e => bars[d] = "final"
      /\ \A d \in TradeDays, e \in B :
           <<c, d>> \notin w /\ d < e /\ (d >= StartDay \/ \E f \in B : f < d) => d \in B
      /\ \A d, e \in B : d < StartDay /\ e < StartDay => d = e
  BY DEF SeriesOf
<1>9. \A d \in G : d < last => d \notin B
  BY <1>1
\* A bar that was listed before its day was over is final and stays listed.
<1>10. \A d \in Days : Listed(c, d, t, v) /\ 2 * d < t => <<c, d>> \notin w
  BY <1>0 DEF Listed
<1> HIDE DEF last, new, B, G, N
<1>3. \A d \in N : d \in G \/ (d \in B /\ d < last /\ d \notin G)
  <2> SUFFICES ASSUME NEW d \in N, d \notin G PROVE d \in B /\ d < last
    OBVIOUS
  <2>1. d \in Days /\ d \in Nat /\ new[d] # NoBar /\ got[d] = NoBar
    BY <1>0, <1>1
  <2>2. ~ (d >= last) /\ new[d] = bars[d]
    BY <1>2, <2>1
  <2>3. QED
    BY <1>0, <1>1, <2>1, <2>2
<1>11. \A d \in B : d < last =>
         /\ bars[d] = "final" /\ 2 * d < t /\ <<c, d>> \notin w /\ Listed(c, d, t, v)
  <2> SUFFICES ASSUME NEW d \in B, d < last
               PROVE  /\ bars[d] = "final" /\ 2 * d < t
                      /\ <<c, d>> \notin w /\ Listed(c, d, t, v)
    OBVIOUS
  <2>1. bars[d] = "final"
    BY <1>0, <1>8
  <2>2. d \in Days /\ d \in Nat
    BY <1>0, <1>1
  <2>3. QED
    BY <1>5, <1>8, <2>1, <2>2
<1>12. \A d \in N : /\ d \in TradeDays /\ 2 * d <= t
                    /\ new[d] = "final" => 2 * d < t /\ <<c, d>> \notin w
  <2> SUFFICES ASSUME NEW d \in N
               PROVE  /\ d \in TradeDays /\ 2 * d <= t
                      /\ new[d] = "final" => 2 * d < t /\ <<c, d>> \notin w
    OBVIOUS
  <2>0. d \in Days /\ d \in Nat
    BY <1>0, <1>1
  <2>1. CASE d \in G
    <3>1. new[d] = got[d]
      BY <1>2, <2>0, <2>1
    <3>2. new[d] = "final" => 2 * d # t
      BY <1>4, <2>1, <3>1
    <3>3. d \in TradeDays /\ 2 * d <= t /\ Listed(c, d, t, v)
      BY <1>4, <2>1 DEF Listed
    <3>4. QED
      BY <1>10, <2>0, <3>2, <3>3
  <2>2. CASE d \in B /\ d < last /\ d \notin G
    BY <1>2, <1>8, <1>11, <2>0, <2>2
  <2>3. QED
    BY <1>3, <2>1, <2>2
<1>13. \A d, e \in N : d < e => new[d] = "final"
  <2> SUFFICES ASSUME NEW d \in N, NEW e \in N, d < e PROVE new[d] = "final"
    OBVIOUS
  <2>0. d \in Days /\ d \in Nat /\ e \in Nat
    BY <1>0, <1>1
  <2>1. CASE d \in G
    <3>1. 2 * e <= t
      BY <1>12
    <3>2. 2 * d < t
      BY <2>0, <3>1
    <3>3. new[d] = got[d] /\ got[d] = IF 2 * d = t THEN "provisional" ELSE "final"
      BY <1>2, <1>4, <2>0, <2>1
    <3>4. QED
      BY <2>0, <3>2, <3>3
  <2>2. CASE d \in B /\ d < last /\ d \notin G
    <3>1. ~ (d >= last)
      BY <1>0, <2>0, <2>2
    <3>2. new[d] = bars[d]
      BY <1>2, <2>0, <2>2, <3>1
    <3>3. QED
      BY <1>11, <2>2, <3>2
  <2>3. QED
    BY <1>3, <2>1, <2>2
<1>14. \A d \in TradeDays, e \in N :
         <<c, d>> \notin w /\ d < e /\ (d >= StartDay \/ \E f \in N : f < d) => d \in N
  <2> SUFFICES ASSUME NEW d \in TradeDays, NEW e \in N, <<c, d>> \notin w, d < e,
                      d >= StartDay \/ \E f \in N : f < d
               PROVE  d \in N
    OBVIOUS
  <2>0. d \in Days /\ d \in Nat /\ e \in Days /\ e \in Nat /\ 2 * e <= t
    BY <1>0, <1>1, <1>12
  <2>1. Listed(c, d, t, v)
    BY <1>5, <2>0
  <2>2. d \in G => d \in N
    BY <1>1, <1>2, <2>0
  <2>3. CASE d >= last
    <3>1. CASE d >= StartDay
      BY <1>6, <2>0, <2>1, <2>2, <2>3, <3>1
    <3>2. CASE d < StartDay
      <4>1. PICK f \in N : f < d
        BY <1>0, <2>0, <3>2
      <4>2. f \in Nat /\ f \in Days
        BY <1>0, <1>1
      <4>3. CASE f \in G
        BY <1>7, <2>0, <2>1, <2>2, <4>1, <4>2, <4>3
      <4>4. CASE f \in B /\ f < last
        <5>1. last \in B
          BY <1>0, <4>4
        <5>2. last < StartDay /\ f < StartDay
          BY <1>0, <2>0, <2>3, <3>2, <4>1, <4>2
        <5>3. QED
          BY <1>0, <1>8, <4>2, <4>4, <5>1, <5>2
      <4>5. QED
        BY <1>3, <4>3, <4>4
    <3>3. QED
      BY <1>0, <2>0, <3>1, <3>2
  <2>4. CASE d < last
    <3>1. last \in B
      BY <1>0, <2>0, <2>4
    <3>2. CASE d >= StartDay \/ \E f \in B : f < d
      <4>1. d \in B
        BY <1>8, <2>4, <3>1, <3>2
      <4>2. QED
        BY <1>0, <1>1, <1>2, <2>0, <2>2, <2>4, <4>1
    <3>3. CASE \E f \in G : f < d
      <4>1. PICK f \in G : f < d
        BY <3>3
      <4>2. f \in Nat
        BY <1>0, <1>1
      <4>3. d \in G
        BY <1>7, <2>0, <2>1, <4>1, <4>2
      <4>4. QED
        BY <2>2, <4>3
    <3>4. QED
      BY <1>3, <3>2, <3>3
  <2>5. QED
    BY <1>0, <2>0, <2>3, <2>4
<1>15. \A d, e \in N : d < StartDay /\ e < StartDay => d = e
  <2>0. \A d \in N : d \in Days /\ d \in Nat
    BY <1>0, <1>1
  <2>1. ASSUME NEW d \in G, NEW e \in G, d < StartDay, e < StartDay PROVE d = e
    <3>1. d \in Days /\ e \in Days /\ d \in Nat /\ e \in Nat
      BY <1>0, <1>1
    <3>2. Listed(c, d, t, v) /\ Listed(c, e, t, v)
      BY <1>4 DEF Listed
    <3>3. QED
      BY <1>7, <2>1, <3>1, <3>2
  \* A bar kept beside one fetched from before the start: the fetched one was
  \* stored already, or is newer than the newest.
  <2>2. ASSUME NEW d \in G, NEW e \in B, e < last, e \notin G, d < StartDay, e < StartDay
        PROVE  FALSE
    <3>0. d \in Days /\ e \in Days /\ d \in Nat /\ e \in Nat
      BY <1>0, <1>1
    <3>1. Listed(c, e, t, v) /\ Listed(c, d, t, v)
      BY <1>4, <1>11, <2>2 DEF Listed
    <3>2. e < d
      BY <1>7, <2>2, <3>0, <3>1
    <3>3. last \in B
      BY <1>0, <2>2
    <3>4. CASE d >= last
      <4>1. last < StartDay /\ e # last
        BY <1>0, <2>2, <3>0, <3>4
      <4>2. QED
        BY <1>8, <2>2, <3>3, <4>1
    <3>5. CASE d < last
      <4>1. 2 * last <= t
        BY <1>8, <3>3
      <4>2. 2 * d < t
        BY <1>0, <3>0, <3>5, <4>1
      <4>3. <<c, d>> \notin w /\ d \in TradeDays
        BY <1>4, <1>10, <3>0, <3>1, <4>2
      <4>4. d \in B
        BY <1>8, <3>2, <3>3, <3>5, <4>3
      <4>5. QED
        BY <1>9, <3>5, <4>4
    <3>6. QED
      BY <1>0, <3>0, <3>4, <3>5
  <2>3. QED
    BY <1>3, <1>8, <2>1, <2>2
<1>16. SeriesOf(c, new, t, w)
  BY <1>2, <1>12, <1>13, <1>14, <1>15 DEF SeriesOf, N
<1>17. \A d \in Days : d >= StartDay /\ bars[d] = "final" => new[d] = "final"
  <2> SUFFICES ASSUME NEW d \in Days, d >= StartDay, bars[d] = "final"
               PROVE  new[d] = "final"
    OBVIOUS
  <2>1. d \in B /\ d \in Nat
    BY <1>0, <1>1 DEF NoBar
  <2>2. d \in TradeDays /\ 2 * d < t /\ <<c, d>> \notin w /\ d <= last
    BY <1>0, <1>8, <2>1
  <2>3. CASE d < last /\ d \notin G
    BY <1>0, <1>2, <2>1, <2>3
  <2>4. CASE d < last /\ d \in G
    BY <1>9, <2>1, <2>4
  <2>5. CASE d = last
    <3>1. d \in G
      BY <1>5, <1>6, <2>1, <2>2, <2>5
    <3>2. new[d] = got[d] /\ 2 * d # t
      BY <1>2, <2>1, <2>2, <3>1
    <3>3. QED
      BY <1>4, <3>1, <3>2
  <2>6. QED
    BY <1>0, <2>1, <2>2, <2>3, <2>4, <2>5
<1>18. \A d \in TradeDays : d >= StartDay /\ 2 * d < t /\ <<c, d>> \notin w =>
         /\ d \in G => got[d] = "final"
         /\ d \notin G => bars[d] = "final"
  <2> SUFFICES ASSUME NEW d \in TradeDays, d >= StartDay, 2 * d < t, <<c, d>> \notin w
               PROVE  /\ d \in G => got[d] = "final"
                      /\ d \notin G => bars[d] = "final"
    OBVIOUS
  <2>1. d \in Days /\ d \in Nat /\ Listed(c, d, t, v) /\ 2 * d # t
    BY <1>0, <1>5
  <2>2. ASSUME d \notin G PROVE bars[d] = "final"
    <3>1. d < last
      BY <1>0, <1>6, <2>1, <2>2
    <3>2. last \in B
      BY <1>0, <2>1, <3>1
    <3>3. d \in B
      BY <1>8, <3>1, <3>2
    <3>4. QED
      BY <1>11, <3>1, <3>3
  <2>3. QED
    BY <1>4, <2>1, <2>2
<1>19. HasFinal(c, new, t, w)
  <2> SUFFICES ASSUME NEW d \in TradeDays, d >= StartDay, 2 * d < t, <<c, d>> \notin w
               PROVE  new[d] = "final"
    BY DEF HasFinal
  <2>1. d \in Days
    BY <1>0
  <2>2. CASE d \in G
    BY <1>2, <1>18, <2>1, <2>2
  <2>3. CASE d \notin G
    BY <1>17, <1>18, <2>1, <2>3
  <2>4. QED
    BY <2>2, <2>3
<1>20. G = {} => HasFinal(c, bars, t, w)
  BY <1>18 DEF HasFinal
<1>21. QED
  BY <1>16, <1>17, <1>19, <1>20 DEF new, last, G

(***************************************************************************)
(* PullUpdate: the inductive invariant.                                    *)
(***************************************************************************)
TaskRecord == [pc : {"none", "fetch", "save", "done", "failed"}, last : Int,
               got : [Days -> BarStates], tries : Nat]
PullRecord == [pc : {"off", "units", "wait"}, unit : Units \cup {Whole},
               left : SUBSET Units, err : BOOLEAN, begun : Nat]

PullType ==
    /\ clock \in Nat /\ clock <= MaxTime
    /\ dayBars \in [PullCodes -> [Days -> BarStates]]
    /\ pullMark \in [Units \cup {Whole} -> Nat \cup {Never}]
    /\ pull \in PullRecord
    /\ task \in [PullCodes -> TaskRecord]
    /\ pull.pc = "off" => pull = Waiting
    /\ pull.pc = "wait" => pull.unit \in Units

\* A pull takes less than half a day.
PullIsQuick == pull.pc # "off" => pull.begun <= clock /\ clock <= pull.begun + 1

StoredSeries == \A c \in PullCodes : SeriesOf(c, dayBars[c], clock, withdrawn)

\* A task about to save holds an answer the server gave at some time of this
\* pull, to a question about the series as it still is; or nothing, and its
\* code is noted.
AnswerFetched(c) ==
    /\ task[c].last = Newest(dayBars[c])
    /\ \/ DaysOf(task[c].got) = {} /\ c \in blank
       \/ \E t \in Nat, v \in SUBSET withdrawn :
            /\ pull.begun <= t /\ t <= clock
            /\ \A d \in Days : <<c, d>> \in withdrawn \ v => 2 * d >= t
            /\ SeriesOf(c, dayBars[c], t, withdrawn)
            /\ AnswerOf(c, task[c].got, task[c].last, t, v)

TasksAtWork ==
    \A c \in PullCodes :
        /\ task[c].pc # "none" => pull.pc = "wait" /\ c \in UnitCodes[pull.unit]
        /\ task[c].pc = "save" => AnswerFetched(c)
        /\ task[c].pc = "done" => c \in blank \/ HasFinal(c, dayBars[c], pull.begun, withdrawn)

\* A mark, current or not, vouches for what was final before the work began
\* that it stands for, and so does a market the pull has passed without error.
MarksVouch ==
    /\ \A u \in Units :
         /\ pullMark[u] # Never => pullMark[u] <= clock /\ StoredAt(u, pullMark[u] - 1)
         /\ pullMark[Whole] # Never => StoredAt(u, pullMark[Whole] - 3)
         /\ pull.pc # "off" /\ ~pull.err /\ u \notin pull.left =>
              (pull.pc = "wait" /\ u = pull.unit) \/ StoredAt(u, pull.begun - 2)
    /\ pullMark[Whole] # Never => pullMark[Whole] <= clock

PullInv == PullType /\ PullIsQuick /\ StoredSeries /\ TasksAtWork /\ MarksVouch

LEMMA CodesOfUnit == \A u \in Units : UnitCodes[u] \subseteq PullCodes
BY DEF PullCodes

LEMMA RestingType ==
  /\ Resting.pc = "none" /\ Resting.last = -1 /\ Resting.tries = 0
  /\ Resting.got \in [Days -> BarStates]
  /\ Waiting.pc = "off"
  /\ Waiting \in PullRecord
BY DEF Resting, Waiting, BarStates, PullRecord

LEMMA NoBarsType == [d \in Days |-> NoBar] \in [Days -> BarStates]
BY DEF BarStates

LEMMA TaskSet ==
  ASSUME NEW pc \in {"fetch", "save", "done", "failed"}, NEW n \in Nat
  PROVE  LET q == [Resting EXCEPT !.tries = n, !.pc = pc]
             o == [Resting EXCEPT !.pc = pc]
         IN q \in TaskRecord /\ q.pc = pc /\ o \in TaskRecord /\ o.pc = pc
<1>1. Resting \in TaskRecord
  BY NoBarsType DEF TaskRecord, Resting
<1> HIDE DEF Resting
<1>2. QED
  BY <1>1 DEF TaskRecord

\* What was stored for good at a time t stays so.
LEMMA StoredStays ==
  ASSUME withdrawn \subseteq withdrawn', blank \subseteq blank',
         \A c \in PullCodes : \A d \in Days :
             d >= StartDay /\ dayBars[c][d] = "final" => dayBars'[c][d] = "final"
  PROVE  \A u \in Units : \A t \in Int : StoredAt(u, t) => StoredAt(u, t)'
BY CodesOfUnit, DayFacts DEF StoredAt

LEMMA StoredEarlier ==
  ASSUME NEW u \in Units, NEW s \in Int, NEW t \in Int, s <= t, StoredAt(u, t)
  PROVE  StoredAt(u, s)
<1>1. \A d \in TradeDays : 2 * d < s => 2 * d < t
  BY DayFacts
<1>2. QED
  BY <1>1 DEF StoredAt

\* A series is one still when time has passed and provisional bars are gone.
LEMMA SeriesLater ==
  ASSUME NEW c, NEW bars, NEW s \in Nat, NEW t \in Nat, s <= t, NEW w, NEW v, w \subseteq v,
         \A d \in Days : <<c, d>> \in v \ w => 2 * d >= s,
         SeriesOf(c, bars, s, w)
  PROVE  SeriesOf(c, bars, t, v)
<1>1. \A d \in DaysOf(bars) : d \in Days /\ d \in Nat
  BY DayFacts DEF DaysOf
<1>2. \A d \in DaysOf(bars) : /\ d \in TradeDays /\ 2 * d <= t
                              /\ bars[d] = "final" => 2 * d < t /\ <<c, d>> \notin v
  <2> SUFFICES ASSUME NEW d \in DaysOf(bars)
               PROVE  /\ d \in TradeDays /\ 2 * d <= t
                      /\ bars[d] = "final" => 2 * d < t /\ <<c, d>> \notin v
    OBVIOUS
  <2>1. d \in Days /\ d \in Nat
    BY <1>1
  <2>2. /\ d \in TradeDays /\ 2 * d <= s
        /\ bars[d] = "final" => 2 * d < s /\ <<c, d>> \notin w
    BY DEF SeriesOf
  <2>3. 2 * d < s => ~ (<<c, d>> \in v \ w)
    BY <2>1
  <2>4. QED
    BY <2>1, <2>2, <2>3
<1>3. QED
  BY <1>2 DEF SeriesOf

(***************************************************************************)
(* PullUpdate: the steps.                                                  *)
(***************************************************************************)
LEMMA PullInitInv == ClockInit /\ PullInit => PullInv
<1> SUFFICES ASSUME ClockInit, PullInit PROVE PullInv
  OBVIOUS
<1> USE DEF PullInit, ClockInit
<1>1. PullType
  BY RestingType, DayFacts, PullConstants DEF PullType, TaskRecord, PullRecord, Waiting, Resting, BarStates, Never
<1>2. PullIsQuick
  BY RestingType DEF PullIsQuick
<1>3. StoredSeries
  <2>1. \A c \in PullCodes : DaysOf(dayBars[c]) = {} /\ dayBars[c] \in [Days -> BarStates]
    BY DEF DaysOf, BarStates
  <2>2. QED
    BY <2>1 DEF StoredSeries, SeriesOf
<1>4. TasksAtWork
  BY RestingType DEF TasksAtWork
<1>5. MarksVouch
  BY RestingType DEF MarksVouch
<1>6. QED
  BY <1>1, <1>2, <1>3, <1>4, <1>5 DEF PullInv

\* The answer FetchDay asks for.
LEMMA PageAnswers ==
  ASSUME PullType, NEW c \in PullCodes, NEW last \in Int, NEW got,
         got = [d \in Days |-> IF d \in Page(c, last) THEN Quoted(c, d) ELSE NoBar]
  PROVE  AnswerOf(c, got, last, clock, withdrawn)
<1> DEFINE P == Page(c, last)
           served == {d \in Days : Quoted(c, d) # NoBar}
<1>0. Days \subseteq Nat /\ TradeDays \subseteq Days /\ StartDay \in Nat /\ clock \in Nat
  BY DayFacts DEF PullType
<1>1. \A d \in Days : /\ d \in served <=> Listed(c, d, clock, withdrawn)
                      /\ d \in served =>
                           Quoted(c, d) = IF 2 * d = clock THEN "provisional" ELSE "final"
  BY <1>0 DEF Quoted, Listed, NoBar
<1>2. /\ P \subseteq served
      /\ \A d \in served : d >= StartDay /\ d >= last => d \in P
      /\ \A d \in P, e \in served : e >= d => e \in P
      /\ \A d \in P, e \in served : d < StartDay /\ e < StartDay => e <= d
  <2>1. CASE \E u \in StopIncluded : c \in UnitCodes[u]
    <3> DEFINE low == {d \in served : d <= last \/ d < StartDay} \cup {-1}
               stop == Max(low)
    <3>1. low # {} /\ \A d \in low : d \in Int /\ d <= MaxTime \div 2
      BY DayFacts
    <3>2. stop \in low /\ stop \in Int /\ \A d \in low : d <= stop
      <4> HIDE DEF low
      <4>1. QED
        BY <3>1, DayFacts, NewestDay
    <3>3. P = {d \in served : d >= stop}
      BY <2>1 DEF Page
    <3>4. \A d \in served : d <= last \/ d < StartDay => d <= stop
      BY <3>2
    <3>5. stop = -1 \/ (stop \in served /\ (stop <= last \/ stop < StartDay))
      BY <3>2
    <3>6. served \subseteq Nat
      BY <1>0
    <3> HIDE DEF P, stop, low, served
    <3>7. stop \in Int
      BY <3>2
    <3>8. \A d \in served : d >= StartDay /\ d >= last => d \in P
      BY <1>0, <3>3, <3>5, <3>6, <3>7
    <3>9. \A d \in P, e \in served : e >= d => e \in P
      BY <3>3, <3>6, <3>7
    <3>10. \A d \in P, e \in served : d < StartDay /\ e < StartDay => e <= d
      BY <1>0, <3>3, <3>4, <3>6, <3>7
    <3>11. QED
      BY <3>3, <3>8, <3>9, <3>10
  <2>2. CASE ~ \E u \in StopIncluded : c \in UnitCodes[u]
    <3>1. P = {d \in served : d >= Max({StartDay, last})}
      BY <2>2 DEF Page
    <3>2. {StartDay, last} # {}
      OBVIOUS
    <3>3. \E bound \in Nat : \A d \in {StartDay, last} : d \in Int /\ d <= bound
      <4>1. CASE last <= StartDay
        BY <1>0, <4>1
      <4>2. CASE last > StartDay
        <5>1. last \in Nat
          BY <1>0, <4>2
        <5>2. QED
          BY <1>0, <4>2, <5>1
      <4>3. QED
        BY <1>0, <4>1, <4>2
    <3>4. /\ Max({StartDay, last}) \in {StartDay, last}
          /\ \A d \in {StartDay, last} : d <= Max({StartDay, last})
      BY <3>3, NewestDay
    <3>5. served \subseteq Nat
      BY <1>0
    <3> DEFINE m == Max({StartDay, last})
    <3>6. m \in Int /\ StartDay <= m /\ last <= m /\ m \in {StartDay, last}
      BY <1>0, <3>4
    <3> HIDE DEF P, served, m
    <3>7. P = {d \in served : d >= m}
      BY <3>1 DEF m
    <3>8. QED
      BY <1>0, <3>5, <3>6, <3>7
  <2>3. QED
    BY <2>1, <2>2
<1>3. /\ got \in [Days -> BarStates]
      /\ \A d \in Days : got[d] = IF d \in P THEN Quoted(c, d) ELSE NoBar
  BY DEF BarStates, Quoted
<1>4. DaysOf(got) = P /\ P \subseteq Days
  <2>1. \A d \in Days : d \in P => Quoted(c, d) # NoBar
    BY <1>2
  <2>2. P \subseteq Days
    BY <1>2
  <2> HIDE DEF P
  <2>3. QED
    BY <1>3, <2>1, <2>2 DEF DaysOf
<1> HIDE DEF P, served
<1>5. \A d \in P : d \in Days /\ d \in served /\ Listed(c, d, clock, withdrawn)
                   /\ got[d] = IF 2 * d = clock THEN "provisional" ELSE "final"
  BY <1>1, <1>2, <1>3, <1>4
<1>6. \A d \in Days : Listed(c, d, clock, withdrawn) => d \in served
  BY <1>1
<1>7. QED
  BY <1>2, <1>3, <1>4, <1>5, <1>6 DEF AnswerOf

\* An answer stays what it is while time passes and bars are withdrawn.
LEMMA AnswerStays ==
  ASSUME PullType, NEW c \in PullCodes, AnswerFetched(c),
         task'[c] = task[c], dayBars'[c] = dayBars[c], pull'.begun = pull.begun,
         clock' \in Nat, clock <= clock', withdrawn \subseteq withdrawn', blank \subseteq blank',
         \A d \in Days : <<c, d>> \in withdrawn' \ withdrawn => 2 * d >= clock
  PROVE  AnswerFetched(c)'
<1>1. task'[c].last = Newest(dayBars'[c])
  BY DEF AnswerFetched
<1>2. CASE DaysOf(task[c].got) = {} /\ c \in blank
  BY <1>1, <1>2 DEF AnswerFetched
<1>3. CASE ~ (DaysOf(task[c].got) = {} /\ c \in blank)
  <2>1. PICK t \in Nat, v \in SUBSET withdrawn :
          /\ pull.begun <= t /\ t <= clock
          /\ \A d \in Days : <<c, d>> \in withdrawn \ v => 2 * d >= t
          /\ SeriesOf(c, dayBars[c], t, withdrawn)
          /\ AnswerOf(c, task[c].got, task[c].last, t, v)
    BY <1>3 DEF AnswerFetched
  <2>2. clock \in Nat /\ Days \subseteq Nat
    BY DayFacts DEF PullType
  <2>3. \A d \in Days : <<c, d>> \in withdrawn' \ withdrawn => 2 * d >= t
    BY <2>1, <2>2
  <2>4. SeriesOf(c, dayBars[c], t, withdrawn')
    BY <2>1, <2>3, SeriesLater
  <2>5. \A d \in Days : <<c, d>> \in withdrawn' \ v => 2 * d >= t
    BY <2>1, <2>3
  <2>6. v \in SUBSET withdrawn' /\ t <= clock'
    BY <2>1, <2>2
  <2>8. QED
    BY <2>1, <2>4, <2>5, <2>6, <1>1 DEF AnswerFetched
<1>4. QED
  BY <1>2, <1>3

\* The marks stay true while what they vouch for stays stored.
LEMMA MarksStay ==
  ASSUME PullType, PullIsQuick, MarksVouch,
         \A u \in Units : \A t \in Int : t < clock => (StoredAt(u, t) => StoredAt(u, t)'),
         UNCHANGED pullMark, clock' \in Nat, clock <= clock',
         pull'.pc # "off" => /\ pull.pc # "off" /\ pull'.begun = pull.begun
                             /\ ~pull'.err => ~pull.err,
         \A u \in Units :
            pull'.pc # "off" /\ ~pull'.err /\ u \notin pull'.left =>
              \/ pull'.pc = "wait" /\ u = pull'.unit
              \/ u \notin pull.left /\ ~ (pull.pc = "wait" /\ u = pull.unit)
              \/ StoredAt(u, pull.begun - 2)
  PROVE  MarksVouch'
<1>1. /\ pull.begun \in Nat /\ clock \in Nat /\ (pull.pc # "off" => pull.begun <= clock)
      /\ \A u \in Units \cup {Whole} : pullMark[u] # Never => pullMark[u] \in Nat
  BY DEF PullType, PullRecord, PullIsQuick
<1>2. \A u \in Units : \A t \in Int : t < clock => (StoredAt(u, t) => StoredAt(u, t)')
  OBVIOUS
<1>3. ASSUME NEW u \in Units, pullMark[u] # Never
      PROVE  pullMark[u] <= clock' /\ StoredAt(u, pullMark[u] - 1)'
  <2>1. pullMark[u] <= clock /\ StoredAt(u, pullMark[u] - 1) /\ pullMark[u] \in Nat
    BY <1>1, <1>3 DEF MarksVouch
  <2>2. PICK t \in Int : t = pullMark[u] - 1 /\ t < clock
    BY <1>1, <2>1
  <2>3. StoredAt(u, t)'
    BY <1>2, <2>1, <2>2
  <2>4. QED
    BY <1>1, <2>1, <2>2, <2>3
<1>4. ASSUME pullMark[Whole] # Never
      PROVE  pullMark[Whole] <= clock' /\ \A u \in Units : StoredAt(u, pullMark[Whole] - 3)'
  <2>1. /\ pullMark[Whole] <= clock /\ pullMark[Whole] \in Nat
        /\ \A u \in Units : StoredAt(u, pullMark[Whole] - 3)
    BY <1>1, <1>4 DEF MarksVouch
  <2>2. PICK t \in Int : t = pullMark[Whole] - 3 /\ t < clock
    BY <1>1, <2>1
  <2>3. \A u \in Units : StoredAt(u, t)'
    BY <1>2, <2>1, <2>2
  <2>4. QED
    BY <1>1, <2>1, <2>2, <2>3
<1>5. ASSUME NEW u \in Units, pull'.pc # "off", ~pull'.err, u \notin pull'.left,
             ~ (pull'.pc = "wait" /\ u = pull'.unit)
      PROVE  StoredAt(u, pull.begun - 2)'
  <2>1. StoredAt(u, pull.begun - 2)
    BY <1>5 DEF MarksVouch
  <2>2. PICK t \in Int : t = pull.begun - 2 /\ t < clock
    BY <1>1, <1>5
  <2>3. StoredAt(u, t)'
    BY <1>2, <2>1, <2>2
  <2>4. QED
    BY <1>5, <2>2, <2>3
<1>6. QED
  BY <1>3, <1>4, <1>5 DEF MarksVouch

\* Steps that store nothing and during which no time passes.
LEMMA SameSeries ==
  ASSUME StoredSeries, UNCHANGED <<clock, withdrawn, dayBars>>, blank \subseteq blank'
  PROVE  /\ StoredSeries'
         /\ \A u \in Units : \A t \in Int : StoredAt(u, t) => StoredAt(u, t)'
BY DEF StoredSeries, StoredAt

LEMMA NoTasks ==
  ASSUME TasksAtWork, pull.pc # "wait", UNCHANGED task
  PROVE  TasksAtWork'
BY DEF TasksAtWork

LEMMA UpdateInv ==
  ASSUME PullInv, NEW must \in BOOLEAN, Update(must)
  PROVE  PullInv'
<1>0. PullType /\ StoredSeries /\ TasksAtWork /\ MarksVouch
  BY DEF PullInv
<1>1. /\ pull.pc = "off" /\ UNCHANGED <<clock, withdrawn, dayBars, pullMark, task, blank>>
      /\ pull' = [pc |-> "units", unit |-> Whole, left |-> Units, err |-> FALSE,
                  begun |-> clock]
  BY DEF Update
<1>2. PullType' /\ PullIsQuick'
  BY <1>0, <1>1 DEF PullType, PullRecord, PullIsQuick
<1>3. StoredSeries' /\ \A u \in Units : \A t \in Int : StoredAt(u, t) => StoredAt(u, t)'
  BY <1>0, <1>1, SameSeries
<1>4. TasksAtWork'
  BY <1>0, <1>1, NoTasks
<1>5. MarksVouch'
  BY <1>0, <1>1 DEF MarksVouch, StoredAt
<1>6. QED
  BY <1>2, <1>3, <1>4, <1>5 DEF PullInv

LEMMA UpdateUnitInv ==
  ASSUME PullInv, NEW u \in Units, UpdateUnit(u)
  PROVE  PullInv'
<1>0. PullType /\ PullIsQuick /\ StoredSeries /\ TasksAtWork /\ MarksVouch
  BY DEF PullInv
<1>1. /\ pull.pc = "units" /\ UNCHANGED <<clock, withdrawn, dayBars, pullMark, blank>>
      /\ pull'.begun = pull.begun /\ pull'.left = pull.left \ {u} /\ pull' \in PullRecord
      /\ \/ /\ IsCurrent(pullMark[u], clock) /\ task' = task
            /\ pull'.pc = "units" /\ pull'.err = pull.err
         \/ /\ pull'.pc = "units" /\ pull'.err = TRUE /\ task' = task
         \/ /\ pull'.pc = "wait" /\ pull'.unit = u /\ pull'.err = pull.err
            /\ task' = [c \in PullCodes |->
                          IF c \in UnitCodes[u] THEN [Resting EXCEPT !.pc = "fetch"] ELSE task[c]]
  <2>0. pull \in PullRecord /\ u \in Units \cup {Whole}
    BY <1>0 DEF PullType
  <2>1. /\ pull.pc = "units" /\ UNCHANGED <<clock, withdrawn, dayBars, pullMark, blank>>
        /\ \/ /\ IsCurrent(pullMark[u], clock) /\ task' = task
              /\ pull' = [pull EXCEPT !.left = @ \ {u}]
           \/ /\ pull' = [pull EXCEPT !.left = @ \ {u}, !.err = TRUE] /\ task' = task
           \/ /\ pull' = [pull EXCEPT !.left = @ \ {u}, !.pc = "wait", !.unit = u]
              /\ task' = [c \in PullCodes |->
                            IF c \in UnitCodes[u] THEN [Resting EXCEPT !.pc = "fetch"] ELSE task[c]]
    BY DEF UpdateUnit
  <2>2. CASE pull' = [pull EXCEPT !.left = @ \ {u}] /\ IsCurrent(pullMark[u], clock) /\ task' = task
    BY <2>0, <2>1, <2>2 DEF PullRecord
  <2>3. CASE pull' = [pull EXCEPT !.left = @ \ {u}, !.err = TRUE] /\ task' = task
    BY <2>0, <2>1, <2>3 DEF PullRecord
  <2>4. CASE /\ pull' = [pull EXCEPT !.left = @ \ {u}, !.pc = "wait", !.unit = u]
             /\ task' = [c \in PullCodes |->
                            IF c \in UnitCodes[u] THEN [Resting EXCEPT !.pc = "fetch"] ELSE task[c]]
    <3>1. /\ pull'.pc = "wait" /\ pull'.unit = u /\ pull'.err = pull.err
          /\ pull'.begun = pull.begun /\ pull'.left = pull.left \ {u} /\ pull' \in PullRecord
      BY <2>0, <2>4 DEF PullRecord
    <3>2. QED
      BY <2>1, <2>4, <3>1
  <2>5. QED
    BY <2>1, <2>2, <2>3, <2>4
<1>2. task' \in [PullCodes -> TaskRecord]
  <2>1. [Resting EXCEPT !.pc = "fetch"] \in TaskRecord
    BY TaskSet
  <2>2. QED
    BY <1>0, <1>1, <2>1 DEF PullType
<1>3. PullType' /\ PullIsQuick'
  BY <1>0, <1>1, <1>2 DEF PullType, PullIsQuick
<1>4. StoredSeries' /\ \A m \in Units : \A t \in Int : StoredAt(m, t) => StoredAt(m, t)'
  BY <1>0, <1>1, SameSeries
<1>5. TasksAtWork'
  <2>1. \A c \in PullCodes : task[c].pc = "none"
    BY <1>0, <1>1 DEF TasksAtWork
  <2>2. [Resting EXCEPT !.pc = "fetch"].pc = "fetch"
    BY TaskSet
  <2>3. ASSUME NEW c \in PullCodes
        PROVE  \/ task'[c].pc = "none"
               \/ task'[c].pc = "fetch" /\ pull'.pc = "wait" /\ c \in UnitCodes[pull'.unit]
    <3>1. CASE task' = task
      BY <2>1, <3>1
    <3>2. CASE task' # task
      <4>1. /\ pull'.pc = "wait" /\ pull'.unit = u
            /\ task'[c] = IF c \in UnitCodes[u] THEN [Resting EXCEPT !.pc = "fetch"] ELSE task[c]
        BY <1>1, <3>2
      <4>2. QED
        BY <2>1, <2>2, <4>1
    <3>3. QED
      BY <3>1, <3>2
  <2>4. QED
    BY <2>3 DEF TasksAtWork
<1>6. IsCurrent(pullMark[u], clock) => StoredAt(u, pull.begun - 2)
  <2> SUFFICES ASSUME IsCurrent(pullMark[u], clock) PROVE StoredAt(u, pull.begun - 2)
    OBVIOUS
  <2>1. /\ pullMark[u] # Never /\ pullMark[u] \in Nat /\ clock \in Nat /\ pull.begun \in Nat
        /\ StoredAt(u, pullMark[u] - 1)
    BY <1>0 DEF IsCurrent, PullType, PullRecord, MarksVouch
  <2>2. pullMark[u] >= clock - 1 /\ pull.begun <= clock
    BY <1>0, <1>1, <2>1 DEF IsCurrent, LastNode, PullIsQuick
  <2>3. pull.begun - 2 <= pullMark[u] - 1
    BY <2>1, <2>2
  <2>4. QED
    BY <2>1, <2>3, StoredEarlier
<1>7. MarksVouch'
  BY <1>0, <1>1, <1>4, <1>6, MarksStay DEF PullType
<1>8. QED
  BY <1>3, <1>4, <1>5, <1>7 DEF PullInv

\* An attempt that failed, or one more of it.
LEMMA ErrorInv ==
  ASSUME PullInv, NEW c \in PullCodes, task[c].pc # "none", TaskError(c),
         UNCHANGED <<clock, withdrawn, dayBars, pullMark, pull, blank>>
  PROVE  PullInv'
<1>0. PullType /\ PullIsQuick /\ StoredSeries /\ TasksAtWork /\ MarksVouch
  BY DEF PullInv
<1>1. /\ \A e \in PullCodes : e # c => task'[e] = task[e]
      /\ task'[c].pc \in {"fetch", "failed"}
      /\ task' \in [PullCodes -> TaskRecord]
  <2> DEFINE r == [Resting EXCEPT !.tries = task[c].tries + 1,
                     !.pc = IF task[c].tries + 1 < PullRetry THEN "fetch" ELSE "failed"]
  <2>1. /\ task' = [task EXCEPT ![c] = r]
        /\ task \in [PullCodes -> TaskRecord]
    BY <1>0 DEF TaskError, PullType
  <2>2. /\ r.pc \in {"fetch", "failed"}
        /\ r \in TaskRecord
    <3>1. task[c].tries + 1 \in Nat
      BY <2>1 DEF TaskRecord
    <3>2. CASE task[c].tries + 1 < PullRetry
      BY <3>1, <3>2, TaskSet
    <3>3. CASE ~ (task[c].tries + 1 < PullRetry)
      BY <3>1, <3>3, TaskSet
    <3>4. QED
      BY <3>2, <3>3
  <2> HIDE DEF r
  <2>3. QED
    BY <2>1, <2>2
<1>2. PullType' /\ PullIsQuick'
  BY <1>0, <1>1 DEF PullType, PullIsQuick
<1>3. StoredSeries' /\ \A u \in Units : \A t \in Int : StoredAt(u, t) => StoredAt(u, t)'
  BY <1>0, SameSeries
<1>4. TasksAtWork'
  BY <1>0, <1>1 DEF TasksAtWork, AnswerFetched
<1>5. MarksVouch'
  BY <1>0, <1>3 DEF MarksVouch, StoredAt
<1>6. QED
  BY <1>2, <1>3, <1>4, <1>5 DEF PullInv

LEMMA FetchBarsInv ==
  ASSUME PullInv, NEW c \in PullCodes, FetchBars(c)
  PROVE  PullInv'
<1>0. PullType /\ PullIsQuick /\ StoredSeries /\ TasksAtWork /\ MarksVouch
  BY DEF PullInv
<1>1. CASE TaskError(c) /\ blank' = blank
  BY <1>1, ErrorInv DEF FetchBars
<1>2. CASE ~ (TaskError(c) /\ blank' = blank)
  <2> DEFINE last == Newest(dayBars[c])
             full == Page(c, last)
             got(page) == [d \in Days |-> IF d \in page THEN Quoted(c, d) ELSE NoBar]
  <2>1. PICK page \in {full, {}} :
          /\ task[c].pc = "fetch" /\ UNCHANGED <<clock, withdrawn, dayBars, pullMark, pull>>
          /\ task' = [task EXCEPT ![c].pc = "save", ![c].last = last, ![c].got = got(page)]
          /\ blank' = IF page = full THEN blank ELSE blank \cup {c}
    BY <1>2 DEF FetchBars
  <2>2. last \in Int /\ got(page) \in [Days -> BarStates]
    BY NewestBar DEF Quoted, BarStates
  <2>3. \/ AnswerOf(c, got(page), last, clock, withdrawn)
        \/ DaysOf(got(page)) = {} /\ c \in blank'
    <3>1. CASE page = full
      BY <1>0, <2>2, <3>1, PageAnswers
    <3>2. CASE page # full
      BY <2>1, <3>2 DEF DaysOf
    <3>3. QED
      BY <3>1, <3>2
  <2>4. blank \subseteq blank'
    BY <2>1
  <2> HIDE DEF got, last, full
  <2> DEFINE g == got(page)
  <2>5. /\ task'[c].pc = "save" /\ task'[c].last = last /\ task'[c].got = g
        /\ \A e \in PullCodes : e # c => task'[e] = task[e]
        /\ task' \in [PullCodes -> TaskRecord]
    <3>1. /\ task \in [PullCodes -> TaskRecord]
      BY <1>0 DEF PullType
    <3>2. task' = [task EXCEPT ![c] = [task[c] EXCEPT !.pc = "save", !.last = last, !.got = g]]
      BY <2>1, <3>1
    <3>3. LET s == [task[c] EXCEPT !.pc = "save", !.last = last, !.got = g]
          IN s \in TaskRecord /\ s.pc = "save" /\ s.last = last /\ s.got = g
      <4>1. task[c] \in TaskRecord
        BY <3>1
      <4>2. QED
        BY <2>2, <4>1 DEF TaskRecord
    <3>4. QED
      BY <3>1, <3>2, <3>3
  <2> HIDE DEF g
  <2>6. PullType' /\ PullIsQuick'
    BY <1>0, <2>1, <2>5 DEF PullType, PullIsQuick
  <2>7. StoredSeries' /\ \A u \in Units : \A t \in Int : StoredAt(u, t) => StoredAt(u, t)'
    BY <1>0, <2>1, <2>4, SameSeries
  <2>8. pull.pc = "wait" /\ c \in UnitCodes[pull.unit]
    BY <1>0, <2>1 DEF TasksAtWork
  <2>9. AnswerFetched(c)'
    <3>1. task'[c].last = Newest(dayBars'[c])
      BY <2>1, <2>5 DEF last
    <3>2. CASE DaysOf(g) = {} /\ c \in blank'
      BY <2>5, <3>1, <3>2 DEF AnswerFetched
    <3>3. CASE AnswerOf(c, g, last, clock, withdrawn)
      <4>1. /\ pull.begun <= clock /\ clock <= clock /\ clock \in Nat
            /\ \A d \in Days : <<c, d>> \in withdrawn \ withdrawn => 2 * d >= clock
            /\ SeriesOf(c, dayBars[c], clock, withdrawn)
        BY <1>0, <2>8 DEF PullType, PullIsQuick, StoredSeries
      <4>2. \E t \in Nat, v \in SUBSET withdrawn :
              /\ pull.begun <= t /\ t <= clock
              /\ \A d \in Days : <<c, d>> \in withdrawn \ v => 2 * d >= t
              /\ SeriesOf(c, dayBars[c], t, withdrawn)
              /\ AnswerOf(c, g, last, t, v)
        <5>1. withdrawn \in SUBSET withdrawn
          OBVIOUS
        <5>2. QED
          BY <3>3, <4>1, <5>1
      <4>3. QED
        BY <2>1, <2>5, <3>1, <4>2 DEF AnswerFetched
    <3>4. QED
      BY <2>3, <3>2, <3>3 DEF g
  <2>10. TasksAtWork'
    <3>1. ASSUME NEW e \in PullCodes, e # c
          PROVE  /\ task'[e].pc # "none" => pull'.pc = "wait" /\ e \in UnitCodes[pull'.unit]
                 /\ task'[e].pc = "save" => AnswerFetched(e)'
                 /\ task'[e].pc = "done" =>
                      e \in blank' \/ HasFinal(e, dayBars'[e], pull'.begun, withdrawn')
      BY <1>0, <2>1, <2>4, <2>5, <3>1 DEF TasksAtWork, AnswerFetched
    <3>2. QED
      BY <2>1, <2>5, <2>8, <2>9, <3>1 DEF TasksAtWork
  <2>11. MarksVouch'
    <3>1. clock \in Nat
      BY <1>0 DEF PullType
    <3>2. QED
      BY <1>0, <2>1, <2>7, <3>1, MarksStay
  <2>12. QED
    BY <2>6, <2>7, <2>10, <2>11 DEF PullInv
<1>3. QED
  BY <1>1, <1>2

LEMMA SaveDayInv ==
  ASSUME PullInv, NEW c \in PullCodes, SaveDay(c)
  PROVE  PullInv'
<1>0. PullType /\ PullIsQuick /\ StoredSeries /\ TasksAtWork /\ MarksVouch
  BY DEF PullInv
<1>1. CASE TaskError(c) /\ UNCHANGED <<dayBars, blank>>
  BY <1>1, ErrorInv DEF SaveDay
<1>2. CASE ~ (TaskError(c) /\ UNCHANGED <<dayBars, blank>>)
  <2> DEFINE last == task[c].last
             got  == task[c].got
             new  == IF DaysOf(got) = {} THEN dayBars[c] ELSE Upsert(dayBars[c], last, got)
  <2>1. /\ task[c].pc = "save" /\ UNCHANGED <<clock, withdrawn, pullMark, pull>>
        /\ ~ \E d \in DaysOf(got) : d < last /\ dayBars[c][d] # NoBar
        /\ dayBars' = [dayBars EXCEPT ![c] = new]
        /\ task' = [task EXCEPT ![c] = [Resting EXCEPT !.pc = "done"]]
        /\ blank' = IF DaysOf(got) = {} THEN blank ELSE blank \ {c}
    BY <1>2 DEF SaveDay
  <2>2. AnswerFetched(c) /\ pull.pc = "wait" /\ c \in UnitCodes[pull.unit]
    BY <1>0, <2>1 DEF TasksAtWork
  <2>3. /\ clock \in Nat /\ pull.begun \in Nat /\ pull.begun <= clock /\ clock <= pull.begun + 1
        /\ SeriesOf(c, dayBars[c], clock, withdrawn)
    BY <1>0, <2>2 DEF PullType, PullRecord, PullIsQuick, StoredSeries
  \* What is stored is a series again, keeps what was final, and has all that was
  \* final when the server answered; or it answered with nothing.
  <2>4. /\ SeriesOf(c, new, clock, withdrawn)
        /\ \A d \in Days : d >= StartDay /\ dayBars[c][d] = "final" => new[d] = "final"
        /\ \/ c \in blank'
           \/ \E t \in Nat : pull.begun <= t /\ HasFinal(c, new, t, withdrawn)
    <3>1. CASE DaysOf(got) = {} /\ c \in blank
      BY <2>1, <2>3, <3>1
    <3>2. CASE ~ (DaysOf(got) = {} /\ c \in blank)
      <4>1. PICK t \in Nat, v \in SUBSET withdrawn :
              /\ pull.begun <= t /\ t <= clock
              /\ \A d \in Days : <<c, d>> \in withdrawn \ v => 2 * d >= t
              /\ SeriesOf(c, dayBars[c], t, withdrawn)
              /\ AnswerOf(c, got, last, t, v)
        BY <2>2, <3>2 DEF AnswerFetched
      <4>2. last = Newest(dayBars[c])
        BY <2>2 DEF AnswerFetched
      <4>3. /\ SeriesOf(c, Upsert(dayBars[c], Newest(dayBars[c]), got), t, withdrawn)
            /\ \A d \in Days : d >= StartDay /\ dayBars[c][d] = "final"
                                 => Upsert(dayBars[c], Newest(dayBars[c]), got)[d] = "final"
            /\ HasFinal(c, Upsert(dayBars[c], Newest(dayBars[c]), got), t, withdrawn)
            /\ DaysOf(got) = {} => HasFinal(c, dayBars[c], t, withdrawn)
        <5>1. /\ v \subseteq withdrawn /\ AnswerOf(c, got, Newest(dayBars[c]), t, v)
              /\ ~ \E d \in DaysOf(got) : d < Newest(dayBars[c]) /\ dayBars[c][d] # NoBar
          BY <2>1, <4>1, <4>2
        <5> HIDE DEF got, last
        <5>2. QED
          BY <4>1, <5>1, UpsertSeries
      <4>4. /\ SeriesOf(c, new, t, withdrawn) /\ HasFinal(c, new, t, withdrawn)
            /\ \A d \in Days : d >= StartDay /\ dayBars[c][d] = "final" => new[d] = "final"
        BY <4>1, <4>2, <4>3
      <4> HIDE DEF new, got, last
      <4>5. \A d \in Days : <<c, d>> \in withdrawn \ withdrawn => 2 * d >= t
        OBVIOUS
      <4>6. SeriesOf(c, new, clock, withdrawn)
        BY <2>3, <4>1, <4>4, <4>5, SeriesLater
      <4>7. QED
        BY <4>1, <4>4, <4>6
    <3>3. QED
      BY <3>1, <3>2
  <2>5. \A e \in PullCodes : e # c => (e \in blank' <=> e \in blank)
    BY <2>1
  <2> HIDE DEF new, got, last
  <2>6. /\ dayBars'[c] = new /\ \A e \in PullCodes : e # c => dayBars'[e] = dayBars[e]
        /\ dayBars' \in [PullCodes -> [Days -> BarStates]]
    BY <1>0, <2>1, <2>4 DEF PullType, SeriesOf
  <2>7. /\ task'[c].pc = "done" /\ \A e \in PullCodes : e # c => task'[e] = task[e]
        /\ task' \in [PullCodes -> TaskRecord]
    <3>1. /\ [Resting EXCEPT !.pc = "done"].pc = "done"
          /\ [Resting EXCEPT !.pc = "done"] \in TaskRecord
      BY TaskSet
    <3>2. QED
      BY <1>0, <2>1, <3>1 DEF PullType
  <2>8. PullType' /\ PullIsQuick'
    BY <1>0, <2>1, <2>6, <2>7 DEF PullType, PullIsQuick
  <2>9. StoredSeries'
    BY <1>0, <2>1, <2>4, <2>6 DEF StoredSeries
  \* A code that leaves blank has every bar a mark may speak of.
  <2>10. \A u \in Units : \A s \in Int : s < clock => (StoredAt(u, s) => StoredAt(u, s)')
    <3> SUFFICES ASSUME NEW u \in Units, NEW s \in Int, s < clock, StoredAt(u, s),
                        NEW e \in UnitCodes[u] \ blank', NEW d \in TradeDays,
                        d >= StartDay, 2 * d < s, <<e, d>> \notin withdrawn
                 PROVE  dayBars'[e][d] = "final"
      BY <2>1 DEF StoredAt
    <3>1. e \in PullCodes /\ d \in Days /\ d \in Nat
      BY CodesOfUnit, DayFacts
    <3>2. CASE e # c
      <4>1. dayBars[e][d] = "final"
        BY <2>5, <3>1, <3>2 DEF StoredAt
      <4>2. QED
        BY <2>6, <3>1, <3>2, <4>1
    <3>3. CASE e = c
      <4>1. PICK t \in Nat : pull.begun <= t /\ HasFinal(c, new, t, withdrawn)
        BY <2>4, <3>3
      <4>2. 2 * d < t
        BY <2>3, <3>1, <4>1
      <4>3. QED
        BY <2>6, <3>3, <4>1, <4>2 DEF HasFinal
    <3>4. QED
      BY <3>2, <3>3
  <2>11. TasksAtWork'
    <3>1. c \in blank' \/ HasFinal(c, new, pull.begun, withdrawn)
      <4>1. ASSUME NEW t \in Nat, pull.begun <= t, HasFinal(c, new, t, withdrawn)
            PROVE  HasFinal(c, new, pull.begun, withdrawn)
        <5>1. \A d \in TradeDays : 2 * d < pull.begun => 2 * d < t
          BY <2>3, <4>1, DayFacts
        <5>2. QED
          BY <4>1, <5>1 DEF HasFinal
      <4>2. QED
        BY <2>4, <4>1
    <3>2. ASSUME NEW e \in PullCodes, e # c
          PROVE  /\ task'[e].pc # "none" => pull'.pc = "wait" /\ e \in UnitCodes[pull'.unit]
                 /\ task'[e].pc = "save" => AnswerFetched(e)'
                 /\ task'[e].pc = "done" =>
                      e \in blank' \/ HasFinal(e, dayBars'[e], pull'.begun, withdrawn')
      <4>1. /\ task'[e] = task[e] /\ dayBars'[e] = dayBars[e] /\ (e \in blank' <=> e \in blank)
            /\ UNCHANGED <<clock, withdrawn, pull>>
        BY <2>1, <2>5, <2>6, <2>7, <3>2
      <4>2. AnswerFetched(e) => AnswerFetched(e)'
        BY <4>1 DEF AnswerFetched
      <4>3. QED
        BY <1>0, <4>1, <4>2 DEF TasksAtWork
    <3>3. QED
      BY <2>1, <2>2, <2>6, <2>7, <3>1, <3>2 DEF TasksAtWork
  <2>12. MarksVouch'
    BY <1>0, <2>1, <2>3, <2>10, MarksStay
  <2>13. QED
    BY <2>8, <2>9, <2>11, <2>12 DEF PullInv
<1>3. QED
  BY <1>1, <1>2

LEMMA TasksRest ==
  ASSUME task' = [c \in PullCodes |-> Resting]
  PROVE  task' \in [PullCodes -> TaskRecord] /\ TasksAtWork'
<1>1. Resting \in TaskRecord /\ Resting.pc = "none"
  BY NoBarsType DEF TaskRecord, Resting
<1> HIDE DEF Resting
<1>2. QED
  BY <1>1 DEF TasksAtWork

LEMMA MarkUnitInv ==
  ASSUME PullInv, MarkUnit
  PROVE  PullInv'
<1>0. PullType /\ PullIsQuick /\ StoredSeries /\ TasksAtWork /\ MarksVouch
  BY DEF PullInv
<1> DEFINE u == pull.unit
<1>1. /\ pull.pc = "wait" /\ u \in Units /\ UNCHANGED <<clock, withdrawn, dayBars, blank>>
      /\ task' = [c \in PullCodes |-> Resting]
      /\ pull' \in PullRecord /\ pull'.pc = "units" /\ pull'.begun = pull.begun
      /\ pull'.left = pull.left
      /\ \/ /\ UnitWhole(u) /\ pullMark' = [pullMark EXCEPT ![u] = clock] /\ pull'.err = pull.err
         \/ pullMark' = pullMark /\ pull'.err = TRUE
  <2>1. /\ pull.pc = "wait" /\ pull \in PullRecord /\ u \in Units
    BY <1>0 DEF MarkUnit, PullType
  <2>2. CASE UnitWhole(u) /\ pullMark' = [pullMark EXCEPT ![u] = clock]
             /\ pull' = [pull EXCEPT !.pc = "units"]
    BY <2>1, <2>2 DEF MarkUnit, PullRecord
  <2>3. CASE pullMark' = pullMark /\ pull' = [pull EXCEPT !.pc = "units", !.err = TRUE]
    BY <2>1, <2>3 DEF MarkUnit, PullRecord
  <2>4. QED
    BY <2>2, <2>3 DEF MarkUnit
<1>2. /\ clock \in Nat /\ pull.begun \in Nat /\ Whole \notin Units
      /\ pull.begun <= clock /\ clock <= pull.begun + 1
      /\ pullMark \in [Units \cup {Whole} -> Nat \cup {Never}]
  BY <1>0, <1>1, PullConstants DEF PullType, PullRecord, PullIsQuick
<1> HIDE DEF u
<1>3. PullType' /\ PullIsQuick'
  <2>1. pullMark' \in [Units \cup {Whole} -> Nat \cup {Never}]
    BY <1>1, <1>2
  <2>2. QED
    BY <1>0, <1>1, <1>2, <2>1, TasksRest DEF PullType, PullIsQuick
<1>4. StoredSeries' /\ \A m \in Units : \A t \in Int : StoredAt(m, t) => StoredAt(m, t)'
  BY <1>0, <1>1, SameSeries
<1>5. TasksAtWork'
  BY <1>1, TasksRest
<1>6. UnitWhole(u) => StoredAt(u, pull.begun)
  BY <1>0, <1>1, CodesOfUnit DEF UnitWhole, TasksAtWork, HasFinal, StoredAt
<1>7. MarksVouch'
  <2>1. CASE pullMark' = pullMark
    <3>1. UnitWhole(u) => StoredAt(u, pull.begun - 2)
      BY <1>1, <1>2, <1>6, StoredEarlier
    <3>2. \A m \in Units :
            pull'.pc # "off" /\ ~pull'.err /\ m \notin pull'.left =>
              \/ pull'.pc = "wait" /\ m = pull'.unit
              \/ m \notin pull.left /\ ~ (pull.pc = "wait" /\ m = pull.unit)
              \/ StoredAt(m, pull.begun - 2)
      BY <1>1, <3>1 DEF u
    <3>3. /\ clock' \in Nat /\ clock <= clock'
          /\ pull'.pc # "off" => /\ pull.pc # "off" /\ pull'.begun = pull.begun
                                 /\ ~pull'.err => ~pull.err
      BY <1>0, <1>1, <1>2 DEF PullType, PullRecord
    <3>4. QED
      BY <1>0, <1>4, <2>1, <3>2, <3>3, MarksStay
  <2>2. CASE pullMark' # pullMark
    <3>1. /\ UnitWhole(u) /\ pullMark'[u] = clock /\ pull'.err = pull.err
          /\ \A m \in Units \cup {Whole} : m # u => pullMark'[m] = pullMark[m]
      BY <1>1, <1>2, <2>2
    <3>2. StoredAt(u, clock - 1) /\ StoredAt(u, pull.begun - 2)
      BY <1>1, <1>2, <1>6, <3>1, StoredEarlier
    <3>3. ASSUME NEW m \in Units
          PROVE  /\ pullMark'[m] # Never => pullMark'[m] <= clock /\ StoredAt(m, pullMark'[m] - 1)
                 /\ pullMark'[Whole] # Never => StoredAt(m, pullMark'[Whole] - 3)
                 /\ ~pull'.err /\ m \notin pull'.left => StoredAt(m, pull.begun - 2)
      <4>1. pullMark'[Whole] = pullMark[Whole]
        BY <1>1, <1>2, <3>1
      <4>2. CASE m = u
        BY <1>0, <1>1, <1>2, <3>1, <3>2, <4>1, <4>2 DEF MarksVouch
      <4>3. CASE m # u
        BY <1>0, <1>1, <3>1, <4>1, <4>3 DEF MarksVouch, u
      <4>4. QED
        BY <4>2, <4>3
    <3>4. pullMark'[Whole] # Never => pullMark'[Whole] <= clock
      BY <1>0, <1>1, <1>2, <3>1 DEF MarksVouch
    <3>5. QED
      BY <1>1, <3>3, <3>4 DEF MarksVouch, StoredAt
  <2>3. QED
    BY <2>1, <2>2
<1>8. QED
  BY <1>3, <1>4, <1>5, <1>7 DEF PullInv

LEMMA MarkPullInv ==
  ASSUME PullInv, MarkPull
  PROVE  PullInv'
<1>0. PullType /\ PullIsQuick /\ StoredSeries /\ TasksAtWork /\ MarksVouch
  BY DEF PullInv
<1>1. /\ pull.pc = "units" /\ pull.left = {} /\ UNCHANGED <<clock, withdrawn, dayBars, task, blank>>
      /\ pull' = Waiting
      /\ \/ pullMark' = pullMark
         \/ ~pull.err /\ pullMark' = [pullMark EXCEPT ![Whole] = clock]
  BY DEF MarkPull
<1>2. /\ clock \in Nat /\ pull.begun \in Nat /\ Whole \notin Units
      /\ pull.begun <= clock /\ clock <= pull.begun + 1
      /\ pullMark \in [Units \cup {Whole} -> Nat \cup {Never}]
  BY <1>0, <1>1, PullConstants DEF PullType, PullRecord, PullIsQuick
<1>3. PullType' /\ PullIsQuick'
  <2>1. pullMark' \in [Units \cup {Whole} -> Nat \cup {Never}]
    BY <1>1, <1>2
  <2>2. QED
    BY <1>0, <1>1, <2>1, RestingType DEF PullType, PullIsQuick
<1>4. StoredSeries' /\ \A u \in Units : \A t \in Int : StoredAt(u, t) => StoredAt(u, t)'
  BY <1>0, <1>1, SameSeries
<1>5. TasksAtWork'
  BY <1>0, <1>1, NoTasks
<1>6. MarksVouch'
  <2>1. CASE pullMark' = pullMark
    <3>1. pull'.pc = "off"
      BY <1>1, RestingType
    <3>2. QED
      BY <1>0, <1>1, <1>2, <1>4, <2>1, <3>1, MarksStay
  <2>2. CASE pullMark' # pullMark
    <3>1. /\ ~pull.err /\ pullMark'[Whole] = clock
          /\ \A m \in Units : pullMark'[m] = pullMark[m]
      BY <1>1, <1>2, <2>2
    <3>2. ASSUME NEW u \in Units PROVE StoredAt(u, clock - 3)
      <4>1. StoredAt(u, pull.begun - 2)
        BY <1>0, <1>1, <3>1 DEF MarksVouch
      <4>2. QED
        BY <1>2, <4>1, StoredEarlier
    <3>3. ASSUME NEW u \in Units
          PROVE  /\ pullMark'[u] # Never => pullMark'[u] <= clock /\ StoredAt(u, pullMark'[u] - 1)
                 /\ StoredAt(u, pullMark'[Whole] - 3)
      BY <1>0, <3>1, <3>2 DEF MarksVouch
    <3>4. pull'.pc = "off" /\ pullMark'[Whole] <= clock
      BY <1>1, <1>2, <3>1, RestingType
    <3>5. QED
      BY <1>1, <3>3, <3>4 DEF MarksVouch, StoredAt
  <2>3. QED
    BY <2>1, <2>2
<1>7. QED
  BY <1>3, <1>4, <1>5, <1>6 DEF PullInv

LEMMA PullCrashInv ==
  ASSUME PullInv, PullCrash
  PROVE  PullInv'
<1>0. PullType /\ PullIsQuick /\ StoredSeries /\ TasksAtWork /\ MarksVouch
  BY DEF PullInv
<1>1. /\ pull' = Waiting /\ task' = [c \in PullCodes |-> Resting]
      /\ UNCHANGED <<clock, withdrawn, dayBars, pullMark, blank>>
  BY DEF PullCrash
<1>2. PullType' /\ PullIsQuick' /\ TasksAtWork'
  BY <1>0, <1>1, RestingType, TasksRest DEF PullType, PullIsQuick
<1>3. StoredSeries' /\ \A u \in Units : \A t \in Int : StoredAt(u, t) => StoredAt(u, t)'
  BY <1>0, <1>1, SameSeries
<1>4. MarksVouch'
  <2>1. pull'.pc = "off" /\ clock \in Nat
    BY <1>0, <1>1, RestingType DEF PullType
  <2>2. QED
    BY <1>0, <1>1, <1>3, <2>1, MarksStay
<1>5. QED
  BY <1>2, <1>3, <1>4 DEF PullInv

\* A bar withdrawn, or half a day gone: nothing is stored, and what the tasks
\* hold stays an answer of this pull.
LEMMA OutsideInv ==
  ASSUME PullInv, \/ \E c \in PullCodes : Withdraw(c)
                  \/ PullTick
  PROVE  PullInv'
<1>0. PullType /\ PullIsQuick /\ StoredSeries /\ TasksAtWork /\ MarksVouch
  BY DEF PullInv
<1>1. /\ clock \in Nat /\ clock <= MaxTime /\ MaxTime \in Nat /\ pull.begun \in Nat
      /\ Days \subseteq Nat /\ pull.pc = "off" => pull = Waiting
  BY <1>0, DayFacts DEF PullType, PullRecord
<1>2. /\ UNCHANGED <<dayBars, pullMark, pull, task, blank>>
      /\ clock' \in Nat /\ clock <= clock' /\ clock' <= MaxTime
      /\ pull.pc # "off" => (clock' = clock \/ (clock <= pull.begun /\ clock' = clock + 1))
      /\ withdrawn \subseteq withdrawn'
      /\ \A c : \A d \in Days : <<c, d>> \in withdrawn' \ withdrawn => 2 * d >= clock
  <2>1. ASSUME NEW c \in PullCodes, Withdraw(c)
        PROVE  /\ UNCHANGED <<dayBars, pullMark, pull, task, clock, blank>>
               /\ withdrawn \subseteq withdrawn'
               /\ \A e : \A d \in Days : <<e, d>> \in withdrawn' \ withdrawn => 2 * d >= clock
    <3>1. /\ UNCHANGED <<dayBars, pullMark, pull, task, clock, blank>>
          /\ withdrawn' = withdrawn \cup {<<c, clock \div 2>>}
          /\ Quoted(c, clock \div 2) = "provisional"
      BY <2>1 DEF Withdraw
    <3>2. 2 * (clock \div 2) = clock
      BY <3>1 DEF Quoted, NoBar
    <3>3. QED
      BY <1>1, <3>1, <3>2
  <2>2. CASE PullTick
    <3>1. /\ UNCHANGED <<withdrawn, dayBars, pullMark, pull, task, blank>>
          /\ clock < MaxTime /\ clock' = clock + 1
          /\ clock <= IF pull = Waiting THEN clock ELSE pull.begun
      BY <2>2 DEF PullTick, Tick
    <3>2. pull.pc # "off" => pull # Waiting
      BY RestingType
    <3>3. QED
      BY <1>1, <3>1, <3>2
  <2>3. QED
    BY <1>1, <2>1, <2>2
<1>3. PullType' /\ PullIsQuick'
  BY <1>0, <1>1, <1>2 DEF PullType, PullIsQuick
<1>4. StoredSeries'
  <2>1. ASSUME NEW c \in PullCodes PROVE SeriesOf(c, dayBars[c], clock', withdrawn')
    <3>1. SeriesOf(c, dayBars[c], clock, withdrawn)
      BY <1>0 DEF StoredSeries
    <3>2. \A d \in Days : <<c, d>> \in withdrawn' \ withdrawn => 2 * d >= clock
      BY <1>2
    <3>3. QED
      BY <1>1, <1>2, <3>1, <3>2, SeriesLater
  <2>2. QED
    BY <1>2, <2>1 DEF StoredSeries
<1>5. TasksAtWork'
  <2>1. ASSUME NEW c \in PullCodes, task[c].pc = "save" PROVE AnswerFetched(c)'
    <3>1. AnswerFetched(c)
      BY <1>0, <2>1 DEF TasksAtWork
    <3>2. \A d \in Days : <<c, d>> \in withdrawn' \ withdrawn => 2 * d >= clock
      BY <1>2
    <3>3. QED
      BY <1>0, <1>1, <1>2, <3>1, <3>2, AnswerStays
  <2>2. ASSUME NEW c \in PullCodes, task[c].pc = "done"
        PROVE  c \in blank \/ HasFinal(c, dayBars[c], pull.begun, withdrawn')
    BY <1>0, <1>2, <2>2 DEF TasksAtWork, HasFinal
  <2>3. QED
    BY <1>0, <1>2, <2>1, <2>2 DEF TasksAtWork
<1>6. MarksVouch'
  <2>1. \A u \in Units : \A t \in Int : StoredAt(u, t) => StoredAt(u, t)'
    BY <1>2, StoredStays
  <2>2. QED
    BY <1>0, <1>2, <2>1, MarksStay
<1>7. QED
  BY <1>3, <1>4, <1>5, <1>6 DEF PullInv

LEMMA PullNextInv == PullInv /\ [PullNext]_pullVars => PullInv'
<1> SUFFICES ASSUME PullInv, [PullNext]_pullVars PROVE PullInv'
  OBVIOUS
<1>1. CASE UNCHANGED pullVars
  <2>1. UNCHANGED <<clock, withdrawn, dayBars, pullMark, pull, task, blank>>
    BY <1>1 DEF pullVars
  <2>2. PullType' /\ PullIsQuick' /\ StoredSeries'
    BY <2>1 DEF PullInv, PullType, PullIsQuick, StoredSeries
  <2>3. TasksAtWork'
    BY <2>1 DEF PullInv, TasksAtWork, AnswerFetched
  <2>4. MarksVouch'
    BY <2>1 DEF PullInv, MarksVouch, StoredAt
  <2>5. QED
    BY <2>2, <2>3, <2>4 DEF PullInv
<1>2. CASE PullNext
  BY <1>2, UpdateInv, UpdateUnitInv, FetchBarsInv, SaveDayInv, MarkUnitInv, MarkPullInv,
     PullCrashInv, OutsideInv DEF PullNext
<1>3. QED
  BY <1>1, <1>2

\* Whatever failed, was retried, was cut off or was withdrawn: the stored series
\* of a code has no hole after its first bar, and only its newest bar may still
\* be provisional.
THEOREM IncrementsAreExact == PullSpec => []IncrementExact
<1>1. PullInv => IncrementExact
  <2> SUFFICES ASSUME PullInv, NEW c \in PullCodes, NEW d \in Days, d < Newest(dayBars[c])
               PROVE  /\ dayBars[c][d] # NoBar => dayBars[c][d] = "final"
                      /\ d \in TradeDays /\ <<c, d>> \notin withdrawn
                           /\ (\E e \in DaysOf(dayBars[c]) : e < d)
                           => dayBars[c][d] # NoBar
    BY DEF IncrementExact
  <2>1. SeriesOf(c, dayBars[c], clock, withdrawn)
    BY DEF PullInv, StoredSeries
  <2>2. d \in Nat /\ Newest(dayBars[c]) \in DaysOf(dayBars[c])
    BY NewestBar, DayFacts
  <2>3. d \in DaysOf(dayBars[c]) <=> dayBars[c][d] # NoBar
    BY DEF DaysOf
  <2>4. QED
    BY <2>1, <2>2, <2>3 DEF SeriesOf
<1>2. QED
  BY PullInitInv, PullNextInv, <1>1, PTL DEF PullSpec

\* A current mark of a market, or of the whole pull, vouches for the bars that
\* were final half a day, or a day and a half, before the node of the day.
THEOREM PullMarksVouch == PullSpec => []PullMarkVouches
<1>1. PullInv => PullMarkVouches
  <2> SUFFICES ASSUME PullInv, NEW u \in Units
               PROVE  /\ IsCurrent(pullMark[u], clock) => StoredAt(u, LastNode(clock) - 1)
                      /\ IsCurrent(pullMark[Whole], clock) => StoredAt(u, LastNode(clock) - 3)
    BY DEF PullMarkVouches
  <2>1. /\ PullType /\ MarksVouch /\ LastNode(clock) \in Int
        /\ \A m \in Units \cup {Whole} : pullMark[m] # Never => pullMark[m] \in Nat
    BY DEF PullInv, PullType, LastNode
  <2>2. ASSUME IsCurrent(pullMark[u], clock) PROVE StoredAt(u, LastNode(clock) - 1)
    <3>1. /\ StoredAt(u, pullMark[u] - 1) /\ pullMark[u] \in Nat
          /\ LastNode(clock) <= pullMark[u]
      BY <2>1, <2>2 DEF IsCurrent, MarksVouch
    <3>2. QED
      BY <2>1, <3>1, StoredEarlier
  <2>3. ASSUME IsCurrent(pullMark[Whole], clock) PROVE StoredAt(u, LastNode(clock) - 3)
    <3>1. /\ StoredAt(u, pullMark[Whole] - 3) /\ pullMark[Whole] \in Nat
          /\ LastNode(clock) <= pullMark[Whole]
      BY <2>1, <2>3 DEF IsCurrent, MarksVouch
    <3>2. QED
      BY <2>1, <3>1, StoredEarlier
  <2>4. QED
    BY <2>2, <2>3
<1>2. QED
  BY PullInitInv, PullNextInv, <1>1, PTL DEF PullSpec

(***************************************************************************)
(* PackageDownload.                                                        *)
(***************************************************************************)
(***************************************************************************)
(* The inductive invariant.                                                *)
(***************************************************************************)

\* The vendor's counter only grows: nothing here is newer than it.
NoneNewer ==
    /\ zip <= published
    /\ fetch.info <= published

\* A package that has been received is at least as new as the announcement
\* it was fetched for, and as the package it will replace: the address is
\* fixed, and the body comes from it after both.
PartReplaces ==
    part \in Versions /\ fetch.info <= part /\ zip <= part /\ part <= published

PartFollows ==
    /\ fetch.pc \in {"checkGet", "checkCurl"} => part = Bad \/ PartReplaces
    /\ fetch.pc = "rename" => PartReplaces
    /\ fetch.pc = "info" => fetch.info <= zip

\* Every entry that is no longer on the list has been extracted from the zip.
TreeFollows ==
    fetch.pc \in {"unzip", "ok"} =>
        /\ \A e \in Entries \ fetch.todo : tree[e] = zip
        /\ fetch.pc = "ok" => fetch.todo = {}

PackageInv == PackageTypeOK /\ PackageWhole /\ NoneNewer /\ PartFollows /\ TreeFollows

LEMMA Numbers ==
  /\ MaxVersion \in Nat /\ MaxVersion >= 1
  /\ Versions = 1 .. MaxVersion
  /\ OldFile = 0 .. MaxVersion
  /\ AnyFile = 0 .. (MaxVersion + 1)
BY PackageConstants DEF Versions, OldFile, AnyFile, Missing, Bad

LEMMA PackageInitInv == PackageInit => PackageInv
<1> SUFFICES ASSUME PackageInit PROVE PackageInv
  OBVIOUS
<1>1. PackageTypeOK
  BY Numbers DEF PackageInit, PackageTypeOK, Off, Missing
<1>2. PackageWhole /\ NoneNewer
  BY PackageConstants DEF PackageInit, PackageWhole, NoneNewer, Off, Missing, Bad
<1>3. PartFollows /\ TreeFollows
  BY DEF PackageInit, PartFollows, TreeFollows, Off
<1>4. QED
  BY <1>1, <1>2, <1>3 DEF PackageInv

(***************************************************************************)
(* Type correctness.                                                       *)
(***************************************************************************)
LEMMA TypeStep ==
  ASSUME PackageTypeOK, [PackageNext]_packageVars
  PROVE  PackageTypeOK'
<1> USE Numbers DEF PackageTypeOK
<1>1. CASE Announced
  BY <1>1 DEF Announced
<1>2. CASE HttpGet
  <2>1. fetch' \in [pc : {"checkGet", "off"}, info : {fetch.info}, todo : {fetch.todo}]
    BY <1>2 DEF HttpGet, Receive, Goto
  <2>2. part' \in AnyFile
    BY <1>2 DEF HttpGet, Receive, Missing, Bad
  <2>3. QED
    BY <1>2, <2>1, <2>2 DEF HttpGet, Receive
<1>3. CASE Curl
  <2>1. fetch' \in [pc : {"checkCurl", "off"}, info : {fetch.info}, todo : {fetch.todo}]
    BY <1>3 DEF Curl, Receive, Goto
  <2>2. part' \in AnyFile
    BY <1>3 DEF Curl, Receive, Missing, Bad
  <2>3. QED
    BY <1>3, <2>1, <2>2 DEF Curl, Receive
<1>4. CASE Validate
  BY <1>4 DEF Validate, Goto, Missing
<1>5. CASE Rename
  BY <1>5 DEF Rename, Goto, Missing
<1>6. CASE WriteInfo
  <2>1. info' \in OldFile
    BY <1>6 DEF WriteInfo, Missing
  <2>2. fetch' \in [pc : {"off", "unzip"}, info : OldFile, todo : SUBSET Entries]
    <3>1. Off \in [pc : {"off", "unzip"}, info : OldFile, todo : SUBSET Entries]
      BY DEF Off, Missing
    <3>2. [fetch EXCEPT !.pc = "unzip", !.todo = Entries]
             \in [pc : {"off", "unzip"}, info : OldFile, todo : SUBSET Entries]
      OBVIOUS
    <3>3. QED
      BY <1>6, <3>1, <3>2 DEF WriteInfo
  <2>3. QED
    BY <1>6, <2>1, <2>2 DEF WriteInfo
<1>7. ASSUME NEW e \in Entries, Extract(e) PROVE PackageTypeOK'
  <2>1. tree' \in [Entries -> AnyFile]
    BY <1>7 DEF Extract, Bad
  <2>2. fetch' = Off \/ fetch' = [fetch EXCEPT !.todo = @ \ {e}]
    BY <1>7 DEF Extract
  <2>3. QED
    BY <1>7, <2>1, <2>2 DEF Extract, Off, Missing
<1>8. CASE Unzipped
  BY <1>8 DEF Unzipped, Goto
<1>9. CASE FetchAgain
  BY <1>9 DEF FetchAgain, Off, Missing
<1>10. CASE DownloadCrash
  <2>1. fetch' = Off /\ part' \in {part, Bad}
    BY <1>10 DEF DownloadCrash
  <2>2. tree' \in [Entries -> AnyFile]
    BY <1>10 DEF DownloadCrash, Bad
  <2>3. QED
    BY <1>10, <2>1, <2>2 DEF DownloadCrash, Off, Missing, Bad
<1>11. CASE Publish
  BY <1>11 DEF Publish
<1>12. CASE UNCHANGED packageVars
  BY <1>12 DEF packageVars
<1>13. QED
  BY <1>1, <1>2, <1>3, <1>4, <1>5, <1>6, <1>7, <1>8, <1>9, <1>10, <1>11, <1>12
     DEF PackageNext

(***************************************************************************)
(* The invariant is inductive.                                             *)
(***************************************************************************)

\* The body of a GET is the package announced by then, or none.
LEMMA ReceiveStep ==
  ASSUME PackageInv, PackageTypeOK', NEW from \in {"get", "curl"}, Receive(from)
  PROVE  PackageWhole' /\ NoneNewer' /\ PartFollows' /\ TreeFollows'
<1> USE Numbers DEF PackageInv, PackageTypeOK
<1>1. /\ fetch'.info = fetch.info
      /\ \/ fetch'.pc = "off"
         \/ fetch'.pc \in {"checkGet", "checkCurl"} /\ part' \in {published, Bad}
  BY DEF Receive, Goto
<1>2. PackageWhole' /\ NoneNewer' /\ TreeFollows'
  BY <1>1 DEF Receive, PackageWhole, NoneNewer, TreeFollows, Bad
<1>3. PartFollows'
  BY <1>1 DEF Receive, PartFollows, PartReplaces, NoneNewer
<1>4. QED
  BY <1>2, <1>3

LEMMA PackageNextInv ==
  ASSUME PackageInv, [PackageNext]_packageVars
  PROVE  PackageInv'
<1>0. PackageTypeOK'
  BY TypeStep DEF PackageInv
<1> USE Numbers, <1>0 DEF PackageInv, PackageTypeOK
<1>1. CASE Announced
  <2>1. fetch'.pc \in {"get", "unzip"} /\ fetch'.info = published
        /\ (fetch'.pc = "unzip" => fetch'.todo = Entries)
    BY <1>1 DEF Announced
  <2>2. QED
    BY <1>1, <2>1 DEF Announced, PackageWhole, NoneNewer, PartFollows, TreeFollows
<1>2. CASE HttpGet
  BY <1>2, ReceiveStep DEF HttpGet
<1>3. CASE Curl
  BY <1>3, ReceiveStep DEF Curl
<1>4. CASE Validate
  <2>1. /\ fetch'.info = fetch.info
        /\ \/ fetch'.pc \in {"curl", "off"}
           \/ fetch'.pc = "rename" /\ Valid /\ part' = part
    BY <1>4 DEF Validate, Goto
  <2>2. PackageWhole' /\ NoneNewer' /\ TreeFollows'
    BY <1>4, <2>1 DEF Validate, PackageWhole, NoneNewer, TreeFollows
  <2>3. PartFollows'
    BY <1>4, <2>1 DEF Validate, Valid, PartFollows, PartReplaces, Bad
  <2>4. QED
    BY <2>2, <2>3
<1>5. CASE Rename
  <2>1. /\ fetch'.info = fetch.info /\ info' = info /\ tree' = tree
        /\ PartReplaces
        /\ \/ fetch'.pc = "info" /\ zip' = part
           \/ fetch'.pc = "off" /\ zip' = zip
    BY <1>5 DEF Rename, Goto, PartFollows
  <2>2. QED
    BY <1>5, <2>1 DEF Rename, PackageWhole, NoneNewer, PartFollows, TreeFollows, PartReplaces, Bad
<1>6. CASE WriteInfo
  <2>1. zip' = zip /\ tree' = tree /\ published' = published
    BY <1>6 DEF WriteInfo
  <2>2. CASE /\ info' = fetch.info /\ fetch.info <= zip
             /\ fetch' = [fetch EXCEPT !.pc = "unzip", !.todo = Entries]
    BY <2>1, <2>2 DEF PackageWhole, NoneNewer, PartFollows, TreeFollows
  <2>3. CASE info' \in {info, Missing} /\ fetch' = Off
    BY <2>1, <2>3 DEF Off, Missing, PackageWhole, NoneNewer, PartFollows, TreeFollows
  <2>4. QED
    BY <1>6, <2>2, <2>3 DEF WriteInfo, PartFollows
<1>7. ASSUME NEW e \in Entries, Extract(e) PROVE PackageInv'
  <2>1. zip' = zip /\ info' = info /\ part' = part /\ published' = published
    BY <1>7 DEF Extract
  <2>2. CASE fetch' = Off
    BY <2>1, <2>2 DEF Off, Missing, PackageWhole, NoneNewer, PartFollows, TreeFollows
  <2>3. CASE fetch.pc = "unzip" /\ tree' = [tree EXCEPT ![e] = zip]
             /\ fetch' = [fetch EXCEPT !.todo = @ \ {e}]
    <3>1. fetch'.pc = "unzip" /\ fetch'.info = fetch.info /\ fetch'.todo = fetch.todo \ {e}
      BY <2>3
    <3>2. \A d \in Entries \ fetch'.todo : tree'[d] = zip
      BY <2>3, <3>1 DEF TreeFollows
    <3>3. QED
      BY <2>1, <3>1, <3>2 DEF PackageWhole, NoneNewer, PartFollows, TreeFollows
  <2>4. QED
    BY <1>7, <2>2, <2>3 DEF Extract
<1>8. CASE Unzipped
  <2>1. fetch'.pc = "ok" /\ fetch'.info = fetch.info /\ fetch'.todo = {}
    BY <1>8 DEF Unzipped, Goto
  <2>2. QED
    BY <1>8, <2>1 DEF Unzipped, PackageWhole, NoneNewer, PartFollows, TreeFollows
<1>9. CASE FetchAgain
  BY <1>9 DEF FetchAgain, Off, Missing, PackageWhole, NoneNewer, PartFollows, TreeFollows
<1>10. CASE DownloadCrash
  <2>1. fetch' = Off /\ zip' = zip /\ info' = info /\ published' = published
    BY <1>10 DEF DownloadCrash
  <2>2. QED
    BY <2>1 DEF Off, Missing, PackageWhole, NoneNewer, PartFollows, TreeFollows
<1>11. CASE Publish
  BY <1>11 DEF Publish, PackageWhole, NoneNewer, PartFollows, PartReplaces, TreeFollows
<1>12. CASE UNCHANGED packageVars
  BY <1>12 DEF packageVars, PackageWhole, NoneNewer, PartFollows, PartReplaces, TreeFollows
<1>13. QED
  BY <1>1, <1>2, <1>3, <1>4, <1>5, <1>6, <1>7, <1>8, <1>9, <1>10, <1>11, <1>12
     DEF PackageNext

THEOREM PackageSpecInv == PackageSpec => []PackageInv
BY PackageInitInv, PackageNextInv, PTL DEF PackageSpec

\* Every variable of the download keeps its type.
THEOREM PackageTypeCorrect == PackageSpec => []PackageTypeOK
<1>1. PackageInv => PackageTypeOK
  BY DEF PackageInv
<1>2. QED
  BY PackageSpecInv, <1>1, PTL

\* hsjday.zip is never a broken archive, hsjday.txt never claims more than it
\* holds, and a DownloadAndUnzipHsjDay that returned without an error left
\* every entry of the package in the tree, for any number of entries,
\* published versions, failures and crashes.
THEOREM PackagesAreWhole == PackageSpec => []PackageWhole
<1>1. PackageInv => PackageWhole
  BY DEF PackageInv
<1>2. QED
  BY PackageSpecInv, <1>1, PTL
===============================================================================
