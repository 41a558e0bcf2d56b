----------------------------- MODULE QuotesProofs -----------------------------
(***************************************************************************)
(* What TLAPS proves of the parts that the run `quotes` checks, and of the *)
(* history read by page: the client pool and the HTTP service above it,    *)
(* the pages of the history, the quote client's numbers, and the older     *)
(* puller's files.                                                         *)
(***************************************************************************)
EXTENDS HttpService, HistoryPages, QuoteClient, LegacyPull,
        TLAPS, FiniteSetTheorems, SequenceTheorems, WellFoundedInduction


(***************************************************************************)
(* The inductive invariant, by places of the channel.                      *)
(***************************************************************************)
Places == 1 .. Len(free)

\* A client has one place: in the channel once, or with one borrower.
OnePlace ==
    /\ \A i, j \in Places : free[i] = free[j] => i = j
    /\ \A i \in Places, b \in Borrowers : lent[b] # free[i]
    /\ \A b, d \in Borrowers : lent[b] = lent[d] /\ lent[b] # Nobody => b = d

\* What has a place was dialled and not closed, also in a closed pool.
PlacedIsOpen ==
    /\ \A i \in Places : free[i] \in open
    /\ \A b \in Borrowers : lent[b] # Nobody => lent[b] \in open

\* What was dialled and not closed has a place, until the pool is closed.
OpenIsPlaced ==
    ~poolDone => \A c \in open : \/ \E i \in Places : free[i] = c
                                 \/ \E b \in Borrowers : lent[b] = c

PoolInv == PoolTypeOK /\ OnePlace /\ PlacedIsOpen /\ OpenIsPlaced

(***************************************************************************)
(* The channel.                                                            *)
(***************************************************************************)

\* A client is sent.
LEMMA SendFacts ==
  ASSUME PoolTypeOK, NEW c \in Clients, free' = Append(free, c)
  PROVE  /\ free' \in Seq(Clients)
         /\ Places' = Places \cup {Len(free) + 1} /\ Len(free) + 1 \notin Places
         /\ \A i \in Places : free'[i] = free[i]
         /\ free'[Len(free) + 1] = c
BY DEF PoolTypeOK, Places

\* A client is received.
LEMMA ReceiveFacts ==
  ASSUME PoolTypeOK, free # <<>>, free' = Tail(free)
  PROVE  /\ free' \in Seq(Clients)
         /\ 1 \in Places /\ Head(free) = free[1] /\ free[1] \in Clients
         /\ \A i \in Places' : i + 1 \in Places /\ free'[i] = free[i + 1] /\ i + 1 # 1
         /\ \A i \in Places : i # 1 => i - 1 \in Places' /\ free'[i - 1] = free[i]
BY DEF PoolTypeOK, Places

LEMMA PoolInitInv == PoolInit => PoolInv
<1> SUFFICES ASSUME PoolInit PROVE PoolInv
  OBVIOUS
<1>1. Places = {}
  BY DEF PoolInit, Places
<1>2. PoolTypeOK
  <2>1. lent \in [Borrowers -> Clients \cup {Nobody}]
    BY DEF PoolInit
  <2>2. free \in Seq(Clients) /\ open \in SUBSET Clients /\ lost \in SUBSET Clients
    BY DEF PoolInit
  <2>3. QED
    BY <2>1, <2>2 DEF PoolInit, PoolTypeOK
<1>3. OnePlace /\ PlacedIsOpen /\ OpenIsPlaced
  BY <1>1 DEF PoolInit, OnePlace, PlacedIsOpen, OpenIsPlaced
<1>4. QED
  BY <1>2, <1>3 DEF PoolInv

(***************************************************************************)
(* One lemma for each action that moves a client.                          *)
(***************************************************************************)
LEMMA DialStep ==
  ASSUME PoolInv, DialNext
  PROVE  PoolInv'
<1>1. CASE built' = "failed" /\ UNCHANGED <<open, free>>
  BY <1>1 DEF DialNext, PoolInv, PoolTypeOK, OnePlace, PlacedIsOpen, OpenIsPlaced, Places
<1>2. ASSUME NEW c \in Clients \ open, open' = open \cup {c}, free' = Append(free, c),
             built' = IF Len(free') = Number THEN "ok" ELSE "dialling"
      PROVE  PoolInv'
  <2> USE DEF PoolInv
  <2>0. /\ lent' = lent /\ poolDone' = poolDone /\ chClosed' = chClosed /\ lost' = lost
        /\ open' = open \cup {c} /\ built' \in {"dialling", "ok"}
    BY <1>2 DEF DialNext
  <2>1. /\ free' \in Seq(Clients)
        /\ Places' = Places \cup {Len(free) + 1} /\ Len(free) + 1 \notin Places
        /\ \A i \in Places : free'[i] = free[i]
        /\ free'[Len(free) + 1] = c
    BY <1>2, SendFacts
  <2>2. \A b \in Borrowers : lent[b] # c
    BY PoolConstants DEF PlacedIsOpen
  <2>3. \A i \in Places : free[i] # c
    BY DEF PlacedIsOpen
  <2>4. PoolTypeOK'
    BY <2>0, <2>1 DEF PoolTypeOK
  <2>5. OnePlace'
    <3>1. \A i, j \in Places' : free'[i] = free'[j] => i = j
      BY <2>1, <2>3 DEF OnePlace
    <3>2. \A i \in Places', b \in Borrowers : lent'[b] # free'[i]
      BY <2>0, <2>1, <2>2 DEF OnePlace
    <3>3. \A b, d \in Borrowers : lent'[b] = lent'[d] /\ lent'[b] # Nobody => b = d
      BY <2>0 DEF OnePlace
    <3>4. QED
      BY <3>1, <3>2, <3>3 DEF OnePlace
  <2>6. PlacedIsOpen' /\ OpenIsPlaced'
    BY <2>0, <2>1 DEF PlacedIsOpen, OpenIsPlaced
  <2>7. QED
    BY <2>4, <2>5, <2>6
<1>3. QED
  BY <1>1, <1>2 DEF DialNext

LEMMA BorrowStep ==
  ASSUME PoolInv, NEW b \in Borrowers, Borrow(b)
  PROVE  PoolInv'
<1> USE DEF PoolInv
<1>0. /\ open' = open /\ built' = built /\ poolDone' = poolDone
      /\ chClosed' = chClosed /\ lost' = lost /\ lent[b] = Nobody /\ free # <<>>
  BY DEF Borrow
<1>1. /\ free' \in Seq(Clients)
      /\ 1 \in Places /\ Head(free) = free[1] /\ free[1] \in Clients
      /\ \A i \in Places' : i + 1 \in Places /\ free'[i] = free[i + 1] /\ i + 1 # 1
      /\ \A i \in Places : i # 1 => i - 1 \in Places' /\ free'[i - 1] = free[i]
  BY ReceiveFacts DEF Borrow
<1>2. /\ lent' \in [Borrowers -> Clients \cup {Nobody}]
      /\ lent'[b] = free[1] /\ \A d \in Borrowers : d # b => lent'[d] = lent[d]
  BY <1>1 DEF Borrow, PoolTypeOK
<1>3. PoolTypeOK'
  BY <1>0, <1>1, <1>2 DEF PoolTypeOK
<1>4. \A i, j \in Places' : free'[i] = free'[j] => i = j
  <2> SUFFICES ASSUME NEW i \in Places', NEW j \in Places', free'[i] = free'[j]
               PROVE  i = j
    OBVIOUS
  <2>1. i + 1 = j + 1
    BY <1>1 DEF OnePlace
  <2>2. QED
    BY <2>1 DEF Places
<1>5. \A i \in Places', d \in Borrowers : lent'[d] # free'[i]
  BY <1>1, <1>2 DEF OnePlace
<1>6. \A d, e \in Borrowers : lent'[d] = lent'[e] /\ lent'[d] # Nobody => d = e
  BY <1>1, <1>2 DEF OnePlace
<1>7. PlacedIsOpen'
  BY <1>0, <1>1, <1>2 DEF PlacedIsOpen
<1>8. OpenIsPlaced'
  <2> SUFFICES ASSUME ~poolDone, NEW c \in open
               PROVE  \/ \E i \in Places' : free'[i] = c
                      \/ \E d \in Borrowers : lent'[d] = c
    BY <1>0 DEF OpenIsPlaced
  <2>1. CASE \E i \in Places : free[i] = c
    BY <2>1, <1>1, <1>2
  <2>2. CASE \E d \in Borrowers : lent[d] = c
    <3>1. c # Nobody
      BY PoolConstants DEF PoolTypeOK
    <3>2. QED
      BY <2>2, <3>1, <1>0, <1>2
  <2>3. QED
    BY <2>1, <2>2 DEF OpenIsPlaced
<1>9. QED
  BY <1>3, <1>4, <1>5, <1>6, <1>7, <1>8 DEF OnePlace

LEMMA GiveBackStep ==
  ASSUME PoolInv, NEW b \in Borrowers, GiveBack(b)
  PROVE  PoolInv'
<1> USE DEF PoolInv
<1>0. /\ open' = open /\ built' = built /\ poolDone' = poolDone
      /\ chClosed' = chClosed /\ lost' = lost /\ lent[b] # Nobody
  BY DEF GiveBack
<1>1. lent[b] \in Clients
  BY <1>0 DEF PoolTypeOK
<1>2. /\ free' \in Seq(Clients)
      /\ Places' = Places \cup {Len(free) + 1} /\ Len(free) + 1 \notin Places
      /\ \A i \in Places : free'[i] = free[i]
      /\ free'[Len(free) + 1] = lent[b]
  BY <1>1, SendFacts DEF GiveBack
<1>3. /\ lent' \in [Borrowers -> Clients \cup {Nobody}]
      /\ lent'[b] = Nobody /\ \A d \in Borrowers : d # b => lent'[d] = lent[d]
  BY DEF GiveBack, PoolTypeOK
<1>4. PoolTypeOK'
  BY <1>0, <1>2, <1>3 DEF PoolTypeOK
<1>5. \A i \in Places : free[i] # Nobody
  BY PoolConstants DEF PlacedIsOpen, PoolTypeOK
<1>6. OnePlace'
  <2>1. \A i, j \in Places' : free'[i] = free'[j] => i = j
    BY <1>2 DEF OnePlace
  <2>2. \A i \in Places', d \in Borrowers : lent'[d] # free'[i]
    BY <1>0, <1>2, <1>3, <1>5 DEF OnePlace
  <2>3. \A d, e \in Borrowers : lent'[d] = lent'[e] /\ lent'[d] # Nobody => d = e
    BY <1>3 DEF OnePlace
  <2>4. QED
    BY <2>1, <2>2, <2>3 DEF OnePlace
<1>7. PlacedIsOpen'
  BY <1>0, <1>2, <1>3 DEF PlacedIsOpen
<1>8. OpenIsPlaced'
  BY <1>0, <1>2, <1>3 DEF OpenIsPlaced
<1>9. QED
  BY <1>4, <1>6, <1>7, <1>8

\* A closed pool: the client is closed, or the send panics.
LEMMA GiveBackLateStep ==
  ASSUME PoolInv, NEW b \in Borrowers, GiveBackLate(b)
  PROVE  PoolInv'
<1> USE DEF PoolInv
<1>0. /\ free' = free /\ built' = built /\ poolDone' = poolDone /\ poolDone
      /\ chClosed' = chClosed /\ lent[b] # Nobody
      /\ open' \in {open, open \ {lent[b]}} /\ lost' \in {lost, lost \cup {lent[b]}}
  BY DEF GiveBackLate
<1>1. /\ lent' \in [Borrowers -> Clients \cup {Nobody}]
      /\ lent'[b] = Nobody /\ \A d \in Borrowers : d # b => lent'[d] = lent[d]
  BY DEF GiveBackLate, PoolTypeOK
<1>2. PoolTypeOK'
  BY <1>0, <1>1 DEF PoolTypeOK
<1>3. Places' = Places
  BY <1>0 DEF Places
<1>4. \A i \in Places : free[i] # Nobody
  BY PoolConstants DEF PlacedIsOpen, PoolTypeOK
<1>5. OnePlace'
  BY <1>0, <1>1, <1>3, <1>4 DEF OnePlace
<1>6. PlacedIsOpen'
  BY <1>0, <1>1, <1>3 DEF OnePlace, PlacedIsOpen
<1>7. OpenIsPlaced'
  BY <1>0 DEF OpenIsPlaced
<1>8. QED
  BY <1>2, <1>5, <1>6, <1>7

LEMMA PoolNextInv ==
  ASSUME PoolInv, [PoolNext]_poolVars
  PROVE  PoolInv'
<1>1. CASE UNCHANGED poolVars
  BY <1>1 DEF poolVars, PoolInv, PoolTypeOK, OnePlace, PlacedIsOpen, OpenIsPlaced, Places
<1>2. ASSUME NEW b \in Borrowers, BorrowRefused(b) PROVE PoolInv'
  BY <1>1, <1>2 DEF BorrowRefused
<1>3. CASE ClosePool
  BY <1>3 DEF ClosePool, PoolInv, PoolTypeOK, OnePlace, PlacedIsOpen, OpenIsPlaced, Places
<1>4. CASE CloseChannel
  BY <1>4 DEF CloseChannel, PoolInv, PoolTypeOK, OnePlace, PlacedIsOpen, OpenIsPlaced, Places
<1>5. QED
  BY <1>1, <1>2, <1>3, <1>4, DialStep, BorrowStep, GiveBackStep, GiveBackLateStep
     DEF PoolNext

THEOREM PoolSpecInv == PoolSpec => []PoolInv
BY PoolInitInv, PoolNextInv, PTL DEF PoolSpec

\* Every variable of the pool keeps its type; in particular only clients that
\* were dialled are ever in the channel.
THEOREM PoolTypeCorrect == PoolSpec => []PoolTypeOK
<1>1. PoolInv => PoolTypeOK
  BY DEF PoolInv
<1>2. QED
  BY PoolSpecInv, <1>1, PTL

\* No client is lent twice or lent while it is in the channel, a lent client
\* has not been closed by the pool, and until the pool is closed none is lost: for any number of
\* clients and borrowers, in whatever order they borrow, return and close.
THEOREM ClientsAreLentOnce == PoolSpec => []LentOnce
<1>1. PoolInv => LentOnce
  <2> SUFFICES ASSUME PoolInv PROVE LentOnce
    OBVIOUS
  <2>1. ToSet(free) = {free[i] : i \in Places}
    BY DEF ToSet, Places, PoolInv, PoolTypeOK
  <2>2. Held \cap ToSet(free) = {}
    BY <2>1 DEF Held, PoolInv, OnePlace
  <2>3. Held \subseteq open /\ ToSet(free) \subseteq open
    BY <2>1 DEF Held, PoolInv, PlacedIsOpen
  <2>4. Nobody \notin open
    BY PoolConstants DEF PoolInv, PoolTypeOK
  <2>5. ~poolDone => open \subseteq ToSet(free) \cup Held
    BY <2>1, <2>4 DEF Held, PoolInv, OpenIsPlaced
  <2>6. QED
    BY <2>2, <2>3, <2>5 DEF LentOnce, PoolInv, OnePlace
<1>2. QED
  BY PoolSpecInv, <1>1, PTL

-----------------------------------------------------------------------------
(***************************************************************************)
(* Pages of the series, as intervals of its bars.                          *)
(***************************************************************************)
Above(end, size) == IF end > size THEN end - size ELSE 0

\* The page of size bars that ends with the bar series - start.
LEMMA PageFacts ==
  ASSUME series \in Nat, NEW start \in Nat, NEW size \in Nat
  PROVE  LET end == Above(series, start)
             low == Above(end, size)
         IN PageOf(start, size) = [i \in 1 .. (end - low) |-> low + i]
<1> DEFINE end == Above(series, start)
           low == Above(end, size)
           K   == {k \in 1 .. series : series - start - size < k /\ k <= series - start}
<1>1. end \in Nat /\ low \in Nat /\ low <= end /\ end <= series
  BY DEF Above
<1>2. K = (low + 1) .. end
  BY DEF Above
<1>3. Cardinality(K) = end - low
  <2> HIDE DEF end, low, K
  <2>1. low + 1 \in Int /\ end \in Int
    BY <1>1
  <2>2. Cardinality((low + 1) .. end) = IF low + 1 > end THEN 0 ELSE end - (low + 1) + 1
    BY <2>1, FS_Interval
  <2>3. QED
    BY <1>1, <1>2, <2>2
<1>4. (IF series > start + size THEN series - start - size ELSE 0) = low
  BY DEF Above
<1>5. PageOf(start, size)
        = [i \in 1 .. Cardinality(K) |->
             (IF series > start + size THEN series - start - size ELSE 0) + i]
  BY DEF PageOf
<1> HIDE DEF end, low, K
<1>6. PageOf(start, size) = [i \in 1 .. (end - low) |-> low + i]
  BY <1>3, <1>4, <1>5
<1>7. QED
  BY <1>6 DEF end, low

\* The bars from one up to another, oldest first.
Bars(low, high) == [i \in 1 .. (high - low) |-> low + i]

LEMMA BarsFacts ==
  ASSUME NEW low \in Nat, NEW high \in Nat, low <= high
  PROVE  /\ Bars(low, high) \in Seq(Nat)
         /\ Len(Bars(low, high)) = high - low
         /\ \A i \in 1 .. (high - low) : Bars(low, high)[i] = low + i
         /\ Bars(low, high) = <<>> <=> low = high
<1>1. high - low \in Nat
  OBVIOUS
<1>2. Bars(low, high) \in [1 .. (high - low) -> Nat]
  BY <1>1 DEF Bars
<1>3. Bars(low, high) \in Seq(Nat) /\ Len(Bars(low, high)) = high - low
  BY <1>1, <1>2
<1>4. QED
  BY <1>1, <1>3 DEF Bars

\* Pages that meet are one.
LEMMA BarsJoin ==
  ASSUME NEW low \in Nat, NEW mid \in Nat, NEW high \in Nat, low <= mid, mid <= high
  PROVE  Bars(low, mid) \o Bars(mid, high) = Bars(low, high)
<1> DEFINE s == Bars(low, mid)  t == Bars(mid, high)  u == Bars(low, high)
<1>0. low <= high
  OBVIOUS
<1>1. /\ s \in Seq(Nat) /\ Len(s) = mid - low
      /\ \A i \in 1 .. (mid - low) : s[i] = low + i
  BY BarsFacts
<1>2. /\ t \in Seq(Nat) /\ Len(t) = high - mid
      /\ \A i \in 1 .. (high - mid) : t[i] = mid + i
  BY BarsFacts
<1>3. /\ u \in Seq(Nat) /\ Len(u) = high - low
      /\ \A i \in 1 .. (high - low) : u[i] = low + i
  BY <1>0, BarsFacts
<1> HIDE DEF s, t, u
<1>4. s \o t \in Seq(Nat) /\ Len(s \o t) = high - low
  BY <1>1, <1>2
<1>5. \A i \in 1 .. (high - low) : (s \o t)[i] = u[i]
  <2> TAKE i \in 1 .. (high - low)
  <2>1. CASE i <= mid - low
    <3>1. (s \o t)[i] = s[i]
      BY <1>1, <1>2, <2>1
    <3>2. QED
      BY <1>1, <1>3, <2>1, <3>1
  <2>2. CASE i > mid - low
    <3>1. i - (mid - low) \in 1 .. (high - mid)
      BY <2>2
    <3>2. (s \o t)[i] = t[i - (mid - low)]
      BY <1>1, <1>2, <2>2, <3>1
    <3>3. QED
      BY <1>2, <1>3, <3>1, <3>2
  <2>3. i <= mid - low \/ i > mid - low
    OBVIOUS
  <2>4. QED
    BY <2>1, <2>2, <2>3
<1>6. Len(s \o t) = Len(u) /\ \A i \in 1 .. Len(s \o t) : (s \o t)[i] = u[i]
  BY <1>3, <1>4, <1>5
<1>7. s \o t = u
  BY <1>3, <1>4, <1>6, SeqEqual
<1>8. QED
  BY <1>7 DEF s, t, u

\* A page cut out of the whole series is the page the server would give.
LEMMA PageOfWhole ==
  ASSUME series \in Nat, NEW start \in Nat, NEW count \in Nat \ {0},
         NEW whole, whole = [i \in 1 .. series |-> i]
  PROVE  DailyPage(whole, start, count) = PageOf(start, count)
<1> DEFINE end == Above(series, start)
           low == Above(end, count)
<1>1. end \in Nat /\ low \in Nat /\ low <= end /\ end <= series
  BY DEF Above
<1>2. PageOf(start, count) = [i \in 1 .. (end - low) |-> low + i]
  BY PageFacts
<1>3. whole \in Seq(Nat) /\ Len(whole) = series
  OBVIOUS
<1>4. CASE series <= start
  <2>1. end = 0 /\ low = 0
    BY <1>4 DEF Above
  <2>2. PageOf(start, count) = <<>>
    BY <1>2, <2>1
  <2>3. DailyPage(whole, start, count) = <<>>
    BY <1>3, <1>4 DEF DailyPage
  <2>4. QED
    BY <2>2, <2>3
<1>5. CASE series > start
  <2>1. end = series - start /\ low < end
    BY <1>5 DEF Above
  <2>2. low = IF series - start > count THEN series - start - count ELSE 0
    BY <2>1 DEF Above
  <2>3. DailyPage(whole, start, count) = SubSeq(whole, low + 1, end)
    BY <1>3, <1>5, <2>1, <2>2 DEF DailyPage
  <2> HIDE DEF end, low
  <2>4. SubSeq(whole, low + 1, end) = [i \in 1 .. (end - low) |-> whole[low + i]]
    <3>1. SubSeq(whole, low + 1, end) = [i \in 1 .. (end - (low + 1) + 1) |-> whole[i + (low + 1) - 1]]
      BY <1>1, <1>3, <2>1
    <3>2. end - (low + 1) + 1 = end - low /\ \A i \in 1 .. (end - low) : i + (low + 1) - 1 = low + i
      BY <1>1
    <3>3. QED
      BY <3>1, <3>2
  <2>5. \A i \in 1 .. (end - low) : whole[low + i] = low + i
    BY <1>1, <1>3
  <2>6. QED
    BY <1>2, <2>3, <2>4, <2>5
<1>6. QED
  BY <1>4, <1>5

(***************************************************************************)
(* The inductive invariant, request by request, with n bars in the series. *)
(***************************************************************************)
Works    == {"call", "list", "batch", "adjust"}
Stages   == Works \cup {"none", "borrow", "back", "answer", "events"}
BadGateway == 502
Statuses == {More, Failed, Aborted, 200, 400, 404, 502}

Requests == [pc : Stages, work : Works, all : BOOLEAN, left : Int, start : Nat,
             bars : Seq(Nat), first : Nat, status : Statuses, gone : BOOLEAN]

\* A goroutine that holds a client does the work it borrowed it for.
AtItsWork(r) ==
    /\ r.pc \in Works => r.work = r.pc
    /\ r.pc = "events" => r.work = "adjust"

\* Before the last page: the newest bars of the series as it was at the
\* first page, and no others.
NewestOfFirst(r, n) ==
    r.work = "adjust" /\ r.pc \in {"borrow", "adjust"}
    => /\ r.start <= r.first /\ r.first <= n
       /\ r.bars = Bars(r.first - r.start, r.first)

\* After it: all of them.
AllOfFirst(r) ==
    \/ r.pc = "events"
    \/ r.work = "adjust" /\ r.pc \in {"back", "answer"} /\ r.status = 200
    => r.bars = Bars(0, r.first)

\* The adjusted bars are one piece of work, answered or failed.
OnePiece(r) == r.work = "adjust" /\ r.pc = "back" => r.status \in {200, 502}

Sound(r, n) ==
    /\ r \in Requests
    /\ AtItsWork(r)
    /\ NewestOfFirst(r, n)
    /\ AllOfFirst(r)
    /\ OnePiece(r)

HttpInv ==
    /\ series \in Nat
    /\ req \in [Borrowers -> Requests]
    /\ \A b \in Borrowers : Sound(req[b], series)

(***************************************************************************)
(* One request changes at a time.                                          *)
(***************************************************************************)
LEMMA OneRequest ==
  ASSUME HttpInv, NEW b \in Borrowers, NEW r, Sound(r, series),
         req' = [req EXCEPT ![b] = r], series' = series
  PROVE  HttpInv'
<1>1. r \in Requests
  BY DEF Sound
<1>2. req' \in [Borrowers -> Requests]
  BY <1>1 DEF HttpInv
<1>3. \A d \in Borrowers : req'[d] = IF d = b THEN r ELSE req[d]
  BY DEF HttpInv
<1>4. \A d \in Borrowers : Sound(req'[d], series')
  BY <1>3 DEF HttpInv
<1>5. QED
  BY <1>2, <1>4 DEF HttpInv

LEMMA EmptyBars == <<>> = Bars(0, 0) /\ <<>> \in Seq(Nat)
BY DEF Bars

LEMMA NoRequestSound ==
  ASSUME NEW n \in Nat
  PROVE  Sound(NoRequest, n)
<1>1. NoRequest \in Requests
  BY EmptyBars DEF NoRequest, Requests, Stages, Works, Statuses, More
<1>2. NoRequest.pc = "none" /\ NoRequest.work = "call"
  BY DEF NoRequest
<1>3. QED
  BY <1>1, <1>2 DEF Sound, AtItsWork, NewestOfFirst, AllOfFirst, OnePiece, Works

\* A request that is refused is not one for adjusted bars.
LEMMA RefusedSound ==
  ASSUME NEW n \in Nat, NEW status \in {400, 404}
  PROVE  Sound([NoRequest EXCEPT !.pc = "answer", !.status = status], n)
<1> DEFINE r == [NoRequest EXCEPT !.pc = "answer", !.status = status]
<1>1. r \in Requests
  <2>1. NoRequest \in Requests
    BY NoRequestSound DEF Sound
  <2>2. "answer" \in Stages /\ status \in Statuses
    BY DEF Stages, Statuses
  <2>3. QED
    BY <2>1, <2>2 DEF Requests
<1>2. r.pc = "answer" /\ r.work = "call"
  BY DEF NoRequest
<1> HIDE DEF r
<1>3. Sound(r, n)
  BY <1>1, <1>2 DEF Sound, AtItsWork, NewestOfFirst, AllOfFirst, OnePiece, Works
<1>4. QED
  BY <1>3 DEF r

LEMMA BegunSound ==
  ASSUME NEW n \in Nat, NEW work \in Works, NEW all \in BOOLEAN, NEW left \in Int
  PROVE  Sound([NoRequest EXCEPT !.pc = "borrow", !.work = work, !.all = all, !.left = left], n)
<1> DEFINE r == [NoRequest EXCEPT !.pc = "borrow", !.work = work, !.all = all, !.left = left]
<1>1. r \in Requests
  BY EmptyBars DEF NoRequest, Requests, Stages, Works, Statuses, More
<1>2. r.pc = "borrow" /\ r.start = 0 /\ r.first = 0 /\ r.bars = <<>>
  BY DEF NoRequest
<1> HIDE DEF r
<1>3. NewestOfFirst(r, n)
  BY <1>2, EmptyBars DEF NewestOfFirst
<1>4. AtItsWork(r) /\ AllOfFirst(r) /\ OnePiece(r)
  BY <1>2 DEF AtItsWork, AllOfFirst, OnePiece, Works
<1>5. Sound(r, n)
  BY <1>1, <1>3, <1>4 DEF Sound
<1>6. QED
  BY <1>5 DEF r

LEMMA HttpInitInv == HttpInit => HttpInv
<1> SUFFICES ASSUME HttpInit PROVE HttpInv
  OBVIOUS
<1>1. series \in Nat
  BY HttpConstants DEF HttpInit
<1>2. \A b \in Borrowers : req[b] = NoRequest
  BY DEF HttpInit
<1>3. Sound(NoRequest, series) /\ NoRequest \in Requests
  BY <1>1, NoRequestSound DEF Sound
<1>4. req \in [Borrowers -> Requests]
  BY <1>3 DEF HttpInit
<1>5. QED
  BY <1>1, <1>2, <1>3, <1>4 DEF HttpInv

(***************************************************************************)
(* One lemma for each action.                                              *)
(***************************************************************************)
LEMMA ArriveStep ==
  ASSUME HttpInv, NEW b \in Borrowers, NEW h \in Handlers, Arrive(b, h)
  PROVE  HttpInv'
<1>0. series' = series /\ series \in Nat
  BY DEF Arrive, HttpInv
<1>1. CASE Bad(b)
  <2>1. Sound([NoRequest EXCEPT !.pc = "answer", !.status = 400], series)
    BY <1>0, RefusedSound
  <2>2. QED
    BY <1>0, <1>1, <2>1, OneRequest DEF Bad
<1>2. ASSUME NEW work \in Works, NEW all \in BOOLEAN, NEW left \in Int, Begin(b, work, all, left)
      PROVE  HttpInv'
  <2>1. Sound([NoRequest EXCEPT !.pc = "borrow", !.work = work, !.all = all, !.left = left], series)
    BY <1>0, BegunSound
  <2>2. QED
    BY <1>0, <1>2, <2>1, OneRequest DEF Begin
<1>3. \/ Bad(b)
      \/ \E work \in Works, all \in BOOLEAN, left \in Int : Begin(b, work, all, left)
  <2>1. /\ "call" \in Works /\ "adjust" \in Works /\ "list" \in Works /\ "batch" \in Works
        /\ (Len(h.params) = 1) \in BOOLEAN /\ TRUE \in BOOLEAN /\ 0 \in Int
        /\ \A n \in 1 .. MaxBatch : n \in Int
    BY DEF Works
  <2>2. \/ Bad(b) \/ Begin(b, "call", TRUE, 0) \/ Begin(b, "adjust", Len(h.params) = 1, 0)
        \/ Begin(b, "list", TRUE, 0) \/ \E n \in 1 .. MaxBatch : Begin(b, "batch", TRUE, n)
    BY DEF Arrive
  <2>3. QED
    BY <2>1, <2>2, Zenon
<1>4. QED
  BY <1>1, <1>2, <1>3

LEMMA NotRegisteredStep ==
  ASSUME HttpInv, NEW b \in Borrowers, NotRegistered(b)
  PROVE  HttpInv'
<1>1. series' = series /\ series \in Nat
  BY DEF NotRegistered, HttpInv
<1>2. Sound([NoRequest EXCEPT !.pc = "answer", !.status = 404], series)
  BY <1>1, RefusedSound
<1>3. QED
  BY <1>1, <1>2, OneRequest DEF NotRegistered

\* The client has come: the work it was borrowed for begins, or goes on.
LEMMA DoGetStep ==
  ASSUME HttpInv, NEW b \in Borrowers, DoGet(b)
  PROVE  HttpInv'
<1> DEFINE r == req[b]
           s == [r EXCEPT !.pc = r.work]
<1>1. r \in Requests /\ Sound(r, series) /\ r.pc = "borrow"
  BY DEF DoGet, Is, HttpInv
<1>2. req' = [req EXCEPT ![b] = s] /\ series' = series
  BY DEF DoGet
<1>3. /\ s \in Requests
      /\ s.pc = r.work /\ s.work = r.work /\ s.start = r.start /\ s.first = r.first
      /\ s.bars = r.bars /\ s.status = r.status /\ r.work \in Works
  BY <1>1 DEF Requests, Stages
<1> HIDE DEF r, s
<1>4. NewestOfFirst(s, series)
  BY <1>1, <1>3 DEF NewestOfFirst, Sound
<1>5. AtItsWork(s) /\ AllOfFirst(s) /\ OnePiece(s)
  BY <1>3 DEF AtItsWork, AllOfFirst, OnePiece, Works
<1>6. Sound(s, series)
  BY <1>3, <1>4, <1>5 DEF Sound
<1>7. QED
  BY <1>2, <1>6, OneRequest

\* A client that is to be put back after anything but adjusted bars.
LEMMA BackSound ==
  ASSUME NEW n \in Nat, NEW r \in Requests, r.pc = "back", r.work = "adjust" => r.status = 502
  PROVE  Sound(r, n)
BY DEF Sound, AtItsWork, NewestOfFirst, AllOfFirst, OnePiece, Works

LEMMA TwoFields ==
  ASSUME NEW D, NEW R, NEW f \in [D -> R], NEW d \in D, NEW u, NEW v
  PROVE  [f EXCEPT ![d].pc = u, ![d].status = v]
           = [f EXCEPT ![d] = [f[d] EXCEPT !.pc = u, !.status = v]]
OBVIOUS

LEMMA BackStep ==
  ASSUME HttpInv, NEW b \in Borrowers, NEW answer \in Statuses, Back(b, answer),
         series' = series, req[b].work = "adjust" => answer = BadGateway
  PROVE  HttpInv'
<1> DEFINE r == req[b]
           s == [r EXCEPT !.pc = "back", !.status = answer]
<1>1. r \in Requests /\ series \in Nat
  BY DEF HttpInv
<1>2. /\ s \in Requests
      /\ s.pc = "back" /\ s.work = r.work /\ s.status = answer
  BY <1>1 DEF Requests, Stages
<1>3. req' = [req EXCEPT ![b] = s]
  <2>1. req' = [req EXCEPT ![b].pc = "back", ![b].status = answer]
    BY DEF Back
  <2>2. req \in [Borrowers -> Requests]
    BY DEF HttpInv
  <2>3. req' = [req EXCEPT ![b] = [req[b] EXCEPT !.pc = "back", !.status = answer]]
    BY <2>1, <2>2, TwoFields
  <2>4. QED
    BY <2>3
<1> HIDE DEF s
<1>4. Sound(s, series)
  BY <1>1, <1>2, BackSound DEF BadGateway
<1>5. QED
  BY <1>3, <1>4, OneRequest

LEMMA CallStep ==
  ASSUME HttpInv, NEW b \in Borrowers, Call(b)
  PROVE  HttpInv'
<1>1. req[b].work = "call"
  BY DEF Call, Is, HttpInv, Sound, AtItsWork, Works
<1>2. series' = series /\ 200 \in Statuses /\ Failed \in Statuses /\ Aborted \in Statuses
  BY DEF Call, Statuses
<1>3. QED
  BY <1>1, <1>2, BackStep DEF Call

LEMMA ListCodesStep ==
  ASSUME HttpInv, NEW b \in Borrowers, ListCodes(b)
  PROVE  HttpInv'
<1> DEFINE r == req[b]
           s == [r EXCEPT !.pc = "back", !.work = "batch", !.left = StockCount, !.status = More]
<1>1. r \in Requests /\ series \in Nat /\ series' = series
  BY DEF HttpInv, ListCodes
<1>2. CASE Back(b, 502)
  <2>1. 502 \in Statuses
    BY DEF Statuses
  <2>2. QED
    BY <1>1, <1>2, <2>1, BackStep DEF BadGateway
<1>3. CASE req' = [req EXCEPT ![b].pc = "back", ![b].work = "batch",
                              ![b].left = StockCount, ![b].status = More]
  <2>1. /\ s \in Requests
        /\ s.pc = "back" /\ s.work = "batch"
    <3>1. "back" \in Stages /\ "batch" \in Works /\ StockCount \in Int /\ More \in Statuses
      BY HttpConstants DEF Stages, Works, Statuses
    <3>2. QED
      BY <1>1, <3>1 DEF Requests
  <2>2. req' = [req EXCEPT ![b] = s]
    BY <1>3
  <2> HIDE DEF s
  <2>3. Sound(s, series)
    BY <1>1, <2>1, BackSound
  <2>4. QED
    BY <1>1, <2>2, <2>3, OneRequest
<1>4. QED
  BY <1>2, <1>3 DEF ListCodes

LEMMA CollectGbbqStep ==
  ASSUME HttpInv, NEW b \in Borrowers, CollectGbbq(b)
  PROVE  HttpInv'
<1> DEFINE r == req[b]
           status == IF r.left = 1 THEN 200 ELSE More
           s == [r EXCEPT !.pc = "back", !.left = r.left - 1, !.status = status]
<1>1. r \in Requests /\ series \in Nat /\ series' = series /\ r.work = "batch"
  BY DEF HttpInv, CollectGbbq, Is, Sound, AtItsWork, Works
<1>2. CASE Back(b, 502)
  <2>1. 502 \in Statuses
    BY DEF Statuses
  <2>2. QED
    BY <1>1, <1>2, <2>1, BackStep DEF BadGateway
<1>3. CASE req' = [req EXCEPT ![b].pc = "back", ![b].left = @ - 1,
                              ![b].status = IF req[b].left = 1 THEN 200 ELSE More]
  <2>1. /\ s \in Requests
        /\ s.pc = "back" /\ s.work = "batch"
    <3>1. "back" \in Stages /\ r.left - 1 \in Int /\ status \in Statuses
      BY <1>1 DEF Stages, Statuses, Requests
    <3> HIDE DEF status
    <3>2. QED
      BY <1>1, <3>1 DEF Requests
  <2>2. req' = [req EXCEPT ![b] = s]
    BY <1>3
  <2> HIDE DEF s
  <2>3. Sound(s, series)
    BY <1>1, <2>1, BackSound
  <2>4. QED
    BY <1>1, <2>2, <2>3, OneRequest
<1>4. QED
  BY <1>2, <1>3 DEF CollectGbbq

\* The next older page of the daily bars: a page that is not empty and wholly
\* older than what was read shows that no bar has come since the first page.
LEMMA AdjustPageStep ==
  ASSUME HttpInv, NEW b \in Borrowers, AdjustPage(b)
  PROVE  HttpInv'
<1> DEFINE r     == req[b]
           page  == PageOf(r.start, PageSize)
           newest == IF r.start = 0 THEN series ELSE r.first
           stage    == IF Len(page) < PageSize THEN "events" ELSE "adjust"
           s     == [r EXCEPT !.bars = page \o r.bars, !.start = r.start + PageSize,
                              !.first = newest, !.pc = stage]
<1>1. /\ series \in Nat /\ series' = series /\ PageSize \in Nat \ {0}
      /\ r \in Requests /\ Sound(r, series) /\ r.pc = "adjust" /\ r.work = "adjust"
  BY HttpConstants DEF HttpInv, AdjustPage, Is, Sound, AtItsWork, Works
<1>2. CASE Back(b, 502)
  <2>1. 502 \in Statuses
    BY DEF Statuses
  <2>2. QED
    BY <1>1, <1>2, <2>1, BackStep DEF BadGateway
<1>3. CASE /\ ~Overlaps(page, r.bars)
           /\ req' = [req EXCEPT ![b].bars  = page \o r.bars,
                                 ![b].start = @ + PageSize,
                                 ![b].first = IF r.start = 0 THEN series ELSE @,
                                 ![b].pc    = IF Len(page) < PageSize THEN "events" ELSE "adjust"]
  <2> DEFINE end == Above(series, r.start)
             low == Above(end, PageSize)
  <2>1. req' = [req EXCEPT ![b] = s]
    BY <1>3
  <2>2. /\ r.start \in Nat /\ r.first \in Nat /\ r.bars \in Seq(Nat)
        /\ r.start <= r.first /\ r.first <= series /\ r.bars = Bars(r.first - r.start, r.first)
    BY <1>1 DEF Sound, NewestOfFirst, Requests
  <2>3. end \in Nat /\ low \in Nat /\ low <= end /\ end <= series
    BY <1>1, <2>2 DEF Above
  <2>4. page = Bars(low, end)
    BY <1>1, <2>2, PageFacts DEF Bars
  <2>5. /\ page \in Seq(Nat) /\ Len(page) = end - low
        /\ \A i \in 1 .. (end - low) : page[i] = low + i
        /\ page = <<>> <=> low = end
    <3> HIDE DEF page, end, low
    <3>1. /\ Bars(low, end) \in Seq(Nat) /\ Len(Bars(low, end)) = end - low
          /\ \A i \in 1 .. (end - low) : Bars(low, end)[i] = low + i
          /\ Bars(low, end) = <<>> <=> low = end
      BY <2>3, BarsFacts
    <3>2. QED
      BY <2>4, <3>1
  <2>6. /\ \A i \in 1 .. r.start : r.bars[i] = r.first - r.start + i
        /\ r.bars = <<>> <=> r.start = 0
    <3>1. r.first - r.start \in Nat /\ r.first - r.start <= r.first /\ r.first - (r.first - r.start) = r.start
      BY <2>2
    <3>2. /\ \A i \in 1 .. (r.first - (r.first - r.start)) : Bars(r.first - r.start, r.first)[i] = r.first - r.start + i
          /\ Bars(r.first - r.start, r.first) = <<>> <=> r.first - r.start = r.first
      BY <2>2, <3>1, BarsFacts
    <3>3. QED
      BY <2>2, <3>1, <3>2
  <2> HIDE DEF page
  <2>7. newest \in Nat /\ newest <= series /\ end = newest - r.start /\ r.start <= newest
    <3>1. CASE r.start = 0
      BY <1>1, <2>2, <3>1 DEF Above
    <3>2. CASE r.start # 0 /\ page = <<>>
      <4>1. low = end
        BY <2>5, <3>2
      <4>2. end = 0
        BY <1>1, <2>3, <4>1 DEF Above
      <4>3. series <= r.start
        BY <1>1, <2>2, <4>2 DEF Above
      <4>4. QED
        BY <1>1, <2>2, <3>2, <4>2, <4>3
    <3>3. CASE r.start # 0 /\ page # <<>>
      <4>1. page[Len(page)] < r.bars[1]
        <5>1. page[Len(page)] \in Nat /\ r.bars[1] \in Nat
          BY <2>2, <2>3, <2>5, <2>6, <3>3
        <5>2. QED
          BY <1>3, <2>6, <3>3, <5>1 DEF Overlaps
      <4>2. page[Len(page)] = end /\ end > 0
        BY <2>3, <2>5, <3>3
      <4>3. r.bars[1] = r.first - r.start + 1
        <5>1. 1 \in 1 .. r.start
          BY <2>2, <3>3
        <5>2. QED
          BY <2>6, <5>1
      <4>4. end = series - r.start
        BY <1>1, <2>2, <4>2 DEF Above
      <4>5. QED
        BY <1>1, <2>2, <3>3, <4>1, <4>2, <4>3, <4>4
    <3>4. QED
      BY <3>1, <3>2, <3>3
  <2>8. page \o r.bars = Bars(low, newest)
    <3>1. r.bars = Bars(end, newest)
      <4>1. CASE r.start = 0
        <5>1. r.bars = <<>> /\ end = newest
          BY <2>6, <2>7, <4>1
        <5> HIDE DEF end, newest
        <5>2. Bars(end, end) = <<>>
          BY <2>3, BarsFacts
        <5>3. QED
          BY <5>1, <5>2
      <4>2. CASE r.start # 0
        BY <2>2, <2>7, <4>2
      <4>3. QED
        BY <4>1, <4>2
    <3>2. end <= newest
      BY <2>2, <2>7
    <3> HIDE DEF end, low, newest
    <3>3. Bars(low, end) \o Bars(end, newest) = Bars(low, newest)
      BY <2>3, <2>7, <3>2, BarsJoin
    <3>4. QED
      BY <2>4, <3>1, <3>3
  <2>9. /\ s.bars = Bars(low, newest) /\ s.start = r.start + PageSize /\ s.first = newest
        /\ s.pc = stage /\ s.work = "adjust" /\ s \in Requests
    <3>1. Bars(low, newest) \in Seq(Nat)
      <4>1. low <= newest
        BY <2>2, <2>3, <2>7
      <4> HIDE DEF low, newest
      <4>2. QED
        BY <2>3, <2>7, <4>1, BarsFacts
    <3>2. r.start + PageSize \in Nat /\ stage \in Stages
      BY <1>1, <2>2 DEF Stages, Works
    <3> HIDE DEF end, low, newest, stage
    <3>3. page \o r.bars \in Seq(Nat)
      BY <2>8, <3>1
    <3>4. s \in Requests
      BY <1>1, <2>7, <3>2, <3>3 DEF Requests
    <3>5. QED
      BY <1>1, <2>8, <3>4 DEF Requests
  <2>10. Len(page) < PageSize => low = 0
    BY <1>1, <2>3, <2>5 DEF Above
  <2>11. Len(page) >= PageSize => low = newest - (r.start + PageSize) /\ r.start + PageSize <= newest
    <3> DEFINE read == r.start
    <3>1. /\ PageSize \in Nat \ {0} /\ Len(page) = end - low /\ low = Above(end, PageSize)
          /\ end \in Nat /\ low \in Nat /\ newest \in Nat /\ read \in Nat
          /\ end = newest - read
      BY <1>1, <2>2, <2>3, <2>5, <2>7
    <3> HIDE DEF end, low, newest, read
    <3>2. ASSUME Len(page) >= PageSize
          PROVE  low = newest - (read + PageSize) /\ read + PageSize <= newest
      <4>1. end - low >= PageSize
        BY <3>1, <3>2
      <4>2. low = end - PageSize
        BY <3>1, <4>1 DEF Above
      <4>3. end = newest - read /\ end >= PageSize /\ end \in Nat /\ newest \in Nat /\ read \in Nat
        BY <3>1, <4>1
      <4>4. QED
        BY <4>2, <4>3, HttpConstants
    <3>3. QED
      BY <3>2 DEF read
  <2>12. Len(page) \in Nat
    BY <2>3, <2>5
  <2> HIDE DEF end, low, newest, s, r
  <2>13. NewestOfFirst(s, series)
    BY <1>1, <2>7, <2>9, <2>11, <2>12 DEF NewestOfFirst
  <2>14. AllOfFirst(s)
    BY <2>9, <2>10, <2>12 DEF AllOfFirst
  <2>15. AtItsWork(s) /\ OnePiece(s)
    BY <2>9 DEF AtItsWork, OnePiece, Works
  <2>16. Sound(s, series)
    BY <2>9, <2>13, <2>14, <2>15 DEF Sound
  <2>17. QED
    BY <1>1, <2>1, <2>16, OneRequest
<1>4. QED
  BY <1>2, <1>3 DEF AdjustPage

LEMMA AdjustEventsStep ==
  ASSUME HttpInv, NEW b \in Borrowers, AdjustEvents(b)
  PROVE  HttpInv'
<1> DEFINE r == req[b]
<1>1. /\ series' = series /\ r \in Requests /\ r.work = "adjust" /\ r.pc = "events"
      /\ r.bars = Bars(0, r.first)
  BY DEF HttpInv, AdjustEvents, Is, Sound, AtItsWork, AllOfFirst
<1>2. CASE Back(b, 502)
  <2>1. 502 \in Statuses
    BY DEF Statuses
  <2>2. QED
    BY <1>1, <1>2, <2>1, BackStep DEF BadGateway
<1>3. CASE Back(b, 200)
  <2> DEFINE s == [r EXCEPT !.pc = "back", !.status = 200]
  <2>1. /\ s \in Requests
        /\ s.pc = "back" /\ s.work = "adjust" /\ s.status = 200
        /\ s.bars = r.bars /\ s.first = r.first
    <3>1. "back" \in Stages /\ 200 \in Statuses
      BY DEF Stages, Statuses
    <3>2. QED
      BY <1>1, <3>1 DEF Requests
  <2>2. req' = [req EXCEPT ![b] = s]
    BY <1>3 DEF Back
  <2> HIDE DEF s
  <2>3. AtItsWork(s) /\ NewestOfFirst(s, series) /\ AllOfFirst(s) /\ OnePiece(s)
    BY <1>1, <2>1 DEF AtItsWork, NewestOfFirst, AllOfFirst, OnePiece, Works
  <2>4. Sound(s, series)
    BY <2>1, <2>3 DEF Sound
  <2>5. QED
    BY <1>1, <2>2, <2>4, OneRequest
<1>4. QED
  BY <1>2, <1>3 DEF AdjustEvents

\* The client is back: a batch goes on, all others are answered.
LEMMA DoPutStep ==
  ASSUME HttpInv, NEW b \in Borrowers, DoPut(b)
  PROVE  HttpInv'
<1> DEFINE r == req[b]
           s == [r EXCEPT !.pc = "borrow"]
           t == [r EXCEPT !.pc = "answer"]
<1>1. /\ series' = series /\ series \in Nat
      /\ r \in Requests /\ Sound(r, series) /\ r.pc = "back"
  BY DEF HttpInv, DoPut, Is
<1>2. CASE r.status = More
  <2>1. req' = [req EXCEPT ![b] = s]
    BY <1>2 DEF DoPut, AfterPut, More, Aborted
  <2>2. /\ s \in Requests /\ s.pc = "borrow" /\ s.work = r.work /\ s.status = r.status
    BY <1>1 DEF Requests, Stages
  <2>3. r.work # "adjust"
    BY <1>1, <1>2 DEF Sound, OnePiece, More
  <2> HIDE DEF s
  <2>4. AtItsWork(s) /\ NewestOfFirst(s, series) /\ AllOfFirst(s) /\ OnePiece(s)
    BY <2>2, <2>3 DEF AtItsWork, NewestOfFirst, AllOfFirst, OnePiece, Works
  <2>5. Sound(s, series)
    BY <2>2, <2>4 DEF Sound
  <2>6. QED
    BY <1>1, <2>1, <2>5, OneRequest
<1>3. CASE r.status = Aborted
  <2>1. req' = [req EXCEPT ![b] = NoRequest]
    BY <1>3 DEF DoPut, AfterPut, More, Aborted
  <2>2. Sound(NoRequest, series)
    BY <1>1, NoRequestSound
  <2>3. QED
    BY <1>1, <2>1, <2>2, OneRequest
<1>4. CASE r.status # More /\ r.status # Aborted
  <2>1. req' = [req EXCEPT ![b] = t]
    BY <1>4 DEF DoPut, AfterPut
  <2>2. /\ t \in Requests /\ t.pc = "answer" /\ t.work = r.work /\ t.status = r.status
        /\ t.bars = r.bars /\ t.first = r.first
    BY <1>1 DEF Requests, Stages
  <2> HIDE DEF t
  <2>3. AllOfFirst(t)
    BY <1>1, <2>2 DEF Sound, AllOfFirst
  <2>4. AtItsWork(t) /\ NewestOfFirst(t, series) /\ OnePiece(t)
    BY <2>2 DEF AtItsWork, NewestOfFirst, OnePiece, Works
  <2>5. Sound(t, series)
    BY <2>2, <2>3, <2>4 DEF Sound
  <2>6. QED
    BY <1>1, <2>1, <2>5, OneRequest
<1>5. QED
  BY <1>2, <1>3, <1>4

LEMMA AnswerStep ==
  ASSUME HttpInv, NEW b \in Borrowers, Answer(b)
  PROVE  HttpInv'
<1>1. series' = series /\ series \in Nat /\ req' = [req EXCEPT ![b] = NoRequest]
  BY DEF Answer, HttpInv
<1>2. Sound(NoRequest, series)
  BY <1>1, NoRequestSound
<1>3. QED
  BY <1>1, <1>2, OneRequest

LEMMA CallerGoneStep ==
  ASSUME HttpInv, NEW b \in Borrowers, CallerGone(b)
  PROVE  HttpInv'
<1> DEFINE r == req[b]
           s == [r EXCEPT !.gone = TRUE]
<1>1. r \in Requests /\ Sound(r, series) /\ series' = series /\ req' = [req EXCEPT ![b] = s]
  BY DEF CallerGone, HttpInv
<1>2. /\ s \in Requests /\ s.pc = r.pc /\ s.work = r.work /\ s.start = r.start /\ s.first = r.first
      /\ s.bars = r.bars /\ s.status = r.status
  BY <1>1 DEF Requests
<1> HIDE DEF r, s
<1>3. AtItsWork(s) /\ OnePiece(s)
  BY <1>1, <1>2 DEF Sound, AtItsWork, OnePiece
<1>4. NewestOfFirst(s, series)
  BY <1>1, <1>2 DEF Sound, NewestOfFirst
<1>5. AllOfFirst(s)
  BY <1>1, <1>2 DEF Sound, AllOfFirst
<1>6. Sound(s, series)
  BY <1>2, <1>3, <1>4, <1>5 DEF Sound
<1>7. QED
  BY <1>1, <1>6, OneRequest

\* What has been read of the series stays read when it grows.
LEMMA SeriesGrowsStep ==
  ASSUME HttpInv, SeriesGrows
  PROVE  HttpInv'
<1>1. series \in Nat /\ series' = series + 1 /\ req' = req
  BY DEF HttpInv, SeriesGrows
<1>2. ASSUME NEW r, Sound(r, series)
      PROVE  Sound(r, series + 1)
  <2>1. r \in Requests /\ AtItsWork(r) /\ AllOfFirst(r) /\ OnePiece(r) /\ NewestOfFirst(r, series)
    BY <1>2 DEF Sound
  <2>2. r.first \in Nat
    BY <2>1 DEF Requests
  <2>3. NewestOfFirst(r, series + 1)
    BY <1>1, <2>1, <2>2 DEF NewestOfFirst
  <2>4. QED
    BY <2>1, <2>3 DEF Sound
<1>3. \A b \in Borrowers : Sound(req'[b], series')
  BY <1>1, <1>2 DEF HttpInv
<1>4. QED
  BY <1>1, <1>3 DEF HttpInv

LEMMA HttpNextInv ==
  ASSUME HttpInv, [HttpNext]_httpVars
  PROVE  HttpInv'
<1>1. ASSUME UNCHANGED <<series, req>>
      PROVE  HttpInv'
  BY <1>1 DEF HttpInv
<1>2. CASE ServerNew
  BY <1>1, <1>2 DEF ServerNew
<1>3. CASE UNCHANGED httpVars
  BY <1>1, <1>3 DEF httpVars
<1>4. ASSUME NEW b \in Borrowers, Serve(b)
      PROVE  HttpInv'
  BY <1>4, CallStep, ListCodesStep, CollectGbbqStep, AdjustPageStep, AdjustEventsStep, DoPutStep,
     AnswerStep DEF Serve
<1>5. QED
  BY <1>2, <1>3, <1>4, ArriveStep, NotRegisteredStep, DoGetStep, CallerGoneStep, SeriesGrowsStep
  DEF HttpNext

LEMMA HttpSpecInv == HttpSpec => []HttpInv
<1>1. HttpInit => HttpInv
  BY HttpInitInv
<1>2. HttpInv /\ [HttpNext]_httpVars => HttpInv'
  BY HttpNextInv
<1>3. QED
  BY <1>1, <1>2, PTL DEF HttpSpec

\* An adjusted history that is answered with success has every bar the server
\* had at its first page, once and in order, however the series grew while it
\* was read, and its pages are those the server would give unadjusted.
THEOREM AdjustedIsWhole == HttpSpec => []AdjustedWhole
<1>1. ASSUME HttpInv PROVE AdjustedWhole
  <2> SUFFICES ASSUME NEW b \in Borrowers, req[b].work = "adjust",
                      req[b].pc \in {"back", "answer"}, req[b].status = 200
               PROVE  /\ req[b].bars = [i \in 1 .. req[b].first |-> i]
                      /\ \A start \in 0 .. MaxSeries, count \in 1 .. PageSize :
                            req[b].first = series
                            => DailyPage(req[b].bars, start, count) = PageOf(start, count)
    BY DEF AdjustedWhole
  <2> DEFINE whole == req[b].bars
             size  == req[b].first
  <2>1. series \in Nat /\ size \in Nat /\ whole = Bars(0, size)
    BY <1>1 DEF HttpInv, Sound, AllOfFirst, Requests
  <2> HIDE DEF whole, size
  <2>2. whole = [i \in 1 .. size |-> i]
    BY <2>1 DEF Bars
  <2>3. ASSUME NEW start \in 0 .. MaxSeries, NEW count \in 1 .. PageSize, size = series
        PROVE  DailyPage(whole, start, count) = PageOf(start, count)
    <3>1. start \in Nat /\ count \in Nat \ {0} /\ whole = [i \in 1 .. series |-> i]
      BY <2>2, <2>3, HttpConstants
    <3>2. QED
      BY <2>1, <3>1, PageOfWhole
  <2>4. QED
    BY <2>2, <2>3 DEF whole, size
<1>2. QED
  BY <1>1, HttpSpecInv, PTL

\* The requests use the pool as it is meant to be used: seen from the pool,
\* every step of the service is a dial, a Get or a Put.
THEOREM ServiceUsesPool == HttpSpec => PoolSpec
<1>1. HttpInit => PoolInit
  BY DEF HttpInit
<1>2. [HttpNext]_httpVars => [PoolNext]_poolVars
  <2> SUFFICES ASSUME [HttpNext]_httpVars PROVE [PoolNext]_poolVars
    OBVIOUS
  <2>1. CASE ServerNew
    BY <2>1 DEF ServerNew, PoolNext
  <2>2. ASSUME NEW b \in Borrowers, DoGet(b) PROVE [PoolNext]_poolVars
    BY <2>2 DEF DoGet, PoolNext
  <2>3. ASSUME NEW b \in Borrowers, Serve(b) PROVE [PoolNext]_poolVars
    <3>1. CASE DoPut(b)
      BY <3>1 DEF DoPut, PoolNext
    <3>2. CASE Call(b) \/ ListCodes(b) \/ CollectGbbq(b) \/ AdjustPage(b) \/ AdjustEvents(b) \/ Answer(b)
      BY <3>2 DEF Call, ListCodes, CollectGbbq, AdjustPage, AdjustEvents, Answer
    <3>3. QED
      BY <2>3, <3>1, <3>2 DEF Serve
  <2>4. CASE \/ \E b \in Borrowers, h \in Handlers : Arrive(b, h)
             \/ \E b \in Borrowers : NotRegistered(b)
             \/ \E b \in Borrowers : CallerGone(b)
             \/ SeriesGrows
    BY <2>4 DEF Arrive, NotRegistered, CallerGone, SeriesGrows
  <2>5. CASE UNCHANGED httpVars
    BY <2>5 DEF httpVars
  <2>6. QED
    BY <2>1, <2>2, <2>3, <2>4, <2>5 DEF HttpNext
<1>3. QED
  BY <1>1, <1>2, PTL DEF HttpSpec, PoolSpec

\* So nobody ever works on a client that another request has borrowed.
THEOREM ServiceLendsOnce == HttpSpec => []LentOnce
BY ServiceUsesPool, ClientsAreLentOnce, PTL

-----------------------------------------------------------------------------
(***************************************************************************)
(* The history read page by page.                                          *)
(***************************************************************************)
Actioned == [value : Nat, applied : SUBSET Dates]
Series   == UNION {[S -> Actioned] : S \in SUBSET Dates}
Page     == [end : Nat, bars : Series]
Readers  == [pc : {"off", "read", "whole"}, mode : Modes, end : Nat, before : Nat,
             version : Nat, pages : Seq(Page)]

HistoryTypeOK ==
    /\ bars \in [Dates -> Nat]
    /\ actions \in SUBSET Dates
    /\ revision \in Nat
    /\ closed \in Nat
    /\ reader \in Readers

\* A first page was read at the revision it carries; at that revision the
\* store still has what it had then.
StillAsPromised ==
    reader.pages # <<>>
    => /\ reader.version <= revision
       /\ reader.version = revision
          => promised = WholeHistory(reader.mode, reader.pages[1].end)

OneEnd(pages) == \A i \in 1 .. Len(pages) : pages[i].end = pages[1].end

InPages(pages, d) == \E i \in 1 .. Len(pages) : d \in DOMAIN pages[i].bars

\* The pages are the promised bars from the cursor on, newest page first.
PartOf(pages, whole) ==
    /\ \A i \in 1 .. Len(pages) : \A d \in DOMAIN pages[i].bars :
          d \in DOMAIN whole /\ pages[i].bars[d] = whole[d]
    /\ \A i, j \in 1 .. Len(pages) : i < j =>
          \A d \in DOMAIN pages[i].bars, e \in DOMAIN pages[j].bars : e < d

From(pages, whole, before) ==
    \A d \in DOMAIN whole : InPages(pages, d) <=> d >= before

ReadSoFar ==
    /\ reader.pc = "off" => reader.pages = <<>> /\ reader.before = NoCursor
    /\ reader.pages = <<>> => reader.before = NoCursor /\ reader.pc # "whole"
    /\ reader.pages # <<>> /\ OneEnd(reader.pages)
       => /\ PartOf(reader.pages, promised)
          /\ reader.pc = "read"  => From(reader.pages, promised, reader.before)
          /\ reader.pc = "whole" => \A d \in DOMAIN promised : InPages(reader.pages, d)

HistoryInv == HistoryTypeOK /\ StillAsPromised /\ ReadSoFar

(***************************************************************************)
(* The dates of a page.                                                    *)
(***************************************************************************)
LEMMA OldestDate ==
  ASSUME NEW S \in SUBSET Nat, S # {}
  PROVE  Min(S) \in S /\ \A t \in S : Min(S) <= t
<1> DEFINE R == OpToRel(<, Nat)
<1>1. PICK m \in S : \A t \in S : ~ (<<t, m>> \in R)
  <2>1. IsWellFoundedOn(R, Nat)
    BY NatLessThanWellFounded
  <2> HIDE DEF R
  <2>2. QED
    BY <2>1, WFMin
<1>2. \A t \in S : m <= t
  <2> SUFFICES ASSUME NEW t \in S, t < m PROVE FALSE
    OBVIOUS
  <2>1. <<t, m>> \in R
    BY DEF OpToRel
  <2>2. QED
    BY <1>1, <2>1
<1>3. QED
  BY <1>2 DEF Min

LEMMA NewestDate ==
  ASSUME NEW S \in SUBSET Dates, S # {}
  PROVE  \E m \in S : \A t \in S : t <= m
<1> DEFINE T == {LastDate - t : t \in S}
<1>1. LastDate \in Nat /\ \A t \in S : t \in Nat /\ t <= LastDate
  BY HistoryConstants DEF Dates
<1>2. T \in SUBSET Nat /\ T # {}
  BY <1>1
<1>3. PICK k \in T : \A j \in T : k <= j
  <2> HIDE DEF T
  <2>1. QED
    BY <1>2, OldestDate
<1>4. PICK m \in S : k = LastDate - m
  BY <1>3
<1>5. \A t \in S : t <= m
  <2> SUFFICES ASSUME NEW t \in S PROVE t <= m
    OBVIOUS
  <2>1. LastDate - m <= LastDate - t
    BY <1>3, <1>4
  <2>2. QED
    BY <1>1, <2>1
<1>6. QED
  BY <1>5

LEMMA DatesFinite ==
  ASSUME NEW S \in SUBSET Dates
  PROVE  IsFiniteSet(S)
<1>1. IsFiniteSet(1 .. LastDate)
  BY HistoryConstants, FS_Interval
<1>2. QED
  BY <1>1, FS_Subset DEF Dates

Later(S, d) == {e \in S : e > d}

\* A page has the newest dates before the cursor, and at least one if there
\* is any.
LEMMA PageDatesFacts ==
  ASSUME NEW end, NEW before \in Nat
  PROVE  LET left == BeforeCursor(end, before)
             page == PageDates(end, before)
         IN /\ page \subseteq left
            /\ \A d \in page, e \in left \ page : e < d
            /\ left # {} => page # {}
<1> DEFINE left == BeforeCursor(end, before)
           page == PageDates(end, before)
<1>1. left \subseteq Dates /\ Dates \subseteq Nat /\ \A d \in left : d \in Int
  BY DEF BeforeCursor, Through, Dates
<1>2. page = {d \in left : Cardinality(Later(left, d)) < PageLimit}
  BY DEF PageDates, Later
<1> HIDE DEF left, page
<1>3. ASSUME NEW d \in page, NEW e \in left \ page, ~ (e < d)
      PROVE  FALSE
  <2>1. d \in left /\ d <= e /\ d # e
    BY <1>1, <1>2, <1>3
  <2>2. Later(left, e) \subseteq Later(left, d) /\ Later(left, d) \subseteq Dates
    <3>1. d \in Int /\ e \in Int
      BY <1>1, <1>3, <2>1
    <3>2. \A t \in left : t > e => t > d
      BY <1>1, <2>1, <3>1
    <3>3. QED
      BY <1>1, <3>2 DEF Later
  <2>3. IsFiniteSet(Later(left, d))
    BY <2>2, DatesFinite
  <2>4. Cardinality(Later(left, e)) <= Cardinality(Later(left, d))
    BY <2>2, <2>3, FS_Subset
  <2>5. Cardinality(Later(left, e)) \in Nat /\ Cardinality(Later(left, d)) \in Nat
    BY <2>2, <2>3, FS_Subset, FS_CardinalityType
  <2>6. Cardinality(Later(left, d)) < PageLimit /\ ~ (Cardinality(Later(left, e)) < PageLimit)
    BY <1>2
  <2>7. QED
    BY <2>4, <2>5, <2>6, HistoryConstants
<1>4. ASSUME left # {} PROVE page # {}
  <2>1. PICK m \in left : \A t \in left : t <= m
    BY <1>1, <1>4, NewestDate
  <2>2. Later(left, m) = {}
    <3>1. \A t \in left : ~ (t > m)
      BY <1>1, <2>1
    <3>2. QED
      BY <3>1 DEF Later
  <2>3. Cardinality(Later(left, m)) = 0
    BY <2>2, FS_EmptySet
  <2>4. m \in page
    BY <1>2, <2>3, HistoryConstants
  <2>5. QED
    BY <2>4
<1>5. page \subseteq left
  BY <1>2
<1>6. QED
  BY <1>3, <1>4, <1>5 DEF left, page

(***************************************************************************)
(* One page more.                                                          *)
(***************************************************************************)
LEMMA AppliedType ==
  ASSUME HistoryTypeOK, NEW mode \in Modes, NEW end, NEW d
  PROVE  Applied(d, mode, end) \in SUBSET Dates
BY DEF HistoryTypeOK, Applied, Modes

LEMMA WholeHistoryType ==
  ASSUME HistoryTypeOK, NEW mode \in Modes, NEW end
  PROVE  /\ WholeHistory(mode, end) \in [Through(end) -> Actioned]
         /\ Through(end) \in SUBSET Dates
<1>1. Through(end) \in SUBSET Dates
  BY DEF Through
<1>2. \A d \in Through(end) : bars[d] \in Nat
  BY <1>1 DEF HistoryTypeOK
<1>3. \A d \in Through(end) : [value |-> bars[d], applied |-> Applied(d, mode, end)] \in Actioned
  BY <1>2, AppliedType DEF Actioned
<1>4. QED
  BY <1>1, <1>3 DEF WholeHistory

\* What was read and the next page, put together.
LEMMA OnePageMore ==
  ASSUME NEW pages \in Seq(Page), NEW whole \in Series, NEW before \in Nat,
         NEW D \in SUBSET {d \in DOMAIN whole : d < before}, NEW end \in Nat
  PROVE  LET page == [end |-> end, bars |-> [d \in D |-> whole[d]]]
             more == Append(pages, page)
         IN /\ page \in Page
            /\ more \in Seq(Page) /\ more # <<>>
            /\ OneEnd(more) => OneEnd(pages)
            /\ PartOf(pages, whole) /\ From(pages, whole, before)
               => /\ PartOf(more, whole)
                  /\ \A d \in DOMAIN whole : InPages(more, d) <=> d >= before \/ d \in D
<1> DEFINE page == [end |-> end, bars |-> [d \in D |-> whole[d]]]
           more == Append(pages, page)
<1>1. PICK S \in SUBSET Dates : whole \in [S -> Actioned]
  BY DEF Series
<1>2. DOMAIN whole = S /\ S \subseteq Nat /\ D \subseteq S
  BY <1>1 DEF Dates
<1>3. page \in Page
  <2>1. [d \in D |-> whole[d]] \in [D -> Actioned]
    BY <1>1, <1>2
  <2>2. [d \in D |-> whole[d]] \in Series
    BY <1>2, <2>1, <1>1 DEF Series
  <2>3. QED
    BY <2>2 DEF Page
<1>4. DOMAIN page.bars = D /\ \A d \in D : page.bars[d] = whole[d]
  OBVIOUS
<1> HIDE DEF page
<1>5. /\ more \in Seq(Page) /\ more # <<>> /\ Len(more) = Len(pages) + 1
      /\ \A i \in 1 .. Len(pages) : more[i] = pages[i]
      /\ more[Len(pages) + 1] = page
      /\ Len(pages) \in Nat
  BY <1>3
<1> HIDE DEF more
<1>6. OneEnd(more) => OneEnd(pages)
  BY <1>5 DEF OneEnd
<1>7. ASSUME PartOf(pages, whole), From(pages, whole, before)
      PROVE  /\ PartOf(more, whole)
             /\ \A d \in DOMAIN whole : InPages(more, d) <=> d >= before \/ d \in D
  <2>2. PartOf(pages, whole) /\ From(pages, whole, before)
    BY <1>7
  <2>3. \A d \in DOMAIN whole : InPages(more, d) <=> InPages(pages, d) \/ d \in D
    BY <1>4, <1>5 DEF InPages
  <2>4. \A i \in 1 .. Len(more) : \A d \in DOMAIN more[i].bars :
           d \in DOMAIN whole /\ more[i].bars[d] = whole[d]
    <3> SUFFICES ASSUME NEW i \in 1 .. Len(more), NEW d \in DOMAIN more[i].bars
                 PROVE  d \in DOMAIN whole /\ more[i].bars[d] = whole[d]
      OBVIOUS
    <3>1. CASE i \in 1 .. Len(pages)
      BY <1>5, <2>2, <3>1 DEF PartOf
    <3>2. CASE i = Len(pages) + 1
      <4>1. more[i] = page
        BY <1>5, <3>2
      <4>2. QED
        BY <1>2, <1>4, <4>1
    <3>3. QED
      BY <1>5, <3>1, <3>2
  <2>5. \A i \in 1 .. Len(pages) : \A d \in DOMAIN pages[i].bars : d \in DOMAIN whole /\ d >= before
    BY <2>2 DEF PartOf, From, InPages
  <2>6. ASSUME NEW i \in 1 .. Len(more), NEW j \in 1 .. Len(more), i < j,
               NEW d \in DOMAIN more[i].bars, NEW e \in DOMAIN more[j].bars
        PROVE  e < d
    <3>1. CASE j \in 1 .. Len(pages)
      BY <1>5, <2>2, <2>6, <3>1 DEF PartOf
    <3>2. CASE j = Len(pages) + 1
      <4>1. e \in D /\ i \in 1 .. Len(pages) /\ d \in DOMAIN pages[i].bars
        BY <1>4, <1>5, <2>6, <3>2
      <4>2. e < before /\ d >= before /\ e \in Nat /\ d \in Nat
        BY <1>2, <2>5, <4>1
      <4>3. QED
        BY <4>2
    <3>3. QED
      BY <1>5, <3>1, <3>2
  <2>7. PartOf(more, whole)
    BY <2>4, <2>6 DEF PartOf
  <2>8. QED
    BY <2>2, <2>3, <2>7 DEF From
<1>8. QED
  BY <1>3, <1>5, <1>6, <1>7 DEF page, more

(***************************************************************************)
(* One lemma for each action.                                              *)
(***************************************************************************)
LEMMA IdlerFacts ==
  /\ Idler \in Readers
  /\ Idler.pc = "off" /\ Idler.pages = <<>> /\ Idler.before = NoCursor
BY HistoryConstants DEF Idler, Readers, Modes, Default, NoCursor

LEMMA HistoryInitInv == HistoryInit => HistoryInv
<1> SUFFICES ASSUME HistoryInit PROVE HistoryInv
  OBVIOUS
<1>1. reader = Idler
  BY DEF HistoryInit
<1>2. HistoryTypeOK
  <2>1. bars \in [Dates -> Nat]
    BY DEF HistoryInit, NoValue
  <2>2. closed \in Nat /\ revision \in Nat /\ actions \in SUBSET Dates
    BY HistoryConstants DEF HistoryInit
  <2>3. QED
    BY <1>1, <2>1, <2>2, IdlerFacts DEF HistoryTypeOK
<1>3. StillAsPromised /\ ReadSoFar
  BY <1>1, IdlerFacts DEF StillAsPromised, ReadSoFar
<1>4. QED
  BY <1>2, <1>3 DEF HistoryInv

\* A client that gives up, or has read everything.
LEMMA IdleStep ==
  ASSUME HistoryInv, reader' = Idler, UNCHANGED <<bars, actions, revision, closed>>
  PROVE  HistoryInv'
<1>1. HistoryTypeOK'
  BY IdlerFacts DEF HistoryInv, HistoryTypeOK
<1>2. StillAsPromised' /\ ReadSoFar'
  BY IdlerFacts DEF StillAsPromised, ReadSoFar
<1>3. QED
  BY <1>1, <1>2 DEF HistoryInv

LEMMA AskStep ==
  ASSUME HistoryInv, NEW mode \in Modes, NEW end \in Dates \cup {Default}, Ask(mode, end)
  PROVE  HistoryInv'
<1> DEFINE r == [Idler EXCEPT !.pc = "read", !.mode = mode, !.end = end]
<1>1. /\ r \in Readers /\ r.pc = "read" /\ r.pages = <<>> /\ r.before = NoCursor
  <2>1. end \in Nat
    BY DEF Dates, Default
  <2>2. QED
    BY <2>1, IdlerFacts DEF Readers
<1>2. reader' = r /\ UNCHANGED <<bars, actions, revision, closed>>
  BY DEF Ask
<1> HIDE DEF r
<1>3. HistoryTypeOK'
  BY <1>1, <1>2 DEF HistoryInv, HistoryTypeOK
<1>4. StillAsPromised' /\ ReadSoFar'
  BY <1>1, <1>2 DEF StillAsPromised, ReadSoFar
<1>5. QED
  BY <1>3, <1>4 DEF HistoryInv

\* A page that is answered.
LEMMA PageStep ==
  ASSUME HistoryInv, QueryBarsPage, reader' # Idler
  PROVE  HistoryInv'
<1> DEFINE end    == EndOf(reader)
           before == reader.before
           dates  == PageDates(end, before)
           left   == BeforeCursor(end, before)
           rest   == left \ dates
           whole  == WholeHistory(reader.mode, end)
           page   == [end |-> end, bars |-> [d \in dates |-> whole[d]]]
           more   == Append(reader.pages, page)
           version == IF reader.pages = <<>> THEN revision ELSE reader.version
           cursor  == IF rest = {} THEN before ELSE Min(dates)
           stage   == IF rest = {} THEN "whole" ELSE "read"
           next   == [reader EXCEPT !.pages = more, !.version = version,
                                    !.before = cursor, !.pc = stage]
<1>1. /\ HistoryTypeOK /\ StillAsPromised /\ ReadSoFar
      /\ reader \in Readers /\ reader.pc = "read" /\ reader.mode \in Modes
      /\ reader.pages \in Seq(Page) /\ before \in Nat /\ end \in Nat /\ revision \in Nat
      /\ reader.version \in Nat
  BY DEF HistoryInv, HistoryTypeOK, QueryBarsPage, Readers, EndOf
<1>2. /\ reader' = next
      /\ promised' = IF reader.pages = <<>> THEN whole ELSE promised
      /\ UNCHANGED <<bars, actions, checked, revision, closed>>
      /\ VersionHolds(reader)
  BY DEF QueryBarsPage
<1>3. /\ whole \in [Through(end) -> Actioned] /\ Through(end) \in SUBSET Dates
      /\ whole \in Series /\ DOMAIN whole = Through(end)
  <2>1. whole \in [Through(end) -> Actioned] /\ Through(end) \in SUBSET Dates
    BY <1>1, WholeHistoryType
  <2>2. QED
    BY <2>1 DEF Series
<1>4. left = {d \in DOMAIN whole : d < before}
  BY <1>3 DEF BeforeCursor
<1>5. /\ dates \subseteq left
      /\ \A d \in dates, e \in left \ dates : e < d
      /\ left # {} => dates # {}
  BY <1>1, PageDatesFacts
<1>6. left \subseteq Nat /\ \A d \in DOMAIN whole : d \in Nat
  BY <1>3, <1>4 DEF Dates
<1> HIDE DEF left, dates
<1>7. rest # {} => Min(dates) \in dates /\ \A d \in dates : Min(dates) <= d
  BY <1>5, <1>6, OldestDate
<1> HIDE DEF end, whole
<1>8. /\ page \in Page
      /\ more \in Seq(Page) /\ more # <<>>
      /\ OneEnd(more) => OneEnd(reader.pages)
      /\ PartOf(reader.pages, whole) /\ From(reader.pages, whole, before)
         => /\ PartOf(more, whole)
            /\ \A d \in DOMAIN whole : InPages(more, d) <=> d >= before \/ d \in dates
  <2>1. dates \in SUBSET {d \in DOMAIN whole : d < before}
    BY <1>4, <1>5
  <2> HIDE DEF before
  <2>2. QED
    BY <1>1, <1>3, <2>1, OnePageMore
<1> HIDE DEF page
<1>9. /\ Len(reader.pages) \in Nat /\ Len(more) = Len(reader.pages) + 1
      /\ more[Len(more)] = page
      /\ reader.pages # <<>> => Len(reader.pages) >= 1 /\ more[1] = reader.pages[1]
      /\ reader.pages = <<>> => more[1] = page
  BY <1>1, <1>8
<1>10. page.end = end
  BY DEF page
<1> HIDE DEF more
\* The promise is made now, or still holds.
<1>11. ASSUME OneEnd(more)
       PROVE  promised' = whole /\ (reader.pages # <<>> => promised = whole)
  <2>1. CASE reader.pages = <<>>
    BY <1>2, <2>1
  <2>2. CASE reader.pages # <<>>
    <3>1. reader.version = revision /\ promised = WholeHistory(reader.mode, reader.pages[1].end)
      BY <1>1, <1>2, <2>2 DEF VersionHolds, StillAsPromised
    <3>2. more[Len(more)].end = more[1].end
      BY <1>9, <1>11 DEF OneEnd
    <3>3. reader.pages[1].end = end
      BY <1>9, <1>10, <2>2, <3>2
    <3>4. QED
      BY <1>2, <2>2, <3>1, <3>3 DEF whole
  <2>3. QED
    BY <2>1, <2>2
<1>12. ASSUME OneEnd(more)
       PROVE  PartOf(reader.pages, whole) /\ From(reader.pages, whole, before)
  <2>1. CASE reader.pages = <<>>
    <3>1. before = NoCursor
      BY <1>1, <2>1 DEF ReadSoFar
    <3>2. \A d \in DOMAIN whole : ~ (d >= before)
      BY <1>3, <3>1, HistoryConstants DEF Dates, NoCursor
    <3>3. Len(reader.pages) = 0
      BY <2>1
    <3>4. QED
      BY <3>2, <3>3 DEF PartOf, From, InPages
  <2>2. CASE reader.pages # <<>>
    BY <1>1, <1>8, <1>11, <1>12, <2>2 DEF ReadSoFar
  <2>3. QED
    BY <2>1, <2>2
<1>13. cursor \in Nat /\ version \in Nat /\ stage \in {"off", "read", "whole"}
  <2>1. rest # {} => Min(dates) \in Nat
    BY <1>5, <1>6, <1>7
  <2>2. QED
    BY <1>1, <2>1
<1>14. /\ next \in Readers /\ next.pages = more /\ next.version = version
       /\ next.before = cursor /\ next.pc = stage /\ next.mode = reader.mode
  <2> HIDE DEF cursor, version, stage
  <2>1. QED
    BY <1>1, <1>8, <1>13 DEF Readers
<1>15. HistoryTypeOK'
  <2> HIDE DEF next
  <2>1. QED
    BY <1>1, <1>2, <1>14 DEF HistoryTypeOK
<1> HIDE DEF next
<1>16. StillAsPromised'
  <2>1. version <= revision' /\ reader'.version = version /\ reader'.pages = more /\ revision' = revision
    BY <1>1, <1>2, <1>14 DEF StillAsPromised
  <2>2. promised' = WholeHistory(reader.mode, more[1].end)
    <3>1. CASE reader.pages = <<>>
      BY <1>2, <1>9, <1>10, <3>1 DEF whole
    <3>2. CASE reader.pages # <<>>
      BY <1>1, <1>2, <1>9, <3>2 DEF StillAsPromised, VersionHolds
    <3>3. QED
      BY <3>1, <3>2
  <2>3. QED
    BY <1>2, <1>14, <2>1, <2>2 DEF StillAsPromised, WholeHistory, Through, Applied
<1>17. ReadSoFar'
  <2>1. reader'.pages = more /\ more # <<>> /\ reader'.pc = stage /\ reader'.before = cursor
    BY <1>2, <1>8, <1>14
  <2>2. ASSUME OneEnd(more)
        PROVE  /\ PartOf(more, promised')
               /\ stage = "read"  => From(more, promised', cursor)
               /\ stage = "whole" => \A d \in DOMAIN promised' : InPages(more, d)
    <3>1. /\ promised' = whole /\ PartOf(more, whole)
          /\ \A d \in DOMAIN whole : InPages(more, d) <=> d >= before \/ d \in dates
      BY <1>8, <1>11, <1>12, <2>2
    <3>2. CASE rest = {}
      <4>1. \A d \in DOMAIN whole : d >= before \/ d \in dates
        BY <1>1, <1>4, <1>6, <3>2
      <4>2. QED
        BY <3>1, <3>2, <4>1
    <3>3. CASE rest # {}
      <4>1. \A d \in DOMAIN whole : d >= Min(dates) <=> d >= before \/ d \in dates
        <5> SUFFICES ASSUME NEW d \in DOMAIN whole
                     PROVE  d >= Min(dates) <=> d >= before \/ d \in dates
          OBVIOUS
        <5>1. /\ Min(dates) \in dates /\ Min(dates) \in Nat /\ Min(dates) < before /\ d \in Nat
              /\ d \in dates => Min(dates) <= d
          BY <1>4, <1>5, <1>6, <1>7, <3>3
        <5>2. ~ (d >= before) /\ d \notin dates => d < Min(dates)
          BY <1>1, <1>4, <1>5, <5>1
        <5>3. QED
          BY <1>1, <5>1, <5>2
      <4>2. QED
        BY <3>1, <3>3, <4>1 DEF From
    <3>4. QED
      BY <3>2, <3>3
  <2>3. stage # "off"
    OBVIOUS
  <2> HIDE DEF stage, cursor
  <2>4. QED
    BY <2>1, <2>2, <2>3 DEF ReadSoFar
<1>18. QED
  BY <1>15, <1>16, <1>17 DEF HistoryInv

\* A write counts the revision: no page of an earlier one can follow.
LEMMA WriteStep ==
  ASSUME HistoryInv, HistoryTypeOK', revision' > revision, UNCHANGED <<reader, promised>>
  PROVE  HistoryInv'
<1>1. StillAsPromised'
  <2>1. revision \in Nat /\ revision' \in Nat /\ reader.version \in Nat
    BY DEF HistoryInv, HistoryTypeOK, Readers
  <2>2. reader.pages # <<>> => reader.version < revision'
    BY <2>1 DEF HistoryInv, StillAsPromised
  <2>3. QED
    BY <2>1, <2>2 DEF StillAsPromised
<1>2. ReadSoFar'
  BY DEF HistoryInv, ReadSoFar
<1>3. QED
  BY <1>1, <1>2 DEF HistoryInv

LEMMA UpsertSymbolStep ==
  ASSUME HistoryInv, UpsertSymbol
  PROVE  HistoryInv'
<1>1. PICK d \in Dates, v \in 1 .. MaxValue, got \in SUBSET Dates, fetched \in BOOLEAN :
         /\ bars' = [bars EXCEPT ![d] = v]
         /\ actions' = IF fetched THEN got ELSE actions
         /\ revision' = Counts(bars')
  BY DEF UpsertSymbol
<1>2. v \in Nat /\ UNCHANGED <<closed, reader, promised>>
  BY DEF UpsertSymbol
<1>3. revision \in Nat /\ revision' = revision + 1
  BY <1>1 DEF Counts, HistoryInv, HistoryTypeOK
<1>4. HistoryTypeOK'
  BY <1>1, <1>2, <1>3 DEF HistoryInv, HistoryTypeOK
<1>5. QED
  BY <1>2, <1>3, <1>4, WriteStep

LEMMA UpsertOtherStep ==
  ASSUME HistoryInv, UpsertOther
  PROVE  HistoryInv'
<1>1. revision \in Nat /\ revision' = revision + 1 /\ UNCHANGED <<bars, actions, closed, reader, promised>>
  BY DEF UpsertOther, HistoryInv, HistoryTypeOK
<1>2. HistoryTypeOK'
  BY <1>1 DEF HistoryInv, HistoryTypeOK
<1>3. QED
  BY <1>1, <1>2, WriteStep

LEMMA SessionClosesStep ==
  ASSUME HistoryInv, SessionCloses
  PROVE  HistoryInv'
<1>1. closed \in Nat /\ closed' = closed + 1 /\ UNCHANGED <<bars, actions, revision, reader, promised>>
  BY DEF SessionCloses, HistoryInv, HistoryTypeOK
<1>2. HistoryTypeOK'
  BY <1>1 DEF HistoryInv, HistoryTypeOK
<1>3. StillAsPromised'
  BY <1>1 DEF HistoryInv, StillAsPromised, WholeHistory, Through, Applied
<1>4. ReadSoFar'
  BY <1>1 DEF HistoryInv, ReadSoFar
<1>5. QED
  BY <1>2, <1>3, <1>4 DEF HistoryInv

LEMMA HistoryNextInv ==
  ASSUME HistoryInv, [HistoryNext]_historyVars
  PROVE  HistoryInv'
<1>1. CASE UNCHANGED historyVars
  <2>1. UNCHANGED <<bars, actions, checked, revision, closed, reader, promised>>
    BY <1>1 DEF historyVars
  <2>2. QED
    BY <2>1 DEF HistoryInv, HistoryTypeOK, StillAsPromised, ReadSoFar, WholeHistory, Through, Applied
<1>2. CASE QueryBarsPage
  <2>1. UNCHANGED <<bars, actions, revision, closed>>
    BY <1>2 DEF QueryBarsPage
  <2>2. QED
    BY <1>2, <2>1, IdleStep, PageStep
<1>3. CASE HistoryRead
  BY <1>3, IdleStep DEF HistoryRead
<1>4. QED
  BY <1>1, <1>2, <1>3, AskStep, UpsertSymbolStep, UpsertOtherStep, SessionClosesStep DEF HistoryNext

\* Pages of one revision and one anchor are, put together, the history as it
\* was at the first of them, whatever was written and closed in between.
THEOREM PagesAreExact == HistorySpec => []HistoryPagesExact
<1>1. HistoryInit => HistoryInv
  BY HistoryInitInv
<1>2. HistoryInv /\ [HistoryNext]_historyVars => HistoryInv'
  BY HistoryNextInv
<1>3. HistoryInv => HistoryPagesExact
  <2> SUFFICES ASSUME HistoryInv, reader.pc = "whole", OneEnd(reader.pages)
               PROVE  /\ UNION {DOMAIN reader.pages[i].bars : i \in 1 .. Len(reader.pages)} = DOMAIN promised
                      /\ \A i, j \in 1 .. Len(reader.pages) : i < j =>
                            \A d \in DOMAIN reader.pages[i].bars, e \in DOMAIN reader.pages[j].bars : e < d
                      /\ \A i \in 1 .. Len(reader.pages) : \A d \in DOMAIN reader.pages[i].bars :
                            reader.pages[i].bars[d] = promised[d]
    BY DEF HistoryPagesExact, OneEnd
  <2>1. PartOf(reader.pages, promised) /\ \A d \in DOMAIN promised : InPages(reader.pages, d)
    BY DEF HistoryInv, ReadSoFar
  <2>2. \A d : d \in UNION {DOMAIN reader.pages[i].bars : i \in 1 .. Len(reader.pages)}
               <=> InPages(reader.pages, d)
    BY DEF InPages
  <2>3. \A d : InPages(reader.pages, d) => d \in DOMAIN promised
    BY <2>1 DEF InPages, PartOf
  <2>4. UNION {DOMAIN reader.pages[i].bars : i \in 1 .. Len(reader.pages)} = DOMAIN promised
    BY <2>1, <2>2, <2>3, Zenon
  <2>5. QED
    BY <2>1, <2>4 DEF PartOf
<1>4. QED
  BY <1>1, <1>2, <1>3, PTL DEF HistorySpec

(***************************************************************************)
(* The connection.  What carries a number carries that of its own request, *)
(* wherever it is: with the goroutine, in the decode cache, under way.     *)
(***************************************************************************)

\* The number request r was given: the counter, as many requests ago.
NumberOf(r) ==
    IF sent - r <= msgID THEN msgID - (sent - r) ELSE msgID + IdModulus - (sent - r)

Numbered(id, r) == r \in 1 .. sent /\ id = NumberOf(r)

Frames == [id : Nat, request : Nat, cached : BOOLEAN]
Answers == [id : Nat, request : Nat, cached : BOOLEAN, broken : BOOLEAN]
Senders == [pc : {"idle", "remember", "write", "wait", "waiting", "got"},
           id : Nat, request : Nat, cached : BOOLEAN,
           result : {NoRequestYet} \cup [of : Nat, with : Nat]]

ClientTypeOK ==
    /\ msgID \in 0 .. IdModulus - 1
    /\ sent \in 0 .. MaxRequests
    /\ caller \in [Callers -> Senders]
    /\ waiters \subseteq Nat
    /\ wire \subseteq Frames
    /\ inbox \in Seq(Answers)
    /\ linked \in BOOLEAN

\* A goroutine in SendFrame has a request of its own.
CallsNumbered ==
    \A g \in Callers : Pc(g) # "idle" => Numbered(caller[g].id, caller[g].request)

\* The decode cache keeps a request under its number.
CacheNumbered == \A i \in DOMAIN cache : Numbered(i, cache[i])

\* A frame is a heartbeat, or carries the number of its request; so does its answer.
FrameNumbered(f) == IF f.request = NoRequestYet THEN f.id = Heartbeat
                                                ELSE Numbered(f.id, f.request)
WireNumbered  == \A w \in wire : FrameNumbered(w)
InboxNumbered == \A i \in 1 .. Len(inbox) : FrameNumbered(inbox[i])

ClientInv == ClientTypeOK /\ CallsNumbered /\ CacheNumbered /\ WireNumbered /\ InboxNumbered
             /\ OwnReply

-----------------------------------------------------------------------------
LEMMA ModSmall ==
  ASSUME NEW M \in Nat \ {0}, NEW x \in Nat, x < M
  PROVE  x % M = x
OBVIOUS

LEMMA ModItself ==
  ASSUME NEW M \in Nat \ {0}
  PROVE  M % M = 0
OBVIOUS

\* Two of at most IdModulus requests never have one number.
LEMMA NumbersDiffer ==
  ASSUME ClientTypeOK, MaxRequests <= IdModulus, NEW id,
         NEW q, NEW r, Numbered(id, q), Numbered(id, r)
  PROVE  q = r
BY ClientConstants DEF ClientTypeOK, Numbered, NumberOf

\* A new request gets a number, and the others keep theirs.
LEMMA NumbersStay ==
  ASSUME ClientTypeOK, MaxRequests <= IdModulus, sent < MaxRequests,
         sent' = sent + 1, msgID' = (msgID + 1) % IdModulus
  PROVE  /\ msgID' \in 0 .. IdModulus - 1
         /\ Numbered(msgID, sent)'
         /\ \A id, r : Numbered(id, r) => Numbered(id, r)'
<1>0. /\ msgID \in 0 .. IdModulus - 1 /\ sent \in 0 .. MaxRequests
      /\ IdModulus \in Nat \ {0} /\ MaxRequests \in Nat /\ msgID + 1 \in Nat
  BY ClientConstants DEF ClientTypeOK
<1>1. CASE msgID + 1 < IdModulus
  <2>1. (msgID + 1) % IdModulus = msgID + 1
    BY <1>0, <1>1, ModSmall
  <2> QED
    BY <1>0, <1>1, <2>1 DEF Numbered, NumberOf
<1>2. CASE msgID + 1 = IdModulus
  <2>1. (msgID + 1) % IdModulus = 0
    BY <1>0, <1>2, ModItself
  <2> QED
    BY <1>0, <1>2, <2>1 DEF Numbered, NumberOf
<1> QED
  BY <1>0, <1>1, <1>2

\* As long as no request is numbered.
LEMMA NumbersUnchanged ==
  ASSUME UNCHANGED <<msgID, sent>>
  PROVE  \A id, r : Numbered(id, r)' <=> Numbered(id, r)
BY DEF Numbered, NumberOf

LEMMA ClientInitInv == ClientInit => ClientInv
BY ClientConstants
DEF ClientInit, ClientInv, ClientTypeOK, CallsNumbered, CacheNumbered, WireNumbered,
    InboxNumbered, OwnReply, Idle, Pc, NoRequestYet, Senders

LEMMA NewCall ==
  ASSUME NEW i \in Nat, NEW r \in Nat, NEW cached \in BOOLEAN
  PROVE  [Idle EXCEPT !.pc = "remember", !.cached = cached, !.id = i, !.request = r] \in Senders
BY DEF Idle, Senders, NoRequestYet

LEMMA NumberInv ==
  ASSUME ClientInv, MaxRequests <= IdModulus, NEW g \in Callers, NEW cached \in BOOLEAN,
         NumberRequest(g, cached)
  PROVE  ClientInv'
<1> USE DEF NumberRequest
<1>1. /\ msgID' \in 0 .. IdModulus - 1
      /\ Numbered(msgID, sent)'
      /\ \A id, r : Numbered(id, r) => Numbered(id, r)'
  BY NumbersStay DEF ClientInv
<1>2. ClientTypeOK'
  <2>1. [Idle EXCEPT !.pc = "remember", !.cached = cached, !.id = msgID',
                     !.request = sent + 1] \in Senders
    <3>1. msgID' \in Nat /\ sent + 1 \in Nat
      BY <1>1, ClientConstants DEF ClientInv, ClientTypeOK
    <3> QED
      BY <3>1, NewCall
  <2>2. caller' \in [Callers -> Senders]
    BY <2>1 DEF ClientInv, ClientTypeOK
  <2>3. sent' \in 0 .. MaxRequests
    BY ClientConstants DEF ClientInv, ClientTypeOK
  <2> QED
    BY <1>1, <2>2, <2>3 DEF ClientInv, ClientTypeOK
<1>3. CallsNumbered'
  <2> SUFFICES ASSUME NEW h \in Callers, caller'[h].pc # "idle"
               PROVE  Numbered(caller[h].id, caller[h].request)'
    BY DEF CallsNumbered, Pc
  <2>1. CASE h = g
    BY <1>1, <2>1 DEF ClientInv, ClientTypeOK, Idle, Senders
  <2>2. CASE h # g
    <3>1. caller'[h] = caller[h]
      BY <2>2 DEF ClientInv, ClientTypeOK
    <3>2. Numbered(caller[h].id, caller[h].request)
      BY <3>1 DEF ClientInv, CallsNumbered, Pc
    <3> QED
      BY <1>1, <3>1, <3>2
  <2> QED
    BY <2>1, <2>2
<1>4. CacheNumbered'
  BY <1>1 DEF ClientInv, CacheNumbered
<1>5. WireNumbered' /\ InboxNumbered'
  BY <1>1 DEF ClientInv, WireNumbered, InboxNumbered, FrameNumbered
<1>6. OwnReply'
  BY DEF ClientInv, ClientTypeOK, OwnReply, Pc, Idle
<1> QED
  BY <1>2, <1>3, <1>4, <1>5, <1>6 DEF ClientInv


\* Steps in which a goroutine goes on with the request it has, or has none any more.
SameCall(g) ==
    \/ caller' = caller
    \/ /\ caller' \in [Callers -> Senders]
       /\ \A h \in Callers : \/ h # g /\ caller'[h] = caller[h]
                             \/ h = g /\ Pc(h)' = "idle"
                             \/ /\ h = g /\ Pc(h) # "idle" /\ Pc(h)' # "got"
                                /\ caller'[h].id = caller[h].id
                                /\ caller'[h].request = caller[h].request

LEMMA SameCallInv ==
  ASSUME ClientInv, UNCHANGED <<msgID, sent>>, NEW g, SameCall(g)
  PROVE  caller' \in [Callers -> Senders] /\ CallsNumbered' /\ OwnReply'
<1>1. \A id, r : Numbered(id, r)' <=> Numbered(id, r)
  BY NumbersUnchanged
<1>2. CASE caller' = caller
  BY <1>1, <1>2 DEF ClientInv, ClientTypeOK, CallsNumbered, OwnReply, Pc
<1>3. CASE caller' # caller
  BY <1>1, <1>3 DEF ClientInv, CallsNumbered, OwnReply, Pc, SameCall
<1> QED
  BY <1>2, <1>3

\* Whatever is already there is still numbered.
LEMMA RestNumbered ==
  ASSUME ClientInv, UNCHANGED <<msgID, sent>>
  PROVE  /\ \A id, r : Numbered(id, r)' <=> Numbered(id, r)
         /\ \A f : FrameNumbered(f)' <=> FrameNumbered(f)
         /\ cache' = cache => CacheNumbered'
         /\ wire' \subseteq wire => WireNumbered'
         /\ inbox' = inbox => InboxNumbered'
BY NumbersUnchanged DEF ClientInv, CacheNumbered, WireNumbered, InboxNumbered, FrameNumbered

LEMMA RememberInv ==
  ASSUME ClientInv, NEW g \in Callers, Remember(g)
  PROVE  ClientInv'
<1> USE DEF Remember
<1>1. SameCall(g)
  BY DEF ClientInv, ClientTypeOK, SameCall, To, Pc, Senders
<1>2. caller' \in [Callers -> Senders] /\ CallsNumbered' /\ OwnReply'
  BY <1>1, SameCallInv
<1>3. CacheNumbered'
  <2>1. Numbered(caller[g].id, caller[g].request)
    BY DEF ClientInv, CallsNumbered, Pc
  <2> QED
    BY <2>1, RestNumbered DEF ClientInv, CacheNumbered
<1> QED
  BY <1>2, <1>3, RestNumbered DEF ClientInv, ClientTypeOK

\* SendFrame returns.
LEMMA Returned ==
  ASSUME ClientInv, NEW g \in Callers, caller' = [caller EXCEPT ![g] = Idle]
  PROVE  SameCall(g)
<1>1. Idle \in Senders /\ Idle.pc = "idle"
  BY DEF Idle, Senders, NoRequestYet
<1> HIDE DEF Idle
<1>2. /\ caller' \in [Callers -> Senders] /\ caller'[g] = Idle
      /\ \A h \in Callers : h # g => caller'[h] = caller[h]
  BY <1>1 DEF ClientInv, ClientTypeOK
<1> QED
  BY <1>1, <1>2 DEF SameCall, Pc

LEMMA WriteInv ==
  ASSUME ClientInv, NEW g \in Callers, Write(g)
  PROVE  ClientInv'
<1> USE DEF Write
<1>1. SameCall(g)
  <2>1. CASE To(g, "wait")
    BY <2>1 DEF ClientInv, ClientTypeOK, SameCall, To, Pc, Senders
  <2> QED
    BY <2>1, Returned
<1>2. caller' \in [Callers -> Senders] /\ CallsNumbered' /\ OwnReply'
  BY <1>1, SameCallInv
<1>3. /\ Numbered(caller[g].id, caller[g].request)
      /\ caller[g].id \in Nat /\ caller[g].request \in Nat /\ caller[g].cached \in BOOLEAN
  BY DEF ClientInv, ClientTypeOK, CallsNumbered, Pc, Senders
<1> DEFINE new == [id |-> caller[g].id, request |-> caller[g].request,
                   cached |-> caller[g].cached]
<1>4. new \in Frames /\ FrameNumbered(new)
  BY <1>3 DEF Frames, FrameNumbered, Numbered, NoRequestYet
<1>5. wire' \subseteq wire \cup {new}
  OBVIOUS
<1> HIDE DEF new
<1>6. WireNumbered' /\ wire' \subseteq Frames
  BY <1>4, <1>5, RestNumbered DEF ClientInv, ClientTypeOK, WireNumbered
<1> QED
  BY <1>2, <1>6, RestNumbered DEF ClientInv, ClientTypeOK

LEMMA RegisterInv ==
  ASSUME ClientInv, NEW g \in Callers, Register(g)
  PROVE  ClientInv'
<1> USE DEF Register
<1>1. SameCall(g)
  BY DEF ClientInv, ClientTypeOK, SameCall, To, Pc, Senders
<1>2. caller' \in [Callers -> Senders] /\ CallsNumbered' /\ OwnReply'
  BY <1>1, SameCallInv
<1>3. waiters' \subseteq Nat
  BY DEF ClientInv, ClientTypeOK, Senders
<1> QED
  BY <1>2, <1>3, RestNumbered DEF ClientInv, ClientTypeOK

\* SendFrame ends, with an answer or without.
LEMMA EndInv ==
  ASSUME ClientInv, NEW g \in Callers, Timeout(g) \/ Return(g)
  PROVE  ClientInv'
<1>1. SameCall(g)
  BY Returned DEF Timeout, Return
<1>2. caller' \in [Callers -> Senders] /\ CallsNumbered' /\ OwnReply'
  BY <1>1, SameCallInv DEF Timeout, Return
<1>3. waiters' \subseteq waiters /\ UNCHANGED <<msgID, sent, cache, wire, inbox, linked>>
  BY DEF Timeout, Return
<1> QED
  BY <1>2, <1>3, RestNumbered DEF ClientInv, ClientTypeOK

LEMMA BeatInv == ClientInv /\ Beat => ClientInv'
<1> SUFFICES ASSUME ClientInv, Beat PROVE ClientInv'
  OBVIOUS
<1> DEFINE beat == [id |-> Heartbeat, request |-> NoRequestYet, cached |-> FALSE]
<1>1. beat \in Frames /\ FrameNumbered(beat)
  BY DEF Frames, FrameNumbered, Heartbeat, NoRequestYet
<1>2. wire' = wire \cup {beat} /\ UNCHANGED <<msgID, sent, caller, cache, waiters, inbox, linked>>
  BY DEF Beat
<1> HIDE DEF beat
<1>3. WireNumbered' /\ wire' \subseteq Frames
  BY <1>1, <1>2, RestNumbered DEF ClientInv, ClientTypeOK, WireNumbered
<1>4. caller' \in [Callers -> Senders] /\ CallsNumbered' /\ OwnReply'
  BY <1>2, SameCallInv DEF SameCall
<1> QED
  BY <1>2, <1>3, <1>4, RestNumbered DEF ClientInv, ClientTypeOK

LEMMA RespondInv ==
  ASSUME ClientInv, NEW w \in wire, Respond(w)
  PROVE  ClientInv'
<1>1. w \in Frames /\ FrameNumbered(w)
  BY DEF ClientInv, ClientTypeOK, WireNumbered
<1>2. wire' \subseteq wire /\ UNCHANGED <<msgID, sent, caller, cache, waiters, linked>>
  BY DEF Respond
<1>3. inbox' \in Seq(Answers) /\ InboxNumbered'
  <2>1. CASE inbox' = inbox
    BY <1>2, <2>1, RestNumbered DEF ClientInv, ClientTypeOK
  <2>2. ASSUME NEW broken \in BOOLEAN,
               inbox' = Append(inbox, [id |-> w.id, request |-> w.request,
                                       cached |-> w.cached, broken |-> broken])
        PROVE  inbox' \in Seq(Answers) /\ InboxNumbered'
    <3> DEFINE a == [id |-> w.id, request |-> w.request, cached |-> w.cached, broken |-> broken]
    <3>1. a \in Answers /\ FrameNumbered(a)
      BY <1>1 DEF Answers, Frames, FrameNumbered
    <3>2. inbox' = Append(inbox, a)
      BY <2>2
    <3> HIDE DEF a
    <3> QED
      BY <1>2, <3>1, <3>2, RestNumbered DEF ClientInv, ClientTypeOK, InboxNumbered
  <2> QED
    BY <2>1, <2>2 DEF Respond
<1>4. caller' \in [Callers -> Senders] /\ CallsNumbered' /\ OwnReply'
  BY <1>2, SameCallInv DEF SameCall
<1> QED
  BY <1>2, <1>3, <1>4, RestNumbered DEF ClientInv, ClientTypeOK

\* The answer is handed to the goroutine that waits for its number.  Apart
\* from the heartbeats', that number belongs to one request, that of the goroutine,
\* and so does what the cache holds under it.
LEMMA DealInv ==
  ASSUME ClientInv, MaxRequests <= IdModulus, Deal
  PROVE  ClientInv'
<1> DEFINE m == Head(inbox)
<1>1. /\ m = inbox[1] /\ 1 \in 1 .. Len(inbox)
      /\ inbox' = Tail(inbox) /\ inbox' \in Seq(Answers)
      /\ \A i \in 1 .. Len(inbox') : i + 1 \in 1 .. Len(inbox) /\ inbox'[i] = inbox[i + 1]
  BY DEF Deal, ClientInv, ClientTypeOK
<1>2. m \in Answers /\ FrameNumbered(m)
  BY <1>1 DEF ClientInv, ClientTypeOK, InboxNumbered
<1>3. cache' = [i \in DOMAIN cache \ {m.id} |-> cache[i]]
  BY DEF Deal
<1>4. /\ UNCHANGED <<msgID, sent, wire, linked>>
      /\ waiters' \subseteq waiters
  BY DEF Deal
<1>5. \/ caller' = caller
      \/ \E g \in Callers :
            /\ Pc(g) = "waiting" /\ caller[g].id = m.id
            /\ m.cached => m.id \in DOMAIN cache
            /\ caller' = [caller EXCEPT ![g].pc = "got",
                  ![g].result = [of   |-> m.request,
                                 with |-> IF m.cached THEN cache[m.id] ELSE m.request]]
  BY DEF Deal
<1> HIDE DEF m
<1>6. CacheNumbered' /\ InboxNumbered'
  BY <1>1, <1>3, <1>4, RestNumbered DEF ClientInv, CacheNumbered, InboxNumbered
<1>7. caller' \in [Callers -> Senders] /\ CallsNumbered' /\ OwnReply'
  <2>1. CASE caller' = caller
    BY <1>4, <2>1, SameCallInv DEF SameCall
  <2>2. ASSUME NEW g \in Callers, Pc(g) = "waiting", caller[g].id = m.id,
               m.cached => m.id \in DOMAIN cache,
               caller' = [caller EXCEPT ![g].pc = "got",
                  ![g].result = [of   |-> m.request,
                                 with |-> IF m.cached THEN cache[m.id] ELSE m.request]]
        PROVE  caller' \in [Callers -> Senders] /\ CallsNumbered' /\ OwnReply'
    <3> DEFINE held == IF m.cached THEN cache[m.id] ELSE m.request
               got  == [caller[g] EXCEPT !.pc = "got", !.result = [of |-> m.request, with |-> held]]
    <3>1. /\ caller[g] \in Senders /\ m.request \in Nat /\ m.id \in Nat
          /\ Numbered(m.id, caller[g].request)
      BY <1>2, <2>2 DEF ClientInv, ClientTypeOK, CallsNumbered, Pc, Answers
    <3>2. m.id # Heartbeat => Numbered(m.id, m.request)
      BY <1>2 DEF FrameNumbered
    <3>3. m.cached => Numbered(m.id, cache[m.id])
      BY <2>2 DEF ClientInv, CacheNumbered
    <3>4. held \in Nat
      BY <3>1, <3>3, ClientConstants DEF Numbered, ClientInv, ClientTypeOK
    <3>5. m.id # Heartbeat => m.request = caller[g].request /\ held = caller[g].request
      <4> SUFFICES ASSUME m.id # Heartbeat
                   PROVE  m.request = caller[g].request /\ held = caller[g].request
        OBVIOUS
      <4>1. ClientTypeOK
        BY DEF ClientInv
      <4>2. m.request = caller[g].request
        BY <3>1, <3>2, <4>1, NumbersDiffer
      <4>3. m.cached => cache[m.id] = caller[g].request
        BY <3>1, <3>3, <4>1, NumbersDiffer
      <4> QED
        BY <4>2, <4>3
    <3> HIDE DEF held
    <3>6. /\ got \in Senders
          /\ got.pc = "got" /\ got.id = m.id /\ got.request = caller[g].request
          /\ got.result = [of |-> m.request, with |-> held]
      BY <2>2, <3>1, <3>4 DEF Senders
    <3>7. caller' = [caller EXCEPT ![g] = got]
      BY <2>2 DEF held
    <3> HIDE DEF got
    <3>8. /\ caller' \in [Callers -> Senders] /\ caller'[g] = got
          /\ \A h \in Callers : h # g => caller'[h] = caller[h]
      BY <3>6, <3>7 DEF ClientInv, ClientTypeOK
    <3>9. CallsNumbered'
      BY <1>4, <3>1, <3>6, <3>8, RestNumbered DEF ClientInv, CallsNumbered, Pc
    <3>10. OwnReply'
      BY <3>5, <3>6, <3>8 DEF ClientInv, OwnReply, Pc
    <3> QED
      BY <3>8, <3>9, <3>10
  <2> QED
    BY <1>5, <2>1, <2>2
<1> QED
  BY <1>1, <1>4, <1>6, <1>7, RestNumbered DEF ClientInv, ClientTypeOK

LEMMA ClientNextInv ==
  ASSUME ClientInv, MaxRequests <= IdModulus, [ClientNext]_clientVars
  PROVE  ClientInv'
<1>1. CASE UNCHANGED clientVars \/ Disconnect \/ Redial
  <2>1. /\ UNCHANGED <<msgID, sent, caller, cache, waiters, inbox>>
        /\ wire' \subseteq wire /\ linked' \in BOOLEAN
    BY <1>1 DEF clientVars, Disconnect, Redial, ClientInv, ClientTypeOK
  <2>2. caller' \in [Callers -> Senders] /\ CallsNumbered' /\ OwnReply'
    BY <2>1, SameCallInv DEF SameCall
  <2> QED
    BY <2>1, <2>2, RestNumbered DEF ClientInv, ClientTypeOK
<1> QED
  BY <1>1, NumberInv, RememberInv, WriteInv, RegisterInv, EndInv, BeatInv, RespondInv, DealInv
  DEF ClientNext

\* Every value a call returns is the answer to its own request, decoded with
\* its own data, as long as no number is given twice: fewer requests than
\* numbers (client.go: SendFrame, handlerDealMessage).
THEOREM RepliesAreOwn ==
  ASSUME MaxRequests <= IdModulus
  PROVE  ClientSpec => []OwnReply
<1>1. ClientInv /\ [ClientNext]_clientVars => ClientInv'
  BY ClientNextInv
<1>2. ClientInv => OwnReply
  BY DEF ClientInv
<1> QED
  BY <1>1, <1>2, ClientInitInv, PTL DEF ClientSpec

(***************************************************************************)
(* The older puller: bars, years and files.                                *)
(***************************************************************************)

\* The first bar of a year.
FirstOf(y) == y * YearLength

LEMMA FirstOfNext ==
  ASSUME NEW y \in Int
  PROVE  FirstOf(y) \in Int /\ FirstOf(y + 1) = FirstOf(y) + YearLength
BY LegacyConstants DEF FirstOf

LEMMA YearsApart ==
  ASSUME NEW y \in Int, NEW z \in Int, y < z
  PROVE  FirstOf(y + 1) <= FirstOf(z)
BY LegacyConstants DEF FirstOf

LEMMA BarsOfYear ==
  ASSUME NEW k \in Int
  PROVE  YearOf(k) \in Int /\ FirstOf(YearOf(k)) <= k /\ k < FirstOf(YearOf(k) + 1)
BY LegacyConstants DEF FirstOf, YearOf

LEMMA NoughtNegative ==
  ASSUME NEW y \in Int
  PROVE y < 0 => FirstOf(y) < 0
BY LegacyConstants DEF FirstOf

LEMMA NoughtFirst == FirstOf(0) = 0
BY LegacyConstants DEF FirstOf

LEMMA HalfFacts ==
  ASSUME NEW t \in Nat
  PROVE  /\ t \div 2 \in Nat /\ 2 * (t \div 2) <= t /\ t < 2 * (t \div 2) + 2
OBVIOUS

LEMMA YearIs ==
  ASSUME NEW k \in Int, NEW y \in Int, FirstOf(y) <= k, k < FirstOf(y + 1)
  PROVE  YearOf(k) = y
<1> DEFINE z == YearOf(k)
<1>1. z \in Int /\ FirstOf(z) <= k /\ k < FirstOf(z + 1)
  BY BarsOfYear
<1>2. FirstOf(y) \in Int /\ FirstOf(z) \in Int /\ FirstOf(y + 1) \in Int /\ FirstOf(z + 1) \in Int
  BY <1>1, FirstOfNext, y + 1 \in Int, z + 1 \in Int
<1> HIDE DEF z
<1>3. y < z => FirstOf(y + 1) <= FirstOf(z)
  BY <1>1, YearsApart
<1>4. z < y => FirstOf(z + 1) <= FirstOf(y)
  BY <1>1, YearsApart
<1>5. z = y
  BY <1>1, <1>2, <1>3, <1>4
<1> QED
  BY <1>5 DEF z

\* A bar is in a later year if the year begins with it or before.
LEMMA YearOrder ==
  ASSUME NEW k \in Int, NEW y \in Int
  PROVE  /\ FirstOf(y) \in Int
         /\ y <= YearOf(k) <=> FirstOf(y) <= k
         /\ YearOf(FirstOf(y)) = y
<1> DEFINE z == YearOf(k)
<1>1. z \in Int /\ FirstOf(z) <= k /\ k < FirstOf(z + 1)
  BY BarsOfYear
<1>2. /\ FirstOf(y) \in Int /\ FirstOf(z) \in Int /\ FirstOf(z + 1) \in Int
      /\ FirstOf(y) < FirstOf(y + 1) /\ FirstOf(y + 1) = FirstOf(y) + YearLength
      /\ FirstOf(z + 1) = FirstOf(z) + YearLength
  BY <1>1, FirstOfNext, LegacyConstants
<1>3. y < z => FirstOf(y + 1) <= FirstOf(z)
  BY <1>1, YearsApart
<1>4. z < y => FirstOf(z + 1) <= FirstOf(y)
  BY <1>1, YearsApart
<1>5. YearOf(FirstOf(y)) = y
  BY <1>2, YearIs
<1> HIDE DEF z
<1>6. y <= z <=> FirstOf(y) <= k
  BY <1>1, <1>2, <1>3, <1>4, LegacyConstants
<1> QED
  BY <1>2, <1>5, <1>6 DEF z

LEMMA YearsGrow ==
  ASSUME NEW j \in Int, NEW k \in Int, j <= k
  PROVE  /\ YearOf(j) \in Int /\ YearOf(k) \in Int /\ YearOf(j) <= YearOf(k)
         /\ k <= j + 1 => YearOf(k) <= YearOf(j) + 1
<1> DEFINE x == YearOf(j)
           z == YearOf(k)
<1>1. /\ x \in Int /\ FirstOf(x) <= j /\ j < FirstOf(x + 1)
      /\ z \in Int /\ FirstOf(z) <= k /\ k < FirstOf(z + 1)
  BY BarsOfYear
<1>2. /\ FirstOf(x) \in Int /\ FirstOf(x + 1) \in Int
      /\ FirstOf(x + 1 + 1) = FirstOf(x + 1) + YearLength
  BY <1>1, FirstOfNext, x + 1 \in Int
<1>3. x <= z
  BY <1>1, <1>2, YearOrder
<1>4. ASSUME k <= j + 1 PROVE z <= x + 1
  <2>1. k < FirstOf(x + 1 + 1)
    BY <1>1, <1>2, <1>4, LegacyConstants
  <2>2. ~ (x + 1 + 1 <= z)
    <3> HIDE DEF x
    <3>1. x + 1 + 1 \in Int
      BY <1>1
    <3>2. x + 1 + 1 <= z <=> FirstOf(x + 1 + 1) <= k
      BY <3>1, YearOrder
    <3>3. FirstOf(x + 1 + 1) \in Int
      BY <1>2, LegacyConstants
    <3> QED
      BY <2>1, <3>2, <3>3
  <2> QED
    BY <1>1, <2>2
<1> QED
  BY <1>1, <1>3, <1>4

\* The bars of the bounded time, and the years they are in.
LEMMA BarFacts ==
  /\ BarNumbers \subseteq Nat
  /\ \A k \in BarNumbers : YearOf(k) \in Years /\ YearOf(k) \in Nat
  /\ \A k \in BarNumbers, j \in Nat : j <= k => j \in BarNumbers
  /\ \A t \in 0 .. LastTime : t \div 2 \in BarNumbers
<1>1. LastTime \div 2 \in Nat
  BY LegacyConstants, HalfFacts
<1>2. BarNumbers \subseteq Nat
  BY <1>1 DEF BarNumbers
<1>3. \A k \in BarNumbers : YearOf(k) \in Years /\ YearOf(k) \in Nat
  <2> SUFFICES ASSUME NEW k \in BarNumbers PROVE YearOf(k) \in Years /\ YearOf(k) \in Nat
    OBVIOUS
  <2>1. k \in Int /\ LastTime \div 2 \in Int /\ k <= LastTime \div 2 /\ 0 <= k
    BY <1>1 DEF BarNumbers
  <2>2. YearOf(k) \in Int /\ YearOf(LastTime \div 2) \in Int /\ YearOf(k) <= YearOf(LastTime \div 2)
    BY <2>1, YearsGrow
  <2>3. 0 <= YearOf(k)
    BY <2>1, YearOrder, NoughtFirst
  <2> QED
    BY <2>2, <2>3 DEF Years
<1>4. \A t \in 0 .. LastTime : t \div 2 \in BarNumbers
  <2> SUFFICES ASSUME NEW t \in 0 .. LastTime PROVE t \div 2 \in BarNumbers
    OBVIOUS
  <2>1. t \in Nat /\ t <= LastTime /\ LastTime \in Nat
    BY LegacyConstants
  <2>2. /\ t \div 2 \in Nat /\ 2 * (t \div 2) <= t
        /\ LastTime \div 2 \in Nat /\ LastTime < 2 * (LastTime \div 2) + 2
    BY <2>1, HalfFacts
  <2> QED
    BY <2>1, <2>2 DEF BarNumbers
<1> QED
  BY <1>1, <1>2, <1>3, <1>4 DEF BarNumbers

LEMMA YearsDown ==
  ASSUME NEW y \in Years, NEW x \in Int, -1 <= x, x <= y
  PROVE  x \in Years /\ y \in Int
<1>1. YearOf(LastTime \div 2) \in Int
  <2>1. LastTime \div 2 \in Int
    BY LegacyConstants, HalfFacts
  <2> QED
    BY <2>1, BarsOfYear
<1> QED
  BY <1>1 DEF Years

(***************************************************************************)
(* A file, and the two ways it changes.                                    *)
(***************************************************************************)
Files == [BarNumbers -> {Missing, "provisional", "final"}]

\* Between two rows there is no hole, and before a row all rows are final.
Whole(f) ==
    \A j, l \in Rows(f), k \in BarNumbers : j <= k /\ k < l => f[k] = "final"

\* The same, but for the excused bars.
WholeBut(f, excused) ==
    \A j, l \in Rows(f), k \in BarNumbers \ excused : j <= k /\ k < l => f[k] = "final"

\* What the server lists at time t.
ListedAt(t, k) == CASE 2 * k > t -> Missing
                    [] 2 * k = t -> "provisional"
                    [] OTHER     -> "final"

\* What is fetched at time t down to bar low.
Snapshot(t, low) == [k \in BarNumbers |-> IF k >= low THEN ListedAt(t, k) ELSE Missing]

\* A bounded set of bars, or of -1 for none, has a maximum, and Max is it.
LEMMA NewestNumber ==
  ASSUME NEW S, S # {}, NEW bound \in Nat, \A k \in S : k \in Int /\ k <= bound
  PROVE  Max(S) \in S /\ \A k \in S : k <= Max(S)
<1> DEFINE T == {bound - k : k \in S}
           R == OpToRel(<, Nat)
<1>1. T \subseteq Nat /\ T # {}
  OBVIOUS
<1>2. IsWellFoundedOn(R, Nat)
  BY NatLessThanWellFounded
<1>3. PICK t \in T : \A u \in T : ~ (<<u, t>> \in R)
  <2> HIDE DEF T, R
  <2> QED
    BY <1>1, <1>2, WFMin
<1>4. \A u \in T : t <= u
  <2>0. T \subseteq Int
    BY <1>1
  <2> HIDE DEF T
  <2> SUFFICES ASSUME NEW u \in T, u < t PROVE FALSE
    BY <2>0
  <2>1. <<u, t>> \in R
    BY <1>1 DEF OpToRel
  <2> QED
    BY <1>3, <2>1
<1>5. PICK m \in S : t = bound - m
  OBVIOUS
<1>6. \A k \in S : k <= m
  <2> SUFFICES ASSUME NEW k \in S PROVE k <= m
    OBVIOUS
  <2>1. t <= bound - k
    BY <1>4
  <2> QED
    BY <1>5, <2>1
<1>7. \E x \in S : \A y \in S : x >= y
  BY <1>6
<1>8. Max(S) \in S /\ \A k \in S : Max(S) >= k
  BY <1>7 DEF Max
<1> QED
  BY <1>8

LEMMA NewestRow ==
  ASSUME NEW f \in Files
  PROVE  /\ NewestIn(f) \in Rows(f) \cup {-1} /\ NewestIn(f) \in Int /\ NewestIn(f) >= -1
         /\ \A k \in Rows(f) : k \in Nat /\ k <= NewestIn(f)
<1> DEFINE S == Rows(f) \cup {-1}
<1>1. LastTime \div 2 \in Nat
  BY LegacyConstants, HalfFacts
<1>2. \A k \in S : k \in Int /\ k <= LastTime \div 2 /\ k >= -1
  BY <1>1 DEF Rows, BarNumbers
<1>3. Max(S) \in S /\ \A k \in S : k <= Max(S)
  <2> HIDE DEF S
  <2>1. S # {}
    BY DEF S
  <2> QED
    BY <1>1, <1>2, <2>1, NewestNumber
<1> QED
  BY <1>2, <1>3, BarFacts DEF NewestIn, Rows

LEMMA WholeBetween ==
  ASSUME NEW f, Whole(f), NEW j \in Rows(f), NEW l \in Rows(f), NEW k \in BarNumbers,
         j <= k, k < l
  PROVE  f[k] = "final"
BY DEF Whole

LEMMA WholeIsContiguous ==
  ASSUME NEW f \in Files, NEW excused, WholeBut(f, excused)
  PROVE  Contiguous(f, excused)
<1> DEFINE n == NewestIn(f)
<1>1. /\ n \in Rows(f) \cup {-1} /\ n \in Int
      /\ \A k \in Rows(f) : k \in Nat /\ k <= n
  BY NewestRow
<1> HIDE DEF n
<1>2. SUFFICES ASSUME NEW k \in BarNumbers \ excused
             PROVE  /\ k < n /\ (\E j \in Rows(f) : j < k) => f[k] # Missing
                    /\ f[k] = "provisional" => k = n
  BY DEF Contiguous, Hole, n
<1>3. k \in Nat /\ k \in BarNumbers
  BY BarFacts
<1>4. ASSUME k < n, NEW j \in Rows(f), j < k PROVE f[k] # Missing
  <2>1. n \in Rows(f) /\ j <= k
    BY <1>1, <1>3, <1>4
  <2>2. f[k] = "final"
    BY <1>4, <2>1 DEF WholeBut
  <2> QED
    BY <2>2 DEF Missing
<1>5. ASSUME f[k] = "provisional", k # n PROVE FALSE
  <2>1. k \in Rows(f)
    BY <1>3, <1>5 DEF Rows, Missing
  <2>2. k < n /\ n \in Rows(f) /\ k <= k
    BY <1>1, <1>3, <1>5, <2>1
  <2>3. f[k] = "final"
    BY <2>1, <2>2 DEF WholeBut
  <2> QED
    BY <1>5, <2>3
<1> QED
  BY <1>4, <1>5

\* GetKlineUntil goes back to a bar before low, or to the first one of all.
LEMMA UntilFacts ==
  ASSUME NEW low \in Int, low >= -1, now \in 0 .. LastTime
  PROVE  \E stop \in Int : /\ Until(low) = Snapshot(now, stop)
                           /\ stop <= low /\ (low >= 0 => stop < low)
                           /\ stop >= low - 1 \/ stop >= now \div 2
<1> DEFINE S == {k \in BarNumbers : 2 * k <= now /\ k < low} \cup {-1}
<1>1. now \div 2 \in Nat /\ 2 * (now \div 2) <= now /\ now < 2 * (now \div 2) + 2 /\ now \in Nat
  BY LegacyConstants, HalfFacts
<1>2. \A k \in S : k \in Int /\ k <= now \div 2 /\ k >= -1
  BY <1>1, BarFacts
<1>3. Max(S) \in S /\ \A k \in S : k <= Max(S)
  <2> HIDE DEF S
  <2>1. S # {}
    BY DEF S
  <2> QED
    BY <1>1, <1>2, <2>1, NewestNumber
<1>4. Max(S) \in Int /\ Max(S) <= low /\ (low >= 0 => Max(S) < low)
  <2>1. \A k \in S : k \in Int /\ (k < low \/ k = -1)
    BY <1>2
  <2> HIDE DEF S
  <2> QED
    BY <1>3, <2>1
<1>5. Max(S) >= low - 1 \/ Max(S) >= now \div 2
  <2>1. CASE low <= 0
    BY <1>2, <1>3, <2>1
  <2>2. CASE low > 0 /\ low - 1 <= now \div 2
    <3>1. low - 1 \in BarNumbers
      BY <2>2, BarFacts
    <3>2. low - 1 \in S
      BY <1>1, <2>2, <3>1
    <3> QED
      BY <1>3, <1>4, <3>2
  <2>3. CASE low > 0 /\ now \div 2 < low - 1
    <3>1. now \div 2 \in S
      BY <1>1, <2>3, BarFacts
    <3> QED
      BY <1>3, <3>1
  <2> QED
    BY <1>1, <2>1, <2>2, <2>3
<1>6. Until(low) = Snapshot(now, Max(S))
  BY DEF Until, Snapshot, Listed, ListedAt
<1> HIDE DEF S
<1> QED
  BY <1>4, <1>5, <1>6

\* The rows from the newest on are replaced by what was fetched, up to top.
LEMMA Replaced ==
  ASSUME NEW f \in Files, Whole(f), NEW last, last = NewestIn(f),
         NEW t \in 0 .. LastTime, NEW stop \in Int, NEW g \in Files, NEW top \in Int,
         \A k \in BarNumbers : g[k] = IF k <= top THEN Snapshot(t, stop)[k] ELSE Missing,
         stop <= last \/ Rows(f) \subseteq {last}
  PROVE  /\ Replace(f, last, g) \in Files /\ Whole(Replace(f, last, g))
         /\ \A k \in BarNumbers :
               /\ k < last => Replace(f, last, g)[k] = f[k]
               /\ k >= last => Replace(f, last, g)[k] = g[k]
         /\ \A k \in BarNumbers :
               g[k] = IF k <= top /\ k >= stop THEN ListedAt(t, k) ELSE Missing
<1> DEFINE F == Replace(f, last, g)
<1>1. last \in Int /\ last \in Rows(f) \cup {-1} /\ \A k \in Rows(f) : k \in Nat /\ k <= last
  BY NewestRow
<1>2. /\ F \in Files
      /\ \A k \in BarNumbers : F[k] = IF k < last THEN f[k] ELSE g[k]
  BY DEF Replace, Files
<1>3. \A k \in BarNumbers : g[k] = IF k <= top /\ k >= stop THEN ListedAt(t, k) ELSE Missing
  BY DEF Snapshot
<1> HIDE DEF F
<1>4. Whole(F)
  <2> SUFFICES ASSUME NEW j \in Rows(F), NEW l \in Rows(F), NEW k \in BarNumbers, j <= k, k < l
               PROVE  F[k] = "final"
    BY DEF Whole
  <2>1. /\ j \in BarNumbers /\ l \in BarNumbers /\ F[j] # Missing /\ F[l] # Missing
        /\ j \in Nat /\ k \in Nat /\ l \in Nat
    BY BarFacts DEF Rows
  <2>2. CASE k < last
    <3>1. j < last /\ F[j] = f[j] /\ F[k] = f[k]
      BY <1>1, <1>2, <2>1, <2>2
    <3>2. j \in Rows(f) /\ last \in Rows(f)
      BY <1>1, <2>1, <3>1 DEF Rows
    <3>3. f[k] = "final"
      BY <2>2, <3>2 DEF Whole
    <3> QED
      BY <3>1, <3>3
  <2>3. CASE k >= last
    <3>1. F[k] = g[k] /\ F[l] = g[l]
      BY <1>1, <1>2, <2>1, <2>3
    <3>2. l <= top /\ l >= stop /\ ListedAt(t, l) # Missing
      BY <1>3, <2>1, <3>1
    <3>3. t \in Nat /\ 2 * l <= t
      BY <2>1, <3>2, LegacyConstants DEF ListedAt
    <3>4. stop <= k
      <4>1. CASE j >= last
        BY <1>2, <1>3, <2>1, <4>1, <1>1
      <4>2. CASE j < last
        <5>1. j \in Rows(f)
          BY <1>1, <1>2, <2>1, <4>2 DEF Rows
        <5>2. stop <= last
          BY <1>1, <2>1, <4>2, <5>1
        <5> QED
          BY <1>1, <2>1, <2>3, <5>2
      <4> QED
        BY <1>1, <2>1, <4>1, <4>2
    <3>5. g[k] = ListedAt(t, k)
      BY <1>3, <2>1, <3>2, <3>4
    <3>6. ListedAt(t, k) = "final"
      BY <2>1, <3>3 DEF ListedAt
    <3> QED
      BY <3>1, <3>5, <3>6
  <2> QED
    BY <1>1, <2>1, <2>2, <2>3
<1> QED
  BY <1>1, <1>2, <1>3, <1>4, BarFacts DEF F

(***************************************************************************)
(* The inductive invariant, code by code: df is its daily file, yf its     *)
(* minute files, made the years of those that exist, task its goroutine.   *)
(***************************************************************************)
Current == YearOf(now \div 2)
Made(c) == {y \in Years : <<c, y>> \in yearMade}
Skipped(c) == {y \in Years : <<c, y>> \in skipped}

\* The daily file; before the start date there is nothing but its newest bar.
DaySound(df) ==
    /\ df \in Files /\ Whole(df)
    /\ \A j, k \in Rows(df) : j < k => j >= LegacyStart - 1

\* A file that has rows exists, ends with its year and has the year's first bar.
YearSound(yf, made, y) ==
    /\ yf[y] \in Files /\ Whole(yf[y])
    /\ \A k \in Rows(yf[y]) : YearOf(k) <= y
    /\ Rows(yf[y]) # {} => y \in made /\ y >= 0 /\ FirstOf(y) \in Rows(yf[y])

\* The bars of a year are all there, and final.
Full(yf, y) == \A k \in BarNumbers : YearOf(k) = y => yf[y][k] = "final"

\* A year is full, or nothing was stored in the next one, of those in sk.
Joined(yf, sk, y) == Full(yf, y) \/ y + 1 \in sk

\* From the first year that has rows, as far as a later file is made ...
YearsJoin(yf, made, sk) ==
    \A y \in Years, z \in made, x \in Years :
        y <= x /\ x < z /\ Rows(yf[y]) # {} => Joined(yf, sk, x)

\* ... and of all years before the last.
LookBack(yf, sk, year) ==
    \A y, x \in Years :
        y <= x /\ x < year - 1 /\ Rows(yf[y]) # {} => Joined(yf, sk, x)

FilesSound(yf, made, sk, year) ==
    /\ yf \in [Years -> Files]
    /\ made \subseteq Years /\ \A y \in made : y <= year
    /\ \A y \in Years : YearSound(yf, made, y)
    /\ YearsJoin(yf, made, sk)
    /\ LookBack(yf, sk, year)

\* What a goroutine of the daily bars holds continues the file.
DayTask(df, task) ==
    task.pc = "save" =>
        /\ task.last = NewestIn(df)
        /\ \E t \in 0 .. LastTime, stop \in Int :
              /\ task.got = Snapshot(t, stop)
              /\ IF task.last >= LegacyStart THEN stop <= task.last
                                             ELSE stop >= LegacyStart - 1 \/ stop >= t \div 2

\* Bars fetched when the year had begun; they reach back to the newest row,
\* or before the year if there is none.
FetchedFor(task, year, f) ==
    /\ task.last = NewestIn(f)
    /\ \E t \in 0 .. LastTime, stop \in Int :
          /\ task.got = Snapshot(t, stop)
          /\ FirstOf(year) <= t \div 2
          /\ stop <= task.last \/ (task.pc = "save this" /\ task.last = -1 /\ stop < FirstOf(year))

\* The file of the year is not made before last year's is full.
MinuteTask(yf, made, task, year) ==
    /\ task.pc \in {"begin", "last year", "this year", "save last", "save this", "done"}
    /\ \A y \in made : y <= year
    /\ task.pc \in {"begin", "last year"} => task.got = Empty
    /\ task.pc \in {"last year", "save last"} => year \notin made
    /\ task.pc = "save this" => year \in made
    /\ task.pc = "this year" =>
          /\ year \notin made => Full(yf, year - 1)
          /\ \/ task.got = Empty
             \/ year \notin made
                /\ \E t \in 0 .. LastTime, stop \in Int :
                      /\ task.got = Snapshot(t, stop)
                      /\ FirstOf(year) <= t \div 2 /\ stop < FirstOf(year)
    /\ task.pc = "save last" => year - 1 \in made /\ FetchedFor(task, year, yf[year - 1])
    /\ task.pc = "save this" => FetchedFor(task, year, yf[year])

CodeInv(c) ==
    /\ DaySound(dayFile[c])
    /\ FilesSound(yearFile[c], Made(c), Skipped(c), Current)
    /\ legacy.pc = "day" => DayTask(dayFile[c], legacyTask[c])
    /\ legacy.pc = "minute" => MinuteTask(yearFile[c], Made(c), legacyTask[c], legacy.year)

TaskPcs == {"none", "begin", "save", "done", "last year", "this year", "save last", "save this"}
Tasks   == [pc : TaskPcs, last : Int, got : Files, tries : Int]

\* At most one step of time while an update runs.
LegacyTypeOK ==
    /\ now \in 1 .. LastTime
    /\ dayFile \in [LegacyCodes -> Files]
    /\ yearFile \in [LegacyCodes -> [Years -> Files]]
    /\ yearMade \subseteq LegacyCodes \X Years
    /\ legacy \in [pc : {"off", "day", "minute"}, year : Nat, begun : Nat, marked : BOOLEAN]
    /\ legacyTask \in [LegacyCodes -> Tasks]
    /\ skipped \subseteq LegacyCodes \X Years

Punctual ==
    legacy.pc # "off" =>
        /\ now \in {legacy.begun, legacy.begun + 1}
        /\ legacy.pc = "minute" => \/ legacy.year = Current
                                   \/ now # legacy.begun /\ legacy.year = Current - 1

LegacyInv == LegacyTypeOK /\ Punctual /\ \A c \in LegacyCodes : CodeInv(c)

(***************************************************************************)
(* The invariant gives the property.                                       *)
(***************************************************************************)
LEMMA MinutesWhole ==
  ASSUME NEW c \in LegacyCodes, NEW year, FilesSound(yearFile[c], Made(c), Skipped(c), year),
         NEW unread
  PROVE  /\ MinKlines(c, unread) \in Files
         /\ WholeBut(MinKlines(c, unread),
                     Unfinished(c) \cup {k \in BarNumbers : YearOf(k) \in unread})
<1> DEFINE yf == yearFile[c]
           M == MinKlines(c, unread)
<1>1. \A k \in BarNumbers : YearOf(k) \in Years /\ YearOf(k) \in Nat
  BY BarFacts
<1>2. \A k \in BarNumbers :
        M[k] = IF YearOf(k) \in Made(c) /\ YearOf(k) \notin unread
               THEN yf[YearOf(k)][k] ELSE Missing
  BY <1>1 DEF MinKlines, Made
<1>3. yf \in [Years -> Files]
  BY DEF FilesSound
<1>4. M \in Files
  BY <1>1, <1>2, <1>3 DEF MinKlines, Files
<1>5. ASSUME NEW j \in Rows(M), NEW l \in Rows(M), NEW k \in BarNumbers, j <= k, k < l,
             k \notin Unfinished(c), YearOf(k) \notin unread
      PROVE  M[k] = "final"
  <2> DEFINE a == YearOf(j)
             b == YearOf(l)
             y == YearOf(k)
  <2>1. j \in BarNumbers /\ l \in BarNumbers /\ M[j] # Missing /\ M[l] # Missing
    BY DEF Rows
  <2>2. /\ j \in Int /\ k \in Int /\ l \in Int /\ a \in Years /\ b \in Years /\ y \in Years
        /\ a \in Int /\ b \in Int /\ y \in Int /\ a <= y /\ y <= b
    <3>1. j \in Int /\ k \in Int /\ l \in Int /\ j <= k /\ k <= l
      BY <1>5, <2>1, BarFacts
    <3> QED
      BY <1>1, <2>1, <3>1, YearsGrow
  <2>3. a \in Made(c) /\ j \in Rows(yf[a]) /\ b \in Made(c) /\ l \in Rows(yf[b])
    BY <1>2, <2>1 DEF Rows
  <2>4. yf[y][k] = "final"
    <3>1. CASE y = b
      <4>1. FirstOf(b) \in Rows(yf[b]) /\ Whole(yf[b])
        BY <2>2, <2>3 DEF FilesSound, YearSound
      <4>2. FirstOf(b) <= k /\ k < l
        BY <1>5, <2>2, <3>1, YearOrder
      <4> HIDE DEF yf, b, y
      <4>3. yf[b][k] = "final"
        BY <2>3, <4>1, <4>2, WholeBetween
      <4> QED
        BY <3>1, <4>3
    <3>2. CASE y < b
      <4>1. Joined(yf, Skipped(c), y)
        BY <2>2, <2>3, <3>2 DEF FilesSound, YearsJoin
      <4>2. y + 1 \notin Skipped(c)
        BY <1>5 DEF Unfinished, Skipped
      <4> QED
        BY <4>1, <4>2 DEF Joined, Full
    <3> QED
      BY <2>2, <3>1, <3>2
  <2>5. y \in Made(c)
    <3>1. k \in Rows(yf[y])
      BY <2>4 DEF Rows, Missing
    <3> QED
      BY <2>2, <3>1 DEF FilesSound, YearSound
  <2> QED
    BY <1>2, <1>5, <2>4, <2>5
<1> HIDE DEF M
<1>6. WholeBut(M, Unfinished(c) \cup {k \in BarNumbers : YearOf(k) \in unread})
  BY <1>5 DEF WholeBut
<1> QED
  BY <1>4, <1>6 DEF M

LEMMA LegacyInvImplies ==
  ASSUME LegacyInv
  PROVE  LegacyContiguous
<1> SUFFICES ASSUME NEW c \in LegacyCodes, NEW unread \in SUBSET Years
             PROVE  /\ Contiguous(dayFile[c], {})
                    /\ Contiguous(MinKlines(c, unread),
                          Unfinished(c) \cup {k \in BarNumbers : YearOf(k) \in unread})
  BY DEF LegacyContiguous
<1>1. CodeInv(c)
  BY DEF LegacyInv
<1>2. Contiguous(dayFile[c], {})
  <2>1. dayFile[c] \in Files /\ WholeBut(dayFile[c], {})
    BY <1>1 DEF CodeInv, DaySound, Whole, WholeBut
  <2> QED
    BY <2>1, WholeIsContiguous
<1>3. Contiguous(MinKlines(c, unread),
                 Unfinished(c) \cup {k \in BarNumbers : YearOf(k) \in unread})
  BY <1>1, MinutesWhole, WholeIsContiguous DEF CodeInv
<1> QED
  BY <1>2, <1>3

(***************************************************************************)
(* The steps.                                                              *)
(***************************************************************************)
LEMMA EmptyFile ==
  /\ Empty \in Files /\ Rows(Empty) = {} /\ Whole(Empty)
BY DEF Empty, Files, Rows, Whole

LEMMA IdleTask == NoTask \in Tasks
BY EmptyFile DEF NoTask, Tasks, TaskPcs

LEMMA LegacyInitInv == LegacyInit => LegacyInv
<1> SUFFICES ASSUME LegacyInit PROVE LegacyInv
  OBVIOUS
<1>1. now = 1 /\ now \in 1 .. LastTime
  BY LegacyConstants DEF LegacyInit
<1>2. Current \in Int
  <2>1. now \div 2 \in Int
    BY <1>1, HalfFacts
  <2> QED
    BY <2>1, BarsOfYear DEF Current
<1>3. LegacyTypeOK
  <2>1. legacy \in [pc : {"off", "day", "minute"}, year : Nat, begun : Nat, marked : BOOLEAN]
    BY DEF LegacyInit, Off
  <2>2. yearFile \in [LegacyCodes -> [Years -> Files]] /\ dayFile \in [LegacyCodes -> Files]
    BY EmptyFile DEF LegacyInit
  <2> QED
    BY <1>1, <2>1, <2>2, IdleTask DEF LegacyInit, LegacyTypeOK
<1>4. Punctual
  BY DEF LegacyInit, Punctual, Off
<1>5. ASSUME NEW c \in LegacyCodes PROVE CodeInv(c)
  <2>1. dayFile[c] = Empty /\ yearFile[c] = [y \in Years |-> Empty] /\ Made(c) = {}
    BY <1>5 DEF LegacyInit, Made
  <2>2. DaySound(dayFile[c])
    BY <2>1, EmptyFile DEF DaySound
  <2>3. FilesSound(yearFile[c], Made(c), Skipped(c), Current)
    BY <2>1, EmptyFile DEF FilesSound, YearSound, YearsJoin, LookBack
  <2> QED
    BY <2>2, <2>3 DEF CodeInv, LegacyInit, Off
<1> QED
  BY <1>3, <1>4, <1>5 DEF LegacyInv

\* The invariant of a code whose files and goroutine a step leaves alone.
LEMMA CodeStays ==
  ASSUME NEW c \in LegacyCodes, CodeInv(c), UNCHANGED <<now, legacy, skipped>>,
         dayFile'[c] = dayFile[c], yearFile'[c] = yearFile[c], legacyTask'[c] = legacyTask[c],
         \A y \in Years : <<c, y>> \in yearMade' <=> <<c, y>> \in yearMade
  PROVE  CodeInv(c)'
<1>1. Made(c)' = Made(c) /\ Current' = Current /\ Skipped(c)' = Skipped(c)
  BY DEF Made, Current, Skipped
<1> QED
  BY <1>1 DEF CodeInv

\* A step of the goroutine of code c that leaves the clock and the update alone.
LEMMA CodeSteps ==
  ASSUME LegacyInv, NEW c \in LegacyCodes, UNCHANGED <<now, legacy, skipped>>,
         \A d \in LegacyCodes \ {c} :
            /\ dayFile'[d] = dayFile[d] /\ yearFile'[d] = yearFile[d]
            /\ legacyTask'[d] = legacyTask[d]
            /\ \A y \in Years : <<d, y>> \in yearMade' <=> <<d, y>> \in yearMade,
         LegacyTypeOK', CodeInv(c)'
  PROVE  LegacyInv'
<1>1. Punctual'
  BY DEF LegacyInv, Punctual, Current
<1>2. ASSUME NEW d \in LegacyCodes, d # c PROVE CodeInv(d)'
  <2>1. CodeInv(d)
    BY DEF LegacyInv
  <2> QED
    BY <1>2, <2>1, CodeStays
<1> QED
  BY <1>1, <1>2 DEF LegacyInv

LEMMA YearFacts ==
  ASSUME now \in 0 .. LastTime
  PROVE  Current \in Nat /\ Current \in Years
BY BarFacts DEF Current

LEMMA NewTask ==
  ASSUME NEW n \in Int, NEW pc \in TaskPcs
  PROVE  [NoTask EXCEPT !.tries = n, !.pc = pc] \in Tasks
BY IdleTask DEF Tasks

\* A goroutine goes on to pc, or has failed.
LEMMA StepType ==
  ASSUME LegacyTypeOK, NEW c \in LegacyCodes, NEW pc \in TaskPcs,
         LegacyStep(c, pc) \/ LegacyFails(c)
  PROVE  /\ legacyTask' \in [LegacyCodes -> Tasks]
         /\ \A d \in LegacyCodes \ {c} : legacyTask'[d] = legacyTask[d]
<1>1. legacyTask \in [LegacyCodes -> Tasks] /\ NoTask \in Tasks
  BY IdleTask DEF LegacyTypeOK
<1>2. CASE LegacyStep(c, pc)
  BY <1>1, <1>2 DEF LegacyStep, Tasks
<1>3. CASE LegacyFails(c)
  <2> DEFINE new == [NoTask EXCEPT !.tries = legacyTask[c].tries + 1,
        !.pc = IF legacyTask[c].tries + 1 < LegacyRetry THEN "begin" ELSE "done"]
  <2>1. new \in Tasks
    <3>1. legacyTask[c].tries + 1 \in Int
      BY <1>1 DEF Tasks
    <3>2. (IF legacyTask[c].tries + 1 < LegacyRetry THEN "begin" ELSE "done") \in TaskPcs
      BY DEF TaskPcs
    <3> QED
      BY <3>1, <3>2, NewTask
  <2>2. legacyTask' = [legacyTask EXCEPT ![c] = new]
    BY <1>3 DEF LegacyFails
  <2> HIDE DEF new
  <2> QED
    BY <1>1, <2>1, <2>2
<1> QED
  BY <1>2, <1>3

LEMMA SteppedTask ==
  ASSUME LegacyTypeOK, NEW c \in LegacyCodes, NEW pc \in TaskPcs, LegacyStep(c, pc)
  PROVE  /\ legacyTask'[c].pc = pc
         /\ legacyTask'[c].last = legacyTask[c].last
         /\ legacyTask'[c].got = legacyTask[c].got
BY DEF LegacyTypeOK, LegacyStep, Tasks

LEMMA FailedTask ==
  ASSUME LegacyTypeOK, NEW c \in LegacyCodes, LegacyFails(c)
  PROVE  legacyTask'[c].pc \in {"begin", "done"} /\ legacyTask'[c].got = Empty
<1> DEFINE new == [NoTask EXCEPT !.tries = legacyTask[c].tries + 1,
      !.pc = IF legacyTask[c].tries + 1 < LegacyRetry THEN "begin" ELSE "done"]
<1>1. legacyTask' = [legacyTask EXCEPT ![c] = new]
  BY DEF LegacyFails
<1>2. new.pc \in {"begin", "done"} /\ new.got = Empty
  BY DEF NoTask
<1> HIDE DEF new
<1> QED
  BY <1>1, <1>2 DEF LegacyTypeOK

\* A goroutine that fails has nothing to promise.
LEMMA FailsInv ==
  ASSUME LegacyInv, NEW c \in LegacyCodes, LegacyFails(c),
         UNCHANGED <<now, dayFile, yearFile, legacy, skipped>>,
         FilesSound(yearFile[c], Made(c)', Skipped(c), Current), yearMade' \subseteq LegacyCodes \X Years,
         legacy.pc = "minute" => \A y \in Made(c)' : y <= legacy.year,
         \A d \in LegacyCodes \ {c}, y \in Years : <<d, y>> \in yearMade' <=> <<d, y>> \in yearMade
  PROVE  LegacyInv'
<1>1. /\ legacyTask' \in [LegacyCodes -> Tasks]
      /\ \A d \in LegacyCodes \ {c} : legacyTask'[d] = legacyTask[d]
  <2>1. "done" \in TaskPcs
    BY DEF TaskPcs
  <2> QED
    BY <2>1, StepType DEF LegacyInv
<1>2. legacyTask'[c].pc \in {"begin", "done"} /\ legacyTask'[c].got = Empty
  BY FailedTask DEF LegacyInv
<1>3. LegacyTypeOK'
  BY <1>1 DEF LegacyInv, LegacyTypeOK
<1>4. CodeInv(c)'
  <2>1. CodeInv(c) /\ Current' = Current /\ Skipped(c)' = Skipped(c)
    BY DEF LegacyInv, Current, Skipped
  <2>2. DayTask(dayFile[c], legacyTask'[c])
    BY <1>2 DEF DayTask
  <2>3. legacy.pc = "minute" => MinuteTask(yearFile[c], Made(c)', legacyTask'[c], legacy.year)
    BY <1>2 DEF MinuteTask
  <2> QED
    BY <2>1, <2>2, <2>3 DEF CodeInv
<1> QED
  BY <1>1, <1>3, <1>4, CodeSteps

\* The files may be read at another time of the same update, if nothing changed.
LEMMA FilesStay ==
  ASSUME LegacyInv, UNCHANGED <<now, dayFile, yearFile, yearMade, skipped>>,
         legacy' \in [pc : {"off", "day", "minute"}, year : Nat, begun : Nat, marked : BOOLEAN],
         legacyTask' \in [LegacyCodes -> Tasks], Punctual',
         \A c \in LegacyCodes :
            /\ legacy'.pc = "day" => legacyTask'[c].pc = "begin"
            /\ legacy'.pc = "minute" => /\ legacy'.year = Current
                                        /\ legacyTask'[c].pc = "begin"
                                        /\ legacyTask'[c].got = Empty
  PROVE  LegacyInv'
<1>1. LegacyTypeOK'
  BY DEF LegacyInv, LegacyTypeOK
<1>2. ASSUME NEW c \in LegacyCodes PROVE CodeInv(c)'
  <2>1. /\ CodeInv(c) /\ Made(c)' = Made(c) /\ Current' = Current
        /\ Skipped(c)' = Skipped(c)
    BY DEF LegacyInv, Made, Current, Skipped
  <2>2. legacy'.pc = "day" => DayTask(dayFile[c], legacyTask'[c])
    BY DEF DayTask
  <2>3. legacy'.pc = "minute" => MinuteTask(yearFile[c], Made(c), legacyTask'[c], legacy'.year)
    BY <2>1 DEF MinuteTask, CodeInv, FilesSound
  <2> QED
    BY <2>1, <2>2, <2>3 DEF CodeInv
<1> QED
  BY <1>1, <1>2 DEF LegacyInv

LEMMA StartedTasks ==
  ASSUME StartAll
  PROVE  /\ legacyTask' \in [LegacyCodes -> Tasks]
         /\ \A c \in LegacyCodes : legacyTask'[c].pc = "begin" /\ legacyTask'[c].got = Empty
<1> DEFINE new == [NoTask EXCEPT !.pc = "begin"]
<1>1. new \in Tasks /\ new.pc = "begin" /\ new.got = Empty
  <2>1. new \in Tasks /\ new.pc = "begin" /\ new.got = NoTask.got
    BY IdleTask DEF Tasks, TaskPcs
  <2>2. NoTask.got = Empty
    BY DEF NoTask
  <2> QED
    BY <2>1, <2>2
<1>2. legacyTask' = [c \in LegacyCodes |-> new]
  BY DEF StartAll
<1> HIDE DEF new
<1> QED
  BY <1>1, <1>2

LEMMA LegacyUpdateInv == LegacyInv /\ LegacyUpdate => LegacyInv'
<1> SUFFICES ASSUME LegacyInv, LegacyUpdate PROVE LegacyInv'
  OBVIOUS
<1>1. UNCHANGED <<now, dayFile, yearFile, yearMade, skipped>> /\ StartAll
  BY DEF LegacyUpdate
<1>2. /\ legacy' \in [pc : {"off", "day", "minute"}, year : Nat, begun : Nat, marked : BOOLEAN]
      /\ legacy'.pc = "day" /\ legacy'.begun = now
  <2>1. now \in Nat
    BY LegacyConstants DEF LegacyInv, LegacyTypeOK
  <2> QED
    BY <2>1 DEF LegacyUpdate, LegacyInv, LegacyTypeOK
<1>3. Punctual'
  BY <1>1, <1>2 DEF Punctual
<1> QED
  BY <1>1, <1>2, <1>3, StartedTasks, FilesStay

LEMMA DaysDoneInv == LegacyInv /\ DaysDone => LegacyInv'
<1> SUFFICES ASSUME LegacyInv, DaysDone PROVE LegacyInv'
  OBVIOUS
<1>1. UNCHANGED <<now, dayFile, yearFile, yearMade, skipped>> /\ StartAll /\ legacy.pc = "day"
  BY DEF DaysDone
<1>2. Current \in Nat
  BY YearFacts, LegacyConstants DEF LegacyInv, LegacyTypeOK
<1>3. /\ legacy' \in [pc : {"off", "day", "minute"}, year : Nat, begun : Nat, marked : BOOLEAN]
      /\ legacy'.pc = "minute" /\ legacy'.begun = legacy.begun /\ legacy'.year = Current
  BY <1>2 DEF DaysDone, LegacyInv, LegacyTypeOK, Current
<1>4. Punctual'
  BY <1>1, <1>3 DEF Punctual, Current, LegacyInv
<1> QED
  BY <1>1, <1>3, <1>4, StartedTasks, FilesStay

\* An update ends, or is cut off.
LEMMA LegacyEndsInv == LegacyInv /\ (MinutesDone \/ LegacyCrash) => LegacyInv'
<1> SUFFICES ASSUME LegacyInv, MinutesDone \/ LegacyCrash PROVE LegacyInv'
  OBVIOUS
<1>1. /\ UNCHANGED <<now, dayFile, yearFile, yearMade, skipped>>
      /\ legacyTask' = [c \in LegacyCodes |-> NoTask]
      /\ legacy' \in {[Off EXCEPT !.marked = TRUE], Off}
  BY DEF MinutesDone, LegacyCrash
<1>2. /\ legacy' \in [pc : {"off", "day", "minute"}, year : Nat, begun : Nat, marked : BOOLEAN]
      /\ legacy'.pc = "off"
  <2>1. /\ Off \in [pc : {"off", "day", "minute"}, year : Nat, begun : Nat, marked : BOOLEAN]
        /\ Off.pc = "off"
    BY DEF Off
  <2> HIDE DEF Off
  <2> QED
    BY <1>1, <2>1
<1>3. legacyTask' \in [LegacyCodes -> Tasks]
  BY <1>1, IdleTask
<1>4. Punctual'
  BY <1>2 DEF Punctual
<1> QED
  BY <1>1, <1>2, <1>3, <1>4, FilesStay

\* The larger of the two bars an increment of the daily file may start at.
LEMMA StartOrLast ==
  ASSUME NEW last \in Int
  PROVE  /\ Max({last, LegacyStart}) = IF last >= LegacyStart THEN last ELSE LegacyStart
<1> DEFINE S == {last, LegacyStart}
           bound == IF last >= LegacyStart THEN last ELSE LegacyStart
<1>1. LegacyStart \in Nat /\ bound \in Nat
  BY LegacyConstants
<1>2. S # {} /\ \A k \in S : k \in Int /\ k <= bound
  BY <1>1
<1>3. Max(S) \in S /\ \A k \in S : k <= Max(S)
  <2> HIDE DEF S, bound
  <2> QED
    BY <1>1, <1>2, NewestNumber
<1>4. Max(S) \in {last, LegacyStart} /\ last <= Max(S) /\ LegacyStart <= Max(S)
  BY <1>3
<1> HIDE DEF S
<1>5. Max(S) = bound
  BY <1>1, <1>4
<1> QED
  BY <1>5 DEF S

LEMMA FetchDaysInv ==
  ASSUME LegacyInv, NEW c \in LegacyCodes, FetchDays(c)
  PROVE  LegacyInv'
<1> DEFINE last == NewestIn(dayFile[c])
           low  == Max({last, LegacyStart})
<1>1. CodeInv(c) /\ LegacyTypeOK /\ now \in 0 .. LastTime
  BY LegacyConstants DEF LegacyInv, LegacyTypeOK
<1>2. UNCHANGED <<now, dayFile, yearFile, yearMade, legacy, skipped>> /\ legacy.pc = "day"
  BY DEF FetchDays
<1>3. ASSUME legacyTask' = [legacyTask EXCEPT ![c].pc = "save", ![c].last = last,
                                              ![c].got = Until(low)]
      PROVE  LegacyInv'
  <2>1. dayFile[c] \in Files
    BY <1>1 DEF CodeInv, DaySound
  <2>2. last \in Int
    BY <2>1, NewestRow
  <2>3. low = IF last >= LegacyStart THEN last ELSE LegacyStart
    BY <2>2, StartOrLast
  <2>4. low \in Int /\ low >= 0 /\ low >= -1
    BY <2>2, <2>3, LegacyConstants
  <2> DEFINE got == Until(low)
  <2> HIDE DEF last, low
  <2>5. PICK stop \in Int : /\ got = Snapshot(now, stop) /\ stop < low
                            /\ stop >= low - 1 \/ stop >= now \div 2
    BY <1>1, <2>4, UntilFacts
  <2>6. got \in Files
    BY DEF Until, Listed, Files
  <2> HIDE DEF got
  <2>7. /\ legacyTask' \in [LegacyCodes -> Tasks]
        /\ \A d \in LegacyCodes \ {c} : legacyTask'[d] = legacyTask[d]
        /\ legacyTask'[c].pc = "save" /\ legacyTask'[c].last = last /\ legacyTask'[c].got = got
    BY <1>1, <1>3, <2>2, <2>6 DEF LegacyTypeOK, Tasks, TaskPcs, got
  <2>8. IF last >= LegacyStart THEN stop <= last
                               ELSE stop >= LegacyStart - 1 \/ stop >= now \div 2
    BY <2>2, <2>3, <2>4, <2>5, LegacyConstants
  <2>9. DayTask(dayFile[c], legacyTask'[c])
    BY <1>1, <2>5, <2>7, <2>8 DEF DayTask, last
  <2>10. LegacyTypeOK' /\ CodeInv(c)'
    BY <1>1, <1>2, <2>7, <2>9 DEF LegacyTypeOK, CodeInv, Made, Skipped, Current
  <2> QED
    BY <1>2, <2>7, <2>10, CodeSteps
<1>4. ASSUME LegacyFails(c) PROVE LegacyInv'
  <2>1. /\ FilesSound(yearFile[c], Made(c)', Skipped(c), Current) /\ yearMade' \subseteq LegacyCodes \X Years
        /\ legacy.pc # "minute"
    BY <1>1, <1>2 DEF CodeInv, LegacyTypeOK, Made
  <2> QED
    BY <1>2, <1>4, <2>1, FailsInv
<1> QED
  BY <1>3, <1>4 DEF FetchDays

\* What an increment of the daily bars leaves has no hole either.
LEMMA DaysSaved ==
  ASSUME NEW df, DaySound(df), NEW task \in Tasks, task.pc = "save", DayTask(df, task)
  PROVE  DaySound(Replace(df, task.last, task.got))
<1> DEFINE last == task.last
           g    == task.got
<1>1. /\ df \in Files /\ Whole(df) /\ g \in Files /\ last = NewestIn(df)
      /\ last \in Int /\ last \in Rows(df) \cup {-1}
      /\ \A k \in Rows(df) : k \in Nat /\ k <= last
  BY NewestRow DEF DaySound, DayTask, Tasks
<1>2. PICK t \in 0 .. LastTime, stop \in Int :
         /\ g = Snapshot(t, stop)
         /\ IF last >= LegacyStart THEN stop <= last
                                   ELSE stop >= LegacyStart - 1 \/ stop >= t \div 2
  BY DEF DayTask
<1>3. \A j, k \in Rows(df) : j < k => j >= LegacyStart - 1
  BY DEF DaySound
<1> DEFINE F == Replace(df, last, g)
<1> HIDE DEF last, g
<1>4. LegacyStart \in Nat /\ LastTime \in Nat /\ t \in Nat
  BY LegacyConstants
<1>5. stop <= last \/ Rows(df) \subseteq {last}
  <2>1. CASE last >= LegacyStart
    BY <1>2, <2>1
  <2>2. ASSUME last < LegacyStart, NEW j \in Rows(df), j # last PROVE FALSE
    <3>1. j \in Nat /\ j < last /\ last \in Rows(df)
      BY <1>1, <2>2
    <3>2. j >= LegacyStart - 1
      BY <1>3, <3>1
    <3> QED
      BY <1>1, <1>4, <2>2, <3>1, <3>2
  <2>3. CASE last < LegacyStart
    BY <2>2, <2>3
  <2> QED
    BY <1>1, <1>4, <2>1, <2>3
<1>6. \A k \in BarNumbers : g[k] = IF k <= LastTime THEN Snapshot(t, stop)[k] ELSE Missing
  <2> SUFFICES ASSUME NEW k \in BarNumbers PROVE k <= LastTime
    BY <1>2
  <2>1. LastTime \div 2 \in Nat /\ 2 * (LastTime \div 2) <= LastTime
    BY <1>4, HalfFacts
  <2> QED
    BY <1>4, <2>1 DEF BarNumbers
<1>7. /\ F \in Files /\ Whole(F)
      /\ \A k \in BarNumbers : /\ k < last => F[k] = df[k]
                               /\ k >= last => F[k] = g[k]
      /\ \A k \in BarNumbers :
            g[k] = IF k <= LastTime /\ k >= stop THEN ListedAt(t, k) ELSE Missing
  BY <1>1, <1>4, <1>5, <1>6, Replaced
<1> HIDE DEF F
<1>8. ASSUME NEW j \in Rows(F), NEW k \in Rows(F), j < k PROVE j >= LegacyStart - 1
  <2>1. /\ j \in BarNumbers /\ k \in BarNumbers /\ j \in Nat /\ k \in Nat
        /\ F[j] # Missing /\ F[k] # Missing
    BY BarFacts DEF Rows
  <2>2. CASE j < last
    <3>1. j \in Rows(df)
      BY <1>7, <2>1, <2>2 DEF Rows
    <3>2. last \in Rows(df)
      BY <1>1, <2>1, <2>2
    <3> QED
      BY <1>3, <2>2, <3>1, <3>2
  <2>3. CASE j >= last
    <3>1. k >= last
      BY <1>1, <1>8, <2>1, <2>3
    <3>2. g[j] # Missing /\ g[k] # Missing
      BY <1>7, <2>1, <2>3, <3>1
    <3>3. j >= stop /\ ListedAt(t, k) # Missing
      BY <1>7, <2>1, <3>2
    <3>4. 2 * k <= t
      BY <1>4, <2>1, <3>3 DEF ListedAt
    <3>5. t \div 2 \in Nat /\ t < 2 * (t \div 2) + 2
      BY <1>4, HalfFacts
    <3>6. ~ (stop >= t \div 2)
      BY <1>4, <1>8, <2>1, <3>3, <3>4, <3>5
    <3> HIDE DEF ListedAt
    <3> QED
      BY <1>1, <1>2, <1>4, <2>1, <2>3, <3>3, <3>6
  <2> QED
    BY <1>1, <2>1, <2>2, <2>3
<1>9. DaySound(F)
  BY <1>7, <1>8 DEF DaySound
<1> QED
  BY <1>9 DEF F, last, g

LEMMA SaveDaysInv ==
  ASSUME LegacyInv, NEW c \in LegacyCodes, SaveDays(c)
  PROVE  LegacyInv'
<1>1. CodeInv(c) /\ LegacyTypeOK /\ legacyTask[c] \in Tasks
  BY DEF LegacyInv, LegacyTypeOK
<1>2. /\ UNCHANGED <<now, yearFile, yearMade, legacy, skipped>>
      /\ legacy.pc = "day" /\ legacyTask[c].pc = "save"
  BY DEF SaveDays
<1>3. ASSUME LegacyStep(c, "done"),
             dayFile' = [dayFile EXCEPT ![c] = Replace(@, legacyTask[c].last, legacyTask[c].got)]
      PROVE  LegacyInv'
  <2> DEFINE F == Replace(dayFile[c], legacyTask[c].last, legacyTask[c].got)
  <2>1. DaySound(F)
    BY <1>1, <1>2, DaysSaved DEF CodeInv
  <2>2. F \in Files
    BY <2>1 DEF DaySound
  <2>3. dayFile' = [dayFile EXCEPT ![c] = F]
    BY <1>3
  <2> HIDE DEF F
  <2>4. /\ dayFile' \in [LegacyCodes -> Files] /\ dayFile'[c] = F
        /\ \A d \in LegacyCodes \ {c} : dayFile'[d] = dayFile[d]
    BY <1>1, <2>2, <2>3 DEF LegacyTypeOK
  <2>5. /\ legacyTask' \in [LegacyCodes -> Tasks]
        /\ \A d \in LegacyCodes \ {c} : legacyTask'[d] = legacyTask[d]
    <3>1. "done" \in TaskPcs
      BY DEF TaskPcs
    <3> QED
      BY <1>1, <1>3, <3>1, StepType
  <2>6. DayTask(dayFile'[c], legacyTask'[c])
    BY <1>1, <1>3 DEF DayTask, LegacyStep, LegacyTypeOK
  <2>7. LegacyTypeOK' /\ CodeInv(c)'
    BY <1>1, <1>2, <2>1, <2>4, <2>5, <2>6 DEF LegacyTypeOK, CodeInv, Made, Skipped, Current
  <2> QED
    BY <1>2, <2>4, <2>5, <2>7, CodeSteps
<1>4. ASSUME LegacyFails(c), dayFile' = dayFile PROVE LegacyInv'
  <2>1. /\ FilesSound(yearFile[c], Made(c)', Skipped(c), Current) /\ yearMade' \subseteq LegacyCodes \X Years
        /\ legacy.pc # "minute"
    BY <1>1, <1>2 DEF CodeInv, LegacyTypeOK, Made
  <2> QED
    BY <1>2, <1>4, <2>1, FailsInv
<1> QED
  BY <1>3, <1>4 DEF SaveDays

LEMMA OpenYearInv ==
  ASSUME LegacyInv, NEW c \in LegacyCodes, OpenYear(c)
  PROVE  LegacyInv'
<1>1. CodeInv(c) /\ LegacyTypeOK /\ legacyTask[c] \in Tasks
  BY DEF LegacyInv, LegacyTypeOK
<1>2. /\ UNCHANGED <<now, dayFile, yearFile, yearMade, legacy, skipped>>
      /\ legacy.pc = "minute" /\ legacyTask[c].pc = "begin"
  BY DEF OpenYear
<1>3. MinuteTask(yearFile[c], Made(c), legacyTask[c], legacy.year) /\ legacyTask[c].got = Empty
  BY <1>1, <1>2 DEF CodeInv, MinuteTask
<1>4. PICK pc \in {"this year", "last year"} :
         /\ LegacyStep(c, pc)
         /\ pc = "this year" <=> <<c, legacy.year>> \in yearMade
  BY DEF OpenYear
<1>5. pc = "this year" <=> legacy.year \in Made(c)
  BY <1>1, <1>4 DEF Made, LegacyTypeOK
<1>6. /\ legacyTask' \in [LegacyCodes -> Tasks]
      /\ \A d \in LegacyCodes \ {c} : legacyTask'[d] = legacyTask[d]
      /\ legacyTask'[c].pc = pc /\ legacyTask'[c].got = Empty
  <2>1. pc \in TaskPcs
    BY DEF TaskPcs
  <2> QED
    BY <1>1, <1>3, <1>4, <2>1, StepType, SteppedTask
<1>7. MinuteTask(yearFile[c], Made(c), legacyTask'[c], legacy.year)
  BY <1>3, <1>5, <1>6 DEF MinuteTask
<1>8. LegacyTypeOK' /\ CodeInv(c)'
  BY <1>1, <1>2, <1>6, <1>7 DEF LegacyTypeOK, CodeInv, Made, Skipped, Current
<1> QED
  BY <1>2, <1>6, <1>8, CodeSteps

(***************************************************************************)
(* Minute files are made.                                                  *)
(***************************************************************************)

\* A file may be made when the years since the first rows are full.
LEMMA MakeYear ==
  ASSUME NEW yf, NEW made, NEW sk, NEW year \in Int, FilesSound(yf, made, sk, year),
         NEW y \in Years, y <= year,
         y \in made \/ \A w, x \in Years : w <= x /\ x < y /\ Rows(yf[w]) # {} => Joined(yf, sk, x)
  PROVE  FilesSound(yf, made \cup {y}, sk, year)
<1>1. /\ yf \in [Years -> Files] /\ made \subseteq Years /\ \A z \in made : z <= year
      /\ \A z \in Years : YearSound(yf, made, z)
      /\ YearsJoin(yf, made, sk) /\ LookBack(yf, sk, year)
  BY DEF FilesSound
<1>2. \A z \in Years : YearSound(yf, made \cup {y}, z)
  BY <1>1 DEF YearSound
<1>3. YearsJoin(yf, made \cup {y}, sk)
  BY <1>1 DEF YearsJoin
<1> QED
  BY <1>1, <1>2, <1>3 DEF FilesSound

\* This year's file, after last year's was completed.
LEMMA OpensThisYear ==
  ASSUME now \in 0 .. LastTime, NEW yf, NEW made, NEW sk, FilesSound(yf, made, sk, Current),
         NEW year \in Nat, year <= Current, Full(yf, year - 1),
         NEW w \in Years, NEW x \in Years, w <= x, x < year, Rows(yf[w]) # {}
  PROVE  Joined(yf, sk, x)
<1>1. Current \in Nat /\ w \in Int /\ x \in Int
  BY YearFacts DEF Years
<1>2. CASE x = year - 1
  BY <1>2 DEF Joined
<1>3. CASE x < year - 1
  <2>1. x < Current - 1
    BY <1>1, <1>3
  <2> QED
    BY <2>1 DEF FilesSound, LookBack
<1> QED
  BY <1>1, <1>2, <1>3

\* Last year's file, made when this year's is not there.
LEMMA OpensLastYear ==
  ASSUME now \in 0 .. LastTime, NEW yf, NEW made, NEW sk, FilesSound(yf, made, sk, Current),
         NEW year \in Nat, year <= Current,
         NEW w \in Years, NEW x \in Years, w <= x, x < year - 1, Rows(yf[w]) # {}
  PROVE  Joined(yf, sk, x)
<1>1. Current \in Nat /\ x \in Int
  BY YearFacts DEF Years
<1>2. x < Current - 1
  BY <1>1
<1> QED
  BY <1>2 DEF FilesSound, LookBack

\* What the clock of an update says of its year.
LEMMA YearOfUpdate ==
  ASSUME LegacyInv, legacy.pc = "minute"
  PROVE  /\ legacy.year \in Nat /\ now \in 0 .. LastTime
         /\ Current \in Nat /\ Current \in Years
         /\ legacy.year = Current \/ legacy.year = Current - 1
         /\ legacy.year \in Years /\ legacy.year - 1 \in Years
         /\ FirstOf(legacy.year) \in Int /\ FirstOf(legacy.year) <= now \div 2
         /\ FirstOf(legacy.year) >= 0
<1>1. legacy.year \in Nat /\ now \in 0 .. LastTime /\ now \in Nat
  BY LegacyConstants DEF LegacyInv, LegacyTypeOK
<1>2. Current \in Nat /\ Current \in Years
  BY <1>1, YearFacts
<1>3. legacy.year = Current \/ legacy.year = Current - 1
  BY DEF LegacyInv, Punctual
<1>4. now \div 2 \in Int /\ legacy.year \in Int
  BY <1>1, HalfFacts
<1>5. FirstOf(legacy.year) \in Int /\ FirstOf(legacy.year) <= now \div 2
  BY <1>2, <1>3, <1>4, YearOrder DEF Current
<1>6. FirstOf(legacy.year) >= 0
  <2>1. YearOf(FirstOf(legacy.year)) = legacy.year
    BY <1>4, YearOrder
  <2>2. FirstOf(0) <= FirstOf(legacy.year)
    BY <1>1, <1>5, <2>1, YearOrder
  <2> QED
    BY <2>2, NoughtFirst
<1> QED
  <2>1. /\ legacy.year - 1 \in Int /\ -1 <= legacy.year /\ legacy.year <= Current
        /\ -1 <= legacy.year - 1 /\ legacy.year - 1 <= Current
    BY <1>1, <1>2, <1>3
  <2>2. legacy.year \in Years /\ legacy.year - 1 \in Years
    BY <1>2, <1>4, <2>1, YearsDown
  <2> QED
    BY <1>1, <1>2, <1>3, <1>5, <1>6, <2>2

LEMMA FetchMinutesMakes ==
  ASSUME LegacyInv, NEW c \in LegacyCodes, FetchMinutes(c)
  PROVE  /\ Filed(c) \in Years
         /\ yearMade' = yearMade \cup {<<c, Filed(c)>>} /\ yearMade' \subseteq LegacyCodes \X Years
         /\ Made(c)' = Made(c) \cup {Filed(c)}
         /\ FilesSound(yearFile[c], Made(c)', Skipped(c), Current)
         /\ \A y \in Made(c)' : y <= legacy.year
         /\ \A d \in LegacyCodes \ {c}, y \in Years : <<d, y>> \in yearMade' <=> <<d, y>> \in yearMade
<1>1. CodeInv(c) /\ LegacyTypeOK /\ legacy.pc = "minute" /\ yearMade' = yearMade \cup {<<c, Filed(c)>>}
  BY DEF LegacyInv, FetchMinutes
<1>2. /\ FilesSound(yearFile[c], Made(c), Skipped(c), Current)
      /\ MinuteTask(yearFile[c], Made(c), legacyTask[c], legacy.year)
      /\ legacyTask[c].pc \in {"last year", "this year"}
  BY <1>1 DEF CodeInv, FetchMinutes
<1>3. /\ legacy.year \in Nat /\ now \in 0 .. LastTime /\ Current \in Nat
      /\ legacy.year = Current \/ legacy.year = Current - 1
      /\ legacy.year \in Years /\ legacy.year - 1 \in Years
  BY <1>1, YearOfUpdate
<1>4. Filed(c) \in Years /\ Filed(c) <= Current /\ Filed(c) <= legacy.year
  <2>1. Filed(c) = legacy.year \/ Filed(c) = legacy.year - 1
    BY DEF Filed
  <2> QED
    BY <1>3, <2>1
<1>5. /\ Made(c)' = Made(c) \cup {Filed(c)} /\ yearMade' \subseteq LegacyCodes \X Years
      /\ \A d \in LegacyCodes \ {c}, y \in Years : <<d, y>> \in yearMade' <=> <<d, y>> \in yearMade
  BY <1>1, <1>4 DEF Made, LegacyTypeOK
<1>6. \/ Filed(c) \in Made(c)
      \/ \A w, x \in Years : w <= x /\ x < Filed(c) /\ Rows(yearFile[c][w]) # {}
                                => Joined(yearFile[c], Skipped(c), x)
  <2>1. CASE legacyTask[c].pc = "this year"
    <3>1. Filed(c) = legacy.year
      BY <2>1 DEF Filed
    <3>2. CASE legacy.year \notin Made(c)
      <4>1. Full(yearFile[c], legacy.year - 1) /\ legacy.year <= Current
        <5>1. Full(yearFile[c], legacy.year - 1)
          BY <1>2, <2>1, <3>2 DEF MinuteTask
        <5> QED
          BY <1>3, <5>1
      <4> QED
        BY <1>2, <1>3, <3>1, <4>1, OpensThisYear
    <3> QED
      BY <3>1, <3>2
  <2>2. CASE legacyTask[c].pc = "last year"
    <3>1. Filed(c) = legacy.year - 1
      BY <2>2 DEF Filed
    <3>2. CASE legacy.year - 1 \notin Made(c)
      <4>1. legacy.year <= Current
        BY <1>3
      <4> QED
        BY <1>2, <1>3, <3>1, <4>1, OpensLastYear
    <3> QED
      BY <3>1, <3>2
  <2> QED
    BY <1>2, <2>1, <2>2
<1>7. FilesSound(yearFile[c], Made(c) \cup {Filed(c)}, Skipped(c), Current)
  <2>1. Current \in Int
    BY <1>3
  <2> QED
    BY <1>2, <1>4, <1>6, <2>1, MakeYear
<1>8. \A y \in Made(c)' : y <= legacy.year
  BY <1>2, <1>4, <1>5 DEF MinuteTask
<1> QED
  BY <1>1, <1>4, <1>5, <1>7, <1>8

\* What is fetched, or was kept from last year's file, continues the file.
LEMMA FetchedBars ==
  ASSUME LegacyInv, NEW c \in LegacyCodes, FetchMinutes(c), NEW last, NEW got,
         last = NewestIn(yearFile[c][Filed(c)]),
         got = IF Rows(legacyTask[c].got) = {} THEN Until(last) ELSE legacyTask[c].got
  PROVE  /\ last \in Int /\ got \in Files
         /\ \E t \in 0 .. LastTime, stop \in Int :
               /\ got = Snapshot(t, stop)
               /\ FirstOf(legacy.year) <= t \div 2
               /\ stop <= last \/ (legacyTask[c].pc = "this year" /\ last = -1
                                                   /\ stop < FirstOf(legacy.year))
<1>1. /\ CodeInv(c) /\ LegacyTypeOK /\ legacy.pc = "minute" /\ legacyTask[c] \in Tasks
      /\ legacyTask[c].pc \in {"last year", "this year"}
  BY DEF LegacyInv, LegacyTypeOK, FetchMinutes
<1>2. /\ FilesSound(yearFile[c], Made(c), Skipped(c), Current)
      /\ MinuteTask(yearFile[c], Made(c), legacyTask[c], legacy.year)
  BY <1>1 DEF CodeInv
<1>3. now \in 0 .. LastTime /\ FirstOf(legacy.year) <= now \div 2 /\ legacy.year \in Years
  BY <1>1, YearOfUpdate
<1>4. Filed(c) \in Years /\ yearFile[c][Filed(c)] \in Files
  BY <1>2, FetchMinutesMakes DEF FilesSound
<1>5. last \in Int /\ last >= -1 /\ last \in Rows(yearFile[c][Filed(c)]) \cup {-1}
  BY <1>4, NewestRow
<1>6. CASE Rows(legacyTask[c].got) = {}
  <2>1. got = Until(last) /\ got \in Files
    BY <1>6 DEF Until, Listed, Files
  <2>2. PICK stop \in Int : Until(last) = Snapshot(now, stop) /\ stop <= last
    BY <1>3, <1>5, UntilFacts
  <2> QED
    BY <1>3, <1>5, <2>1, <2>2
<1>7. CASE Rows(legacyTask[c].got) # {}
  <2>1. got = legacyTask[c].got /\ got \in Files /\ got # Empty
    BY <1>1, <1>7, EmptyFile DEF Tasks
  <2>2. legacyTask[c].pc = "this year" /\ Filed(c) = legacy.year
    BY <1>1, <1>2, <2>1 DEF MinuteTask, Filed
  <2>3. /\ legacy.year \notin Made(c)
        /\ \E t \in 0 .. LastTime, stop \in Int :
              /\ got = Snapshot(t, stop)
              /\ FirstOf(legacy.year) <= t \div 2 /\ stop < FirstOf(legacy.year)
    BY <1>2, <2>1, <2>2 DEF MinuteTask
  <2>4. Rows(yearFile[c][legacy.year]) = {}
    BY <1>2, <1>3, <2>3 DEF FilesSound, YearSound
  <2>5. last = -1
    BY <1>5, <2>2, <2>4
  <2> QED
    BY <1>5, <2>1, <2>2, <2>3, <2>5
<1> QED
  BY <1>6, <1>7

LEMMA FetchMinutesInv ==
  ASSUME LegacyInv, NEW c \in LegacyCodes, FetchMinutes(c)
  PROVE  LegacyInv'
<1>1. /\ CodeInv(c) /\ LegacyTypeOK /\ legacy.pc = "minute" /\ legacyTask[c] \in Tasks
      /\ legacyTask[c].pc \in {"last year", "this year"}
      /\ UNCHANGED <<now, dayFile, yearFile, legacy, skipped>>
  BY DEF LegacyInv, LegacyTypeOK, FetchMinutes
<1>2. /\ yearMade' \subseteq LegacyCodes \X Years
      /\ Made(c)' = Made(c) \cup {Filed(c)}
      /\ FilesSound(yearFile[c], Made(c)', Skipped(c), Current)
      /\ \A y \in Made(c)' : y <= legacy.year
      /\ \A d \in LegacyCodes \ {c}, y \in Years : <<d, y>> \in yearMade' <=> <<d, y>> \in yearMade
  BY FetchMinutesMakes
<1>3. CASE LegacyFails(c)
  BY <1>1, <1>2, <1>3, FailsInv
<1>4. CASE ~ LegacyFails(c)
  <2> DEFINE last == NewestIn(yearFile[c][Filed(c)])
             got  == IF Rows(legacyTask[c].got) = {} THEN Until(last) ELSE legacyTask[c].got
             pc   == IF legacyTask[c].pc = "last year" THEN "save last" ELSE "save this"
             task == [legacyTask[c] EXCEPT !.pc = pc, !.last = last, !.got = got]
  <2>1. legacyTask' = [legacyTask EXCEPT ![c] = task]
    BY <1>1, <1>4 DEF FetchMinutes, LegacyTypeOK
  <2>2. /\ last \in Int /\ got \in Files
        /\ \E t \in 0 .. LastTime, stop \in Int :
              /\ got = Snapshot(t, stop)
              /\ FirstOf(legacy.year) <= t \div 2
              /\ stop <= last \/ (legacyTask[c].pc = "this year" /\ last = -1
                                                  /\ stop < FirstOf(legacy.year))
    BY FetchedBars
  <2>3. pc \in TaskPcs /\ pc \in {"save last", "save this"}
    BY DEF TaskPcs
  <2>4. /\ pc = "save last" => legacyTask[c].pc = "last year" /\ Filed(c) = legacy.year - 1
        /\ pc = "save this" => legacyTask[c].pc = "this year" /\ Filed(c) = legacy.year
    BY <1>1 DEF Filed
  <2>5. last = NewestIn(yearFile[c][Filed(c)])
    OBVIOUS
  <2> HIDE DEF last, got, pc
  <2>6. task \in Tasks /\ task.pc = pc /\ task.last = last /\ task.got = got
    BY <1>1, <2>2, <2>3 DEF Tasks
  <2> HIDE DEF task
  <2>7. /\ legacyTask' \in [LegacyCodes -> Tasks] /\ legacyTask'[c] = task
        /\ \A d \in LegacyCodes \ {c} : legacyTask'[d] = legacyTask[d]
    BY <1>1, <2>1, <2>6 DEF LegacyTypeOK
  <2>8. FetchedFor(task, legacy.year, yearFile[c][Filed(c)])
    <3>1. legacyTask[c].pc = "this year" => pc = "save this"
      BY <2>3, <2>4
    <3> QED
      BY <2>2, <2>5, <2>6, <3>1 DEF FetchedFor
  <2>9. /\ pc = "save last" => legacy.year \notin Made(c)' /\ legacy.year - 1 \in Made(c)'
        /\ pc = "save this" => legacy.year \in Made(c)'
    <3>1. legacy.year \in Nat
      BY <1>1 DEF LegacyTypeOK
    <3>2. legacyTask[c].pc = "last year" => legacy.year \notin Made(c)
      BY <1>1 DEF CodeInv, MinuteTask
    <3>3. legacy.year # legacy.year - 1
      BY <3>1
    <3>4. CASE pc = "save last"
      BY <1>2, <2>4, <3>2, <3>3, <3>4
    <3>5. CASE pc = "save this"
      BY <1>2, <2>4, <3>5
    <3> QED
      BY <2>3, <3>4, <3>5
  <2>10. MinuteTask(yearFile[c], Made(c)', task, legacy.year)
    BY <1>2, <2>3, <2>4, <2>6, <2>8, <2>9 DEF MinuteTask
  <2>11. LegacyTypeOK'
    BY <1>1, <1>2, <2>7 DEF LegacyTypeOK
  <2>12. CodeInv(c)'
    BY <1>1, <1>2, <2>7, <2>10 DEF CodeInv, Current, Skipped
  <2> QED
    BY <1>1, <1>2, <2>7, <2>11, <2>12, CodeSteps
<1> QED
  BY <1>3, <1>4

\* Time passes.
LEMMA LegacyTickInv == LegacyInv /\ LegacyTick => LegacyInv'
<1> SUFFICES ASSUME LegacyInv, LegacyTick PROVE LegacyInv'
  OBVIOUS
<1> DEFINE later == YearOf((now + 1) \div 2)
<1>1. /\ now < LastTime /\ now' = now + 1 /\ (legacy.pc # "off" => now = legacy.begun)
      /\ legacy' = [legacy EXCEPT !.marked = FALSE]
      /\ UNCHANGED <<dayFile, yearFile, yearMade, legacyTask>>
      /\ skipped' = IF later = Current THEN skipped
                    ELSE skipped \cup {<<c, Current>> : c \in {d \in LegacyCodes : Skips(d, Current)}}
  BY DEF LegacyTick, Current
<1>2. LegacyTypeOK /\ now \in Nat /\ now' \in 0 .. LastTime /\ now \in 0 .. LastTime
  BY <1>1, LegacyConstants DEF LegacyInv, LegacyTypeOK
<1>3. Current' = later
  BY <1>1 DEF Current
<1>4. Current \in Nat /\ Current \in Years
  BY <1>2, YearFacts
<1>5. later \in Int /\ (later = Current \/ later = Current + 1)
  <2>1. /\ now \div 2 \in Int /\ (now + 1) \div 2 \in Int
        /\ now \div 2 <= (now + 1) \div 2 /\ (now + 1) \div 2 <= now \div 2 + 1
    BY <1>2
  <2>2. later \in Int /\ Current <= later /\ later <= Current + 1
    BY <2>1, YearsGrow DEF Current
  <2> QED
    BY <1>4, <2>2
<1> HIDE DEF later
<1>6. LegacyTypeOK'
  <2>1. legacy' \in [pc : {"off", "day", "minute"}, year : Nat, begun : Nat, marked : BOOLEAN]
    BY <1>1, <1>2 DEF LegacyTypeOK
  <2>2. now' \in 1 .. LastTime
    BY <1>1, <1>2
  <2> QED
    BY <1>1, <1>2, <1>4, <2>1, <2>2 DEF LegacyTypeOK
<1>7. /\ legacy'.pc = legacy.pc /\ legacy'.year = legacy.year /\ legacy'.begun = legacy.begun
      /\ legacy.year \in Nat /\ legacy.begun \in Nat
  BY <1>1, <1>2 DEF LegacyTypeOK
<1>8. Punctual'
  <2> SUFFICES ASSUME legacy.pc # "off"
               PROVE  /\ now' \in {legacy.begun, legacy.begun + 1}
                      /\ legacy.pc = "minute" => \/ legacy.year = later
                                                 \/ now' # legacy.begun /\ legacy.year = later - 1
    BY <1>3, <1>7 DEF Punctual
  <2>1. now = legacy.begun /\ now' = legacy.begun + 1 /\ now' # legacy.begun
    BY <1>1, <1>2
  <2>2. legacy.pc = "minute" => legacy.year = Current
    BY <2>1 DEF LegacyInv, Punctual
  <2> QED
    BY <1>4, <1>5, <2>1, <2>2
<1>9. ASSUME NEW c \in LegacyCodes PROVE CodeInv(c)'
  <2>1. CodeInv(c) /\ Made(c)' = Made(c)
    BY <1>1 DEF LegacyInv, Made
  <2>2. FilesSound(yearFile[c], Made(c), Skipped(c), Current)
    BY <2>1 DEF CodeInv
  <2>3. \A y \in Made(c) : y \in Int /\ y <= later
    BY <1>4, <1>5, <2>2 DEF FilesSound, Years
  <2> DEFINE sk == Skipped(c)'
  <2>4. /\ \A y \in Skipped(c) : y \in sk
        /\ \A x \in Years : Joined(yearFile[c], Skipped(c), x) => Joined(yearFile[c], sk, x)
    BY <1>1 DEF Skipped, Joined
  <2>5. later = Current + 1 /\ Skips(c, Current) => Current \in sk
    BY <1>1, <1>4 DEF Skipped
  <2> HIDE DEF sk
  <2>6. LookBack(yearFile[c], sk, later)
    <3> SUFFICES ASSUME NEW y \in Years, NEW x \in Years,
                        y <= x, x < later - 1, Rows(yearFile[c][y]) # {}
                 PROVE  Joined(yearFile[c], sk, x)
      BY DEF LookBack
    <3>1. x \in Int /\ y \in Int
      BY DEF Years
    <3>2. CASE x < Current - 1
      <4>1. Joined(yearFile[c], Skipped(c), x)
        BY <2>2, <3>2 DEF FilesSound, LookBack
      <4> QED
        BY <2>4, <4>1
    <3>3. CASE x = Current - 1 /\ later = Current + 1
      <4>1. CASE Rows(yearFile[c][Current]) = {}
        <5>1. Current \in sk
          BY <2>5, <3>3, <4>1 DEF Skips
        <5>2. x + 1 = Current
          BY <1>4, <3>1, <3>3
        <5> QED
          BY <5>1, <5>2 DEF Joined
      <4>2. CASE Rows(yearFile[c][Current]) # {}
        <5>1. Current \in Made(c) /\ x < Current
          BY <1>4, <2>2, <3>1, <3>3, <4>2 DEF FilesSound, YearSound
        <5>2. Joined(yearFile[c], Skipped(c), x)
          BY <2>2, <5>1 DEF FilesSound, YearsJoin
        <5> QED
          BY <2>4, <5>2
      <4> QED
        BY <4>1, <4>2
    <3> QED
      BY <1>4, <1>5, <3>1, <3>2, <3>3
  <2>7. YearsJoin(yearFile[c], Made(c), sk)
    BY <2>2, <2>4 DEF FilesSound, YearsJoin
  <2>8. FilesSound(yearFile[c], Made(c), sk, later)
    BY <2>2, <2>3, <2>6, <2>7 DEF FilesSound
  <2>9. FilesSound(yearFile[c], Made(c), Skipped(c), Current)'
    BY <1>1, <1>3, <2>1, <2>8 DEF sk
  <2> QED
    BY <1>1, <1>3, <1>7, <2>1, <2>9 DEF CodeInv
<1> QED
  BY <1>6, <1>8, <1>9 DEF LegacyInv

\* What of the fetched bars the file of a year takes.
Kept(got, y) == [k \in BarNumbers |-> IF YearOf(k) > y THEN Missing ELSE got[k]]

\* What a transaction leaves of a year's file.
LEMMA YearSaved ==
  ASSUME NEW f \in Files, Whole(f), NEW last \in Int, last = NewestIn(f),
         NEW year \in Nat, NEW y \in Int, y \in {year - 1, year},
         \A k \in Rows(f) : YearOf(k) <= y,
         Rows(f) # {} => y >= 0 /\ FirstOf(y) \in Rows(f),
         NEW t \in 0 .. LastTime, NEW stop \in Int, FirstOf(year) <= t \div 2,
         stop <= last \/ (y = year /\ last = -1 /\ stop < FirstOf(year)),
         NEW F, F = Replace(f, last, Kept(Snapshot(t, stop), y))
  PROVE  /\ F \in Files /\ Whole(F)
         /\ \A k \in Rows(F) : YearOf(k) <= y
         /\ y >= 0 => FirstOf(y) \in Rows(F)
         /\ y < 0 => Rows(F) = {}
         /\ y < year => \A k \in BarNumbers : YearOf(k) = y => F[k] = "final"
<1> DEFINE top  == FirstOf(y + 1) - 1
           g    == Kept(Snapshot(t, stop), y)
<1>1. /\ last >= -1 /\ last \in Rows(f) \cup {-1}
      /\ \A k \in Rows(f) : k \in Nat /\ k <= last
  BY NewestRow
<1>2. stop <= last \/ (y = year /\ last = -1 /\ stop < FirstOf(year))
  OBVIOUS
<1>3. /\ y \in Int /\ year \in Int /\ y + 1 \in Int
      /\ FirstOf(y) \in Int /\ FirstOf(y + 1) \in Int /\ FirstOf(year) \in Int
      /\ FirstOf(y) <= FirstOf(year) /\ YearOf(FirstOf(y)) = y
      /\ y >= 0 => FirstOf(y) >= 0
      /\ y < year => FirstOf(year) = FirstOf(y + 1)
  <2>1. y \in Int /\ year \in Int /\ y + 1 \in Int /\ (y = year \/ (y < year /\ y + 1 = year))
    OBVIOUS
  <2>2. FirstOf(y) \in Int /\ FirstOf(y + 1) \in Int /\ FirstOf(y + 1) = FirstOf(y) + YearLength
    BY <2>1, FirstOfNext, LegacyConstants
  <2>3. YearOf(FirstOf(y)) = y
    BY <2>1, YearOrder
  <2>4. y >= 0 => FirstOf(0) <= FirstOf(y)
    BY <2>2, <2>3, YearOrder
  <2> QED
    BY <2>1, <2>2, <2>3, <2>4, LegacyConstants, NoughtFirst
<1>4. /\ t \in Nat /\ t \div 2 \in BarNumbers /\ t \div 2 \in Nat /\ 2 * (t \div 2) <= t
      /\ t < 2 * (t \div 2) + 2
  BY LegacyConstants, HalfFacts, BarFacts
<1>5. \A k \in BarNumbers : k \in Nat /\ YearOf(k) \in Nat /\ (YearOf(k) > y <=> FirstOf(y + 1) <= k)
  <2> SUFFICES ASSUME NEW k \in BarNumbers
               PROVE  k \in Nat /\ YearOf(k) \in Nat /\ (YearOf(k) > y <=> FirstOf(y + 1) <= k)
    OBVIOUS
  <2>1. k \in Nat /\ YearOf(k) \in Nat
    BY BarFacts
  <2>2. y + 1 <= YearOf(k) <=> FirstOf(y + 1) <= k
    BY <1>3, <2>1, YearOrder
  <2> QED
    BY <1>3, <2>1, <2>2
<1>6. g \in Files
  BY DEF Files, Kept, Snapshot, ListedAt
<1>7. \A k \in BarNumbers : g[k] = IF k <= top THEN Snapshot(t, stop)[k] ELSE Missing
  <2> SUFFICES ASSUME NEW k \in BarNumbers PROVE YearOf(k) > y <=> ~ (k <= top)
    BY <1>2 DEF Kept
  <2> QED
    BY <1>3, <1>5
<1>8. stop <= last \/ Rows(f) \subseteq {last}
  <2>1. ASSUME last = -1 PROVE Rows(f) \subseteq {last}
    <3> SUFFICES ASSUME NEW k \in Rows(f) PROVE FALSE
      OBVIOUS
    <3> QED
      BY <1>1, <2>1
  <2> QED
    BY <1>2, <2>1
<1>9. top \in Int /\ F = Replace(f, last, g)
  BY <1>3
<1> HIDE DEF g, top
<1>10. /\ F \in Files /\ Whole(F)
       /\ \A k \in BarNumbers : /\ k < last => F[k] = f[k]
                                /\ k >= last => F[k] = g[k]
       /\ \A k \in BarNumbers : g[k] = IF k <= top /\ k >= stop THEN ListedAt(t, k) ELSE Missing
  BY <1>1, <1>6, <1>7, <1>8, <1>9, Replaced
<1>11. ASSUME NEW k \in Rows(F) PROVE YearOf(k) <= y
  <2>1. k \in BarNumbers /\ F[k] # Missing /\ k \in Nat /\ YearOf(k) \in Nat
    BY <1>5 DEF Rows
  <2>2. CASE k < last
    <3>1. k \in Rows(f)
      BY <1>10, <2>1, <2>2 DEF Rows
    <3> QED
      BY <1>1, <3>1
  <2>3. CASE k >= last
    <3>1. k <= top
      BY <1>10, <2>1, <2>3
    <3> QED
      BY <1>3, <1>5, <2>1, <3>1 DEF top
  <2> QED
    BY <1>1, <2>1, <2>2, <2>3
<1>12. ASSUME y >= 0 PROVE FirstOf(y) \in Rows(F)
  <2>1. FirstOf(y) \in BarNumbers /\ FirstOf(y) \in Nat /\ 2 * FirstOf(y) <= t
    <3>1. FirstOf(y) \in Nat /\ FirstOf(y) <= t \div 2
      BY <1>2, <1>3, <1>4, <1>12
    <3> QED
      BY <1>4, <3>1, BarFacts
  <2>2. CASE FirstOf(y) < last
    <3>1. last \in Rows(f)
      BY <1>1, <2>1, <2>2
    <3>2. FirstOf(y) \in Rows(f)
      BY <1>1, <3>1
    <3> QED
      BY <1>10, <2>1, <2>2, <3>2 DEF Rows
  <2>3. CASE FirstOf(y) >= last
    <3>1. FirstOf(y) >= stop
      <4>1. CASE stop <= last
        BY <1>1, <2>1, <2>3, <4>1
      <4>2. CASE y = year /\ stop < FirstOf(year)
        BY <1>3, <4>2
      <4> QED
        BY <1>2, <4>1, <4>2
    <3>2. FirstOf(y) <= top
      <4>1. ~ (YearOf(FirstOf(y)) > y)
        BY <1>3
      <4>2. ~ (FirstOf(y + 1) <= FirstOf(y))
        BY <1>5, <2>1, <4>1
      <4> QED
        BY <1>3, <4>2 DEF top
    <3>3. F[FirstOf(y)] = ListedAt(t, FirstOf(y))
      BY <1>10, <2>1, <2>3, <3>1, <3>2
    <3>4. ListedAt(t, FirstOf(y)) # Missing
      BY <1>4, <2>1 DEF ListedAt, Missing
    <3> QED
      BY <2>1, <3>3, <3>4 DEF Rows
  <2> QED
    BY <1>1, <2>1, <2>2, <2>3
<1>13. ASSUME y < 0 PROVE Rows(F) = {}
  <2> SUFFICES ASSUME NEW k \in Rows(F) PROVE FALSE
    OBVIOUS
  <2>1. YearOf(k) \in Nat /\ YearOf(k) <= y
    BY <1>5, <1>11 DEF Rows
  <2> QED
    BY <1>3, <1>13, <2>1
<1>14. ASSUME y < year, NEW k \in BarNumbers, YearOf(k) = y PROVE F[k] = "final"
  <2>1. k \in Nat /\ k < FirstOf(year) /\ FirstOf(y) <= k
    <3>1. k \in Nat /\ k \in Int
      BY <1>5
    <3>2. FirstOf(YearOf(k)) <= k /\ k < FirstOf(YearOf(k) + 1)
      BY <3>1, BarsOfYear
    <3> QED
      BY <1>3, <1>14, <3>1, <3>2
  <2>2. CASE k < last
    <3>1. last \in Rows(f)
      BY <1>1, <2>1, <2>2
    <3>2. FirstOf(y) \in Rows(f)
      BY <1>1, <3>1
    <3>3. f[k] = "final"
      BY <1>1, <1>14, <2>1, <2>2, <3>1, <3>2, WholeBetween
    <3> QED
      BY <1>10, <1>14, <2>2, <3>3
  <2>3. CASE k >= last
    <3>1. k >= stop
      BY <1>1, <1>2, <1>14, <2>1, <2>3
    <3>2. k <= top
      BY <1>3, <1>14, <2>1 DEF top
    <3>3. F[k] = ListedAt(t, k)
      BY <1>10, <1>14, <2>3, <3>1, <3>2
    <3>4. 2 * k < t
      BY <1>2, <1>3, <1>4, <2>1
    <3> QED
      BY <1>4, <2>1, <3>3, <3>4 DEF ListedAt
  <2> QED
    BY <1>1, <2>1, <2>2, <2>3
<1> QED
  BY <1>10, <1>11, <1>12, <1>13, <1>14

\* The files of a code when the newest of them took what was fetched.
LEMMA FilesSaved ==
  ASSUME NEW yf, NEW made, NEW sk, NEW cur, cur \in Nat, cur \in Years, FilesSound(yf, made, sk, cur),
         NEW year \in {cur, cur - 1}, NEW y \in {year, year - 1}, y \in made,
         \A z \in made : z <= y,
         NEW F \in Files, Whole(F), \A k \in Rows(F) : YearOf(k) <= y,
         y >= 0 => FirstOf(y) \in Rows(F), y < 0 => Rows(F) = {},
         y < year => \A k \in BarNumbers : YearOf(k) = y => F[k] = "final",
         NEW yg, yg = [yf EXCEPT ![y] = F]
  PROVE  FilesSound(yg, made, sk, cur)
<1>1. /\ yf \in [Years -> Files] /\ made \subseteq Years /\ \A z \in made : z <= cur
      /\ \A z \in Years : YearSound(yf, made, z)
      /\ YearsJoin(yf, made, sk) /\ LookBack(yf, sk, cur)
  BY DEF FilesSound
<1>2. /\ Years \subseteq Int /\ \A z \in Years : z >= -1
      /\ y \in Years /\ year \in Int /\ y \in Int
  BY <1>1 DEF Years
<1>3. /\ yg \in [Years -> Files] /\ yg[y] = F
      /\ \A z \in Years : z # y => yg[z] = yf[z]
  BY <1>1, <1>2
<1>4. ASSUME NEW z \in Years PROVE YearSound(yg, made, z)
  <2>1. CASE z = y
    BY <1>2, <1>3, <2>1 DEF YearSound
  <2>2. CASE z # y
    BY <1>1, <1>3, <2>2 DEF YearSound
  <2> QED
    BY <2>1, <2>2
<1>5. YearsJoin(yg, made, sk)
  <2> SUFFICES ASSUME NEW w \in Years, NEW z \in made, NEW x \in Years,
                      w <= x, x < z, Rows(yg[w]) # {}
               PROVE  Joined(yg, sk, x)
    BY DEF YearsJoin
  <2>1. w # y /\ x # y
    <3>1. w \in Int /\ x \in Int /\ z \in Int /\ z <= y
      BY <1>1, <1>2
    <3> QED
      BY <1>2, <3>1
  <2>2. yg[w] = yf[w] /\ yg[x] = yf[x]
    BY <1>3, <2>1
  <2>3. Joined(yf, sk, x)
    BY <1>1, <2>2 DEF YearsJoin
  <2> QED
    BY <2>2, <2>3 DEF Joined, Full
<1>6. LookBack(yg, sk, cur)
  <2> SUFFICES ASSUME NEW w \in Years, NEW x \in Years,
                      w <= x, x < cur - 1, Rows(yg[w]) # {}
               PROVE  Joined(yg, sk, x)
    BY DEF LookBack
  <2>1. w \in Int /\ x \in Int /\ w <= x /\ x < cur - 1
    BY <1>2
  <2>2. CASE x = y
    <3>1. y < year
      BY <1>2, <2>1, <2>2
    <3>2. Full(yg, x)
      BY <1>3, <2>2, <3>1 DEF Full
    <3> QED
      BY <3>2 DEF Joined
  <2>3. CASE x # y
    <3>1. w # y
      BY <1>2, <2>1, <2>3
    <3>2. yg[w] = yf[w] /\ yg[x] = yf[x]
      BY <1>3, <2>3, <3>1
    <3>3. Joined(yf, sk, x)
      BY <1>1, <2>1, <3>2 DEF LookBack
    <3> QED
      BY <3>2, <3>3 DEF Joined, Full
  <2> QED
    BY <2>2, <2>3
<1> QED
  BY <1>1, <1>3, <1>4, <1>5, <1>6 DEF FilesSound

\* The year and the rows that the transaction of code c writes.
SavedYear(c) == IF legacyTask[c].pc = "save last" THEN legacy.year - 1 ELSE legacy.year
SavedRows(c) == Replace(yearFile[c][SavedYear(c)], legacyTask[c].last,
                        Kept(legacyTask[c].got, SavedYear(c)))
SavedFiles(c) == [yearFile[c] EXCEPT ![SavedYear(c)] = SavedRows(c)]

LEMMA SavedFile ==
  ASSUME LegacyInv, NEW c \in LegacyCodes, SaveMinutes(c)
  PROVE  /\ SavedYear(c) \in Years /\ SavedRows(c) \in Files
         /\ FilesSound(SavedFiles(c), Made(c), Skipped(c), Current)
         /\ legacyTask[c].pc = "save last" => Full(SavedFiles(c), SavedYear(c))
<1> DEFINE y    == SavedYear(c)
           F    == SavedRows(c)
           f    == yearFile[c][y]
           last == legacyTask[c].last
           year == legacy.year
<1>1. /\ CodeInv(c) /\ LegacyTypeOK /\ legacy.pc = "minute" /\ legacyTask[c] \in Tasks
      /\ legacyTask[c].pc \in {"save last", "save this"}
  BY DEF LegacyInv, LegacyTypeOK, SaveMinutes
<1>2. /\ FilesSound(yearFile[c], Made(c), Skipped(c), Current)
      /\ MinuteTask(yearFile[c], Made(c), legacyTask[c], legacy.year)
  BY <1>1 DEF CodeInv
<1>3. /\ year \in Nat /\ Current \in Nat /\ Current \in Years
      /\ year = Current \/ year = Current - 1
      /\ year \in Years /\ year - 1 \in Years
  BY <1>1, YearOfUpdate
<1>4. /\ legacyTask[c].pc = "save last" => y = year - 1
      /\ legacyTask[c].pc = "save this" => y = year
      /\ y = year \/ y = year - 1
  BY <1>1 DEF SavedYear
<1>5. F = Replace(f, last, Kept(legacyTask[c].got, y))
  BY DEF SavedRows
<1>6. SavedFiles(c) = [yearFile[c] EXCEPT ![y] = F]
  BY DEF SavedFiles
<1>7. legacyTask[c].pc = "save last" => FetchedFor(legacyTask[c], year, yearFile[c][year - 1])
  BY <1>2 DEF MinuteTask
<1>8. legacyTask[c].pc = "save this" => FetchedFor(legacyTask[c], year, yearFile[c][year])
  BY <1>2 DEF MinuteTask
<1>9. /\ legacyTask[c].pc = "save this" => year \in Made(c)
      /\ legacyTask[c].pc = "save last" => year - 1 \in Made(c) /\ year \notin Made(c)
      /\ \A z \in Made(c) : z <= year
  BY <1>2 DEF MinuteTask
<1> HIDE DEF y, F, year
<1>10. FetchedFor(legacyTask[c], year, f)
  <2>1. CASE legacyTask[c].pc = "save last"
    BY <1>4, <1>7, <2>1
  <2>2. CASE legacyTask[c].pc = "save this"
    BY <1>4, <1>8, <2>2
  <2> QED
    BY <1>1, <2>1, <2>2
<1>11. PICK t \in 0 .. LastTime, stop \in Int :
          /\ legacyTask[c].got = Snapshot(t, stop)
          /\ FirstOf(year) <= t \div 2
          /\ stop <= last \/ (legacyTask[c].pc = "save this" /\ last = -1 /\ stop < FirstOf(year))
  BY <1>10 DEF FetchedFor
<1>12. stop <= last \/ (y = year /\ last = -1 /\ stop < FirstOf(year))
  BY <1>4, <1>11
<1>13. F = Replace(f, last, Kept(Snapshot(t, stop), y))
  BY <1>5, <1>11
<1>14. /\ y \in Years /\ y \in Int /\ y \in {year - 1, year}
       /\ year \in {Current, Current - 1}
  <2>1. CASE y = year
    BY <1>3, <2>1
  <2>2. CASE y = year - 1
    BY <1>3, <2>2
  <2> QED
    BY <1>4, <2>1, <2>2
<1>15. /\ f \in Files /\ Whole(f) /\ \A k \in Rows(f) : YearOf(k) <= y
       /\ Rows(f) # {} => y >= 0 /\ FirstOf(y) \in Rows(f)
  BY <1>2, <1>14 DEF FilesSound, YearSound
<1>16. last = NewestIn(f) /\ last \in Int
  BY <1>10, <1>15, NewestRow DEF FetchedFor
<1>17. y \in Made(c) /\ \A z \in Made(c) : z <= y
  <2>1. CASE legacyTask[c].pc = "save this"
    BY <1>4, <1>9, <2>1
  <2>2. CASE legacyTask[c].pc = "save last"
    <3>1. y = year - 1 /\ year - 1 \in Made(c) /\ year \notin Made(c)
      BY <1>4, <1>9, <2>2
    <3>2. \A z \in Made(c) : z \in Int
      BY DEF Made, Years
    <3>3. \A z \in Made(c) : z # year /\ z <= year
      BY <1>9, <3>1
    <3>4. \A z \in Made(c) : z <= year - 1
      BY <1>3, <3>2, <3>3
    <3> QED
      BY <3>1, <3>4
  <2> QED
    BY <1>1, <2>1, <2>2
<1>18. ASSUME legacyTask[c].pc = "save last" PROVE y < year
  <2>1. y = year - 1
    BY <1>4, <1>18
  <2> QED
    BY <1>3, <2>1
<1> HIDE DEF f, last
<1>19. /\ F \in Files /\ Whole(F) /\ \A k \in Rows(F) : YearOf(k) <= y
       /\ y >= 0 => FirstOf(y) \in Rows(F)
       /\ y < 0 => Rows(F) = {}
       /\ y < year => \A k \in BarNumbers : YearOf(k) = y => F[k] = "final"
  <2>1. /\ FirstOf(year) <= t \div 2 /\ year \in Nat /\ y \in {year - 1, year}
        /\ y \in Int
    BY <1>3, <1>11, <1>14
  <2> QED
    BY <1>12, <1>13, <1>15, <1>16, <2>1, YearSaved
<1>20. FilesSound(SavedFiles(c), Made(c), Skipped(c), Current)
  <2> DEFINE yf == yearFile[c]
             yg == SavedFiles(c)
             made == Made(c)
             sk == Skipped(c)
             cur == Current
  <2>1. FilesSound(yf, made, sk, cur) /\ cur \in Nat /\ cur \in Years /\ yg = [yf EXCEPT ![y] = F]
    BY <1>2, <1>3, <1>6
  <2>2. year \in {cur, cur - 1} /\ y \in {year, year - 1} /\ y \in made /\ \A z \in made : z <= y
    BY <1>14, <1>17
  <2> HIDE DEF yf, yg, made, sk, cur
  <2>3. FilesSound(yg, made, sk, cur)
    BY <1>19, <2>1, <2>2, FilesSaved
  <2> QED
    BY <2>3 DEF yg, made, sk, cur
<1>21. SavedFiles(c)[y] = F
  BY <1>2, <1>6, <1>14 DEF FilesSound
<1>22. legacyTask[c].pc = "save last" => Full(SavedFiles(c), y)
  BY <1>18, <1>19, <1>21 DEF Full
<1> QED
  BY <1>14, <1>19, <1>20, <1>22 DEF y, F

LEMMA SaveMinutesInv ==
  ASSUME LegacyInv, NEW c \in LegacyCodes, SaveMinutes(c)
  PROVE  LegacyInv'
<1> DEFINE y  == SavedYear(c)
           F  == SavedRows(c)
           pc == IF legacyTask[c].pc = "save last" THEN "this year" ELSE "done"
<1>1. /\ CodeInv(c) /\ LegacyTypeOK /\ legacy.pc = "minute" /\ legacyTask[c] \in Tasks
      /\ legacyTask[c].pc \in {"save last", "save this"}
      /\ UNCHANGED <<now, dayFile, yearMade, legacy, skipped>>
  BY DEF LegacyInv, LegacyTypeOK, SaveMinutes
<1>2. /\ FilesSound(yearFile[c], Made(c), Skipped(c), Current)
      /\ MinuteTask(yearFile[c], Made(c), legacyTask[c], legacy.year)
  BY <1>1 DEF CodeInv
<1>3. /\ y \in Years /\ F \in Files
      /\ FilesSound([yearFile[c] EXCEPT ![y] = F], Made(c), Skipped(c), Current)
      /\ legacyTask[c].pc = "save last" => Full([yearFile[c] EXCEPT ![y] = F], y)
  BY SavedFile DEF SavedFiles
<1>4. \/ yearFile' = [yearFile EXCEPT ![c][y] = F] /\ LegacyStep(c, pc)
      \/ LegacyFails(c) /\ yearFile' = yearFile
  BY DEF SaveMinutes, SavedYear, SavedRows, Kept
<1>5. /\ pc \in TaskPcs
      /\ legacyTask[c].pc = "save last" => pc = "this year" /\ y = legacy.year - 1
      /\ legacyTask[c].pc = "save this" => pc = "done"
  BY DEF TaskPcs, SavedYear
<1> HIDE DEF F, y, pc
<1>6. ASSUME yearFile' = [yearFile EXCEPT ![c][y] = F], LegacyStep(c, pc) PROVE LegacyInv'
  <2>1. /\ yearFile' \in [LegacyCodes -> [Years -> Files]]
        /\ yearFile'[c] = [yearFile[c] EXCEPT ![y] = F]
        /\ \A d \in LegacyCodes \ {c} : yearFile'[d] = yearFile[d]
    BY <1>1, <1>3, <1>6 DEF LegacyTypeOK
  <2>2. /\ legacyTask' \in [LegacyCodes -> Tasks]
        /\ \A d \in LegacyCodes \ {c} : legacyTask'[d] = legacyTask[d]
    BY <1>1, <1>5, <1>6, StepType
  <2>3. /\ legacyTask'[c].pc = pc /\ legacyTask'[c].got = legacyTask[c].got
    BY <1>1, <1>5, <1>6, SteppedTask
  <2>4. Made(c)' = Made(c) /\ Current' = Current /\ Skipped(c)' = Skipped(c)
    BY <1>1 DEF Made, Current, Skipped
  <2>5. LegacyTypeOK'
    BY <1>1, <2>1, <2>2 DEF LegacyTypeOK
  <2>6. MinuteTask(yearFile'[c], Made(c), legacyTask'[c], legacy.year)
    <3>1. \A z \in Made(c) : z <= legacy.year
      BY <1>2 DEF MinuteTask
    <3>2. CASE legacyTask[c].pc = "save this"
      BY <1>5, <2>3, <3>1, <3>2 DEF MinuteTask
    <3>3. CASE legacyTask[c].pc = "save last"
      <4>1. /\ legacy.year \notin Made(c)
            /\ FetchedFor(legacyTask[c], legacy.year, yearFile[c][legacy.year - 1])
            /\ Full(yearFile'[c], legacy.year - 1)
        BY <1>2, <1>3, <1>5, <2>1, <3>3 DEF MinuteTask
      <4>2. \E t \in 0 .. LastTime, stop \in Int :
               /\ legacyTask[c].got = Snapshot(t, stop)
               /\ FirstOf(legacy.year) <= t \div 2 /\ stop < FirstOf(legacy.year)
        <5> DEFINE f    == yearFile[c][legacy.year - 1]
                   last == legacyTask[c].last
                   year == legacy.year
        <5>1. PICK t \in 0 .. LastTime, stop \in Int :
                 /\ legacyTask[c].got = Snapshot(t, stop)
                 /\ FirstOf(year) <= t \div 2 /\ stop <= last
          BY <3>3, <4>1 DEF FetchedFor
        <5>2. year \in Nat /\ year - 1 \in Years /\ FirstOf(year) \in Int /\ FirstOf(year) >= 0
          BY <1>1, YearOfUpdate
        <5>3. f \in Files /\ \A k \in Rows(f) : YearOf(k) <= year - 1
          BY <1>2, <5>2 DEF FilesSound, YearSound
        <5>4. last = NewestIn(f)
          BY <4>1 DEF FetchedFor
        <5> HIDE DEF f, last, year
        <5>5. last \in Int /\ last \in Rows(f) \cup {-1} /\ \A k \in Rows(f) : k \in Nat
          BY <5>3, <5>4, NewestRow
        <5>6. last < FirstOf(year)
          <6>1. CASE last = -1
            BY <5>2, <6>1
          <6>2. CASE last \in Rows(f)
            <7>1. last \in Int /\ year \in Int /\ YearOf(last) <= year - 1
              BY <5>2, <5>3, <5>5, <6>2
            <7>2. YearOf(last) \in Int /\ ~ (year <= YearOf(last))
              BY <7>1, BarsOfYear
            <7> QED
              BY <5>2, <7>1, <7>2, YearOrder
          <6> QED
            BY <5>5, <6>1, <6>2
        <5>7. stop < FirstOf(year)
          BY <5>1, <5>2, <5>5, <5>6
        <5> QED
          BY <5>1, <5>7 DEF year
      <4> QED
        BY <1>5, <2>3, <3>1, <3>3, <4>1, <4>2 DEF MinuteTask
    <3> QED
      BY <1>1, <3>2, <3>3
  <2>7. CodeInv(c)'
    BY <1>1, <1>3, <2>1, <2>4, <2>6 DEF CodeInv
  <2> QED
    BY <1>1, <2>1, <2>2, <2>5, <2>7, CodeSteps
<1>7. ASSUME LegacyFails(c), yearFile' = yearFile PROVE LegacyInv'
  <2>1. /\ FilesSound(yearFile[c], Made(c)', Skipped(c), Current) /\ yearMade' \subseteq LegacyCodes \X Years
        /\ \A z \in Made(c)' : z <= legacy.year
    BY <1>1, <1>2 DEF LegacyTypeOK, Made, MinuteTask
  <2> QED
    BY <1>1, <1>7, <2>1, FailsInv
<1> QED
  BY <1>4, <1>6, <1>7

(***************************************************************************)
(* Every step keeps the invariant.                                         *)
(***************************************************************************)
LEMMA LegacyNextInv == LegacyInv /\ [LegacyNext]_legacyVars => LegacyInv'
<1> SUFFICES ASSUME LegacyInv, [LegacyNext]_legacyVars PROVE LegacyInv'
  OBVIOUS
<1>1. CASE LegacyUpdate
  BY <1>1, LegacyUpdateInv
<1>2. ASSUME NEW c \in LegacyCodes, FetchDays(c) PROVE LegacyInv'
  BY <1>2, FetchDaysInv
<1>3. ASSUME NEW c \in LegacyCodes, SaveDays(c) PROVE LegacyInv'
  BY <1>3, SaveDaysInv
<1>4. CASE DaysDone
  BY <1>4, DaysDoneInv
<1>5. ASSUME NEW c \in LegacyCodes, OpenYear(c) PROVE LegacyInv'
  BY <1>5, OpenYearInv
<1>6. ASSUME NEW c \in LegacyCodes, FetchMinutes(c) PROVE LegacyInv'
  BY <1>6, FetchMinutesInv
<1>7. ASSUME NEW c \in LegacyCodes, SaveMinutes(c) PROVE LegacyInv'
  BY <1>7, SaveMinutesInv
<1>8. CASE MinutesDone \/ LegacyCrash
  BY <1>8, LegacyEndsInv
<1>9. CASE LegacyTick
  BY <1>9, LegacyTickInv
<1>10. CASE UNCHANGED legacyVars
  BY <1>10 DEF LegacyInv, LegacyTypeOK, Punctual, CodeInv, Made, Skipped, Current, legacyVars
<1> QED
  BY <1>1, <1>2, <1>3, <1>4, <1>5, <1>6, <1>7, <1>8, <1>9, <1>10 DEF LegacyNext

\* Whatever failed, was retried or cut off, whenever the year turned in it, and
\* whichever files can not be read: the daily file of a code, and its minute
\* files as MinKlines reads them over all years, have no hole, and only the newest
\* row may be provisional; but a file that is not read leaves out its year, and
\* the year before one in which nothing was stored stays as it was left.
THEOREM YearsAreContiguous == LegacySpec => []LegacyContiguous
<1>1. LegacySpec => []LegacyInv
  BY LegacyInitInv, LegacyNextInv, PTL DEF LegacySpec
<1> QED
  BY <1>1, LegacyInvImplies, PTL
=============================================================================
