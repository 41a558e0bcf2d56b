------------------------------ MODULE MinuteBars ------------------------------
(***************************************************************************)
(* Bars made of trades and of other bars: Trades.Klines (the 241 minutes   *)
(* of a day), Klines.Merge, Klines.Merge241 (protocol), MinuteToSessions   *)
(* (extend/pull/calendar.go) and the checks of tradesToMinutes.            *)
(*                                                                         *)
(* The clock is a parameter, so that a small day has every border: trades  *)
(* before the open, in the lunch break, at a closing minute and after it.  *)
(***************************************************************************)
EXTENDS Listings, Integers, FiniteSetsExt, SequencesExt

CONSTANTS
    Auction,                        \* 9:25, the first minute a trade is taken for
    Open, Noon, Afternoon, Close,   \* 9:30, 11:30, 13:00 and 15:00
    LastMinute,                     \* bound: clock times 0 .. LastMinute
    TradePrices,                    \* 0 and below: a trade without a price
    TradeVolumes,                   \* lots in one trade
    MaxTrades                       \* bound: trades of the day

ASSUME BarConstants ==
    /\ {Auction, Open, Noon, Afternoon, Close, LastMinute, MaxTrades} \subseteq Nat
    /\ Auction < Open /\ Open <= Noon /\ Noon < Afternoon /\ Afternoon < Close
    /\ TradePrices \subseteq Int /\ TradeVolumes \subseteq Nat

VARIABLES
    trades,     \* the trades of a day, [minute, price, volume], in order
    bars,       \* what Klines made of them
    merged,     \* n -> what Merge, Merge241 and MinuteToSessions made of those
    asked       \* "klines" or "minutes": who made them; "gap": refused

barVars == <<trades, bars, merged, asked>>

InOrder(s) == \A i, j \in 1 .. Len(s) : i < j => s[i].minute <= s[j].minute

BarsInit ==
    /\ trades \in {s \in BoundedSeq([minute : 0 .. LastMinute, price : TradePrices,
                                     volume : TradeVolumes], MaxTrades) : InOrder(s)}
    /\ bars = <<>>
    /\ merged = <<>>
    /\ asked = "no"

-----------------------------------------------------------------------------
Morning == [i \in 1 .. Noon - Open + 1 |-> Open + i - 1]
AfterNoon == [i \in 1 .. Close - Afternoon |-> Afternoon + i]
Keys == Morning \o AfterNoon

\* Fault: the closing trades of the morning open a bar of their own.
BucketUnclamped(ms) == LET t == (IF ms < Open - 1 THEN Open - 1 ELSE ms) + 1
                       IN IF t > Close THEN Close ELSE t

\* The minute a trade counts for: the auction for the first, the break for
\* the last of the morning, what comes after the close for the last.
Bucket(ms) ==
    LET t == (IF ms < Open - 1 THEN Open - 1 ELSE ms) + 1
    IN CASE t > Noon /\ t <= Afternoon -> Noon
         [] t > Close                  -> Close
         [] OTHER                      -> t

Flat(minute, price) == [minute |-> minute, open |-> price, high |-> price, low |-> price,
                        close |-> price, volume |-> 0, amount |-> 0]

\* What a loop adds up: the numbers f[i] of the places in I.
SumOver(f, I) ==
    LET sum[i \in 0 .. Len(f)] ==
            IF i = 0 THEN 0 ELSE sum[i - 1] + (IF i \in I THEN f[i] ELSE 0)
    IN sum[Len(f)]

VolumesOf(s) == [i \in 1 .. Len(s) |-> s[i].volume]
AmountsOf(ks) == [i \in 1 .. Len(ks) |-> ks[i].amount]
TurnoversOf(ts) == [i \in 1 .. Len(ts) |-> ts[i].price * ts[i].volume]

PricedOf(ts) == {i \in 1 .. Len(ts) : ts[i].price > 0}

\* Trades.Kline: the bar of the trades at I, which have a price; without one
\* the bar is flat at the last close.
TradeBar(minute, ts, I, last) ==
    LET prices == {ts[i].price : i \in I}
    IN IF I = {} THEN Flat(minute, last)
       ELSE [minute |-> minute, open |-> ts[Min(I)].price, high |-> Max(prices),
             low |-> Min(prices), close |-> ts[Max(I)].price,
             volume |-> SumOver(VolumesOf(ts), I), amount |-> SumOver(TurnoversOf(ts), I)]

\* Trades.klinesForDay: every minute gets a bar, its last price carried to the
\* next one; the first minutes of the day have the price of the first trade.
TradeBars(ts) ==
    LET priced == PricedOf(ts)
        of(t)  == {i \in priced : Bucket(ts[i].minute) = t}
        last[k \in 0 .. Len(Keys)] ==
            IF k = 0 THEN IF priced = {} THEN 0 ELSE ts[Min(priced)].price
            ELSE IF of(Keys[k]) = {} THEN last[k - 1]
            ELSE ts[Max(of(Keys[k]))].price
    IN [k \in 1 .. Len(Keys) |-> TradeBar(Keys[k], ts, of(Keys[k]), last[k - 1])]

\* Klines.Kline: the bar of the bars at I; an open of 0 is taken from the next.
BarOf(ks, I) ==
    LET opened == {i \in I : ks[i].open # 0}
    IN [minute |-> ks[Max(I)].minute,
        open |-> IF opened = {} THEN 0 ELSE ks[Min(opened)].open,
        high |-> Max({ks[i].high : i \in I}), low |-> Min({ks[i].low : i \in I}),
        close |-> ks[Max(I)].close,
        volume |-> SumOver(VolumesOf(ks), I), amount |-> SumOver(AmountsOf(ks), I)]

Groups(length, n) == (length + n - 1) \div n

\* The places of a group of n, the last one cut off at the end.
Group(i, n, length) == (i - 1) * n + 1 .. Min({i * n, length})

Merge(ks, n) ==
    IF n <= 1 THEN ks
    ELSE [i \in 1 .. Groups(Len(ks), n) |-> BarOf(ks, Group(i, n, Len(ks)))]

\* Merge241 and MinuteToSessions fold by themselves and keep an open of 0.
FoldedBar(ks, I) == [BarOf(ks, I) EXCEPT !.open = ks[Min(I)].open]

\* Merge241: the first minute alone, then groups of n.  The bars of one day
\* are put on the grid; a missing minute is flat at the last close.
Merge241(ks, n) ==
    LET at(t)  == {i \in 1 .. Len(ks) : ks[i].minute = t}
        last[k \in 0 .. Len(Keys)] ==
            IF k = 0 THEN 0
            ELSE IF at(Keys[k]) = {} THEN last[k - 1]
            ELSE ks[Max(at(Keys[k]))].close
        std    == [k \in 1 .. Len(Keys) |->
                     IF at(Keys[k]) = {} THEN Flat(Keys[k], last[k - 1]) ELSE ks[Max(at(Keys[k]))]]
        rest   == Len(Keys) - 1
    IN [i \in 1 .. Groups(rest, n) + 1 |->
          IF i = 1 THEN std[1] ELSE FoldedBar(std, {j + 1 : j \in Group(i - 1, n, rest)})]

\* MinuteToSessions: a session's first minute alone, the rest in groups of n
\* minutes that end at or before its close; minutes outside are an error.
Sessions == {[begin |-> Open, end |-> Noon], [begin |-> Afternoon, end |-> Close]}

Slot(k, n) ==
    LET s == CHOOSE s \in Sessions : s.begin <= k.minute /\ k.minute <= s.end
    IN <<s, IF k.minute = s.begin THEN -1 ELSE (k.minute - s.begin - 1) \div n>>

InSession(ks) == \A i \in 1 .. Len(ks) :
                    \E s \in Sessions : s.begin <= ks[i].minute /\ ks[i].minute <= s.end

BySession(ks, n) ==
    LET starts == {i \in 1 .. Len(ks) : i = 1 \/ Slot(ks[i], n) # Slot(ks[i - 1], n)}
        first  == Sorted(starts)
    IN [j \in 1 .. Len(first) |->
          FoldedBar(ks, first[j] .. (IF j = Len(first) THEN Len(ks) ELSE first[j + 1] - 1))]

\* tradesToMinutes refuses trades it cannot place, and a day without any.
Placeable(ts) ==
    /\ \E i \in 1 .. Len(ts) : ts[i].volume > 0
    /\ \A i \in 1 .. Len(ts) :
         /\ ts[i].price > 0
         /\ \/ ts[i].minute \in Auction .. Noon
            \/ ts[i].minute \in Afternoon .. Close

-----------------------------------------------------------------------------
Klines ==
    /\ asked = "no"
    /\ asked' = "klines"
    /\ bars' = TradeBars(trades)
    /\ UNCHANGED <<trades, merged>>

TradesToMinutes ==
    /\ asked = "no"
    /\ \/ Placeable(trades) /\ bars' = TradeBars(trades) /\ asked' = "minutes"
       \/ ~Placeable(trades) /\ bars' = <<>> /\ asked' = "gap"
    /\ UNCHANGED <<trades, merged>>

MergeAll ==
    /\ bars # <<>> /\ merged = <<>>
    /\ merged' = [n \in 1 .. Len(Keys) |->
                    [plain |-> Merge(bars, n), grid |-> Merge241(bars, n),
                     session |-> IF InSession(bars) THEN BySession(bars, n) ELSE <<>>]]
    /\ UNCHANGED <<trades, bars, asked>>

BarsNext == Klines \/ TradesToMinutes \/ MergeAll

BarsSpec == BarsInit /\ [][BarsNext]_barVars

-----------------------------------------------------------------------------
Same(ks) ==
    /\ SumOver(VolumesOf(ks), 1 .. Len(ks)) = SumOver(VolumesOf(trades), PricedOf(trades))
    /\ SumOver(AmountsOf(ks), 1 .. Len(ks)) = SumOver(TurnoversOf(trades), PricedOf(trades))

Spans(ks) ==
    LET priced == PricedOf(trades)
        prices == {trades[i].price : i \in priced}
    IN priced # {} => /\ ks[1].open = trades[Min(priced)].price
                      /\ ks[Len(ks)].close = trades[Max(priced)].price
                      /\ Max({ks[i].high : i \in 1 .. Len(ks)}) = Max(prices)
                      /\ Min({ks[i].low : i \in 1 .. Len(ks)}) = Min(prices)

\* Whatever bars a day's trades are made into, by minute and then by any
\* number of minutes, plainly, on the grid of the day or by session, every
\* priced trade counts once: volume and turnover are kept, the day opens and
\* closes with its first and last trade, and its high and low are theirs.
\* What tradesToMinutes accepts, it accepts whole.
BarsConserve ==
    /\ asked = "minutes" => PricedOf(trades) = 1 .. Len(trades)
    /\ bars # <<>> => Same(bars) /\ Spans(bars)
    /\ \A n \in DOMAIN merged :
         \A ks \in {merged[n].plain, merged[n].grid, merged[n].session} :
            Same(ks) /\ Spans(ks)
=============================================================================
