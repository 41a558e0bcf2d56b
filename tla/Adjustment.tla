------------------------------ MODULE Adjustment ------------------------------
(***************************************************************************)
(* Price adjustment (protocol/model_gbbq.go, research.Adjust): every bar   *)
(* gets an affine map of its raw price, forward (qfq, the newest bar is    *)
(* the identity) or backward (hfq, the oldest bar is).  The bars are those *)
(* of trading days, so an ex-day may fall into a suspension, and a day may *)
(* have several events: event e is one of day d for e in                   *)
(* DayEnd(d - 1) + 1 .. DayEnd(d), in the order in which the list has them.*)
(*                                                                         *)
(* Arithmetic is exact, without the rounding of floats: an event turns one *)
(* share into m and pays cash c a share, both counted in Portions, and a   *)
(* forward map is (mul * price - minus) / den.                             *)
(***************************************************************************)
EXTENDS Integers, FiniteSetsExt

CONSTANTS
    LastDay,    \* bound: days 1 .. LastDay
    PerDay,     \* bound: events of a day
    MaxEvents,  \* bound: events in all
    Portions,   \* of m and c: 100000, for ten shares and two decimals of each field
    Events,     \* what may happen on an ex-day: [kind, m, c]
    RawPrices   \* prices the maps are compared at

ASSUME AdjustConstants == /\ LastDay \in Nat /\ PerDay \in Nat \ {0}
                          /\ Portions \in Nat \ {0}
                          /\ RawPrices \subseteq Int
                          /\ \A x \in Events : x.m \in Nat \ {0} /\ x.c \in Int

LastEvent == LastDay * PerDay
DayEnd(d) == d * PerDay

NoEvent == [kind |-> "none", m |-> Portions, c |-> 0]

VARIABLES
    days,       \* the days with a bar
    events,     \* the events, those of a day after each other
    answer      \* what Adjust returned: [asOf, error, qfq, hfq]

adjustVars == <<days, events, answer>>

NoAnswer == [asOf |-> 0, error |-> FALSE, qfq |-> <<>>, hfq |-> <<>>]

AdjustInit ==
    /\ days \in (SUBSET (1 .. LastDay)) \ {{}}
    /\ events \in {f \in [1 .. LastEvent -> Events \cup {NoEvent}] :
                     Cardinality({e \in 1 .. LastEvent : f[e] # NoEvent}) <= MaxEvents}
    /\ answer = NoAnswer

-----------------------------------------------------------------------------
\* XRXD.Pre: the reference price of an ex-day, as a fraction [num, den].
PreOf(x, p) == [num |-> Portions * p.num - x.c * p.den, den |-> p.den * x.m]

\* The events known, without share consolidations (an error) and without the
\* changes that move no price.
ExRights(asOf) == {e \in 1 .. DayEnd(asOf) : events[e].kind = "xrxd"}

\* Fault: an event counts if its day has a bar.
EffectiveTraded(ex, bars) == {e \in ex : \E d \in bars : DayEnd(d - 1) < e /\ e <= DayEnd(d)}

\* The events that count: an announced one does not before its ex-day.
Effective(ex, bars) == {e \in ex : e <= DayEnd(Max(bars))}

\* a <- a / m, b <- b - a * c.
Compound(map, x) == [mul   |-> map.mul * Portions,
                     den   |-> map.den * x.m,
                     minus |-> map.minus * x.m + map.mul * x.c]

Identity == [mul |-> 1, den |-> 1, minus |-> 0]

\* The maps after going back from the last event over one more and so on: the
\* loop compounds an event when it passes it, whether its day has a bar or not.
EventMaps(ex, last) ==
    LET map[ago \in 0 .. last] ==
            IF ago = 0 THEN Identity
            ELSE IF last - (ago - 1) \in ex THEN Compound(map[ago - 1], events[last - (ago - 1)])
            ELSE map[ago - 1]
    IN map

\* Factors, forward: the newest bar is the identity.
Forward(ex, bars) ==
    LET last == DayEnd(Max(bars))
        map  == EventMaps(Effective(ex, bars), last)
    IN [d \in bars |-> map[last - DayEnd(d)]]

ForwardAt(qfq, d, p) == [num |-> qfq[d].mul * p - qfq[d].minus, den |-> qfq[d].den]

\* Factors, backward: A / A0 and (B - B0) / A0 with the map of the oldest
\* bar, as a price [num, den] of raw price p.
BackwardAt(qfq, d, p) ==
    LET oldest == qfq[Min(DOMAIN qfq)]
        own    == ForwardAt(qfq, d, p)
    IN [num |-> oldest.den * own.num + oldest.minus * own.den,
        den |-> own.den * oldest.mul]

\* Adjust: bars and events up to asOf.
Adjust(asOf) ==
    LET bars == {d \in days : d <= asOf}
    IN /\ answer = NoAnswer
       /\ \/ /\ \E e \in 1 .. DayEnd(asOf) : events[e].kind = "conversion"
             /\ answer' = [NoAnswer EXCEPT !.asOf = asOf, !.error = TRUE]
          \/ /\ \A e \in 1 .. DayEnd(asOf) : events[e].kind # "conversion"
             /\ bars # {}
             /\ LET qfq == Forward(ExRights(asOf), bars)
                IN answer' = [asOf |-> asOf, error |-> FALSE,
                              qfq |-> [d \in bars |-> [p \in RawPrices |-> ForwardAt(qfq, d, p)]],
                              hfq |-> [d \in bars |-> [p \in RawPrices |-> BackwardAt(qfq, d, p)]]]
       /\ UNCHANGED <<days, events>>

AdjustNext == \E asOf \in 1 .. LastDay : Adjust(asOf)

AdjustSpec == AdjustInit /\ [][AdjustNext]_adjustVars

-----------------------------------------------------------------------------
SamePrice(p, q) == p.num * q.den = q.num * p.den

\* What a price becomes by taking the events after one up to a later one, each
\* as XRXD.Pre gives it, in their order.
PriceAfter(price, ex, first, last) ==
    LET after[i \in 0 .. last - first] ==
            IF i = 0 THEN price
            ELSE IF first + i \in ex THEN PreOf(events[first + i], after[i - 1])
            ELSE after[i - 1]
    IN after[last - first]

\* A forward price is the theoretical price after every event since, those of
\* a suspension and all of one day included and announced ones not; a backward
\* price undoes the same events back to the oldest bar, so that taking them
\* again gives the raw price.
AdjustComposes ==
    answer.qfq # <<>> =>
        LET bars == DOMAIN answer.qfq
            ex   == {e \in 1 .. LastEvent : events[e].kind = "xrxd"}
            raw(p) == [num |-> p, den |-> 1]
        IN \A d \in bars, p \in RawPrices :
             /\ SamePrice(answer.qfq[d][p], PriceAfter(raw(p), ex, DayEnd(d), DayEnd(Max(bars))))
             /\ SamePrice(PriceAfter(answer.hfq[d][p], ex, DayEnd(Min(bars)), DayEnd(d)), raw(p))
=============================================================================
