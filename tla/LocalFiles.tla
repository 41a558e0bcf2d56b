------------------------------ MODULE LocalFiles ------------------------------
(***************************************************************************)
(* Reading and writing the files of the TDX desktop program                *)
(* (extend/local.go): .day, .lc1 and .lc5, records of fixed size.  Every   *)
(* day of a .lc1 file has one empty record near its end that is no bar:    *)
(* the writer adds it and the reader skips it.                             *)
(*                                                                         *)
(* A file keeps less than a bar has.  Volumes are lots in the program and  *)
(* shares in a file, except those of an index.  Prices and turnovers are   *)
(* thousandths; a daily record counts prices in hundredths, the other      *)
(* numbers are floats of 32 bits.  The date of a minute record has 16      *)
(* bits.  The four prices of a bar are treated alike: a bar has one.       *)
(***************************************************************************)
EXTENDS Integers, Sequences, SequencesExt

CONSTANTS
    FileDays,       \* days of the bars, counted from the year 2004
    DayWidth,       \* what the date of a minute record can count: 2^16
    FileMinutes,    \* minutes of a day
    TailMinute,     \* 14:58, from which on an empty record is a placeholder
    PlaceMinute,    \* 14:59, where the writer puts one
    Quotations,     \* what bars say: [price, volume in lots, amount]
    Lot,            \* shares of a lot: 100
    VolumeWidth,    \* what the volume field can count: 2^32
    Fine,           \* parts of a thousandth, in which the floats are counted here
    Precision,      \* a float is exact up to one part in so many: nearly 2^24
    Single(_),      \* thousandths -> the float nearest to so many, in fine parts
    MaxFileBars     \* bound: bars of a file

ASSUME LocalConstants ==
    /\ {TailMinute, PlaceMinute, VolumeWidth} \subseteq Nat /\ Lot \in Nat \ {0}
    /\ FileDays \subseteq Nat /\ DayWidth \in Nat \ {0} /\ FileMinutes \subseteq Nat
    /\ TailMinute <= PlaceMinute
    /\ Quotations \subseteq [price : Nat, volume : Nat, amount : Nat]
    /\ \A q \in Quotations : q.volume * Lot < VolumeWidth
    /\ Fine \in Nat \ {0} /\ Precision \in Nat \ {0}
    /\ MaxFileBars \in Nat

ASSUME SingleIsNear ==
    \A q \in Quotations : \A x \in {q.price, q.amount} :
        /\ Single(x) \in Nat /\ (Single(x) = 0 <=> x = 0)
        /\ Precision * (Single(x) - x * Fine) <= x * Fine
        /\ Precision * (x * Fine - Single(x)) <= x * Fine

Formats == {"day", "lc1", "lc5"}

FileBars == [day : FileDays, minute : FileMinutes, quote : Quotations]

VARIABLES
    format,     \* which kind of file
    isIndex,    \* IsIndex of the code
    written,    \* the bars given to the writer
    file,       \* the records of the file
    readBack,   \* the bars the reader returned
    fileStep    \* "write", "read" or "done"

fileVars == <<format, isIndex, written, file, readBack, fileStep>>

Earlier(k, j) == k.day < j.day \/ (k.day = j.day /\ k.minute < j.minute)

LocalInit ==
    /\ format \in Formats
    /\ isIndex \in BOOLEAN
    /\ written \in {s \in BoundedSeq(FileBars, MaxFileBars) :
                       \A i, j \in 1 .. Len(s) : i < j => Earlier(s[i], s[j])}
    /\ format = "day" => \A i, j \in 1 .. Len(written) : i # j => written[i].day # written[j].day
    /\ file = <<>>
    /\ readBack = <<>>
    /\ fileStep = "write"

-----------------------------------------------------------------------------
FileVolume(v) == (IF isIndex THEN v ELSE v * Lot) % VolumeWidth
Lots(v)       == IF isIndex THEN v ELSE v \div Lot

\* encodeDay: a date and no time of day, prices in hundredths; encodeMinute:
\* a short date, prices as floats.
Encode(k) ==
    IF format = "day"
    THEN [day |-> k.day, minute |-> 0,
          quote |-> [price  |-> k.quote.price \div 10,
                     volume |-> FileVolume(k.quote.volume),
                     amount |-> Single(k.quote.amount)]]
    ELSE [day |-> k.day % DayWidth, minute |-> k.minute,
          quote |-> [price  |-> Single(k.quote.price),
                     volume |-> FileVolume(k.quote.volume),
                     amount |-> Single(k.quote.amount)]]

\* A float that is cut off, and one that is rounded, to a thousandth.
CutOff(x)  == x \div Fine
Rounded(x) == (2 * x + Fine) \div (2 * Fine)

\* A bar of a record whose volume is in lots.
DecodeRecord(r) ==
    [r EXCEPT !.quote = [price  |-> IF format = "day" THEN 10 * r.quote.price
                                                      ELSE CutOff(r.quote.price),
                         volume |-> r.quote.volume,
                         amount |-> Rounded(r.quote.amount)]]

\* Nothing was traded in a day's last minutes.
EmptyTail(r) == r.minute >= TailMinute /\ r.quote.volume = 0 /\ r.quote.amount = 0

DayOf(i) == {j \in 1 .. Len(written) : written[j].day = written[i].day}

HasPlaceholder(i) == \E j \in DayOf(i) : EmptyTail(written[j])

PlaceholderRecord(k) ==
    [day |-> k.day % DayWidth, minute |-> PlaceMinute,
     quote |-> [price |-> Single(k.quote.price), volume |-> 0, amount |-> 0]]

\* Fault: the placeholder goes where the last bar of the day is.
PlaceholderInstead(i) ==
    IF format = "lc1" /\ ~HasPlaceholder(i) /\ \A j \in DayOf(i) : j <= i
    THEN <<PlaceholderRecord(written[i])>>
    ELSE <<Encode(written[i])>>

\* The records of a bar: before the last one of its day the placeholder,
\* unless the day has one.
RecordsOf(i) ==
    IF format = "lc1" /\ ~HasPlaceholder(i) /\ \A j \in DayOf(i) : j <= i
    THEN <<PlaceholderRecord(written[i]), Encode(written[i])>>
    ELSE <<Encode(written[i])>>

\* WriteDay, WriteMinute1, WriteMinute5.
WriteFile ==
    /\ fileStep = "write" /\ fileStep' = "read"
    /\ file' = FlattenSeq([i \in 1 .. Len(written) |-> RecordsOf(i)])
    /\ UNCHANGED <<format, isIndex, written, readBack>>

\* The loop that skips the empty records of a day's last minutes.
WithoutEmpty(s) ==
    LET read[i \in 0 .. Len(s)] ==
            IF i = 0 THEN <<>>
            ELSE IF EmptyTail(s[i]) THEN read[i - 1]
            ELSE Append(read[i - 1], s[i])
    IN read[Len(s)]

\* ReadDay, ReadMinute1, ReadMinute5.
ReadFile ==
    /\ fileStep = "read" /\ fileStep' = "done"
    /\ LET inLots(r) == [r EXCEPT !.quote.volume = Lots(@)]
           all  == [i \in 1 .. Len(file) |-> inLots(file[i])]
           kept == IF format = "lc1" THEN WithoutEmpty(all) ELSE all
       IN readBack' = [i \in 1 .. Len(kept) |-> DecodeRecord(kept[i])]
    /\ UNCHANGED <<format, isIndex, written, file>>

LocalNext == WriteFile \/ ReadFile

LocalSpec == LocalInit /\ [][LocalNext]_fileVars

-----------------------------------------------------------------------------
\* What a file gives back of a bar.  The volume is the same.  The turnover is
\* as near as a float is: the same while it is below half of the precision.
\* A daily bar has lost its time of day and the last digit of its price.  A
\* minute bar has its day, up to the year 2035, and its minute; its price is as
\* near as a float is, and may be a thousandth too low.
GivesBack(k, b) ==
    /\ b.quote.volume = k.quote.volume
    /\ 2 * Precision * (b.quote.amount - k.quote.amount) <= 2 * k.quote.amount + Precision
    /\ 2 * Precision * (k.quote.amount - b.quote.amount) <= 2 * k.quote.amount + Precision
    /\ IF format = "day"
       THEN /\ b.day = k.day /\ b.minute = 0
            /\ b.quote.price <= k.quote.price /\ k.quote.price < b.quote.price + 10
       ELSE /\ b.minute = k.minute /\ (k.day < DayWidth => b.day = k.day)
            /\ Precision * (b.quote.price - k.quote.price) <= k.quote.price
            /\ Precision * (k.quote.price - b.quote.price) <= k.quote.price + Precision

\* Of what was written every bar is read back, in order and up to what the
\* format can keep; only a .lc1 file loses the bars of its last minutes in
\* which nothing was traded.
LocalRoundTrip ==
    fileStep = "done" =>
        LET kept == IF format = "lc1" THEN WithoutEmpty(written) ELSE written
        IN /\ Len(readBack) = Len(kept)
           /\ \A i \in 1 .. Len(kept) : GivesBack(kept[i], readBack[i])
=============================================================================
