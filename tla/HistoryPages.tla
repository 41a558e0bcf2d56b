---------------------------- MODULE HistoryPages -----------------------------
(***************************************************************************)
(* A client that reads the daily history of one symbol page by page        *)
(* (GET /v1/history/bars, Store.QueryBarsPage) while jobs rewrite the      *)
(* store.  Every write is one transaction that counts the revision of the  *)
(* whole data set up; a page carries the revision and the date it is       *)
(* adjusted to, and the client passes the first page's revision on.        *)
(*                                                                         *)
(* A bar is the number of its value, NoValue where there is none; an       *)
(* adjusted bar is that number and the corporate actions applied to it.    *)
(***************************************************************************)
EXTENDS Naturals, FiniteSets, FiniteSetsExt, Sequences

CONSTANTS
    LastDate,       \* bound: dates 1 .. LastDate
    MaxValue,       \* bound: values a bar takes
    PageLimit,      \* the client's limit
    MaxRevision     \* bound: writes

ASSUME HistoryConstants ==
    /\ LastDate \in Nat \ {0} /\ MaxValue \in Nat \ {0}
    /\ PageLimit \in Nat \ {0} /\ MaxRevision \in Nat

NoValue == 0
Dates   == 1 .. LastDate
Modes   == {"none", "qfq", "hfq"}
Default == 0            \* no end in the query: the last closed session
NoCursor == LastDate + 1 \* no cursor yet: later than every date

VARIABLES
    bars,       \* date -> value of the symbol's bar
    actions,    \* ex-dates of its corporate actions
    checked,    \* instruments.actions_checked
    revision,   \* research_meta.revision
    closed,     \* ClosedThrough(now)
    reader,     \* the client: [pc, mode, end, before, version, pages]
    promised    \* the whole answer as it was when the first page was read

historyVars == <<bars, actions, checked, revision, closed, reader, promised>>

Idler == [pc |-> "off", mode |-> "none", end |-> Default, before |-> NoCursor,
          version |-> 0, pages |-> <<>>]

HistoryInit ==
    /\ bars = [d \in Dates |-> IF d < LastDate THEN 1 ELSE NoValue]
    /\ actions = {}
    /\ checked = FALSE
    /\ revision = 1
    /\ closed = LastDate - 1
    /\ reader = Idler
    /\ promised = <<>>

-----------------------------------------------------------------------------
Through(end) == {d \in Dates : bars[d] # NoValue /\ d <= end}

\* Adjust: the events between the bar and the newest bar up to the end
\* (qfq), between the oldest bar and the bar (hfq); later ones have not
\* happened yet.
Applied(d, mode, end) ==
    LET known == Through(end)
    IN CASE mode = "none" -> {}
         [] mode = "qfq"  -> {a \in actions : d < a /\ a <= Max(known)}
         [] mode = "hfq"  -> {a \in actions : Min(known) < a /\ a <= d}

WholeHistory(mode, end) ==
    [d \in Through(end) |-> [value |-> bars[d], applied |-> Applied(d, mode, end)]]

EndOf(r) == IF r.end = Default THEN closed ELSE r.end

\* Fault: a page is answered whatever revision the client began with.
VersionIgnored(r) == TRUE

VersionHolds(r) == r.pages = <<>> \/ r.version = revision

BeforeCursor(end, before) == {d \in Through(end) : d < before}

\* The dates of a page: the newest PageLimit ones before the cursor.
PageDates(end, before) ==
    LET left == BeforeCursor(end, before)
    IN {d \in left : Cardinality({e \in left : e > d}) < PageLimit}

\* The client asks for a history.
Ask(mode, end) ==
    /\ reader.pc = "off"
    /\ reader' = [Idler EXCEPT !.pc = "read", !.mode = mode, !.end = end]
    /\ UNCHANGED <<bars, actions, checked, revision, closed, promised>>

\* QueryBarsPage under the read lock.  409 when the revision has changed or
\* the actions were never checked: the client gives up.
QueryBarsPage ==
    /\ reader.pc = "read"
    /\ LET end   == EndOf(reader)
           dates == PageDates(end, reader.before)
           rest  == BeforeCursor(end, reader.before) \ dates
           whole == WholeHistory(reader.mode, end)
       IN \/ /\ ~VersionHolds(reader) \/ (reader.mode # "none" /\ ~checked)
             /\ reader' = Idler
             /\ promised' = <<>>
          \/ /\ VersionHolds(reader)
             /\ reader.mode = "none" \/ checked
             /\ promised' = IF reader.pages = <<>> THEN whole ELSE promised
             /\ reader' = [reader EXCEPT
                             !.pages   = Append(@, [end |-> end, bars |-> [d \in dates |-> whole[d]]]),
                             !.version = IF reader.pages = <<>> THEN revision ELSE @,
                             !.before  = IF rest = {} THEN @ ELSE Min(dates),
                             !.pc      = IF rest = {} THEN "whole" ELSE "read"]
    /\ UNCHANGED <<bars, actions, checked, revision, closed>>

HistoryRead ==
    /\ reader.pc = "whole"
    /\ reader' = Idler
    /\ promised' = <<>>
    /\ UNCHANGED <<bars, actions, checked, revision, closed>>

\* Fault: only a write that adds a bar counts the revision up.
CountsNewBars(new) == IF \E d \in Dates : new[d] # NoValue /\ bars[d] = NoValue
                      THEN revision + 1 ELSE revision

Counts(new) == revision + 1

\* UpsertWithIssues: bars are inserted or replaced, actions replaced when
\* they were fetched; the same for another symbol changes the revision only.
UpsertSymbol ==
    /\ revision < MaxRevision
    /\ \E d \in Dates, v \in 1 .. MaxValue, got \in SUBSET Dates, fetched \in BOOLEAN :
          /\ d <= closed
          /\ Cardinality(got) <= 1
          /\ bars' = [bars EXCEPT ![d] = v]
          /\ actions' = IF fetched THEN got ELSE actions
          /\ checked' = fetched
          /\ revision' = Counts(bars')
    /\ UNCHANGED <<closed, reader, promised>>

UpsertOther ==
    /\ revision < MaxRevision
    /\ revision' = revision + 1
    /\ UNCHANGED <<bars, actions, checked, closed, reader, promised>>

\* A session closes.
SessionCloses ==
    /\ closed < LastDate
    /\ closed' = closed + 1
    /\ UNCHANGED <<bars, actions, checked, revision, reader, promised>>

HistoryNext ==
    \/ \E mode \in Modes, end \in Dates \cup {Default} : Ask(mode, end)
    \/ QueryBarsPage
    \/ HistoryRead
    \/ UpsertSymbol
    \/ UpsertOther
    \/ SessionCloses

HistorySpec == HistoryInit /\ [][HistoryNext]_historyVars

-----------------------------------------------------------------------------
\* "Raw pages are bounded in SQL; adjusted pages load the full symbol history
\* so every page shares the same adjustment anchor" (QueryBarsPage).  Pages of
\* one revision and one adjust_as_of put together are the whole history as it
\* was at the first page, every bar once, under one adjustment.  With no end
\* in the query the anchor moves when a session closes between two pages, and
\* the revision does not tell: the client has to compare adjust_as_of.
HistoryPagesExact ==
    /\ reader.pc = "whole"
    /\ \A i \in 1 .. Len(reader.pages) : reader.pages[i].end = reader.pages[1].end
    => /\ UNION {DOMAIN reader.pages[i].bars : i \in 1 .. Len(reader.pages)} = DOMAIN promised
       /\ \A i, j \in 1 .. Len(reader.pages) : i < j =>
             \A d \in DOMAIN reader.pages[i].bars, e \in DOMAIN reader.pages[j].bars : e < d
       /\ \A i \in 1 .. Len(reader.pages) : \A d \in DOMAIN reader.pages[i].bars :
             reader.pages[i].bars[d] = promised[d]
=============================================================================
