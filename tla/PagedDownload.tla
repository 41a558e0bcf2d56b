---------------------------- MODULE PagedDownload -----------------------------
(***************************************************************************)
(* A long list or file of a quote server, read by many requests: the loops *)
(* of client.go, of the markets in extend/pull and of the research source. *)
(* The server goes on living between two pages: codes are listed or        *)
(* delisted, trades and bars are added at the end, files are replaced.     *)
(*                                                                         *)
(* An element of a list is its number, in the order of the list; a piece   *)
(* of a file is its version and its place.  Bars and trades are counted    *)
(* from the newest, codes from the first.                                  *)
(***************************************************************************)
EXTENDS Listings, Naturals, FiniteSets, Sequences, FiniteSetsExt, SequencesExt

CONSTANTS
    Size,           \* elements of a page: 800, 1000, 1800 or 2000; a chunk of a file
    Width,          \* 2^16, the width of most starts
    CursorLimit,    \* the last start of the loops with a limit: 64800 and 65535
    MaxListed,      \* bound: elements of a list
    MaxGrowth       \* bound: changes while one download runs

ASSUME PagedConstants == /\ Size \in Nat \ {0}
                         /\ {Width, MaxListed} \subseteq Nat /\ MaxListed + Size < Width

Kinds     == {"codes", "exCodes", "trades", "bars", "daily", "exBars", "zhb", "block"}
CodeKinds == {"codes", "exCodes"}
FileKinds == {"zhb", "block"}

VARIABLES
    kind,       \* which loop
    listed,     \* the elements the server lists
    version,    \* of the file
    grown,      \* changes so far
    shrunk,     \* one of them was a delisting
    kept,       \* the elements listed all the time since the download began
    load        \* the loop: [pc, start, from, got, size]

pagedVars == <<kind, listed, version, grown, shrunk, kept, load>>

List == Sorted(listed)

\* A file has a size of its own in every version.
FileSize(v) == IF v % 2 = 1 THEN 2 * Size + 1 ELSE Size + 1
File(v)     == [i \in 1 .. FileSize(v) |-> <<v, i>>]

PagedInit ==
    /\ kind \in Kinds
    /\ listed \in {1 .. n : n \in 0 .. MaxListed - 1}
    /\ version = 1
    /\ grown = 0
    /\ shrunk = FALSE
    /\ kept = listed
    /\ \E from \in 0 .. MaxListed :
          load = [pc |-> "page", start |-> 0, from |-> from, got |-> <<>>, size |-> 0]

-----------------------------------------------------------------------------
\* The answers to one request.
Between(s, first, last) == SubSeq(s, first, Min({last, Len(s)}))

PageFromFirst(start)  == Between(List, start + 1, start + Size)
PageFromNewest(start) ==
    LET n == Cardinality(listed)
    IN Between(List, (IF n > start + Size THEN n - start - Size ELSE 0) + 1,
              IF n > start THEN n - start ELSE 0)
Chunk(start, n)       == Between(File(version), start + 1, start + n)

\* Fault: the next page begins one element too far.
NextStartFar(start) == (start + Size + 1) % Width

NextStart(start) == (start + Size) % Width

Continue(got) == load' = [load EXCEPT !.got = got, !.start = NextStart(@)]
Finish(got)   == load' = [load EXCEPT !.got = got, !.pc = "ok"]
Fail          == load' = [load EXCEPT !.got = <<>>, !.pc = "err"]

\* GetCodeAll, and Codes of the extended markets: page after page, until one
\* is short.
CodesPage ==
    /\ kind \in CodeKinds
    /\ LET page == PageFromFirst(load.start)
       IN IF Len(page) < Size THEN Finish(load.got \o page) ELSE Continue(load.got \o page)

\* GetMinuteTradeAll and GetHistoryMinuteTradeDay: older pages go in front.
TradesPage ==
    /\ kind = "trades"
    /\ LET page == PageFromNewest(load.start)
       IN IF Len(page) < Size THEN Finish(page \o load.got) ELSE Continue(page \o load.got)

\* GetKlineUntil and GetIndexUntil: the same, up to the newest bar for which
\* the function of the caller is true, which is kept.
BarsPage ==
    /\ kind = "bars"
    /\ LET page == PageFromNewest(load.start)
           stop == {i \in 1 .. Len(page) : page[i] <= load.from}
       IN IF stop # {} THEN Finish(SubSeq(page, Max(stop), Len(page)) \o load.got)
          ELSE IF Len(page) < Size THEN Finish(page \o load.got)
          ELSE Continue(page \o load.got)

\* TDXSource.Daily: bars already seen are left out, a page of nothing new is
\* an error, and the result is sorted.
IngestPage ==
    /\ kind = "daily"
    /\ LET page == PageFromNewest(load.start)
           new  == {k \in ToSet(page) : k >= load.from /\ k \notin ToSet(load.got)}
           all  == Sorted(new) \o load.got
       IN IF Len(page) < Size \/ \E i \in 1 .. Len(page) : page[i] < load.from
          THEN Finish(Sorted(ToSet(all)))
          ELSE IF new = {} \/ load.start + Size > CursorLimit THEN Fail
          ELSE Continue(all)

\* readExBars: newest first, down to the first bar of the increment.
ExBarsPage ==
    /\ kind = "exBars"
    /\ LET page == Reverse(PageFromNewest(load.start))
           new  == Reverse(Sorted({k \in ToSet(page) : k >= load.from}))
       IN IF Len(page) < Size \/ \E i \in 1 .. Len(page) : page[i] <= load.from
          THEN Finish(load.got \o new)
          ELSE IF load.start + Size > CursorLimit THEN Fail
          ELSE Continue(load.got \o new)

\* GetReportFile of zhb.zip until a chunk is short, and the archive is read:
\* its directory and the check sums of its files.
ZhbChunk ==
    /\ kind = "zhb"
    /\ LET chunk == Chunk(load.start, Size)
           whole == load.got \o chunk
       IN IF Len(chunk) = Size
          THEN load' = [load EXCEPT !.got = whole, !.start = @ + Size]
          ELSE IF \E v \in 1 .. version : whole = File(v) THEN Finish(whole)
          ELSE Fail

\* GetBlockFileRaw: the size first, then chunks until it is reached; an empty
\* chunk ends the file.
BlockChunk ==
    /\ kind = "block"
    /\ IF load.size = 0 THEN load' = [load EXCEPT !.size = FileSize(version)]
       ELSE LET left  == load.size - Len(load.got)
                chunk == Chunk(load.start, IF left < Size THEN left ELSE Size)
            IN IF chunk = <<>> \/ Len(chunk) = left THEN Finish(load.got \o chunk)
               ELSE load' = [load EXCEPT !.got = @ \o chunk, !.start = @ + Len(chunk)]

\* One request of the loop; any error ends it without a result.
Request ==
    /\ load.pc = "page"
    /\ \/ CodesPage
       \/ TradesPage
       \/ BarsPage
       \/ IngestPage
       \/ ExBarsPage
       \/ ZhbChunk
       \/ BlockChunk
       \/ Fail
    /\ UNCHANGED <<kind, listed, version, grown, shrunk, kept>>

\* The server's list gets a code anywhere, a bar or a trade at its end.
ListGrows(k) ==
    /\ load.pc = "page" /\ grown < MaxGrowth
    /\ kind \notin FileKinds /\ k \notin listed
    /\ kind \in CodeKinds \/ k = Max(listed \cup {0}) + 1
    /\ listed' = listed \cup {k}
    /\ grown' = grown + 1
    /\ UNCHANGED <<kind, version, shrunk, kept, load>>

Delist(k) ==
    /\ load.pc = "page" /\ grown < MaxGrowth
    /\ kind \in CodeKinds /\ k \in listed
    /\ listed' = listed \ {k}
    /\ kept' = kept \ {k}
    /\ grown' = grown + 1
    /\ shrunk' = TRUE
    /\ UNCHANGED <<kind, version, load>>

FileReplaced ==
    /\ load.pc = "page" /\ grown < MaxGrowth
    /\ kind \in FileKinds
    /\ version' = version + 1
    /\ grown' = grown + 1
    /\ UNCHANGED <<kind, listed, shrunk, kept, load>>

PagedNext ==
    \/ Request
    \/ \E k \in 1 .. MaxListed : ListGrows(k)
    \/ \E k \in 1 .. MaxListed : Delist(k)
    \/ FileReplaced

PagedSpec == PagedInit /\ [][PagedNext]_pagedVars

-----------------------------------------------------------------------------
\* Elements that occur more than once because the list moved under the pages.
Doubled(got) == Len(got) - Cardinality(ToSet(got))

\* One added element doubles the element at the border of two pages, more of
\* them repeat a whole stretch of the list.
Ordered(got) == grown > 1 \/ \A i \in 1 .. Len(got) - 1 : got[i] <= got[i + 1]

\* What a loop returns with success, although the server's data changed in
\* the middle of it.  No element that was there all the time is missing, up
\* to where the loop was told to stop, unless a code was delisted and moved
\* the later ones forward; at most as many elements are doubled as were
\* added, and bars and trades are in order unless more than one was.  The
\* research source returns every bar once, the archive is one version of it,
\* and a block file is whole unless it was replaced.
DownloadComplete ==
    load.pc = "ok" =>
        LET due == {k \in kept : k >= load.from}
        IN CASE kind \in CodeKinds ->
                    ~shrunk => kept \subseteq ToSet(load.got) /\ Doubled(load.got) <= grown
             [] kind = "trades" ->
                    kept \subseteq ToSet(load.got) /\ Doubled(load.got) <= grown
                    /\ Ordered(load.got)
             [] kind = "bars" ->
                    due \subseteq ToSet(load.got) /\ Doubled(load.got) <= grown
                    /\ Ordered(load.got)
             [] kind = "exBars" ->
                    due \subseteq ToSet(load.got) /\ Doubled(load.got) <= grown
                    /\ Ordered(Reverse(load.got))
             [] kind = "daily" ->
                    due \subseteq ToSet(load.got) /\ Doubled(load.got) = 0
                    /\ Ordered(load.got)
             [] kind = "zhb" -> \E v \in 1 .. version : load.got = File(v)
             [] kind = "block" -> grown = 0 => load.got = File(version)
=============================================================================
