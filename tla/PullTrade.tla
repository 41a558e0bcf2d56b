------------------------------ MODULE PullTrade ------------------------------
(***************************************************************************)
(* One year of tick data turned into files of 1, 5, 15, 30 and 60 minute   *)
(* bars (PullYear of extend/pull-trade.go): the sessions of the year one   *)
(* after the other, the bars of a session merged and appended, the files   *)
(* written when the last session has been read.                            *)
(*                                                                         *)
(* A bar is its session, its period and its place in the session; what it  *)
(* holds does not matter here.  Go's append writes into the array of its   *)
(* first argument when that has room for it, so lists appended to the same *)
(* list may overwrite one another; how much room there is, is left open.   *)
(***************************************************************************)
EXTENDS Naturals, Sequences, SequencesExt

CONSTANTS
    Year,       \* the sessions of the year, in order
    BarsOf      \* period -> bars of that period in a session

Periods == {1, 5, 15, 30, 60}

VARIABLES
    at,     \* sessions read so far
    kss,    \* period -> the list kss1, kss5, kss15, kss30 or kss60
    files,  \* period -> the written file, <<>> before
    done    \* PullYear: "run", "write", "ok" or "err"

tradeVars == <<at, kss, files, done>>

PullTradeInit ==
    /\ at = 0
    /\ kss = [n \in Periods |-> <<>>]
    /\ files = [n \in Periods |-> <<>>]
    /\ done = "run"

\* ks.Merge(n) of session d.
Merged(d, n) == [i \in 1 .. BarsOf[n] |-> [day |-> d, period |-> n, bar |-> i]]

\* list with the elements of over in the place of its first ones.
Overwritten(list, over) ==
    [i \in 1 .. Len(list) |-> IF i <= Len(over) THEN over[i] ELSE list[i]]

\* The session d: kss15, kss30 and kss60 are appended to kss5, one after the
\* other, in its own array as far as the bars fit into its spare room.
Appended(d, room) ==
    LET five    == kss[5] \o Merged(d, 5)
        fits(n) == BarsOf[n] <= room
        tail15  == IF fits(15) THEN Overwritten(Merged(d, 15), Merged(d, 30)) ELSE Merged(d, 15)
        last15  == IF fits(15) THEN Overwritten(tail15, Merged(d, 60)) ELSE tail15
        tail30  == IF fits(30) THEN Overwritten(Merged(d, 30), Merged(d, 60)) ELSE Merged(d, 30)
    IN [n \in Periods |-> CASE n = 1  -> kss[1] \o Merged(d, 1)
                            [] n = 5  -> five
                            [] n = 15 -> five \o last15
                            [] n = 30 -> five \o tail30
                            [] n = 60 -> five \o Merged(d, 60)]

\* One session: its trades are downloaded and turned into bars, or the error
\* ends the year without a file.
ReadSession ==
    /\ done = "run" /\ at < Len(Year)
    /\ \/ \E room \in 0 .. BarsOf[1] :
             /\ kss' = Appended(Year[at + 1], room)
             /\ at' = at + 1
             /\ done' = IF at + 1 = Len(Year) THEN "write" ELSE "run"
       \/ done' = "err" /\ UNCHANGED <<at, kss>>
    /\ files' = files

\* The files, smallest period first; an error leaves the later ones out.
WriteFile ==
    /\ done = "write"
    /\ \E n \in Periods :
          /\ files[n] = <<>> /\ \A m \in Periods : m < n => files[m] # <<>>
          /\ \/ /\ files' = [files EXCEPT ![n] = kss[n]]
                /\ done' = IF n = 60 THEN "ok" ELSE "write"
             \/ files' = files /\ done' = "err"
    /\ UNCHANGED <<at, kss>>

PullTradeNext == ReadSession \/ WriteFile

PullTradeSpec == PullTradeInit /\ [][PullTradeNext]_tradeVars

-----------------------------------------------------------------------------
\* The file under the directory of a period ("15分钟", 15 minutes) holds the
\* bars of that period, of every session of the year.
PeriodFilesExact ==
    \A n \in Periods :
        files[n] # <<>> => files[n] = FlattenSeq([i \in 1 .. Len(Year) |-> Merged(Year[i], n)])
=============================================================================
