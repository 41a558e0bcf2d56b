-------------------------------- MODULE Codes --------------------------------
(***************************************************************************)
(* The table of listed securities (codes.go): downloaded exchange by       *)
(* exchange every morning, kept in a database and in memory, and marked    *)
(* when done, so that a restart on the same day only reads the table.      *)
(*                                                                         *)
(* A listing says for every code its name, or Gone when the exchange does  *)
(* not list it.  Names change (a company under special treatment), codes   *)
(* are listed and delisted, also while a download is under way.            *)
(***************************************************************************)
EXTENDS Updated, Sequences

CONSTANTS
    CodeSet,        \* securities
    ExchangeOf,     \* security -> exchange
    Names,          \* names a security may have
    Dialects,       \* databases: "sqlite", "mysql"
    MaxChanges      \* bound: changes of the exchanges' listings

Gone      == "gone"
Listing   == [CodeSet -> Names \cup {Gone}]
Exchanges == <<"sh", "sz", "bj">>
Empty     == [c \in CodeSet |-> Gone]
Unset     == [c \in {} |-> Gone]

ASSUME CodesConstants ==
    /\ Names # {}
    /\ \A c \in CodeSet : \E i \in 1 .. Len(Exchanges) : ExchangeOf[c] = Exchanges[i]

VARIABLES
    dialect,
    listing,        \* what the exchanges list now
    changes,
    codesTable,     \* the rows of table codes
    codesMark,      \* the mark "codes"
    codesMemory,    \* CodesBase: what Get answers; Unset before the first update
    codesRun,       \* Codes.update: [pc, new, list, got, next, begun]
    relisted        \* code -> when its listing last changed

codesVars == <<clock, dialect, listing, changes, codesTable, codesMark,
               codesMemory, codesRun, relisted>>

CodesDown == [pc |-> "down", new |-> TRUE, list |-> Empty, got |-> Empty,
              next |-> 1, begun |-> 0]

CodesInit ==
    /\ dialect \in Dialects
    /\ listing = [c \in CodeSet |-> CHOOSE n \in Names : TRUE]
    /\ changes = 0
    /\ codesTable = Empty
    /\ codesMark = Never
    /\ codesMemory = Unset
    /\ codesRun = CodesDown
    /\ relisted = [c \in CodeSet |-> 0]

At(pc)    == codesRun.pc = pc
Enter(pc) == codesRun' = [codesRun EXCEPT !.pc = pc]

-----------------------------------------------------------------------------
\* NewCodes, and the cron job of NewTimer: one call of Update.
NewCodes ==
    /\ At("down")
    /\ codesRun' = [CodesDown EXCEPT !.pc = "update"]
    /\ UNCHANGED <<clock, dialect, listing, changes, codesTable, codesMark,
                   codesMemory, relisted>>

CodesCron ==
    /\ At("idle") /\ clock % 2 = 1
    /\ codesRun' = [CodesDown EXCEPT !.pc = "update", !.new = FALSE]
    /\ UNCHANGED <<clock, dialect, listing, changes, codesTable, codesMark,
                   codesMemory, relisted>>

\* An error ends NewCodes, whose caller is left without a table; the cron
\* job waits five minutes and tries again, DefaultRetry times.
CodesError ==
    IF codesRun.new THEN codesRun' = CodesDown
    ELSE \E pc \in {"update", "idle"} : Enter(pc)

\* The table is read, and nothing is downloaded when it is marked.  A mark
\* that cannot be read counts as missing.
CodesRead ==
    /\ At("update")
    /\ \/ /\ IsCurrent(codesMark, clock)
          /\ codesMemory' = codesTable
          /\ Enter("idle")
       \/ /\ codesRun' = [codesRun EXCEPT !.pc = "fetch", !.list = codesTable,
                             !.got = Empty, !.next = 1, !.begun = clock]
          /\ codesMemory' = codesMemory
       \/ CodesError /\ codesMemory' = codesMemory
    /\ UNCHANGED <<clock, dialect, listing, changes, codesTable, codesMark, relisted>>

\* Fault: an exchange that does not answer is left out.
FetchSkips ==
    /\ At("fetch")
    /\ LET ex == Exchanges[codesRun.next]
       IN \E got \in {codesRun.got,
                      [c \in CodeSet |-> IF ExchangeOf[c] = ex THEN listing[c]
                                         ELSE codesRun.got[c]]} :
            codesRun' = [codesRun EXCEPT !.got = got, !.next = @ + 1,
                            !.pc = IF codesRun.next = Len(Exchanges) THEN "store" ELSE @]
    /\ UNCHANGED <<clock, dialect, listing, changes, codesTable, codesMark,
                   codesMemory, relisted>>

\* GetCodeAll for the next exchange.
CodesFetch ==
    /\ At("fetch")
    /\ \/ LET ex == Exchanges[codesRun.next]
          IN codesRun' =
               [codesRun EXCEPT
                  !.got  = [c \in CodeSet |-> IF ExchangeOf[c] = ex THEN listing[c] ELSE @[c]],
                  !.next = @ + 1,
                  !.pc   = IF codesRun.next = Len(Exchanges) THEN "store" ELSE @]
       \/ CodesError
    /\ UNCHANGED <<clock, dialect, listing, changes, codesTable, codesMark,
                   codesMemory, relisted>>

\* The codes the table did not have, and those whose name differs from it.
Inserts == {c \in CodeSet : codesRun.got[c] # Gone /\ codesRun.list[c] = Gone}
Updates == {c \in CodeSet : codesRun.got[c] # Gone
                            /\ codesRun.list[c] \notin {Gone, codesRun.got[c]}}
Leavers == {c \in CodeSet : codesRun.got[c] = Gone}

\* sqlite: one transaction deletes, inserts and updates, or none of it.
CodesStore ==
    /\ At("store") /\ dialect = "sqlite"
    /\ \/ /\ codesTable' = [c \in CodeSet |->
                       IF c \in Leavers THEN Gone
                       ELSE IF c \in Inserts \cup Updates THEN codesRun.got[c]
                       ELSE codesTable[c]]
          /\ Enter("mark")
       \/ CodesError /\ codesTable' = codesTable
    /\ UNCHANGED <<clock, dialect, listing, changes, codesMark, codesMemory, relisted>>

\* mysql: the table is emptied, which no transaction undoes ...
CodesTruncate ==
    /\ At("store") /\ dialect = "mysql"
    /\ \/ codesTable' = Empty /\ Enter("insert")
       \/ CodesError /\ codesTable' = codesTable
    /\ UNCHANGED <<clock, dialect, listing, changes, codesMark, codesMemory, relisted>>

\* ... and filled with the new and the renamed codes.
CodesInsert ==
    /\ At("insert")
    /\ \/ /\ codesTable' = [c \in CodeSet |->
                       IF c \in Inserts \cup Updates THEN codesRun.got[c] ELSE Gone]
          /\ Enter("mark")
       \/ CodesError /\ codesTable' = codesTable
    /\ UNCHANGED <<clock, dialect, listing, changes, codesMark, codesMemory, relisted>>

\* What update returns: the table as it was read, and the new codes.
Returned == [c \in CodeSet |-> IF c \in Inserts THEN codesRun.got[c] ELSE codesRun.list[c]]

\* The mark gets the time of now, and memory what update returns, unless the
\* mark cannot be written.
CodesMark ==
    /\ At("mark")
    /\ \/ /\ codesMark' = clock
          /\ codesMemory' = Returned
          /\ Enter("idle")
       \/ CodesError /\ UNCHANGED <<codesMark, codesMemory>>
    /\ UNCHANGED <<clock, dialect, listing, changes, codesTable, relisted>>

CodesCrash ==
    /\ ~At("down")
    /\ codesRun' = CodesDown
    /\ codesMemory' = Unset
    /\ UNCHANGED <<clock, dialect, listing, changes, codesTable, codesMark, relisted>>

Relist(c, n) ==
    /\ changes < MaxChanges
    /\ listing[c] # n
    /\ listing' = [listing EXCEPT ![c] = n]
    /\ changes' = changes + 1
    /\ relisted' = [relisted EXCEPT ![c] = clock]
    /\ UNCHANGED <<clock, dialect, codesTable, codesMark, codesMemory, codesRun>>

CodesTick ==
    /\ Tick(IF codesRun.pc \in {"down", "idle", "update"} THEN clock ELSE codesRun.begun)
    /\ UNCHANGED <<dialect, listing, changes, codesTable, codesMark, codesMemory,
                   codesRun, relisted>>

CodesNext ==
    \/ NewCodes
    \/ CodesCron
    \/ CodesRead
    \/ CodesFetch
    \/ CodesStore
    \/ CodesTruncate
    \/ CodesInsert
    \/ CodesMark
    \/ CodesCrash
    \/ \E c \in CodeSet, n \in Names \cup {Gone} : Relist(c, n)
    \/ CodesTick

CodesSpec == ClockInit /\ CodesInit /\ [][CodesNext]_codesVars

-----------------------------------------------------------------------------
\* "When it has been updated, do not update" (Codes.update): a current mark
\* makes every start of the day read the table and trust it.  So the table
\* must then agree with the exchanges about every code whose listing has not
\* changed since the half day before the node, the earliest time at which a
\* download marked today can have begun.
ListedIsStored ==
    IsCurrent(codesMark, clock)
        => \A c \in CodeSet : relisted[c] < LastNode(clock) - 1 => codesTable[c] = listing[c]

\* The same for the database that is used unless another one is configured.
CodesMarkVouches == dialect = "sqlite" => ListedIsStored
=============================================================================
