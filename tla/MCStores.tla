------------------------------- MODULE MCStores -------------------------------
(* The stores of the library side by side: each behaviour is one of them.     *)
EXTENDS PackageDownload, Codes, Gbbq, Workday, PullUpdate, HistoryPages, TLC

VARIABLE store       \* which one this behaviour is about

CONSTANTS a, b      \* two stocks that may be exchanged for one another

MCExchangeOf == [c \in CodeSet |-> IF c = "900" THEN "bj" ELSE "sh"]
MCStockList  == <<"s1", "s2">>
MCUnitCodes  == [u \in Units |-> IF u = "stock" THEN {a, b} ELSE {"f"}]
MCSymmetry   == Permutations({a, b})

Parts == {"package", "codes", "gbbq", "workday", "pull", "history"}

MCInit ==
    /\ store \in Parts
    /\ ClockInit
    /\ PackageInit
    /\ CodesInit
    /\ store # "codes" => dialect = "sqlite"
    /\ GbbqInit
    /\ WorkdayInit
    /\ PullInit
    /\ HistoryInit

codesOnly == <<dialect, listing, changes, codesTable, codesMark, codesMemory, codesRun,
               relisted>>
gbbqOnly  == <<events, gbbqTable, gbbqMark, gbbqMemory, gbbqRun, eventful>>
daysOnly  == <<dayTable, dayBits, dayRun>>
pullOnly  == <<withdrawn, dayBars, pullMark, pull, task, blank>>

MCNext ==
    /\ store' = store
    /\ \/ /\ store = "package" /\ PackageNext
          /\ UNCHANGED <<clock, codesOnly, gbbqOnly, daysOnly, pullOnly, historyVars>>
       \/ /\ store = "codes" /\ CodesNext
          /\ UNCHANGED <<packageVars, gbbqOnly, daysOnly, pullOnly, historyVars>>
       \/ /\ store = "gbbq" /\ GbbqNext
          /\ UNCHANGED <<packageVars, codesOnly, daysOnly, pullOnly, historyVars>>
       \/ /\ store = "workday" /\ WorkdayNext
          /\ UNCHANGED <<packageVars, codesOnly, gbbqOnly, pullOnly, historyVars>>
       \/ /\ store = "pull" /\ PullNext
          /\ UNCHANGED <<packageVars, codesOnly, gbbqOnly, daysOnly, historyVars>>
       \/ /\ store = "history" /\ HistoryNext
          /\ UNCHANGED <<clock, packageVars, codesOnly, gbbqOnly, daysOnly, pullOnly>>

MCSpec == MCInit /\ [][MCNext]_<<store, clock, packageVars, codesOnly, gbbqOnly, daysOnly,
                                 pullOnly, historyVars>>
=============================================================================
