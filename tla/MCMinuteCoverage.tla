--------------------------- MODULE MCMinuteCoverage ---------------------------
(***************************************************************************)
(* MinuteCoverage on two years of three days of two bars; no trading on    *)
(* the first and the last day of the second year.                          *)
(***************************************************************************)
EXTENDS MinuteCoverage

MCTrading  == {0, 1, 2, 4}
\* The list of days comes complete or short: of the second year it then names
\* no day at all.
MCLists    == {MCTrading, {2}}
MCFailures == {{}, {1, 2}}

\* The service is run with two start dates, with the fallback and without.
MCConfigs ==
    {[start |-> 0, fallback |-> TRUE], [start |-> 4, fallback |-> TRUE],
     [start |-> 0, fallback |-> FALSE], [start |-> 4, fallback |-> FALSE]}

MCNativeConfigs == {[start |-> 0, fallback |-> FALSE]}
===============================================================================
