----------------------------- MODULE MCPullTrade -----------------------------
(* Two sessions; a longer period has fewer bars in a session than a shorter.  *)
EXTENDS PullTrade

MCYear   == <<"d1", "d2">>
MCBarsOf == [n \in Periods |-> CASE n = 1 -> 5 [] n = 5 -> 4 [] n = 15 -> 3
                                 [] n = 30 -> 2 [] n = 60 -> 1]
=============================================================================
