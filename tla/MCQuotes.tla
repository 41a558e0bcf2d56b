------------------------------- MODULE MCQuotes -------------------------------
(* The quote library and what is built on it, side by side: each behaviour    *)
(* is about one part.  The pool is there twice: alone, and under the HTTP     *)
(* service.                                                                   *)
EXTENDS HttpService, QuoteClient, PagedDownload, Adjustment, MinuteBars, LegacyPull,
        LocalFiles, SecurityCodes

VARIABLE part       \* what this behaviour is about

\* Half a share for each and three halves in cash, cash only, and a
\* consolidation.
MCEvents == {[kind |-> "xrxd", m |-> 3, c |-> 3], [kind |-> "xrxd", m |-> 2, c |-> 1],
             [kind |-> "conversion", m |-> 2, c |-> 0]}

MCHeads == 0 .. 1000
Parts   == {"http", "pool", "client", "paged", "adjust", "bars", "legacy", "local", "codes"}

\* Prices and turnovers with what six bits keep of them, and bars without trades.
MCQuotations == {[price |-> 25, volume |-> 0, amount |-> 0],
                 [price |-> 13, volume |-> 0, amount |-> 29],
                 [price |-> 75, volume |-> 2, amount |-> 75]}

\* A float of six bits instead of 24: of x thousandths the first six binary
\* digits, in parts of 2^-15 thousandths.
MCSingle(x) ==
    LET e == CHOOSE n \in 0 .. 15 : 32000 <= x * 2 ^ n /\ x * 2 ^ n < 64000
    IN IF x = 0 THEN 0 ELSE 1000 * ((2 * x * 2 ^ e + 1000) \div 2000) * 2 ^ (15 - e)

\* A part the behaviour is not about starts in one state and stays there.
MCInit ==
    /\ part \in Parts
    /\ part # "http" => series = 0
    /\ HttpInit
    /\ part # "client" => msgID = 0
    /\ ClientInit
    /\ part # "paged" => kind = "codes" /\ listed = {}
                          /\ load = [pc |-> "page", start |-> 0, from |-> 0, got |-> <<>>, size |-> 0]
    /\ PagedInit
    /\ part # "adjust" => days = {1} /\ events = [e \in 1 .. LastEvent |-> NoEvent]
    /\ AdjustInit
    /\ part # "bars" => trades = <<>>
    /\ BarsInit
    /\ LegacyInit
    /\ part # "local" => format = "day" /\ isIndex = FALSE /\ written = <<>>
    /\ LocalInit
    /\ CodesInit

MCNext ==
    /\ part' = part
    /\ \/ /\ part = "http" /\ HttpNext
          /\ UNCHANGED <<clientVars, pagedVars, adjustVars, barVars, legacyVars, fileVars, codeVars>>
       \/ /\ part = "pool" /\ PoolNext
          /\ UNCHANGED <<series, req, clientVars, pagedVars, adjustVars, barVars, legacyVars,
                         fileVars, codeVars>>
       \/ /\ part = "client" /\ ClientNext
          /\ UNCHANGED <<httpVars, pagedVars, adjustVars, barVars, legacyVars, fileVars, codeVars>>
       \/ /\ part = "paged" /\ PagedNext
          /\ UNCHANGED <<httpVars, clientVars, adjustVars, barVars, legacyVars, fileVars, codeVars>>
       \/ /\ part = "adjust" /\ AdjustNext
          /\ UNCHANGED <<httpVars, clientVars, pagedVars, barVars, legacyVars, fileVars, codeVars>>
       \/ /\ part = "bars" /\ BarsNext
          /\ UNCHANGED <<httpVars, clientVars, pagedVars, adjustVars, legacyVars, fileVars, codeVars>>
       \/ /\ part = "legacy" /\ LegacyNext
          /\ UNCHANGED <<httpVars, clientVars, pagedVars, adjustVars, barVars, fileVars, codeVars>>
       \/ /\ part = "local" /\ LocalNext
          /\ UNCHANGED <<httpVars, clientVars, pagedVars, adjustVars, barVars, legacyVars, codeVars>>
       \/ /\ part = "codes" /\ CodesNext
          /\ UNCHANGED <<httpVars, clientVars, pagedVars, adjustVars, barVars, legacyVars, fileVars>>

\* HttpFair, for the behaviours of the service: the others ask for nothing.
MCFair ==
    /\ WF_httpVars(part = "http" /\ ServerNew)
    /\ \A b \in Borrowers : /\ SF_httpVars(part = "http" /\ DoGet(b))
                            /\ WF_httpVars(part = "http" /\ Serve(b))

MCSpec ==
    /\ MCInit
    /\ [][MCNext]_<<part, httpVars, clientVars, pagedVars, adjustVars, barVars, legacyVars,
                    fileVars, codeVars>>
    /\ MCFair
=============================================================================
