------------------------------ MODULE DailyPlan ------------------------------
(***************************************************************************)
(* What the daily job promises, without ledger, workers or crashes: on a   *)
(* day at most MaxAttempts attempts are made, one after the other; symbols *)
(* are refreshed only while an attempt is open and stay refreshed; and the *)
(* day is declared complete only when every configured symbol has been     *)
(* refreshed, after which nothing more is attempted for it.                *)
(***************************************************************************)
EXTENDS Naturals

CONSTANTS Dates, Symbols, AllSymbols, MaxAttempts

VARIABLES
    status,     \* day -> "none", "open", "incomplete", "complete"
    attempts,   \* day -> attempts made
    refreshed   \* day -> symbols refreshed

Init ==
    /\ status \in [Dates -> {"none", "open", "incomplete", "complete"}]
    /\ attempts \in [Dates -> 0 .. MaxAttempts]
    /\ refreshed \in [Dates -> SUBSET AllSymbols]
    /\ \A d \in Dates : /\ status[d] = "none" <=> attempts[d] = 0
                        /\ status[d] = "complete" => Symbols \subseteq refreshed[d]

\* An attempt opens on a day that is untouched or was left incomplete.
Begin(d) ==
    /\ status[d] \in {"none", "incomplete"} /\ attempts[d] < MaxAttempts
    /\ status' = [status EXCEPT ![d] = "open"]
    /\ attempts' = [attempts EXCEPT ![d] = @ + 1]
    /\ UNCHANGED refreshed

Refresh(d) ==
    /\ status[d] = "open"
    /\ \E s \in AllSymbols : refreshed' = [refreshed EXCEPT ![d] = @ \cup {s}]
    /\ UNCHANGED <<status, attempts>>

\* Attempts end without having refreshed everything, several days' at once
\* when a restart finds them.
GiveUp ==
    /\ \E D \in SUBSET {d \in Dates : status[d] = "open"} :
         status' = [d \in Dates |-> IF d \in D THEN "incomplete" ELSE status[d]]
    /\ UNCHANGED <<attempts, refreshed>>

Complete(d) ==
    /\ status[d] = "open" /\ Symbols \subseteq refreshed[d]
    /\ status' = [status EXCEPT ![d] = "complete"]
    /\ UNCHANGED <<attempts, refreshed>>

Next == GiveUp \/ \E d \in Dates : Begin(d) \/ Refresh(d) \/ Complete(d)

Spec == Init /\ [][Next]_<<status, attempts, refreshed>>
=============================================================================
