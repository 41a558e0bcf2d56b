------------------------------- MODULE Updated -------------------------------
(***************************************************************************)
(* The "updated today" marks of updated.go.  A mark is the time its job    *)
(* last finished; it is current until the next node, a fixed hour of the   *)
(* day (9:00 for the code, workday and share caches, 15:01 for the pulls). *)
(*                                                                         *)
(* Time is counted in half days: odd values lie after the node of their    *)
(* day, even values before it.                                             *)
(***************************************************************************)
EXTENDS Integers

CONSTANT MaxTime    \* bound: half days that pass

VARIABLE clock

\* A row the mark table does not have, or has with time zero.
Never == -1

ClockInit == clock = 1

\* Fault: before the node of the day nothing counts as updated.
NodeToday(now) == IF now % 2 = 1 THEN now ELSE now + 1

\* The last node that has passed.
LastNode(now) == IF now % 2 = 1 THEN now ELSE now - 1

\* Updated.Updated.  A missing row is inserted with time zero, so it does not
\* count either.
IsCurrent(mark, now) == mark # Never /\ mark >= LastNode(now)

\* Work begun at the time begun is not drawn out over more than one half
\* day: every request of it times out within seconds.
Tick(begun) ==
    /\ clock < MaxTime
    /\ clock <= begun
    /\ clock' = clock + 1
=============================================================================
