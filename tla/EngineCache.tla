----------------------------- MODULE EngineCache -----------------------------
(***************************************************************************)
(* The cache of open SQLite engines of extend/pull: every query and every  *)
(* write borrows the engine of its file and releases it afterwards; idle   *)
(* engines beyond a limit are closed, the least recently borrowed first;   *)
(* closing the service closes the idle engines and leaves the borrowed     *)
(* ones to the release of their last borrower.                             *)
(*                                                                         *)
(* An engine is named by the value of engineClock when it was opened.  A   *)
(* step is one critical section of Service.mu; a borrower works on its     *)
(* engine between two of them.                                             *)
(***************************************************************************)
EXTENDS Naturals, FiniteSets

CONSTANTS
    Files,          \* database files: one per code, or per code and year
    Callers,        \* goroutines that query or write
    Limit,          \* Config.MaxCachedEngines
    MaxBorrows      \* bound: values of engineClock

ASSUME ConstantsOK ==
    /\ IsFiniteSet(Files) /\ IsFiniteSet(Callers)
    /\ Limit \in Nat \ {0} /\ MaxBorrows \in Nat

None    == 0
Engines == 1 .. MaxBorrows
Entry   == [file : Files \cup {None}, refs : Nat, used : 0 .. MaxBorrows]
\* A release closure: its engine, its file, and whether once.Do has run.
Loan    == [file : Files \cup {None}, db : Engines \cup {None}, spent : BOOLEAN]

VARIABLES
    engines,    \* file -> cached engine, or None
    entry,      \* engine -> its cachedEngine
    open,       \* engines whose database handle is open
    engineClock,
    closed,
    loan        \* caller -> the release closure it got last

vars == <<engines, entry, open, engineClock, closed, loan>>

Cached == {f \in Files : engines[f] # None}

Init ==
    /\ engines = [f \in Files |-> None]
    /\ entry = [h \in Engines |-> [file |-> None, refs |-> 0, used |-> 0]]
    /\ open = {}
    /\ engineClock = 0
    /\ closed = FALSE
    /\ loan = [c \in Callers |-> [file |-> None, db |-> None, spent |-> TRUE]]

-----------------------------------------------------------------------------
\* Fault: a borrowed engine is evicted like an idle one.
IdleOrNot(eng, ent) == {f \in Files : eng[f] # None}

Idle(eng, ent) == {f \in Files : eng[f] # None /\ ent[eng[f]].refs = 0}

\* The files evictEngines removes: the least recently used idle ones, until
\* the cache is within its limit or nothing in it is idle.
Evicts(eng, ent, F) ==
    LET cached == {f \in Files : eng[f] # None}
    IN /\ F \subseteq Idle(eng, ent)
       /\ \A f \in F, g \in Idle(eng, ent) \ F : ent[eng[f]].used < ent[eng[g]].used
       /\ \/ Cardinality(cached) <= Limit /\ F = {}
          \/ /\ Cardinality(cached) > Limit
             /\ \/ Cardinality(cached \ F) = Limit
                \/ Cardinality(cached \ F) > Limit /\ F = Idle(eng, ent)

\* Fault: an entry leaves the map and its database stays open.
DropLeaky(eng, opened, F) ==
    /\ engines' = [f \in Files |-> IF f \in F THEN None ELSE eng[f]]
    /\ open' = opened

\* The entries of F are closed and deleted.
Drop(eng, opened, F) ==
    /\ engines' = [f \in Files |-> IF f \in F THEN None ELSE eng[f]]
    /\ open' = opened \ {eng[f] : f \in F}

\* Service.engine: take the cached engine of file f or open one.  An error of
\* openDB leaves everything as it was.
Borrow(c, f) ==
    /\ ~closed
    /\ loan[c].spent
    /\ engineClock < MaxBorrows
    /\ engineClock' = engineClock + 1
    /\ LET new == engines[f] = None
           h   == IF new THEN engineClock + 1 ELSE engines[f]
           eng == [engines EXCEPT ![f] = h]
           ent == [entry EXCEPT ![h] =
                     [file |-> f, refs |-> IF new THEN 1 ELSE @.refs + 1,
                      used |-> engineClock + 1]]
       IN /\ entry' = ent
          /\ \E F \in SUBSET Files : /\ Evicts(eng, ent, F)
                                     /\ Drop(eng, open \cup {h}, F)
          /\ loan' = [loan EXCEPT ![c] = [file |-> f, db |-> h, spent |-> FALSE]]
    /\ UNCHANGED closed

\* Fault: a closed service keeps what its last borrower returns.
LastOfClosedIgnored(ent, h) == FALSE

LastOfClosed(ent, h) == closed /\ ent[h].refs = 0

\* Faults: the closure may run twice; nothing is evicted on a return.
ReleaseTwice(c) ==
    /\ loan[c].db # None
    /\ LET h   == loan[c].db
           ent == [entry EXCEPT ![h].refs = @ - 1]
       IN /\ entry' = ent
          /\ \E F \in SUBSET Files : Evicts(engines, ent, F) /\ Drop(engines, open, F)
    /\ loan' = [loan EXCEPT ![c].spent = TRUE]
    /\ UNCHANGED <<engineClock, closed>>
ReleaseOnly(c) ==
    /\ ~loan[c].spent
    /\ entry' = [entry EXCEPT ![loan[c].db].refs = @ - 1]
    /\ loan' = [loan EXCEPT ![c].spent = TRUE]
    /\ UNCHANGED <<engines, open, engineClock, closed>>

\* The release closure.  Calling it again does nothing (once.Do).
Release(c) ==
    /\ ~loan[c].spent
    /\ LET h   == loan[c].db
           ent == [entry EXCEPT ![h].refs = @ - 1]
       IN /\ entry' = ent
          /\ \/ LastOfClosed(ent, h) /\ Drop(engines, open, {loan[c].file})
             \/ /\ ~LastOfClosed(ent, h)
                /\ \E F \in SUBSET Files : /\ Evicts(engines, ent, F)
                                           /\ Drop(engines, open, F)
    /\ loan' = [loan EXCEPT ![c].spent = TRUE]
    /\ UNCHANGED <<engineClock, closed>>

Close ==
    /\ ~closed
    /\ closed' = TRUE
    /\ Drop(engines, open, Idle(engines, entry))
    /\ UNCHANGED <<entry, engineClock, loan>>

Next ==
    \/ \E c \in Callers, f \in Files : Borrow(c, f)
    \/ \E c \in Callers : Release(c)
    \/ Close

Spec == Init /\ [][Next]_vars

\* Every caller in the package defers its release or calls it right after the
\* query, so a borrowed engine is returned.
FairSpec == Spec /\ \A c \in Callers : WF_vars(Release(c))

-----------------------------------------------------------------------------
TypeOK ==
    /\ engines \in [Files -> Engines \cup {None}]
    /\ entry \in [Engines -> Entry]
    /\ open \subseteq Engines
    /\ engineClock \in 0 .. MaxBorrows
    /\ closed \in BOOLEAN
    /\ loan \in [Callers -> Loan]

\* A caller never works on an engine that eviction, another caller's release
\* or Service.Close has closed under it.
LentIsOpen == \A c \in Callers : ~loan[c].spent => loan[c].db \in open

\* A file never has two open engines, which would lock each other out.
OneEnginePerFile ==
    \A g, h \in open : entry[g].file = entry[h].file => g = h

\* No more than Limit engines stay open, unless all of them are lent.
CacheBounded ==
    \/ Cardinality(open) <= Limit
    \/ \A h \in open : \E c \in Callers : ~loan[c].spent /\ loan[c].db = h

\* A closed service has nothing open but what is lent.
ClosedHoldsNothing ==
    closed => \A h \in open : \E c \in Callers : ~loan[c].spent /\ loan[c].db = h

\* Once the service is closed, every engine is closed in the end.
ClosedDrains == closed ~> open = {}
=============================================================================
